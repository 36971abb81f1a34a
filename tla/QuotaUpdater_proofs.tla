------------------------- MODULE QuotaUpdater_proofs -------------------------
(***************************************************************************)
(* Proofs about QuotaUpdater, for any accounts, handlers and differences,  *)
(* with immediate and with delayed updates, and with any scans, resets,    *)
(* deletions and crashes: the types are kept, accounting and reads are     *)
(* exact except where UsageExact and ReadExact name a race, and nobody is  *)
(* charged for what is not used.                                           *)
(***************************************************************************)
EXTENDS QuotaUpdater, WellFoundedInduction, TLAPS

LoopInv == applied => cur # None

(* A scan that nothing has disturbed knows what is used, and once it has   *)
(* reset the pending difference nothing of the account is on its way.      *)
ScanInv ==
  \A a \in Accounts : (scan[a] # "idle" /\ clean[a]) =>
    /\ scanned[a] = usage[a] /\ unreported[a] = 0
    /\ scan[a] = "cleared" => pending[a] = 0 /\ ~(applied /\ cur = a)

ExactAt(a) == (exists[a] /\ clean[a] /\ scan[a] = "idle") =>
                Known(a) + unreported[a] = usage[a]

IInv == TypeOK /\ LoopInv /\ ScanInv /\ \A a \in Accounts : ExactAt(a)

-----------------------------------------------------------------------------
LEMMA CountType ==
  ASSUME TypeOK, NEW e \in {"transfers", "scans", "deletes", "crashes"},
         NEW bound, Count(e, bound)
  PROVE  events' \in [{"transfers", "scans", "deletes", "crashes"} -> Nat]
BY DEF TypeOK, Count

(* Every step keeps the types: in particular the loop's account, amount    *)
(* and phase, and the counters, stay what the code's types say.            *)
LEMMA TypeStep == QuotaAssumption /\ TypeOK /\ [Next]_vars => TypeOK'
<1> SUFFICES ASSUME QuotaAssumption, TypeOK, [Next]_vars PROVE TypeOK'
  OBVIOUS
<1> USE DEF TypeOK, QuotaAssumption, NothingOwed, workerVars, storeVars, scanVars
<1>1. ASSUME NEW w \in Workers, NEW a \in Accounts, NEW d \in Deltas, Transfer(w, a, d)
      PROVE TypeOK'
  <2>1. events' \in [{"transfers", "scans", "deletes", "crashes"} -> Nat]
    BY <1>1, CountType DEF Transfer
  <2>2. clean' \in [Accounts -> BOOLEAN] BY <1>1 DEF Transfer
  <2>3. owed' \in [Workers -> [acc : Accounts \cup {None}, delta : Int]]
    BY <1>1 DEF Transfer
  <2>0. d \in Int OBVIOUS
  <2>4. usage' \in [Accounts -> Int] /\ unreported' \in [Accounts -> Int]
    BY <1>1, <2>0 DEF Transfer
  <2> QED BY <1>1, <2>1, <2>2, <2>3, <2>4 DEF Transfer
<1>2. ASSUME NEW w \in Workers, UpdateQuota(w) PROVE TypeOK'
  <2>1. owed[w].acc \in Accounts /\ owed[w].delta \in Int
    BY <1>2 DEF UpdateQuota
  <2>2. clean' \in [Accounts -> BOOLEAN] BY <1>2 DEF UpdateQuota
  <2>3. owed' \in [Workers -> [acc : Accounts \cup {None}, delta : Int]]
    BY <1>2 DEF UpdateQuota
  <2>4. pending' \in [Accounts -> Int] /\ stored' \in [Accounts -> Int]
    BY <1>2, <2>1 DEF UpdateQuota
  <2>5. unreported' \in [Accounts -> Int] BY <1>2, <2>1 DEF UpdateQuota
  <2> QED BY <1>2, <2>2, <2>3, <2>4, <2>5 DEF UpdateQuota
<1>3. CASE NextPhase
  <2>0. phase \in DOMAIN Phases BY <1>3 DEF NextPhase, Delayed
  <2>1. Phases[phase] \in DOMAIN Phases BY <2>0 DEF Phases
  <2> QED BY <1>3, <2>1 DEF NextPhase, PendingOf
<1>4. ASSUME NEW a \in Accounts, ReadPending(a) PROVE TypeOK'
  BY <1>4 DEF ReadPending
<1>5. CASE Store
  <2>1. cur \in Accounts BY <1>5 DEF Store
  <2>2. clean' \in [Accounts -> BOOLEAN] BY <1>5 DEF Store
  <2> QED BY <1>5, <2>1, <2>2 DEF Store
<1>6. CASE StoreFails
  BY <1>6 DEF StoreFails
<1>7. CASE DropPending
  <2>1. pending' \in [Accounts -> Int]
    <3>1. CASE cur \in Accounts BY <1>7, <3>1 DEF DropPending
    <3>2. CASE cur = None BY <1>7, <3>2 DEF DropPending
    <3> QED BY <3>1, <3>2
  <2>2. /\ stored' = stored /\ exists' = exists /\ usage' = usage /\ owed' = owed
        /\ unreported' = unreported /\ phase' = phase /\ todo' = todo
        /\ scan' = scan /\ scanned' = scanned /\ clean' = clean /\ events' = events
        /\ cur' = None /\ amt' = 0
    BY <1>7 DEF DropPending
  <2>3. applied' \in BOOLEAN BY <1>7 DEF DropPending
  <2> QED BY <2>1, <2>2, <2>3
<1>8. ASSUME NEW a \in Scannable, ScanRead(a) \/ ResetPending(a) \/ ScanStore(a)
      PROVE TypeOK'
  <2>0. a \in Accounts OBVIOUS
  <2>1. CASE ScanRead(a)
    <3>1. events' \in [{"transfers", "scans", "deletes", "crashes"} -> Nat]
      BY <2>1, CountType DEF ScanRead
    <3>2. usage' \in [Accounts -> Int] /\ usage'[a] \in Int
      BY <2>0, <2>1 DEF ScanRead
    <3>3. NothingOwedOn(a) \in BOOLEAN BY DEF NothingOwedOn
    <3> QED BY <2>0, <2>1, <3>1, <3>2, <3>3 DEF ScanRead
  <2>2. CASE ResetPending(a)
    <3>1. clean' \in [Accounts -> BOOLEAN] BY <2>2 DEF ResetPending
    <3> QED BY <2>0, <2>2, <3>1 DEF ResetPending
  <2>3. CASE ScanStore(a)
    BY <2>0, <2>3 DEF ScanStore
  <2> QED BY <1>8, <2>1, <2>2, <2>3
<1>9. ASSUME NEW o \in Deletable, Delete(o) \/ DeleteResetsPending(o) \/ Create(o)
      PROVE TypeOK'
  <2>1. CASE Delete(o)
    <3>1. events' \in [{"transfers", "scans", "deletes", "crashes"} -> Nat]
      BY <2>1, CountType DEF Delete
    <3> QED BY <2>1, <3>1 DEF Delete
  <2>2. CASE DeleteResetsPending(o)
    <3>1. clean' \in [Accounts -> BOOLEAN] BY <2>2 DEF DeleteResetsPending
    <3>2. pending' \in [Accounts -> Int] BY <2>2 DEF DeleteResetsPending
    <3> QED BY <2>2, <3>1, <3>2 DEF DeleteResetsPending
  <2>3. CASE Create(o)
    <3>1. clean' \in [Accounts -> BOOLEAN] BY <2>3 DEF Create, NothingOwedOn
    <3>2. exists' \in [Accounts -> BOOLEAN] BY <2>3 DEF Create
    <3> QED BY <2>3, <3>1, <3>2 DEF Create
  <2> QED BY <1>9, <2>1, <2>2, <2>3
<1>10. ASSUME NEW r \in Readers,
              (\E a \in Accounts : ReadStored(r, a)) \/ ReadDelayed(r) \/ ReadUsed(r)
       PROVE TypeOK'
  BY <1>10 DEF ReadStored, ReadDelayed, ReadUsed
<1>11. CASE Crash
  <2>1. events' \in [{"transfers", "scans", "deletes", "crashes"} -> Nat]
    BY <1>11, CountType DEF Crash
  <2>2. phase' \in DOMAIN Phases \cup {"off"} BY <1>11 DEF Crash, Phases
  <2>3. clean' \in [Accounts -> BOOLEAN] BY <1>11 DEF Crash
  <2>4. /\ owed' \in [Workers -> [acc : Accounts \cup {None}, delta : Int]]
        /\ pending' \in [Accounts -> Int] /\ unreported' \in [Accounts -> Int]
        /\ scan' \in [Accounts -> {"idle", "read", "cleared"}]
    BY <1>11 DEF Crash
  <2>5. /\ stored' = stored /\ exists' = exists /\ usage' = usage
        /\ scanned' = scanned /\ todo' = {} /\ cur' = None /\ amt' = 0
    BY <1>11 DEF Crash
  <2>6. applied' \in BOOLEAN BY <1>11 DEF Crash
  <2> QED BY <2>1, <2>2, <2>3, <2>4, <2>5, <2>6
<1>12. CASE UNCHANGED vars
  BY <1>12 DEF vars
<1> QED BY <1>1, <1>2, <1>3, <1>4, <1>5, <1>6, <1>7, <1>8, <1>9, <1>10, <1>11, <1>12
        DEF Next

LEMMA InitInv == QuotaAssumption /\ Init => IInv
<1> SUFFICES ASSUME QuotaAssumption, Init PROVE IInv OBVIOUS
<1>1. TypeOK
  <2>1. phase \in DOMAIN Phases \cup {"off"} BY DEF Init, Phases
  <2>2. owed \in [Workers -> [acc : Accounts \cup {None}, delta : Int]]
    BY DEF Init, NothingOwed
  <2>3. events \in [{"transfers", "scans", "deletes", "crashes"} -> Nat]
    BY DEF Init
  <2>4. applied \in BOOLEAN BY DEF Init
  <2>5. exists \in [Accounts -> BOOLEAN] /\ clean \in [Accounts -> BOOLEAN]
    BY DEF Init
  <2> QED BY <2>1, <2>2, <2>3, <2>4, <2>5 DEF Init, TypeOK
<1>2. LoopInv /\ ScanInv BY DEF Init, LoopInv, ScanInv
<1>3. \A a \in Accounts : ExactAt(a)
  BY DEF QuotaAssumption, Init, ExactAt, Known, StoredTwice
<1> QED BY <1>1, <1>2, <1>3 DEF IInv

-----------------------------------------------------------------------------
(* The heart of the argument, one step per action: a difference is at      *)
(* every moment in exactly one of unreported, pending and stored, except   *)
(* for what the loop has applied and not dropped, which StoredTwice        *)
(* subtracts; whatever breaks that makes the account not clean.            *)
LEMMA InvStep == QuotaAssumption /\ IInv /\ [Next]_vars => IInv'
<1> SUFFICES ASSUME QuotaAssumption, IInv, [Next]_vars PROVE IInv'
  OBVIOUS
<1> USE DEF QuotaAssumption, IInv, NothingOwed, workerVars, storeVars, scanVars
<1>0. TypeOK'
  BY TypeStep
<1> DEFINE Others == LoopInv' /\ ScanInv' /\ \A b \in Accounts : ExactAt(b)'
<1>1. ASSUME NEW w \in Workers, NEW a \in Accounts, NEW d \in Deltas, Transfer(w, a, d)
      PROVE Others
  <2>1. \A b \in Accounts : Known(b)' = Known(b)
    BY <1>1 DEF Transfer, Known, StoredTwice
  <2>2. LoopInv'
    BY <1>1 DEF Transfer, LoopInv
  <2>3. ScanInv'
    BY <1>1 DEF Transfer, ScanInv, TypeOK
  <2>4. ASSUME NEW b \in Accounts PROVE ExactAt(b)'
    <3>0. d \in Int OBVIOUS
    <3>1. Known(b) \in Int BY DEF Known, StoredTwice, TypeOK
    <3>2. clean'[b] => clean[b] BY <1>1 DEF Transfer, TypeOK
    <3>3. CASE b = a
      BY <1>1, <2>1, <3>0, <3>1, <3>2, <3>3 DEF Transfer, ExactAt, TypeOK
    <3>4. CASE b # a
      BY <1>1, <2>1, <3>1, <3>2, <3>4 DEF Transfer, ExactAt, TypeOK
    <3> QED BY <3>3, <3>4
  <2> QED BY <2>2, <2>3, <2>4
<1>2. ASSUME NEW w \in Workers, UpdateQuota(w) PROVE Others
  <2> DEFINE a == owed[w].acc
             d == owed[w].delta
  <2>1. a \in Accounts /\ d \in Int
    BY <1>2 DEF UpdateQuota, TypeOK
  <2>2. LoopInv'
    BY <1>2, <2>1 DEF UpdateQuota, LoopInv, TypeOK
  <2>3. ScanInv'
    BY <1>2, <2>1 DEF UpdateQuota, ScanInv, TypeOK
  <2>4. ASSUME NEW b \in Accounts PROVE ExactAt(b)'
    <3>1. CASE b # a
      BY <1>2, <2>1, <3>1 DEF UpdateQuota, ExactAt, Known, StoredTwice, TypeOK
    <3>2. CASE b = a
      BY <1>2, <2>1, <3>2 DEF UpdateQuota, ExactAt, Known, StoredTwice, TypeOK
    <3> QED BY <3>1, <3>2
  <2> QED BY <2>2, <2>3, <2>4
<1>3. ASSUME NextPhase PROVE Others
  BY <1>3 DEF NextPhase, LoopInv, ScanInv, ExactAt, Known, StoredTwice
<1>4. ASSUME NEW a \in Accounts, ReadPending(a) PROVE Others
  <2>1. ~applied BY <1>4 DEF ReadPending, LoopInv
  <2>2. LoopInv' BY <1>4, <2>1 DEF ReadPending, LoopInv
  <2>3. ScanInv' BY <1>4, <2>1 DEF ReadPending, ScanInv
  <2>4. \A b \in Accounts : ExactAt(b)'
    BY <1>4, <2>1 DEF ReadPending, ExactAt, Known, StoredTwice
  <2> QED BY <2>2, <2>3, <2>4
<1>5. ASSUME Store PROVE Others
  <2>1. cur \in Accounts BY <1>5 DEF Store, TypeOK
  <2>2. LoopInv' BY <1>5 DEF Store, LoopInv
  <2>5. \A b \in Accounts : clean'[b] =>
          clean[b] /\ (b = cur => scan[b] # "cleared")
    BY <1>5 DEF Store, TypeOK
  <2>6. ScanInv' BY <1>5, <2>5 DEF Store, ScanInv
  <2>3. ASSUME NEW b \in Accounts, exists[b] PROVE Known(b)' = Known(b)
    <3>1. CASE b = cur
      <4>1. stored'[b] = stored[b] + amt BY <1>5, <2>3, <3>1 DEF Store, TypeOK
      <4>2. StoredTwice(b) = 0 /\ StoredTwice(b)' = amt
        BY <1>5, <3>1 DEF Store, StoredTwice
      <4> QED BY <1>5, <4>1, <4>2 DEF Store, Known, TypeOK
    <3>2. CASE b # cur
      <4>1. stored'[b] = stored[b] BY <1>5, <3>2 DEF Store, TypeOK
      <4>2. StoredTwice(b) = 0 /\ StoredTwice(b)' = 0
        BY <1>5, <3>2 DEF Store, StoredTwice
      <4> QED BY <1>5, <4>1, <4>2 DEF Store, Known
    <3> QED BY <3>1, <3>2
  <2>4. \A b \in Accounts : ExactAt(b)'
    BY <1>5, <2>3, <2>5 DEF Store, ExactAt
  <2> QED BY <2>2, <2>4, <2>6
<1>6. ASSUME StoreFails PROVE Others
  BY <1>6 DEF StoreFails, LoopInv, ScanInv, ExactAt, Known, StoredTwice
<1>7. ASSUME DropPending PROVE Others
  <2>1. cur \in Accounts BY <1>7 DEF DropPending, TypeOK, LoopInv
  <2>2. LoopInv' /\ ScanInv'
    BY <1>7, <2>1 DEF DropPending, LoopInv, ScanInv, TypeOK
  <2>3. ASSUME NEW b \in Accounts PROVE Known(b)' = Known(b)
    BY <1>7, <2>1 DEF DropPending, Known, StoredTwice, TypeOK
  <2>4. \A b \in Accounts : ExactAt(b)'
    BY <1>7, <2>3 DEF DropPending, ExactAt
  <2> QED BY <2>2, <2>4
<1>8. ASSUME NEW a \in Scannable, ScanRead(a) \/ ResetPending(a) \/ ScanStore(a)
      PROVE Others
  <2>0. a \in Accounts OBVIOUS
  <2>2. CASE ScanRead(a)
    <3>1. LoopInv' BY <2>2 DEF ScanRead, LoopInv
    <3>2. ScanInv'
      BY <2>0, <2>2 DEF ScanRead, ScanInv, TypeOK, NothingOwedOn
    <3>3. \A b \in Accounts : ExactAt(b)'
      BY <2>0, <2>2 DEF ScanRead, ExactAt, Known, StoredTwice, TypeOK
    <3> QED BY <3>1, <3>2, <3>3
  <2>3. CASE ResetPending(a)
    <3>1. LoopInv' BY <2>3 DEF ResetPending, LoopInv
    <3>2. \A b \in Accounts : clean'[b] => clean[b] /\ (b = a => ~(applied /\ cur = a))
      BY <2>0, <2>3 DEF ResetPending, TypeOK
    <3>3. ScanInv'
      BY <2>0, <2>3, <3>2 DEF ResetPending, ScanInv, TypeOK
    <3>4. \A b \in Accounts : ExactAt(b)'
      BY <2>0, <2>3, <3>2 DEF ResetPending, ExactAt, Known, StoredTwice, TypeOK
    <3> QED BY <3>1, <3>3, <3>4
  <2>4. CASE ScanStore(a)
    <3>1. LoopInv' BY <2>4 DEF ScanStore, LoopInv
    <3>2. ScanInv' BY <2>0, <2>4 DEF ScanStore, ScanInv, TypeOK
    <3>3. ASSUME NEW b \in Accounts PROVE ExactAt(b)'
      <4>1. CASE b = a
        BY <2>0, <2>4, <4>1
           DEF ScanStore, ScanInv, ExactAt, Known, StoredTwice, TypeOK
      <4>2. CASE b # a
        BY <2>0, <2>4, <4>2 DEF ScanStore, ExactAt, Known, StoredTwice, TypeOK
      <4> QED BY <4>1, <4>2
    <3> QED BY <3>1, <3>2, <3>3
  <2> QED BY <1>8, <2>2, <2>3, <2>4
<1>9. ASSUME NEW o \in Deletable, Delete(o) \/ DeleteResetsPending(o) \/ Create(o)
      PROVE Others
  <2>2. CASE Delete(o)
    BY <2>2 DEF Delete, LoopInv, ScanInv, ExactAt, Known, StoredTwice, TypeOK
  <2>3. CASE DeleteResetsPending(o)
    <3>1. \A b \in Accounts : clean'[b] => clean[b] /\ pending'[b] = pending[b]
      BY <2>3 DEF DeleteResetsPending
    <3>2. LoopInv' BY <2>3 DEF DeleteResetsPending, LoopInv
    <3>3. ScanInv' BY <2>3, <3>1 DEF DeleteResetsPending, ScanInv
    <3>4. \A b \in Accounts : ExactAt(b)'
      BY <2>3, <3>1 DEF DeleteResetsPending, ExactAt, Known, StoredTwice
    <3> QED BY <3>2, <3>3, <3>4
  <2>4. CASE Create(o)
    <3>1. LoopInv' BY <2>4 DEF Create, LoopInv
    <3>2. ScanInv' BY <2>4 DEF Create, ScanInv, TypeOK
    <3>3. ASSUME NEW b \in Accounts PROVE ExactAt(b)'
      <4>1. CASE Owner[b] = o
        <5>1. /\ stored'[b] = 0 /\ usage'[b] = 0 /\ pending'[b] = pending[b]
              /\ unreported'[b] = unreported[b] /\ StoredTwice(b)' = StoredTwice(b)
          BY <2>4, <4>1 DEF Create, StoredTwice, storeVars
        <5>2. clean'[b] => pending[b] = StoredTwice(b) /\ unreported[b] = 0
          BY <2>4, <4>1 DEF Create, NothingOwedOn
        <5>3. pending[b] \in Int BY DEF TypeOK
        <5> QED BY <5>1, <5>2, <5>3 DEF ExactAt, Known
      <4>2. CASE Owner[b] # o
        BY <2>4, <4>2 DEF Create, ExactAt, Known, StoredTwice, TypeOK
      <4> QED BY <4>1, <4>2
    <3> QED BY <3>1, <3>2, <3>3
  <2> QED BY <1>9, <2>2, <2>3, <2>4
<1>10. ASSUME NEW r \in Readers,
              (\E a \in Accounts : ReadStored(r, a)) \/ ReadDelayed(r) \/ ReadUsed(r)
       PROVE Others
  BY <1>10 DEF ReadStored, ReadDelayed, ReadUsed, LoopInv, ScanInv, ExactAt,
               Known, StoredTwice
<1>11. ASSUME Crash PROVE Others
  <2>1. LoopInv' /\ ScanInv'
    BY <1>11 DEF Crash, LoopInv, ScanInv
  <2>2. ASSUME NEW b \in Accounts PROVE ExactAt(b)'
    BY <1>11 DEF Crash, ExactAt, Known, StoredTwice, TypeOK
  <2> QED BY <2>1, <2>2
<1>12. ASSUME UNCHANGED vars PROVE Others
  BY <1>12 DEF vars, LoopInv, ScanInv, ExactAt, Known, StoredTwice
<1>13. Others
  BY <1>1, <1>2, <1>3, <1>4, <1>5, <1>6, <1>7, <1>8, <1>9, <1>10, <1>11, <1>12
     DEF Next
<1> QED BY <1>0, <1>13

(* TypeOK holds in every state of every behaviour, with resets, deletions  *)
(* and crashes.                                                            *)
THEOREM TypeCorrect == ASSUME QuotaAssumption PROVE Spec => []TypeOK
<1>1. Init => TypeOK BY InitInv DEF IInv
<1>2. TypeOK /\ [Next]_vars => TypeOK' BY TypeStep
<1> QED BY <1>1, <1>2, PTL DEF Spec

(* UsageExact holds in every state: the loop, its failures, scans, resets, *)
(* deletions and crashes, in any order, make no account inexact but those  *)
(* of the races it names.                                                  *)
THEOREM AccountingExact == ASSUME QuotaAssumption PROVE Spec => []UsageExact
<1>1. Init => IInv BY InitInv
<1>2. IInv /\ [Next]_vars => IInv' BY InvStep
<1>3. IInv => UsageExact BY DEF IInv, ExactAt, UsageExact
<1> QED BY <1>1, <1>2, <1>3, PTL DEF Spec

-----------------------------------------------------------------------------
(* Sums over a set of handlers: S is listed without repetition by f, and   *)
(* s[i] is the sum of g over the first i.                                  *)
Listing(S, g, n, f, s) ==
  /\ f \in [1..n -> S] /\ s \in [0..n -> Int]
  /\ \A w \in S : \E i \in 1..n : f[i] = w
  /\ \A i, j \in 1..n : f[i] = f[j] => i = j
  /\ s[0] = 0
  /\ \A i \in 1..n : s[i] = s[i-1] + g[f[i]]

SumsTo(S, g, total) ==
  \E n \in Nat : \E f \in [1..n -> S], s \in [0..n -> Int] :
    Listing(S, g, n, f, s) /\ total = s[n]

(* A nonempty set of natural numbers has a least element. *)
LEMMA LeastElement ==
  ASSUME NEW T, T \subseteq Nat, T # {}
  PROVE  \E m \in T : \A k \in T : m <= k
<1> DEFINE R == {ss \in Nat \X Nat : ss[1] < ss[2]}
<1>1. IsWellFoundedOn(R, Nat)
  BY NatLessThanWellFounded DEF OpToRel
<1>2. PICK x \in T : \A y \in T : ~ (<<y, x>> \in R)
  <2> HIDE DEF R
  <2> QED BY <1>1, WFMin
<1>3. ASSUME NEW k \in T PROVE x <= k
  <2>1. <<k, x>> \in Nat \X Nat /\ <<k, x>>[1] = k /\ <<k, x>>[2] = x
    OBVIOUS
  <2>2. ~ (k < x) BY <1>2, <2>1
  <2>3. k \in Nat /\ x \in Nat OBVIOUS
  <2> QED BY <2>2, <2>3
<1> QED BY <1>3

LEMMA SumsEmpty ==
  ASSUME NEW g
  PROVE  SumsTo({}, g, 0) /\ \A t : SumsTo({}, g, t) => t = 0
<1>1. SumsTo({}, g, 0)
  <2> DEFINE f == [i \in 1..0 |-> 0]
             s == [i \in 0..0 |-> 0]
  <2>1. f \in [1..0 -> {}] /\ s \in [0..0 -> Int] /\ s[0] = 0 OBVIOUS
  <2>2. Listing({}, g, 0, f, s) BY <2>1 DEF Listing
  <2> HIDE DEF f, s
  <2> QED BY <2>1, <2>2 DEF SumsTo
<1>2. ASSUME NEW t, SumsTo({}, g, t) PROVE t = 0
  <2>1. PICK n \in Nat : \E f \in [1..n -> {}], s \in [0..n -> Int] :
          Listing({}, g, n, f, s) /\ t = s[n]
    BY <1>2 DEF SumsTo
  <2>2. PICK f \in [1..n -> {}], s \in [0..n -> Int] :
          Listing({}, g, n, f, s) /\ t = s[n]
    BY <2>1
  <2>3. n = 0
    <3>1. ASSUME n # 0 PROVE FALSE
      <4>1. 1 \in 1..n BY <3>1
      <4>2. f[1] \in {} BY <4>1
      <4> QED BY <4>2
    <3> QED BY <3>1
  <2> QED BY <2>2, <2>3 DEF Listing
<1> QED BY <1>1, <1>2

LEMMA SumsAdd ==
  ASSUME NEW S, NEW g, NEW t, SumsTo(S, g, t), NEW w, w \notin S, g[w] \in Int
  PROVE  SumsTo(S \cup {w}, g, t + g[w])
<1>1. PICK n \in Nat : \E f \in [1..n -> S], s \in [0..n -> Int] :
        Listing(S, g, n, f, s) /\ t = s[n]
  BY DEF SumsTo
<1>2. PICK f \in [1..n -> S], s \in [0..n -> Int] :
        Listing(S, g, n, f, s) /\ t = s[n]
  BY <1>1
<1> DEFINE m == n + 1
           ff == [i \in 1..m |-> IF i = m THEN w ELSE f[i]]
           ss == [i \in 0..m |-> IF i = m THEN t + g[w] ELSE s[i]]
<1>3. n \in 0..n /\ t \in Int BY <1>2
<1>4. ff \in [1..m -> S \cup {w}] /\ ss \in [0..m -> Int] BY <1>2, <1>3
<1>5. \A i \in 1..n : i \in 1..m /\ i # m /\ ff[i] = f[i] /\ ff[i] \in S
  BY <1>2
<1>6. m \in 1..m /\ ff[m] = w OBVIOUS
<1>7. \A i \in 1..m : i = m \/ i \in 1..n OBVIOUS
<1>8. Listing(S \cup {w}, g, m, ff, ss)
  <2>1. \A v \in S \cup {w} : \E i \in 1..m : ff[i] = v
    <3>1. ASSUME NEW v \in S PROVE \E i \in 1..m : ff[i] = v
      <4>1. PICK i \in 1..n : f[i] = v BY <1>2 DEF Listing
      <4> QED BY <4>1, <1>5
    <3> QED BY <3>1, <1>6
  <2>2. \A i, j \in 1..m : ff[i] = ff[j] => i = j
    <3> HIDE DEF ff, m
    <3>1. \A i, j \in 1..n : f[i] = f[j] => i = j BY <1>2 DEF Listing
    <3> QED BY <3>1, <1>5, <1>6, <1>7
  <2>3. ss[0] = 0 BY <1>2 DEF Listing
  <2>4. ASSUME NEW i \in 1..m PROVE ss[i] = ss[i-1] + g[ff[i]]
    <3>1. CASE i = m BY <3>1, <1>2
    <3>2. CASE i # m BY <3>2, <1>2 DEF Listing
    <3> QED BY <3>1, <3>2
  <2> HIDE DEF ff, ss, m
  <2> QED BY <1>4, <2>1, <2>2, <2>3, <2>4 DEF Listing
<1>9. m \in Nat /\ ss[m] = t + g[w] OBVIOUS
<1> HIDE DEF ff, ss, m
<1> QED BY <1>4, <1>8, <1>9 DEF SumsTo

LEMMA SumsRemove ==
  ASSUME NEW S, NEW g, NEW t, SumsTo(S, g, t),
         \A v \in S : g[v] \in Int, NEW w \in S
  PROVE  SumsTo(S \ {w}, g, t - g[w])
<1>1. PICK n \in Nat : \E f \in [1..n -> S], s \in [0..n -> Int] :
        Listing(S, g, n, f, s) /\ t = s[n]
  BY DEF SumsTo
<1>2. PICK f \in [1..n -> S], s \in [0..n -> Int] :
        Listing(S, g, n, f, s) /\ t = s[n]
  BY <1>1
<1>3. PICK k \in 1..n : f[k] = w BY <1>2 DEF Listing
<1> DEFINE m == n - 1
           ff == [i \in 1..m |-> IF i < k THEN f[i] ELSE f[i+1]]
           ss == [i \in 0..m |-> IF i < k THEN s[i] ELSE s[i+1] - g[w]]
<1>4. m \in Nat /\ \A i \in 1..m : i \in 1..n /\ i + 1 \in 1..n BY <1>3
<1>5. \A i, j \in 1..n : f[i] = f[j] => i = j BY <1>2 DEF Listing
<1>6. ff \in [1..m -> S \ {w}]
  <2>1. ASSUME NEW i \in 1..m PROVE ff[i] \in S \ {w}
    BY <1>2, <1>3, <1>4, <1>5
  <2> QED BY <2>1
<1>7. ss \in [0..m -> Int]
  BY <1>2, <1>3
<1>8. Listing(S \ {w}, g, m, ff, ss)
  <2>1. ASSUME NEW v \in S \ {w} PROVE \E i \in 1..m : ff[i] = v
    <3>1. PICK i \in 1..n : f[i] = v BY <1>2 DEF Listing
    <3>2. i # k BY <3>1, <1>3
    <3>3. CASE i < k
      <4>1. i \in 1..m /\ ff[i] = v BY <3>1, <3>3, <1>3
      <4> QED BY <4>1
    <3>4. CASE i > k
      <4>1. i - 1 \in 1..m /\ ff[i-1] = v BY <3>1, <3>4, <1>3
      <4> QED BY <4>1
    <3> QED BY <3>2, <3>3, <3>4
  <2>2. ASSUME NEW i \in 1..m, NEW j \in 1..m, ff[i] = ff[j] PROVE i = j
    <3>1. CASE i < k /\ j < k BY <1>4, <1>5, <2>2, <3>1
    <3>2. CASE i < k /\ ~(j < k)
      <4>1. i = j + 1 BY <1>4, <1>5, <2>2, <3>2
      <4> QED BY <4>1, <3>2
    <3>3. CASE ~(i < k) /\ j < k
      <4>1. i + 1 = j BY <1>4, <1>5, <2>2, <3>3
      <4> QED BY <4>1, <3>3
    <3>4. CASE ~(i < k) /\ ~(j < k)
      <4>1. i + 1 = j + 1 BY <1>4, <1>5, <2>2, <3>4
      <4> QED BY <4>1
    <3> QED BY <3>1, <3>2, <3>3, <3>4
  <2>3. ss[0] = 0 BY <1>2, <1>3 DEF Listing
  <2>4. ASSUME NEW i \in 1..m PROVE ss[i] = ss[i-1] + g[ff[i]]
    <3>0. /\ s[i] = s[i-1] + g[f[i]] /\ s[i+1] = s[i] + g[f[i+1]]
          /\ s[i] \in Int /\ s[i-1] \in Int /\ s[i+1] \in Int
          /\ g[f[i]] \in Int /\ g[f[i+1]] \in Int
      <4>1. i \in 1..n /\ i + 1 \in 1..n /\ i - 1 \in 0..n /\ (i + 1) - 1 = i
        BY <1>4
      <4>2. s[i] = s[i-1] + g[f[i]] /\ s[i+1] = s[(i+1)-1] + g[f[i+1]]
        BY <1>2, <4>1 DEF Listing
      <4> QED BY <1>2, <4>1, <4>2
    <3>4. /\ ff[i] = IF i < k THEN f[i] ELSE f[i+1]
          /\ ss[i] = IF i < k THEN s[i] ELSE s[i+1] - g[w]
          /\ ss[i-1] = IF i - 1 < k THEN s[i-1] ELSE s[i] - g[w]
      <4>1. i \in 0..m /\ i - 1 \in 0..m /\ (i - 1) + 1 = i OBVIOUS
      <4> QED BY <4>1
    <3>5. f[k] = w /\ g[f[i]] = s[i] - s[i-1] BY <3>0, <1>3
    <3> HIDE DEF ff, ss, m
    <3>1. CASE i < k BY <3>0, <3>1, <3>4
    <3>2. CASE i = k
      <4>1. g[w] = s[i] - s[i-1] BY <3>2, <3>5, <3>0
      <4>2. ss[i] = s[i+1] - g[w] /\ ss[i-1] = s[i-1] /\ ff[i] = f[i+1]
        BY <3>2, <3>4, <1>3
      <4>3. g[ff[i]] = s[i+1] - s[i] BY <4>2, <3>0
      <4> QED BY <4>1, <4>2, <4>3, <3>0
    <3>3. CASE i > k
      <4>1. /\ ss[i] = s[i+1] - g[w] /\ ss[i-1] = s[i] - g[w] /\ ff[i] = f[i+1]
            /\ g[w] \in Int
        BY <3>3, <3>4, <1>3
      <4> QED BY <4>1, <3>0
    <3> QED BY <3>1, <3>2, <3>3
  <2> HIDE DEF ff, ss, m
  <2> QED BY <1>6, <1>7, <2>1, <2>2, <2>3, <2>4 DEF Listing
<1>9. ss[m] = t - g[w]
  <2>1. CASE m < k
    <3>1. m = n - 1 /\ k = n BY <2>1, <1>3
    <3>2. s[n] = s[n-1] + g[f[n]] BY <3>1, <1>2 DEF Listing
    <3> QED BY <3>1, <3>2, <1>2, <1>3
  <2>2. CASE ~(m < k) BY <2>2, <1>2, <1>3
  <2> QED BY <2>1, <2>2
<1> HIDE DEF ff, ss, m
<1> QED BY <1>4, <1>6, <1>7, <1>8, <1>9 DEF SumsTo

LEMMA SumsSame ==
  ASSUME NEW S, NEW g, NEW h, NEW t, SumsTo(S, g, t), \A w \in S : h[w] = g[w]
  PROVE  SumsTo(S, h, t)
<1>1. PICK n \in Nat : \E f \in [1..n -> S], s \in [0..n -> Int] :
        Listing(S, g, n, f, s) /\ t = s[n]
  BY DEF SumsTo
<1>2. PICK f \in [1..n -> S], s \in [0..n -> Int] :
        Listing(S, g, n, f, s) /\ t = s[n]
  BY <1>1
<1>3. Listing(S, h, n, f, s) BY <1>2 DEF Listing
<1> QED BY <1>2, <1>3 DEF SumsTo

LEMMA SumsNat ==
  ASSUME NEW S, NEW g, NEW t, SumsTo(S, g, t), \A w \in S : g[w] \in Nat
  PROVE  t \in Nat
<1>1. PICK n \in Nat : \E f \in [1..n -> S], s \in [0..n -> Int] :
        Listing(S, g, n, f, s) /\ t = s[n]
  BY DEF SumsTo
<1>2. PICK f \in [1..n -> S], s \in [0..n -> Int] :
        Listing(S, g, n, f, s) /\ t = s[n]
  BY <1>1
<1> DEFINE T == {i \in 0..n : s[i] < 0}
<1>3. T = {}
  <2>1. SUFFICES ASSUME T # {} PROVE FALSE OBVIOUS
  <2>2. PICK m \in T : \A k \in T : m <= k
    <3>1. T \subseteq Nat OBVIOUS
    <3> HIDE DEF T
    <3> QED BY <2>1, <3>1, LeastElement
  <2>3. m # 0 BY <1>2, <2>2 DEF Listing
  <2>4. m - 1 \in 0..n /\ m - 1 \notin T /\ m \in 1..n BY <2>2, <2>3
  <2>5. s[m-1] \in Nat BY <1>2, <2>4
  <2>6. s[m] = s[m-1] + g[f[m]] /\ g[f[m]] \in Nat BY <1>2, <2>4 DEF Listing
  <2> QED BY <2>2, <2>5, <2>6
<1>4. n \in 0..n /\ s[n] \in Int OBVIOUS
<1> QED BY <1>2, <1>3, <1>4
-----------------------------------------------------------------------------
(* unreported[a] is the sum of what the handlers owe on a, whatever they   *)
(* transfer, report and lose, and whatever runs next to them.              *)
OwedDelta == [w \in Workers |-> owed[w].delta]
OwersOf(a) == {w \in Workers : owed[w].acc = a}
OwedInv == \A a \in Accounts : SumsTo(OwersOf(a), OwedDelta, unreported[a])

LEMMA OwedInit == QuotaAssumption /\ Init => OwedInv
<1> SUFFICES ASSUME QuotaAssumption, Init, NEW a \in Accounts
             PROVE  SumsTo(OwersOf(a), OwedDelta, unreported[a])
  BY DEF OwedInv
<1>1. OwersOf(a) = {} BY DEF Init, OwersOf, NothingOwed, QuotaAssumption
<1>2. unreported[a] = 0 BY DEF Init
<1> QED BY <1>1, <1>2, SumsEmpty

LEMMA OwedStep == QuotaAssumption /\ TypeOK /\ OwedInv /\ [Next]_vars => OwedInv'
<1> SUFFICES ASSUME QuotaAssumption, TypeOK, OwedInv, [Next]_vars PROVE OwedInv'
  OBVIOUS
<1> USE DEF QuotaAssumption
<1>0. ASSUME owed' = owed, unreported' = unreported PROVE OwedInv'
  BY <1>0 DEF OwedInv, OwersOf, OwedDelta
<1>1. ASSUME NEW w \in Workers, NEW a \in Accounts, NEW d \in Deltas, Transfer(w, a, d)
      PROVE OwedInv'
  <2>1. /\ owed[w].acc # a /\ d \in Int
        /\ \A b \in Accounts : unreported'[b] = IF b = a THEN unreported[b] + d
                                                        ELSE unreported[b]
        /\ OwedDelta'[w] = d
        /\ \A v \in Workers \ {w} : OwedDelta'[v] = OwedDelta[v] /\ owed'[v] = owed[v]
        /\ owed'[w].acc = a /\ owed[w].acc = None
    <3>1. d \in Int OBVIOUS
    <3>2. owed[w].acc = None /\ None # a BY <1>1 DEF Transfer, NothingOwed
    <3>3. \A b \in Accounts : unreported'[b] = IF b = a THEN unreported[b] + d
                                                        ELSE unreported[b]
      BY <1>1 DEF Transfer, TypeOK
    <3>4. /\ owed'[w] = [acc |-> a, delta |-> d]
          /\ \A v \in Workers \ {w} : owed'[v] = owed[v]
      BY <1>1 DEF Transfer, TypeOK
    <3> QED BY <3>1, <3>2, <3>3, <3>4 DEF OwedDelta
  <2>2. ASSUME NEW b \in Accounts PROVE SumsTo(OwersOf(b), OwedDelta, unreported[b])'
    <3>1. w \notin OwersOf(b) BY <2>1 DEF OwersOf
    <3>2. SumsTo(OwersOf(b), OwedDelta', unreported[b])
      <4>1. SumsTo(OwersOf(b), OwedDelta, unreported[b]) BY DEF OwedInv
      <4>2. \A v \in OwersOf(b) : OwedDelta'[v] = OwedDelta[v]
        BY <2>1, <3>1 DEF OwersOf
      <4> QED BY <4>1, <4>2, SumsSame
    <3>3. CASE b = a
      <4>1. OwersOf(b)' = OwersOf(b) \cup {w} BY <2>1, <3>3 DEF OwersOf
      <4>2. SumsTo(OwersOf(b) \cup {w}, OwedDelta', unreported[b] + OwedDelta'[w])
        BY <2>1, <3>1, <3>2, SumsAdd
      <4> QED BY <2>1, <3>3, <4>1, <4>2
    <3>4. CASE b # a
      <4>1. OwersOf(b)' = OwersOf(b) BY <2>1, <3>4 DEF OwersOf
      <4> QED BY <2>1, <3>2, <3>4, <4>1
    <3> QED BY <3>3, <3>4
  <2> QED BY <2>2 DEF OwedInv
<1>2. ASSUME NEW w \in Workers, UpdateQuota(w) PROVE OwedInv'
  <2> DEFINE a == owed[w].acc
             d == owed[w].delta
  <2>1. /\ a \in Accounts /\ d \in Int /\ OwedDelta[w] = d
        /\ \A b \in Accounts : unreported'[b] = IF b = a THEN unreported[b] - d
                                                        ELSE unreported[b]
        /\ \A v \in Workers \ {w} : OwedDelta'[v] = OwedDelta[v] /\ owed'[v] = owed[v]
        /\ owed'[w].acc = None
    BY <1>2 DEF UpdateQuota, TypeOK, NothingOwed, OwedDelta
  <2>2. \A v \in Workers : OwedDelta[v] \in Int BY DEF OwedDelta, TypeOK
  <2>3. ASSUME NEW b \in Accounts PROVE SumsTo(OwersOf(b), OwedDelta, unreported[b])'
    <3>1. SumsTo(OwersOf(b), OwedDelta, unreported[b]) BY DEF OwedInv
    <3>2. OwersOf(b)' = OwersOf(b) \ {w} BY <2>1 DEF OwersOf
    <3>3. SumsTo(OwersOf(b) \ {w}, OwedDelta, unreported'[b])
      <4>1. CASE b = a
        <5>1. w \in OwersOf(b) BY <4>1 DEF OwersOf
        <5>2. \A v \in OwersOf(b) : OwedDelta[v] \in Int BY <2>2 DEF OwersOf
        <5>3. SumsTo(OwersOf(b) \ {w}, OwedDelta, unreported[b] - OwedDelta[w])
          BY <3>1, <5>1, <5>2, SumsRemove
        <5> QED BY <2>1, <4>1, <5>3
      <4>2. CASE b # a
        <5>1. OwersOf(b) \ {w} = OwersOf(b) BY <4>2 DEF OwersOf
        <5> QED BY <2>1, <3>1, <4>2, <5>1
      <4> QED BY <4>1, <4>2
    <3>4. \A v \in OwersOf(b) \ {w} : OwedDelta'[v] = OwedDelta[v]
      BY <2>1 DEF OwersOf
    <3> HIDE DEF OwersOf
    <3>5. SumsTo(OwersOf(b) \ {w}, OwedDelta', unreported'[b])
      BY <3>3, <3>4, SumsSame
    <3> QED BY <3>2, <3>5
  <2> QED BY <2>3 DEF OwedInv
<1>3. ASSUME Crash PROVE OwedInv'
  <2>1. ASSUME NEW a \in Accounts PROVE SumsTo(OwersOf(a), OwedDelta, unreported[a])'
    <3>1. OwersOf(a)' = {} BY <1>3 DEF Crash, OwersOf, NothingOwed
    <3>2. unreported'[a] = 0 BY <1>3 DEF Crash
    <3> QED BY <3>1, <3>2, SumsEmpty
  <2> QED BY <2>1 DEF OwedInv
<1>4. CASE NextPhase BY <1>4, <1>0 DEF NextPhase, workerVars
<1>5. ASSUME NEW a \in Accounts, ReadPending(a) PROVE OwedInv'
  BY <1>5, <1>0 DEF ReadPending, workerVars
<1>6. CASE Store \/ StoreFails \/ DropPending
  BY <1>6, <1>0 DEF Store, StoreFails, DropPending, workerVars
<1>7. ASSUME NEW a \in Scannable, ScanRead(a) \/ ResetPending(a) \/ ScanStore(a)
      PROVE OwedInv'
  BY <1>7, <1>0 DEF ScanRead, ResetPending, ScanStore, workerVars
<1>8. ASSUME NEW o \in Deletable, Delete(o) \/ DeleteResetsPending(o) \/ Create(o)
      PROVE OwedInv'
  BY <1>8, <1>0 DEF Delete, DeleteResetsPending, Create, workerVars
<1>9. ASSUME NEW r \in Readers,
             (\E a \in Accounts : ReadStored(r, a)) \/ ReadDelayed(r) \/ ReadUsed(r)
      PROVE OwedInv'
  BY <1>9, <1>0 DEF ReadStored, ReadDelayed, ReadUsed, workerVars
<1>10. CASE UNCHANGED vars BY <1>10, <1>0 DEF vars, workerVars
<1> QED BY <1>1, <1>2, <1>3, <1>4, <1>5, <1>6, <1>7, <1>8, <1>9, <1>10 DEF Next

-----------------------------------------------------------------------------
(* A reader that nothing disturbed has the provider's value in hand, then  *)
(* that and the pending difference; nobody has owed anything since, and    *)
(* the loop is not moving a difference of the account.                     *)
Undisturbed(r) ==
  LET a == read[r].acc IN
  /\ ~(applied /\ cur = a) /\ \A w \in Workers : owed[w] = NothingOwed
  /\ ~read[r].done => read[r].val = stored[a]
  /\ (read[r].done /\ clean[a] /\ scan[a] = "idle") => read[r].val = stored[a] + pending[a]

ReadInv ==
  /\ read \in [Readers -> [acc : Accounts \cup {None}, val : Int,
                           done : BOOLEAN, calm : BOOLEAN]]
  /\ \A r \in Readers :
       /\ read[r].done => read[r].acc # None
       /\ (read[r].calm /\ read[r].acc # None) => Undisturbed(r)

LEMMA DisturbedRead ==
  ASSUME ReadInv, read' = Disturbed PROVE ReadInv'
BY DEF ReadInv, Disturbed

LEMMA ReadStep == QuotaAssumption /\ IInv /\ ReadInv /\ [Next]_vars => ReadInv'
<1> SUFFICES ASSUME QuotaAssumption, IInv, ReadInv, [Next]_vars PROVE ReadInv'
  OBVIOUS
<1> USE DEF QuotaAssumption
<1> DEFINE Reading == [acc : Accounts \cup {None}, val : Int, done : BOOLEAN, calm : BOOLEAN]
<1>a. \A r \in Readers : read[r].acc \in Accounts \cup {None}
  BY DEF ReadInv
<1>0. ASSUME read' = read, stored' = stored, owed' = owed, applied' => applied /\ cur' = cur,
             \A a \in Accounts : (clean'[a] /\ scan'[a] = "idle") =>
               clean[a] /\ scan[a] = "idle" /\ pending'[a] = pending[a]
      PROVE ReadInv'
  <2>1. ASSUME NEW r \in Readers, read[r].calm, read[r].acc # None PROVE Undisturbed(r)'
    <3>1. Undisturbed(r) /\ read[r].acc \in Accounts
      BY <2>1, <1>a DEF ReadInv
    <3> QED BY <1>0, <3>1 DEF Undisturbed
  <2> QED BY <1>0, <2>1 DEF ReadInv
<1>1. ASSUME NEW w \in Workers, NEW a \in Accounts, NEW d \in Deltas, Transfer(w, a, d)
      PROVE ReadInv'
  BY <1>1, DisturbedRead DEF Transfer
<1>2. ASSUME NEW w \in Workers, UpdateQuota(w) PROVE ReadInv'
  <2>1. owed[w] # NothingOwed BY <1>2 DEF UpdateQuota, NothingOwed
  <2>2. read' = read BY <1>2 DEF UpdateQuota
  <2>3. \A r \in Readers : ~(read[r].calm /\ read[r].acc # None)
    BY <2>1 DEF ReadInv, Undisturbed
  <2> QED BY <2>2, <2>3 DEF ReadInv
<1>3. CASE Crash
  BY <1>3 DEF Crash, ReadInv, NoRead
<1>4. CASE NextPhase
  BY <1>4, <1>0 DEF NextPhase, workerVars, scanVars
<1>5. ASSUME NEW a \in Accounts, ReadPending(a) PROVE ReadInv'
  <2>1. ~applied' BY <1>5 DEF ReadPending, IInv, LoopInv
  <2> QED BY <1>5, <2>1, <1>0 DEF ReadPending, workerVars, scanVars
<1>6. CASE StoreFails
  BY <1>6, <1>0 DEF StoreFails, workerVars, scanVars
<1>7. CASE Store
  <2>1. /\ owed' = owed /\ pending' = pending /\ scan' = scan /\ cur' = cur
        /\ cur \in Accounts
        /\ read' = [r \in Readers |-> [read[r] EXCEPT !.calm = @ /\ read[r].acc # cur]]
        /\ \A b \in Accounts \ {cur} : stored'[b] = stored[b]
        /\ \A b \in Accounts : clean'[b] => clean[b]
    BY <1>7 DEF Store, workerVars, scanVars, IInv, TypeOK
  <2>3. ASSUME NEW r \in Readers
        PROVE  /\ read'[r] \in Reading
               /\ read'[r].acc = read[r].acc /\ read'[r].val = read[r].val
               /\ read'[r].done = read[r].done
               /\ read'[r].calm => (read[r].calm /\ read[r].acc # cur)
    <3> DEFINE calm == read[r].calm /\ read[r].acc # cur
    <3>1. calm \in BOOLEAN /\ read[r] \in Reading BY DEF ReadInv
    <3>2. read'[r] = [read[r] EXCEPT !.calm = calm] BY <2>1
    <3>3. calm => (read[r].calm /\ read[r].acc # cur) OBVIOUS
    <3> HIDE DEF calm
    <3> QED BY <3>1, <3>2, <3>3
  <2>2. read' \in [Readers -> Reading]
    BY <2>1, <2>3
  <2>4. ASSUME NEW r \in Readers, read'[r].calm, read'[r].acc # None PROVE Undisturbed(r)'
    <3>1. Undisturbed(r) /\ read[r].acc \in Accounts \ {cur}
      BY <2>3, <2>4, <1>a DEF ReadInv
    <3>2. /\ stored'[read[r].acc] = stored[read[r].acc]
          /\ clean'[read[r].acc] => clean[read[r].acc]
      BY <2>1, <3>1
    <3> QED BY <2>1, <2>3, <3>1, <3>2 DEF Undisturbed
  <2>5. \A r \in Readers : read'[r].done => read'[r].acc # None
    BY <2>3 DEF ReadInv
  <2> QED BY <2>2, <2>4, <2>5 DEF ReadInv
<1>8. CASE DropPending
  <2>1. /\ owed' = owed /\ stored' = stored /\ scan' = scan /\ clean' = clean /\ read' = read
        /\ applied /\ ~applied'
        /\ \A b \in Accounts \ {cur} : pending'[b] = pending[b]
    BY <1>8 DEF DropPending, workerVars, scanVars, IInv, TypeOK
  <2>2. ASSUME NEW r \in Readers, read[r].calm, read[r].acc # None PROVE Undisturbed(r)'
    <3>1. Undisturbed(r) /\ read[r].acc \in Accounts
      BY <2>2, <1>a DEF ReadInv
    <3>2. read[r].acc # cur BY <2>1, <3>1 DEF Undisturbed
    <3> QED BY <2>1, <3>1, <3>2 DEF Undisturbed
  <2> QED BY <2>1, <2>2 DEF ReadInv
<1>9. ASSUME NEW a \in Scannable, ScanRead(a) \/ ResetPending(a) \/ ScanStore(a)
      PROVE ReadInv'
  <2>1. CASE ResetPending(a)
    <3>1. \A b \in Accounts : (clean'[b] /\ scan'[b] = "idle") =>
            clean[b] /\ scan[b] = "idle" /\ pending'[b] = pending[b]
      BY <2>1 DEF ResetPending, IInv, TypeOK
    <3> QED BY <2>1, <3>1, <1>0 DEF ResetPending, workerVars, storeVars
  <2> QED BY <1>9, <2>1, DisturbedRead DEF ScanRead, ScanStore
<1>10. ASSUME NEW o \in Deletable, Delete(o) \/ DeleteResetsPending(o) \/ Create(o)
       PROVE ReadInv'
  <2>1. CASE Delete(o)
    BY <2>1, <1>0 DEF Delete, workerVars, storeVars, scanVars
  <2>2. CASE DeleteResetsPending(o)
    <3>1. \A b \in Accounts : clean'[b] => clean[b] /\ pending'[b] = pending[b]
      BY <2>2 DEF DeleteResetsPending
    <3> QED BY <2>2, <3>1, <1>0 DEF DeleteResetsPending, workerVars, storeVars, scanVars
  <2>3. CASE Create(o)
    BY <2>3, DisturbedRead DEF Create
  <2> QED BY <1>10, <2>1, <2>2, <2>3
<1>11. ASSUME NEW r \in Readers, NEW a \in Accounts, ReadStored(r, a) PROVE ReadInv'
  <2> DEFINE calm == ~(applied /\ cur = a) /\ \A w \in Workers : owed[w] = NothingOwed
  <2>0. calm \in BOOLEAN OBVIOUS
  <2>1. /\ stored' = stored /\ owed' = owed /\ pending' = pending /\ applied' = applied
        /\ cur' = cur /\ scan' = scan /\ clean' = clean
    BY <1>11 DEF ReadStored, workerVars, storeVars, scanVars
  <2>2. /\ read'[r] = [acc |-> a, val |-> stored[a], done |-> FALSE, calm |-> calm]
        /\ \A q \in Readers \ {r} : read'[q] = read[q]
        /\ DOMAIN read' = Readers
    BY <1>11 DEF ReadStored, ReadInv
  <2>3. stored[a] \in Int BY DEF IInv, TypeOK
  <2>4. read' = [read EXCEPT ![r] = [acc |-> a, val |-> stored[a], done |-> FALSE, calm |-> calm]]
    BY <1>11 DEF ReadStored
  <2> HIDE DEF calm
  <2>5. read' \in [Readers -> Reading]
    BY <2>0, <2>3, <2>4 DEF ReadInv
  <2>6. ASSUME NEW q \in Readers, read'[q].calm, read'[q].acc # None PROVE Undisturbed(q)'
    <3>1. CASE q = r
      <4>1. /\ read'[r].acc = a /\ read'[r].val = stored[a]
            /\ ~read'[r].done /\ read'[r].calm = calm
        BY <2>2
      <4>2. calm BY <2>6, <3>1, <4>1
      <4>3. ~(applied /\ cur = a) /\ \A w \in Workers : owed[w] = NothingOwed
        BY <4>2 DEF calm
      <4> QED BY <2>1, <3>1, <4>1, <4>3 DEF Undisturbed
    <3>2. CASE q # r
      BY <2>1, <2>2, <2>6, <3>2 DEF Undisturbed, ReadInv
    <3> QED BY <3>1, <3>2
  <2>7. \A q \in Readers : read'[q].done => read'[q].acc # None
    BY <2>2 DEF ReadInv
  <2> QED BY <2>5, <2>6, <2>7 DEF ReadInv
<1>12. ASSUME NEW r \in Readers, ReadDelayed(r) PROVE ReadInv'
  <2>1. /\ stored' = stored /\ owed' = owed /\ pending' = pending /\ applied' = applied
        /\ cur' = cur /\ scan' = scan /\ clean' = clean
    BY <1>12 DEF ReadDelayed, workerVars, storeVars, scanVars
  <2> DEFINE b == read[r].acc
             now == [read[r] EXCEPT !.val = @ + pending[b], !.done = TRUE]
  <2>2. b \in Accounts /\ ~read[r].done /\ read[r].val \in Int /\ pending[b] \in Int
    BY <1>12, <1>a DEF ReadDelayed, ReadInv, IInv, TypeOK
  <2>3. read' = [read EXCEPT ![r] = now]
    BY <1>12 DEF ReadDelayed, ReadInv
  <2>4. /\ now \in Reading /\ now.acc = b /\ now.calm = read[r].calm /\ now.done
        /\ now.val = read[r].val + pending[b]
    <3>1. read[r] \in Reading BY DEF ReadInv
    <3>2. read[r].val + pending[b] \in Int BY <2>2
    <3> QED BY <3>1, <3>2
  <2> HIDE DEF now
  <2>5. read' \in [Readers -> Reading] /\ read'[r] = now
        /\ \A q \in Readers \ {r} : read'[q] = read[q]
    BY <2>3, <2>4 DEF ReadInv
  <2>6. ASSUME NEW q \in Readers, read'[q].calm, read'[q].acc # None PROVE Undisturbed(q)'
    <3>1. CASE q = r
      <4>1. Undisturbed(r) BY <2>2, <2>4, <2>5, <2>6, <3>1 DEF ReadInv
      <4>2. read[r].val = stored[b] BY <2>2, <4>1 DEF Undisturbed
      <4> QED BY <2>1, <2>4, <2>5, <3>1, <4>1, <4>2 DEF Undisturbed
    <3>2. CASE q # r
      BY <2>1, <2>5, <2>6, <3>2 DEF Undisturbed, ReadInv
    <3> QED BY <3>1, <3>2
  <2>7. \A q \in Readers : read'[q].done => read'[q].acc # None
    BY <2>2, <2>4, <2>5 DEF ReadInv
  <2> QED BY <2>5, <2>6, <2>7 DEF ReadInv
<1>13. ASSUME NEW r \in Readers, ReadUsed(r) PROVE ReadInv'
  <2>1. /\ stored' = stored /\ owed' = owed /\ pending' = pending /\ applied' = applied
        /\ cur' = cur /\ scan' = scan /\ clean' = clean
    BY <1>13 DEF ReadUsed, workerVars, storeVars, scanVars
  <2>2. read' = [read EXCEPT ![r] = [acc |-> None, val |-> 0, done |-> FALSE,
                                     calm |-> FALSE]]
    BY <1>13 DEF ReadUsed, NoRead
  <2>3. read' \in [Readers -> Reading] /\ read'[r].acc = None /\ ~read'[r].done
        /\ \A q \in Readers \ {r} : read'[q] = read[q]
    BY <2>2 DEF ReadInv
  <2> QED BY <2>1, <2>3 DEF ReadInv, Undisturbed
<1>14. CASE UNCHANGED vars BY <1>14, <1>0 DEF vars, workerVars, storeVars, scanVars
<1> QED BY <1>1, <1>2, <1>3, <1>4, <1>5, <1>6, <1>7, <1>8, <1>9, <1>10, <1>11, <1>12,
           <1>13, <1>14 DEF Next

(* ReadExact holds with immediate and with delayed updates, next to scans, *)
(* resets, deletions, failing updates and crashes: a caller that nothing   *)
(* disturbed gets what is used.                                            *)
THEOREM ReadsExact == ASSUME QuotaAssumption PROVE Spec => []ReadExact
<1> DEFINE RInv == IInv /\ OwedInv /\ ReadInv
<1>1. Init => RInv
  <2>1. Init => ReadInv BY DEF Init, ReadInv, NoRead
  <2> QED BY <2>1, InitInv, OwedInit
<1>2. RInv /\ [Next]_vars => RInv'
  <2>1. IInv => TypeOK BY DEF IInv
  <2> QED BY <2>1, InvStep, OwedStep, ReadStep
<1>3. RInv => ReadExact
  <2> SUFFICES ASSUME RInv, NEW r \in Readers, read[r].done, read[r].calm,
                      exists[read[r].acc], clean[read[r].acc],
                      scan[read[r].acc] = "idle"
               PROVE  read[r].val = usage[read[r].acc]
    BY DEF ReadExact
  <2> DEFINE a == read[r].acc
  <2>1. /\ a \in Accounts /\ read[r].val = stored[a] + pending[a]
        /\ \A w \in Workers : owed[w] = NothingOwed
        /\ ~(applied /\ cur = a)
    BY DEF ReadInv, Undisturbed
  <2>2. OwersOf(a) = {}
    BY <2>1 DEF OwersOf, NothingOwed, QuotaAssumption
  <2>3. unreported[a] = 0
    <3>1. SumsTo(OwersOf(a), OwedDelta, unreported[a]) BY <2>1 DEF OwedInv
    <3>2. SumsTo({}, OwedDelta, unreported[a]) BY <2>2, <3>1
    <3> QED BY <3>2, SumsEmpty
  <2>4. Known(a) = stored[a] + pending[a]
    BY <2>1 DEF Known, StoredTwice, IInv, TypeOK
  <2>5. Known(a) + unreported[a] = usage[a] BY <2>1 DEF IInv, ExactAt
  <2> QED BY <2>1, <2>3, <2>4, <2>5 DEF IInv, TypeOK
<1> HIDE DEF RInv
<1> QED BY <1>1, <1>2, <1>3, PTL DEF Spec

-----------------------------------------------------------------------------
(* Where handlers only add, no difference anywhere is negative, and what   *)
(* the loop is moving is still in pending.                                 *)
NatInv ==
  /\ \A w \in Workers : owed[w].delta \in Nat
  /\ \A a \in Accounts : pending[a] \in Nat
  /\ amt \in Nat
  /\ cur # None => amt <= pending[cur]

BelowUsage == \A a \in Accounts : Known(a) + unreported[a] <= usage[a]

LEMMA NatStep ==
  ASSUME QuotaAssumption, Scannable = {}, Deletable = {}, Deltas \subseteq Nat,
         IInv, NatInv, [Next]_vars
  PROVE  NatInv'
<1> USE DEF QuotaAssumption
<1>0. ASSUME owed' = owed, pending' = pending, amt' = amt, cur' = cur PROVE NatInv'
  BY <1>0 DEF NatInv
<1>1. ASSUME NEW w \in Workers, NEW a \in Accounts, NEW d \in Deltas, Transfer(w, a, d)
      PROVE NatInv'
  <2>1. /\ owed'[w].delta = d /\ \A v \in Workers \ {w} : owed'[v] = owed[v]
        /\ pending' = pending /\ cur' = cur /\ amt' = amt
    BY <1>1 DEF Transfer, storeVars, IInv, TypeOK
  <2> QED BY <2>1 DEF NatInv
<1>2. ASSUME NEW w \in Workers, UpdateQuota(w) PROVE NatInv'
  <2>1. /\ owed'[w].delta = 0 /\ \A v \in Workers \ {w} : owed'[v] = owed[v]
        /\ cur' = cur /\ amt' = amt
    BY <1>2 DEF UpdateQuota, storeVars, IInv, TypeOK, NothingOwed
  <2>2. owed[w].acc \in Accounts BY <1>2 DEF UpdateQuota, IInv, TypeOK
  <2>3. \A a \in Accounts : pending'[a] \in Nat /\ pending'[a] >= pending[a]
    BY <1>2, <2>2 DEF UpdateQuota, NatInv, IInv, TypeOK
  <2>4. cur # None => cur \in Accounts BY DEF IInv, TypeOK
  <2> QED BY <2>1, <2>3, <2>4 DEF NatInv
<1>3. CASE NextPhase BY <1>3, <1>0 DEF NextPhase, workerVars
<1>4. ASSUME NEW a \in Accounts, ReadPending(a) PROVE NatInv'
  BY <1>4 DEF ReadPending, NatInv, workerVars
<1>5. CASE Store BY <1>5, <1>0 DEF Store, workerVars
<1>6. CASE StoreFails BY <1>6 DEF StoreFails, NatInv, workerVars
<1>7. CASE DropPending
  <2>1. cur \in Accounts BY <1>7 DEF DropPending, IInv, LoopInv, TypeOK
  <2>2. /\ owed' = owed /\ cur' = None /\ amt' = 0
        /\ \A a \in Accounts : pending'[a] = IF a = cur THEN pending[a] - amt
                                                       ELSE pending[a]
    BY <1>7, <2>1 DEF DropPending, workerVars, IInv, TypeOK
  <2> QED BY <2>1, <2>2 DEF NatInv
<1>8. ASSUME NEW r \in Readers,
              (\E a \in Accounts : ReadStored(r, a)) \/ ReadDelayed(r) \/ ReadUsed(r)
       PROVE NatInv'
  BY <1>8, <1>0 DEF ReadStored, ReadDelayed, ReadUsed, workerVars, storeVars
<1>9. CASE Crash BY <1>9 DEF Crash, NatInv, NothingOwed
<1>10. CASE UNCHANGED vars BY <1>10, <1>0 DEF vars, workerVars, storeVars
<1> QED BY <1>1, <1>2, <1>3, <1>4, <1>5, <1>6, <1>7, <1>8, <1>9, <1>10
        DEF Next

LEMMA BelowStep ==
  ASSUME QuotaAssumption, Scannable = {}, Deletable = {}, Deltas \subseteq Nat,
         IInv, OwedInv, NatInv, BelowUsage, [Next]_vars
  PROVE  BelowUsage'
<1> USE DEF QuotaAssumption
<1>a. \A a \in Accounts : /\ stored[a] \in Int /\ pending[a] \in Nat /\ usage[a] \in Int
                          /\ unreported[a] \in Int /\ StoredTwice(a) \in Nat
                          /\ StoredTwice(a) <= pending[a] /\ Known(a) \in Int
                          /\ stored[a] <= Known(a)
  <2> SUFFICES ASSUME NEW a \in Accounts
               PROVE  /\ stored[a] \in Int /\ pending[a] \in Nat /\ usage[a] \in Int
                      /\ unreported[a] \in Int /\ StoredTwice(a) \in Nat
                      /\ StoredTwice(a) <= pending[a] /\ Known(a) \in Int
                      /\ stored[a] <= Known(a)
    OBVIOUS
  <2>1. stored[a] \in Int /\ pending[a] \in Nat /\ usage[a] \in Int /\ unreported[a] \in Int
    BY DEF IInv, TypeOK, NatInv
  <2>2. StoredTwice(a) \in Nat /\ StoredTwice(a) <= pending[a]
    <3>1. CASE applied /\ cur = a
      BY <3>1, <2>1 DEF StoredTwice, NatInv
    <3>2. CASE ~(applied /\ cur = a)
      <4>1. StoredTwice(a) = 0 BY <3>2 DEF StoredTwice
      <4> QED BY <4>1, <2>1
    <3> QED BY <3>1, <3>2
  <2> QED BY <2>1, <2>2 DEF Known
<1>b. \A a \in Accounts : unreported[a] \in Nat
  <2> SUFFICES ASSUME NEW a \in Accounts PROVE unreported[a] \in Nat OBVIOUS
  <2>1. SumsTo(OwersOf(a), OwedDelta, unreported[a]) BY DEF OwedInv
  <2>2. \A w \in OwersOf(a) : OwedDelta[w] \in Nat
    BY DEF NatInv, OwersOf, OwedDelta
  <2> QED BY <2>1, <2>2, SumsNat
<1>c. \A a \in Accounts : Known(a) + unreported[a] <= usage[a] BY DEF BelowUsage
<1>0. ASSUME \A a \in Accounts : Known(a)' <= Known(a),
             unreported' = unreported, usage' = usage,
             \A a \in Accounts : Known(a)' \in Int
      PROVE  BelowUsage'
  BY <1>0, <1>a, <1>c DEF BelowUsage
<1>1. ASSUME NEW w \in Workers, NEW a \in Accounts, NEW d \in Deltas, Transfer(w, a, d)
      PROVE BelowUsage'
  <2>1. d \in Int OBVIOUS
  <2>2. ASSUME NEW b \in Accounts PROVE (Known(b) + unreported[b] <= usage[b])'
    <3>1. Known(b)' = Known(b)
      BY <1>1 DEF Transfer, storeVars, Known, StoredTwice
    <3>2. /\ unreported'[b] = unreported[b] + (IF b = a THEN d ELSE 0)
          /\ usage'[b] = usage[b] + (IF b = a THEN d ELSE 0)
      BY <1>1, <1>a, <2>1 DEF Transfer, IInv, TypeOK
    <3> QED BY <1>a, <1>c, <2>1, <3>1, <3>2
  <2> QED BY <2>2 DEF BelowUsage
<1>2. ASSUME NEW w \in Workers, UpdateQuota(w) PROVE BelowUsage'
  <2> DEFINE a == owed[w].acc
             d == owed[w].delta
  <2>1. a \in Accounts /\ d \in Nat
    BY <1>2 DEF UpdateQuota, IInv, TypeOK, NatInv
  <2>2. ASSUME NEW b \in Accounts PROVE (Known(b) + unreported[b] <= usage[b])'
    <3>1. /\ usage' = usage
          /\ unreported'[b] = unreported[b] - (IF b = a THEN d ELSE 0)
      BY <1>2, <2>1, <1>a DEF UpdateQuota, IInv, TypeOK
    <3>2. StoredTwice(b)' = StoredTwice(b)
      BY <1>2 DEF UpdateQuota, storeVars, StoredTwice
    <3>3. CASE b = a
      <4>1. \/ pending'[b] = pending[b] + d /\ stored'[b] = stored[b]
            \/ stored'[b] = stored[b] + d /\ pending'[b] = pending[b]
            \/ stored'[b] = stored[b] /\ pending'[b] = pending[b]
        BY <1>2, <2>1, <3>3 DEF UpdateQuota, IInv, TypeOK
      <4>2. Known(b)' = Known(b) + d \/ Known(b)' = Known(b)
        BY <4>1, <3>2, <1>a, <2>1 DEF Known
      <4> HIDE DEF a, d
      <4> QED BY <4>2, <3>1, <3>3, <1>a, <1>c, <2>1
    <3>4. CASE b # a
      <4>1. stored'[b] = stored[b] /\ pending'[b] = pending[b]
        BY <1>2, <2>1, <3>4 DEF UpdateQuota, IInv, TypeOK
      <4>2. Known(b)' = Known(b) BY <4>1, <3>2 DEF Known
      <4> QED BY <4>2, <3>1, <3>4, <1>a, <1>c
    <3> QED BY <3>3, <3>4
  <2> QED BY <2>2 DEF BelowUsage
<1>3. ASSUME NextPhase \/ StoreFails \/ \E a \in Accounts : ReadPending(a)
      PROVE  BelowUsage'
  <2>1. \A b \in Accounts : StoredTwice(b) = 0 /\ StoredTwice(b)' = 0
    <3>1. CASE NextPhase BY <3>1 DEF NextPhase, StoredTwice, QuotaAssumption
    <3>2. CASE StoreFails BY <3>2 DEF StoreFails, StoredTwice
    <3>3. ASSUME NEW a \in Accounts, ReadPending(a)
          PROVE  \A b \in Accounts : StoredTwice(b) = 0 /\ StoredTwice(b)' = 0
      BY <3>3 DEF ReadPending, StoredTwice, IInv, LoopInv
    <3> QED BY <1>3, <3>1, <3>2, <3>3
  <2>2. /\ stored' = stored /\ pending' = pending /\ usage' = usage
        /\ unreported' = unreported
    BY <1>3 DEF NextPhase, StoreFails, ReadPending, workerVars
  <2> QED BY <2>1, <2>2, <1>0, <1>a DEF Known
<1>4. CASE Store
  <2>0. cur \in Accounts BY <1>4 DEF Store, IInv, TypeOK
  <2>1. usage' = usage /\ unreported' = unreported /\ pending' = pending
    BY <1>4 DEF Store, workerVars
  <2>2. ASSUME NEW b \in Accounts PROVE Known(b)' \in Int /\ Known(b)' <= Known(b)
    <3>1. StoredTwice(b) = 0 /\ StoredTwice(b)' = IF b = cur THEN amt ELSE 0
      BY <1>4 DEF Store, StoredTwice
    <3>2. \/ stored'[b] = stored[b]
          \/ b = cur /\ stored'[b] = stored[b] + amt
      BY <1>4, <2>0 DEF Store, IInv, TypeOK
    <3>3. amt \in Nat BY DEF NatInv
    <3> QED BY <2>1, <3>1, <3>2, <3>3, <1>a DEF Known
  <2> QED BY <2>1, <2>2, <1>0
<1>5. CASE DropPending
  <2>0. cur \in Accounts BY <1>5 DEF DropPending, IInv, LoopInv, TypeOK
  <2>1. usage' = usage /\ unreported' = unreported /\ stored' = stored
    BY <1>5 DEF DropPending, workerVars
  <2>2. ASSUME NEW b \in Accounts PROVE Known(b)' \in Int /\ Known(b)' <= Known(b)
    <3>1. StoredTwice(b)' = 0 /\ StoredTwice(b) = IF b = cur THEN amt ELSE 0
      BY <1>5 DEF DropPending, StoredTwice
    <3>2. pending'[b] = IF b = cur THEN pending[b] - amt ELSE pending[b]
      BY <1>5, <2>0 DEF DropPending, IInv, TypeOK
    <3>3. amt \in Nat BY DEF NatInv
    <3> QED BY <2>1, <3>1, <3>2, <3>3, <1>a DEF Known
  <2> QED BY <2>1, <2>2, <1>0
<1>6. ASSUME NEW r \in Readers,
             (\E a \in Accounts : ReadStored(r, a)) \/ ReadDelayed(r) \/ ReadUsed(r)
      PROVE BelowUsage'
  BY <1>6 DEF ReadStored, ReadDelayed, ReadUsed, workerVars, storeVars, BelowUsage,
              Known, StoredTwice
<1>7. CASE Crash
  <2>1. ASSUME NEW b \in Accounts PROVE (Known(b) + unreported[b] <= usage[b])'
    <3>1. /\ stored'[b] = stored[b] /\ pending'[b] = 0 /\ unreported'[b] = 0
          /\ usage'[b] = usage[b] /\ StoredTwice(b)' = 0
      BY <1>7 DEF Crash, StoredTwice
    <3>2. Known(b)' = stored[b] BY <3>1, <1>a DEF Known
    <3> QED BY <3>1, <3>2, <1>a, <1>b, <1>c
  <2> QED BY <2>1 DEF BelowUsage
<1>8. CASE UNCHANGED vars
  BY <1>8 DEF vars, workerVars, storeVars, BelowUsage, Known, StoredTwice
<1> QED BY <1>1, <1>2, <1>3, <1>4, <1>5, <1>6, <1>7, <1>8 DEF Next

(* NeverOvercharged holds, with immediate and with delayed updates, where  *)
(* handlers only add and no reset or deletion runs: reports that a failing *)
(* provider refuses or a crash loses, a crash between the loop's store and *)
(* its drop included, leave an account with less than is used, never more. *)
THEOREM NobodyOvercharged ==
  ASSUME QuotaAssumption, Scannable = {}, Deletable = {}, Deltas \subseteq Nat
  PROVE  Spec => []NeverOvercharged
<1> DEFINE AInv == IInv /\ OwedInv /\ NatInv /\ BelowUsage
<1>1. Init => AInv
  <2>1. Init => NatInv BY DEF Init, NatInv, NothingOwed
  <2>2. Init => BelowUsage BY DEF Init, BelowUsage, Known, StoredTwice
  <2> QED BY <2>1, <2>2, InitInv, OwedInit
<1>2. AInv /\ [Next]_vars => AInv'
  <2>1. IInv => TypeOK BY DEF IInv
  <2> QED BY <2>1, InvStep, OwedStep, NatStep, BelowStep
<1>3. AInv => NeverOvercharged BY DEF BelowUsage, NeverOvercharged
<1> HIDE DEF AInv
<1> QED BY <1>1, <1>2, <1>3, PTL DEF Spec
=============================================================================

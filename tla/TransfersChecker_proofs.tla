---------------------- MODULE TransfersChecker_proofs ----------------------
(* Proofs about TransfersChecker, for any number of users, connections and  *)
(* transfers and any quotas.                                                *)
EXTENDS TransfersChecker, FiniteSetTheorems, TLAPS

LEMMA OwnerTyped == \A t \in Transfers : UserOf(t) \in Users
BY CheckerAssumption DEF Transfers, UserOf

(* What a quota leaves is an integer: more may have been used than it allows. *)
LEMMA AllowedTyped ==
  ASSUME TypeOK, NEW u \in Users
  PROVE /\ checkUserQuota(u).total \in Int
        /\ checkUserQuota(u).ul \in Int
        /\ checkUserQuota(u).dl \in Int
        /\ Left(quota[u].QuotaSize, used[u].size) \in Int
<1>1. quota[u] \in Quota /\ used[u] \in [size : Nat, ul : Nat, dl : Nat]
  BY CheckerAssumption DEF TypeOK
<1> QED BY <1>1 DEF Quota, checkUserQuota, Left, Used

LEMMA OverTyped ==
  ASSUME TypeOK, NEW u
  PROVE overquotaOf(u) \subseteq Transfers
<1>1. \A p \in check.taken : p.t \in Transfers
  BY DEF TypeOK, Check, Entry
<1> QED BY <1>1 DEF overquotaOf, TakenOf, TakenUp

(* A removal that is still to run is of a transfer that is over. *)
RemovedAreOver == \A t \in removing : transfer[t].st = "over"

IInv == TypeOK /\ RemovedAreOver /\ NoLostEntry

LEMMA Initially == Init => IInv
<1> SUFFICES ASSUME Init PROVE IInv
  OBVIOUS
<1>1. TypeOK
  <2>1. None \in BaseTransfer
    BY DEF None, BaseTransfer
  <2>2. check \in Check
    BY DEF Init, Check, Idle
  <2> QED BY <2>1, <2>2 DEF Init, TypeOK
<1>2. RemovedAreOver /\ NoLostEntry
  BY DEF Init, RemovedAreOver, NoLostEntry, None, Listed
<1> QED BY <1>1, <1>2 DEF IInv

LEMMA OpenKeeps ==
  ASSUME IInv, NEW t \in Transfers, NEW type \in Types[t[1]], Open(t, type)
  PROVE IInv'
<1> USE DEF IInv
<1>1. UserOf(t) \in Users /\ type \in {"upload", "download"}
  BY OwnerTyped, CheckerAssumption DEF Transfers
<1> DEFINE q == checkUserQuota(UserOf(t))
           r == [None EXCEPT
             !.st = "open", !.type = type, !.total = q.total, !.ul = q.ul, !.dl = q.dl,
             !.MaxWriteSize = IF type = "upload"
                              THEN Left(quota[UserOf(t)].QuotaSize, used[UserOf(t)].size) ELSE 0]
<1>2. r \in BaseTransfer /\ r.st = "open"
  <2>1. q.total \in Int /\ q.ul \in Int /\ q.dl \in Int
        /\ Left(quota[UserOf(t)].QuotaSize, used[UserOf(t)].size) \in Int
    BY <1>1, AllowedTyped
  <2> DEFINE w == IF type = "upload"
                  THEN Left(quota[UserOf(t)].QuotaSize, used[UserOf(t)].size) ELSE 0
  <2>2. w \in Int
    BY <2>1
  <2>4. r = [None EXCEPT !.st = "open", !.type = type, !.total = q.total, !.ul = q.ul,
                        !.dl = q.dl, !.MaxWriteSize = w]
    OBVIOUS
  <2> HIDE DEF q, w, r
  <2>3. r = [st |-> "open", type |-> type, moved |-> 0, size |-> 0, MaxWriteSize |-> w,
             ul |-> q.ul, dl |-> q.dl, total |-> q.total,
             ErrTransfer |-> "none", AbortTransfer |-> FALSE]
    BY <2>4 DEF None
  <2> QED BY <1>1, <2>1, <2>2, <2>3 DEF BaseTransfer
<1>3. /\ transfer' = [transfer EXCEPT ![t] = r]
      /\ adding' = IF Limited(r) THEN adding \cup {t} ELSE adding
      /\ transfer[t].st = "none"
      /\ UNCHANGED <<quota, used, removing, entries, current, check>>
  BY DEF Open
<1> HIDE DEF r
<1>4. TypeOK'
  BY <1>2, <1>3 DEF TypeOK, Check
<1>5. RemovedAreOver'
  BY <1>3 DEF TypeOK, RemovedAreOver
<1>6. NoLostEntry'
  BY <1>3 DEF TypeOK, NoLostEntry, Listed
<1> QED BY <1>4, <1>5, <1>6

(* A step that changes one transfer and neither the checker's lists nor     *)
(* whether the transfer is listed and limited.                              *)
LEMMA OneTransfer ==
  ASSUME IInv, NEW t \in Transfers, NEW r \in BaseTransfer,
         transfer' = [transfer EXCEPT ![t] = r],
         Listed(t), r.st \in {"open", "charged"},
         Limited(r) = Limited(transfer[t]),
         used' \in [Users -> [size : Nat, ul : Nat, dl : Nat]],
         UNCHANGED <<quota, adding, removing, entries, current, check>>
  PROVE IInv'
<1> USE DEF IInv
<1>1. TypeOK'
  BY DEF TypeOK, Check
<1>2. RemovedAreOver'
  BY DEF TypeOK, RemovedAreOver, Listed
<1>3. NoLostEntry'
  BY DEF TypeOK, NoLostEntry, Listed
<1> QED BY <1>1, <1>2, <1>3

LEMMA MoveKeeps ==
  ASSUME IInv, NEW t \in Transfers, Move(t)
  PROVE IInv'
<1> DEFINE n == transfer[t].moved + 1
           r == [transfer[t] EXCEPT !.moved = n, !.size = n,
                  !.ErrTransfer = IF @ = "none" /\ Exceeded(transfer[t], n) THEN "quota" ELSE @]
           err == IF transfer[t].ErrTransfer = "none" /\ Exceeded(transfer[t], n)
                  THEN "quota" ELSE transfer[t].ErrTransfer
<1>1. transfer[t] \in BaseTransfer /\ used \in [Users -> [size : Nat, ul : Nat, dl : Nat]]
  BY DEF IInv, TypeOK
<1>2. r \in BaseTransfer /\ r.st = transfer[t].st /\ Limited(r) = Limited(transfer[t])
  <2>1. n \in Nat /\ err \in {"none", "quota"}
    BY <1>1 DEF BaseTransfer
  <2>2. r = [transfer[t] EXCEPT !.moved = n, !.size = n, !.ErrTransfer = err]
    BY <1>1 DEF BaseTransfer
  <2> HIDE DEF n, err, r
  <2> QED BY <1>1, <2>1, <2>2 DEF BaseTransfer, Limited, HasSizeLimits
<1>3. transfer' = [transfer EXCEPT ![t] = r]
  BY <1>1 DEF Move, IInv, TypeOK, BaseTransfer
<1> HIDE DEF r
<1> QED BY <1>1, <1>2, <1>3, OneTransfer DEF Move, IsOpen, Listed

LEMMA AbortedKeeps ==
  ASSUME IInv, NEW t \in Transfers, Aborted(t)
  PROVE IInv'
<1> DEFINE r == [transfer[t] EXCEPT !.ErrTransfer = "quota"]
<1>1. transfer[t] \in BaseTransfer /\ used \in [Users -> [size : Nat, ul : Nat, dl : Nat]]
  BY DEF IInv, TypeOK
<1>2. r \in BaseTransfer /\ r.st = transfer[t].st /\ Limited(r) = Limited(transfer[t])
  BY <1>1 DEF BaseTransfer, Limited, HasSizeLimits
<1>3. transfer' = [transfer EXCEPT ![t] = r]
  BY DEF Aborted, IInv, TypeOK
<1> HIDE DEF r
<1> QED BY <1>1, <1>2, <1>3, OneTransfer DEF Aborted, IsOpen, Listed

LEMMA CloseKeeps ==
  ASSUME IInv, NEW t \in Transfers, Close(t)
  PROVE IInv'
<1> DEFINE u == UserOf(t)
           size == IF transfer[t].type = "upload" /\ transfer[t].ErrTransfer = "quota"
                   THEN 0 ELSE transfer[t].size
           r == [transfer[t] EXCEPT !.st = "charged", !.size = size]
           n == IF HasSizeLimits(transfer[t]) THEN transfer[t].moved ELSE 0
<1>1. /\ transfer[t] \in BaseTransfer /\ u \in Users
      /\ used \in [Users -> [size : Nat, ul : Nat, dl : Nat]]
  BY OwnerTyped DEF IInv, TypeOK
<1>2. size \in Nat /\ n \in Nat
  BY <1>1 DEF BaseTransfer
<1>3. r \in BaseTransfer /\ r.st = "charged" /\ Limited(r) = Limited(transfer[t])
  <2> HIDE DEF size
  <2> QED BY <1>1, <1>2 DEF BaseTransfer, Limited, HasSizeLimits
<1>4. transfer' = [transfer EXCEPT ![t] = r]
  BY DEF Close, IInv, TypeOK
<1>5. used' = IF transfer[t].type = "upload"
              THEN [used EXCEPT ![u].ul = @ + n, ![u].size = @ + size]
              ELSE [used EXCEPT ![u].dl = @ + n]
  BY DEF Close
<1>6. used' \in [Users -> [size : Nat, ul : Nat, dl : Nat]]
  <2> HIDE DEF size, n, u
  <2>1. used[u] \in [size : Nat, ul : Nat, dl : Nat]
    BY <1>1
  <2>2. /\ used[u].ul + n \in Nat /\ used[u].dl + n \in Nat
        /\ used[u].size + size \in Nat
    BY <1>2, <2>1
  <2>3. CASE transfer[t].type = "upload"
    BY <1>1, <1>5, <2>1, <2>2, <2>3
  <2>4. CASE transfer[t].type # "upload"
    BY <1>1, <1>5, <2>1, <2>2, <2>4
  <2> QED BY <2>3, <2>4
<1> HIDE DEF r
<1> QED BY <1>3, <1>4, <1>6, OneTransfer DEF Close, IsOpen, Listed

LEMMA RemoveTransferKeeps ==
  ASSUME IInv, NEW t \in Transfers, RemoveTransfer(t)
  PROVE IInv'
<1> USE DEF IInv
<1> DEFINE r == [None EXCEPT !.st = "over", !.type = TypeOf(t)]
<1>1. r \in BaseTransfer /\ r.st = "over"
  <2>1. transfer[t].type \in {"none", "upload", "download"}
    BY DEF TypeOK, BaseTransfer
  <2>2. r = [None EXCEPT !.st = "over", !.type = transfer[t].type]
    BY DEF TypeOf
  <2> HIDE DEF r
  <2>3. r = [st |-> "over", type |-> transfer[t].type, moved |-> 0, size |-> 0,
             MaxWriteSize |-> 0, ul |-> 0, dl |-> 0, total |-> 0,
             ErrTransfer |-> "none", AbortTransfer |-> FALSE]
    BY <2>2 DEF None
  <2> QED BY <2>1, <2>3 DEF BaseTransfer
<1>2. transfer' = [transfer EXCEPT ![t] = r]
  BY DEF RemoveTransfer
<1> HIDE DEF r
<1>3. TypeOK'
  BY <1>1, <1>2 DEF RemoveTransfer, TypeOK, Check
<1>4. RemovedAreOver'
  BY <1>1, <1>2 DEF RemoveTransfer, TypeOK, RemovedAreOver
<1>5. NoLostEntry'
  BY <1>1, <1>2 DEF RemoveTransfer, TypeOK, NoLostEntry, Listed
<1> QED BY <1>3, <1>4, <1>5

LEMMA GoroutinesKeep ==
  ASSUME IInv, NEW t \in Transfers, CheckerAdd(t) \/ CheckerRemove(t)
  PROVE IInv'
<1> USE DEF IInv
<1>1. TypeOK'
  BY DEF CheckerAdd, CheckerRemove, TypeOK, Check
<1>2. RemovedAreOver'
  BY DEF CheckerAdd, CheckerRemove, RemovedAreOver
<1>3. NoLostEntry'
  BY DEF CheckerAdd, CheckerRemove, NoLostEntry, RemovedAreOver, Listed
<1> QED BY <1>1, <1>2, <1>3

(* The types of the variables a step of the check may change. *)
LEMMA CheckTyped ==
  ASSUME IInv, NEW g, NEW pc \in {"idle", "sizes", "fetch", "signal"},
         NEW updates \in SUBSET Entry, NEW taken \in SUBSET Entry, NEW over \in SUBSET Transfers,
         check' = [pc |-> pc, updates |-> updates, taken |-> taken, over |-> over, floor |-> g],
         current' \in [Transfers -> Nat], UNCHANGED <<state, entries>>
  PROVE IInv'
<1> USE DEF IInv, state
<1>1. (check \in Check)'
  BY DEF Check
<1>2. TypeOK'
  BY <1>1 DEF TypeOK
<1>3. RemovedAreOver' /\ NoLostEntry'
  BY DEF RemovedAreOver, NoLostEntry, Listed
<1> QED BY <1>2, <1>3

LEMMA CheckFields ==
  ASSUME IInv
  PROVE /\ check = [pc |-> check.pc, updates |-> check.updates, taken |-> check.taken,
                    over |-> check.over, floor |-> check.floor]
        /\ check.pc \in {"idle", "sizes", "fetch", "signal"}
        /\ check.updates \in SUBSET Entry /\ check.taken \in SUBSET Entry
        /\ check.over \in SUBSET Transfers /\ current \in [Transfers -> Nat]
<1>1. check \in Check /\ current \in [Transfers -> Nat]
  BY DEF IInv, TypeOK
<1> QED BY <1>1 DEF Check

LEMMA CheckKeeps ==
  ASSUME IInv, CheckStep
  PROVE IInv'
<1>0. /\ current \in [Transfers -> Nat] /\ entries \subseteq Transfers
      /\ \A t \in Transfers : transfer[t].size \in Nat
  BY DEF IInv, TypeOK, BaseTransfer
<1>1. CASE CheckBegins
  <2> DEFINE up == {[t |-> t, size |-> transfer[t].size] :
                      t \in {x \in Transfers : Listed(x) /\ Limited(transfer[x])}}
  <2>1. up \in SUBSET Entry
    BY <1>0 DEF Entry
  <2>2. check' = [pc |-> "sizes", updates |-> up, taken |-> {}, over |-> {}, floor |-> movedSoFar]
    BY <1>1 DEF CheckBegins, Idle
  <2> HIDE DEF up
  <2>3. current' \in [Transfers -> Nat] /\ UNCHANGED <<state, entries>>
    BY <1>0, <1>1 DEF CheckBegins
  <2>4. {} \in SUBSET Entry /\ {} \in SUBSET Transfers
    OBVIOUS
  <2> QED BY <2>1, <2>2, <2>3, <2>4, CheckTyped
<1>2. ASSUME NEW p \in check.updates, UpdateTransferCurrentSizes(p) PROVE IInv'
  <2>1. check' = [pc |-> check.pc, updates |-> check.updates \ {p}, taken |-> check.taken,
                  over |-> check.over, floor |-> check.floor]
    BY <1>2, CheckFields DEF UpdateTransferCurrentSizes
  <2>2. p \in Entry
    BY <1>2, CheckFields
  <2>3. current' \in [Transfers -> Nat]
    BY <1>0, <1>2, <2>2 DEF UpdateTransferCurrentSizes, Entry
  <2> QED BY <1>2, <2>1, <2>3, CheckFields, CheckTyped DEF UpdateTransferCurrentSizes
<1>3. CASE Aggregate
  <2> DEFINE tk == {[t |-> t, size |-> current[t]] : t \in entries}
  <2>1. tk \in SUBSET Entry
    BY <1>0 DEF Entry
  <2>2. check' = [pc |-> "fetch", updates |-> check.updates, taken |-> tk,
                  over |-> check.over, floor |-> check.floor]
    BY <1>3, CheckFields DEF Aggregate
  <2> HIDE DEF tk
  <2>3. current' \in [Transfers -> Nat] /\ UNCHANGED <<state, entries>>
    BY <1>0, <1>3 DEF Aggregate
  <2> QED BY <2>1, <2>2, <2>3, CheckFields, CheckTyped
<1>4. CASE GetOverquotaTransfers
  <2> DEFINE ov == UNION {overquotaOf(u) : u \in usersToFetch}
  <2>1. ov \in SUBSET Transfers
    BY OverTyped DEF IInv
  <2>2. check' = IF ov = {} THEN Idle ELSE [Idle EXCEPT !.pc = "signal", !.over = ov]
    BY <1>4 DEF GetOverquotaTransfers
  <2> HIDE DEF ov
  <2>3. \E pc \in {"idle", "signal"} :
          check' = [pc |-> pc, updates |-> {}, taken |-> {}, over |-> ov, floor |-> Idle.floor]
    BY <2>2 DEF Idle
  <2> QED BY <1>0, <1>4, <2>1, <2>3, CheckTyped DEF GetOverquotaTransfers
<1>5. CASE FetchFails
  <2>1. check' = [pc |-> "idle", updates |-> {}, taken |-> {}, over |-> {}, floor |-> Idle.floor]
    BY <1>5 DEF FetchFails, Idle
  <2> QED BY <1>0, <1>5, <2>1, CheckTyped DEF FetchFails
<1>6. CASE SignalTransferClose
  <2>1. TypeOK'
    <3>1. (check \in Check)'
      BY <1>6 DEF SignalTransferClose, Idle, Check
    <3>2. (transfer \in [Transfers -> BaseTransfer])'
      <4>1. \A t \in Transfers : transfer[t] \in BaseTransfer
        BY DEF IInv, TypeOK
      <4>2. \A t \in Transfers : [transfer[t] EXCEPT !.AbortTransfer = TRUE] \in BaseTransfer
        BY <4>1 DEF BaseTransfer
      <4> QED BY <1>6, <4>1, <4>2 DEF SignalTransferClose
    <3> QED BY <1>6, <3>1, <3>2 DEF SignalTransferClose, IInv, TypeOK
  <2>2. \A t \in Transfers :
          transfer'[t].st = transfer[t].st /\ Limited(transfer'[t]) = Limited(transfer[t])
    BY <1>6 DEF SignalTransferClose, IInv, TypeOK, BaseTransfer, Limited, HasSizeLimits
  <2>3. \A t \in removing : t \in Transfers
    BY DEF IInv, TypeOK
  <2> QED BY <1>6, <2>1, <2>2, <2>3 DEF SignalTransferClose, IInv, RemovedAreOver, NoLostEntry, Listed
<1> QED BY <1>1, <1>2, <1>3, <1>4, <1>5, <1>6 DEF CheckStep

LEMMA Step ==
  ASSUME IInv, [Next]_vars
  PROVE IInv'
<1>1. ASSUME NEW t \in Transfers, TransferStep(t) PROVE IInv'
  BY <1>1, OpenKeeps, MoveKeeps, AbortedKeeps, CloseKeeps, RemoveTransferKeeps, GoroutinesKeep DEF TransferStep
<1>2. CASE UNCHANGED vars
  BY <1>2 DEF vars, IInv, TypeOK, Check, RemovedAreOver, NoLostEntry, Listed
<1> QED BY <1>1, <1>2, CheckKeeps DEF Next

(* RemoveTransfer only runs for transfers that are over, and a listed       *)
(* transfer with a limit is among the entries, or about to be.              *)
THEOREM Invariance == Spec => []IInv
BY Initially, Step, PTL DEF Spec

(* The types of the variables, whatever interleaves. *)
THEOREM TypeCorrect == Spec => []TypeOK
BY Invariance, PTL DEF IInv

(* A transfer with a limit never misses its entry in the checker: only the  *)
(* removal of a transfer that is over takes one away (AddTransfer,          *)
(* RemoveTransfer and the checker's lists).                                 *)
THEOREM EntriesKept == Spec => []NoLostEntry
BY Invariance, PTL DEF IInv

-----------------------------------------------------------------------------
(* Sizes of transfers and their sums                                        *)

(* One size for each transfer. *)
Sizes(S) == S \subseteq Entry /\ \A p, q \in S : p.t = q.t => p = q

LEMMA SizesFinite ==
  ASSUME NEW S, Sizes(S)
  PROVE IsFiniteSet(S)
<1> DEFINE f == [p \in S |-> p.t]
<1>1. IsFiniteSet(Transfers)
  BY CheckerAssumption, FS_Product DEF Transfers
<1>2. f \in Injection(S, Transfers)
  <2>1. f \in [S -> Transfers]
    BY DEF Sizes, Entry
  <2>2. \A p, q \in S : f[p] = f[q] => p = q
    BY DEF Sizes
  <2> QED BY <2>1, <2>2 DEF Injection, IsInjective
<1> HIDE DEF f
<1> QED BY <1>1, <1>2, FS_Injection

LEMMA BytesFinite ==
  ASSUME NEW S, Sizes(S)
  PROVE IsFiniteSet(Bytes(S)) /\ Size(S) \in Nat
<1> DEFINE f == [s \in S |-> {s.t} \X (1 .. s.size)]
           B == {{s.t} \X (1 .. s.size) : s \in S}
<1>1. f \in Surjection(S, B)
  <2>1. f \in [S -> B]
    OBVIOUS
  <2>2. \A b \in B : \E s \in S : f[s] = b
    OBVIOUS
  <2> HIDE DEF f, B
  <2> QED BY <2>1, <2>2 DEF Surjection
<1>2. IsFiniteSet(B)
  <2> HIDE DEF f, B
  <2> QED BY <1>1, SizesFinite, FS_Surjection
<1>3. \A b \in B : IsFiniteSet(b)
  <2> SUFFICES ASSUME NEW s \in S PROVE IsFiniteSet({s.t} \X (1 .. s.size))
    OBVIOUS
  <2>1. s.size \in Int
    BY DEF Sizes, Entry
  <2>2. IsFiniteSet({s.t})
    BY FS_Singleton
  <2>3. IsFiniteSet(1 .. s.size)
    BY <2>1, FS_Interval
  <2> QED BY <2>2, <2>3, FS_Product
<1>4. IsFiniteSet(UNION B)
  <2> HIDE DEF B
  <2> QED BY <1>2, <1>3, FS_UNION
<1>5. IsFiniteSet(Bytes(S))
  BY <1>4 DEF Bytes
<1> QED BY <1>5, FS_CardinalityType DEF Size

(* A byte of a set of sizes is a byte of one of them. *)
LEMMA BytesOf ==
  ASSUME NEW S, NEW b
  PROVE b \in Bytes(S) <=> \E s \in S : b \in {s.t} \X (1 .. s.size)
BY DEF Bytes

LEMMA SizeAtMost ==
  ASSUME NEW S, NEW T, Sizes(S), Sizes(T), Bytes(S) \subseteq Bytes(T)
  PROVE Size(S) <= Size(T)
<1>1. IsFiniteSet(Bytes(T))
  BY BytesFinite
<1> QED BY <1>1, FS_Subset DEF Size

LEMMA SizeOfTwo ==
  ASSUME NEW S, NEW T, NEW U, Sizes(S), Sizes(T), Sizes(U),
         Bytes(S) \subseteq Bytes(T) \cup Bytes(U)
  PROVE Size(S) <= Size(T) + Size(U)
<1>1. IsFiniteSet(Bytes(T)) /\ IsFiniteSet(Bytes(U))
  BY BytesFinite
<1>2. /\ IsFiniteSet(Bytes(T) \cup Bytes(U))
      /\ Cardinality(Bytes(T) \cup Bytes(U)) =
           Cardinality(Bytes(T)) + Cardinality(Bytes(U)) - Cardinality(Bytes(T) \cap Bytes(U))
  BY <1>1, FS_Union
<1>3. /\ Cardinality(Bytes(S)) <= Cardinality(Bytes(T) \cup Bytes(U))
      /\ Cardinality(Bytes(S)) \in Nat
  BY <1>2, BytesFinite, FS_Subset DEF Size
<1>4. Cardinality(Bytes(T) \cap Bytes(U)) \in Nat
  BY <1>1, FS_Intersection, FS_CardinalityType
<1>5. Cardinality(Bytes(T)) \in Nat /\ Cardinality(Bytes(U)) \in Nat
  BY <1>1, FS_CardinalityType
<1> QED BY <1>2, <1>3, <1>4, <1>5 DEF Size

LEMMA SizeOfOne ==
  ASSUME NEW t \in Transfers, NEW n \in Nat
  PROVE /\ Sizes({[t |-> t, size |-> n]})
        /\ Size({[t |-> t, size |-> n]}) = n
<1> DEFINE r == [t |-> t, size |-> n]
<1>1. Sizes({r})
  BY DEF Sizes, Entry
<1>2. Bytes({r}) = {t} \X (1 .. n)
  BY DEF Bytes
<1>3. Cardinality({t} \X (1 .. n)) = n
  <2>1. IsFiniteSet({t}) /\ Cardinality({t}) = 1
    BY FS_Singleton
  <2>2. IsFiniteSet(1 .. n) /\ Cardinality(1 .. n) = n
    BY FS_Interval
  <2>3. Cardinality({t} \X (1 .. n)) = 1 * n
    BY <2>1, <2>2, FS_Product
  <2> QED BY <2>3
<1> QED BY <1>1, <1>2, <1>3 DEF Size

-----------------------------------------------------------------------------
(* What the checker knows of the transfers                                  *)

(* A transfer is started once: before that nothing of it is known, and its  *)
(* entry is being added, or is there, but not both.                         *)
StartedOnce ==
  /\ adding \cap entries = {}
  /\ \A t \in Transfers :
       IF transfer[t].st = "none"
       THEN /\ t \notin adding \cup entries \cup removing
            /\ current[t] = 0
            /\ \A p \in check.updates \cup check.taken : p.t # t
       ELSE TypeOf(t) \in {"upload", "download"}

(* The sizes that are read, stored and copied are never ahead of what the   *)
(* transfer has moved, and there is one for each transfer.                  *)
NotAhead(sizes) ==
  /\ \A p \in sizes : Listed(p.t) => p.size <= transfer[p.t].moved
  /\ \A p, q \in sizes : p.t = q.t => p = q

SizesBehind ==
  /\ \A t \in Transfers : IsOpen(t) => transfer[t].size = transfer[t].moved
  /\ \A t \in Transfers : Listed(t) => /\ current[t] <= transfer[t].moved
                                       /\ transfer[t].size <= transfer[t].moved
  /\ NotAhead(check.updates) /\ NotAhead(check.taken)
  /\ check.pc # "sizes" => check.updates = {}

(* What the check will count of the chargeable transfers: sizes that are    *)
(* still to be stored, and those that are.                                  *)
ToStore(T) == {p \in check.updates : p.t \in T}
StoredFor(T) ==
  {[t |-> t, size |-> current[t]] : t \in {x \in T : \A p \in check.updates : p.t # x}}
Pending(u) == ToStore(Chargeable(u)) \cup StoredFor(Chargeable(u))

FloorKept ==
  /\ check.floor \in [Users -> Nat]
  /\ check.pc = "sizes" =>
       \A u \in Users : check.floor[u] <= Used(u) + Size(Pending(u))

JInv == IInv /\ StartedOnce /\ SizesBehind /\ FloorKept /\ NothingUncounted

LEMMA TakenSizes ==
  ASSUME TypeOK, SizesBehind, NEW u
  PROVE Sizes(TakenOf(u))
BY DEF TypeOK, Check, SizesBehind, NotAhead, TakenOf, Sizes

LEMMA PendingSizes == TypeOK /\ SizesBehind => \A u : Sizes(Pending(u))
<1> SUFFICES ASSUME TypeOK, SizesBehind, NEW u PROVE Sizes(Pending(u))
  OBVIOUS
<1>1. ToStore(Chargeable(u)) \subseteq Entry
  BY DEF TypeOK, Check, ToStore
<1>2. StoredFor(Chargeable(u)) \subseteq Entry
  BY DEF TypeOK, StoredFor, Chargeable, Entry
<1>3. ASSUME NEW p \in Pending(u), NEW q \in Pending(u), p.t = q.t PROVE p = q
  BY <1>3 DEF Pending, ToStore, StoredFor, SizesBehind, NotAhead
<1> QED BY <1>1, <1>2, <1>3 DEF Sizes, Pending

LEMMA PendingSizesNext == (TypeOK /\ SizesBehind => \A u : Sizes(Pending(u)))'
BY PendingSizes, PTL

(* A step that charges no less and forgets none of the sizes to come.       *)
LEMMA FloorFrame ==
  ASSUME JInv, TypeOK', SizesBehind', check' = check,
         \A u \in Users : Used(u) <= Used(u)' /\ Pending(u) \subseteq Pending(u)'
  PROVE FloorKept' /\ NothingUncounted'
<1>0. /\ \A u \in Users : Used(u) \in Nat /\ Used(u)' \in Nat
      /\ check.floor \in [Users -> Nat]
  BY DEF JInv, IInv, TypeOK, Used, FloorKept
<1>1. ASSUME check.pc = "sizes", NEW u \in Users
      PROVE check.floor[u] <= Used(u)' + Size(Pending(u)')
  <2>1. check.floor[u] <= Used(u) + Size(Pending(u))
    BY <1>1 DEF JInv, FloorKept
  <2>2. Sizes(Pending(u)) /\ Sizes(Pending(u)')
    <3>1. Sizes(Pending(u)) BY PendingSizes DEF JInv, IInv
    <3>3. Sizes(Pending(u))' BY PendingSizesNext
    <3> QED BY <3>1, <3>3 DEF Sizes, Entry
  <2>3. Bytes(Pending(u)) \subseteq Bytes(Pending(u)')
    BY DEF Bytes
  <2>4. Size(Pending(u)) <= Size(Pending(u)')
    BY <2>2, <2>3, SizeAtMost
  <2>5. Size(Pending(u)) \in Nat /\ Size(Pending(u)') \in Nat
    BY <2>2, BytesFinite
  <2> QED BY <1>0, <2>1, <2>4, <2>5
<1>2. FloorKept'
  BY <1>0, <1>1 DEF FloorKept, Size, Bytes
<1>3. ASSUME check.pc = "fetch", NEW u \in Users
      PROVE Used(u)' + Size(TakenOf(u)) >= check.floor[u]
  <2>1. Used(u) + Size(TakenOf(u)) >= check.floor[u]
    BY <1>3 DEF JInv, NothingUncounted
  <2>2. Size(TakenOf(u)) \in Nat
    BY TakenSizes, BytesFinite DEF JInv, IInv
  <2> QED BY <1>0, <2>1, <2>2
<1>4. NothingUncounted'
  BY <1>3 DEF NothingUncounted, TakenOf, Size, Bytes
<1> QED BY <1>2, <1>4

(* A step of one transfer that has been started.                            *)
LEMMA Progress ==
  ASSUME JInv, NEW t \in Transfers, NEW r \in BaseTransfer,
         transfer' = [transfer EXCEPT ![t] = r],
         transfer[t].st # "none", r.st # "none", r.type = transfer[t].type,
         r.st \in {"open", "charged"} =>
           Listed(t) /\ r.moved >= transfer[t].moved /\ r.size <= r.moved,
         r.st = "open" => r.size = r.moved,
         removing' \subseteq removing \cup {t},
         UNCHANGED <<adding, entries, current, check>>
  PROVE StartedOnce' /\ SizesBehind'
<1>0. /\ DOMAIN transfer = Transfers
      /\ \A x \in Transfers : /\ transfer[x].moved \in Nat /\ transfer[x].size \in Nat
                              /\ current[x] \in Nat
      /\ r.moved \in Nat /\ r.size \in Nat
      /\ check.updates \subseteq Entry /\ check.taken \subseteq Entry
  BY DEF JInv, IInv, TypeOK, BaseTransfer, Check
<1>1. \A x \in Transfers : transfer'[x] = IF x = t THEN r ELSE transfer[x]
  BY <1>0
<1>2. StartedOnce'
  BY <1>1 DEF JInv, StartedOnce, TypeOf
<1>3. \A x \in Transfers : Listed(x)' => Listed(x) /\ transfer[x].moved <= transfer'[x].moved
  BY <1>0, <1>1 DEF Listed
<1>4. ASSUME NEW S \in SUBSET Entry, NotAhead(S)
      PROVE \A p \in S : Listed(p.t)' => p.size <= transfer'[p.t].moved
  <2> SUFFICES ASSUME NEW p \in S, Listed(p.t)' PROVE p.size <= transfer'[p.t].moved
    OBVIOUS
  <2>1. p.t \in Transfers /\ p.size \in Nat
    BY DEF Entry
  <2>2. p.size <= transfer[p.t].moved /\ transfer[p.t].moved <= transfer'[p.t].moved
    BY <1>3, <1>4, <2>1 DEF NotAhead
  <2>3. transfer'[p.t].moved \in Nat
    BY <1>0, <1>1, <2>1
  <2> QED BY <1>0, <2>1, <2>2, <2>3
<1>5. NotAhead(check.updates)' /\ NotAhead(check.taken)'
  BY <1>0, <1>4 DEF JInv, SizesBehind, NotAhead
<1>6. \A x \in Transfers : IsOpen(x)' => transfer'[x].size = transfer'[x].moved
  BY <1>1 DEF JInv, SizesBehind, IsOpen
<1>7. \A x \in Transfers : Listed(x)' => /\ current[x] <= transfer'[x].moved
                                         /\ transfer'[x].size <= transfer'[x].moved
  BY <1>0, <1>1 DEF JInv, SizesBehind, Listed
<1> QED BY <1>2, <1>5, <1>6, <1>7 DEF JInv, SizesBehind

(* ... and what is pending when it stays open, or was not, with its quota.  *)
LEMMA SamePending ==
  ASSUME TypeOK, NEW t \in Transfers, NEW r \in BaseTransfer,
         transfer' = [transfer EXCEPT ![t] = r],
         (r.st = "open") = (transfer[t].st = "open"),
         r.st = "open" => HasSizeLimits(r) = HasSizeLimits(transfer[t]),
         UNCHANGED <<entries, current, check>>, NEW u
  PROVE Pending(u)' = Pending(u)
<1>1. \A x \in Transfers : transfer'[x] = IF x = t THEN r ELSE transfer[x]
  BY DEF TypeOK
<1>2. Chargeable(u)' = Chargeable(u)
  BY <1>1 DEF TypeOK, Chargeable, IsOpen
<1> QED BY <1>2 DEF Pending, ToStore, StoredFor

LEMMA OpenCounts ==
  ASSUME JInv, IInv', NEW t \in Transfers, NEW type \in Types[t[1]], Open(t, type)
  PROVE JInv'
<1>0. /\ \A x \in Transfers : /\ transfer[x] \in BaseTransfer /\ current[x] \in Nat
      /\ check.updates \subseteq Entry /\ check.taken \subseteq Entry
  BY DEF JInv, IInv, TypeOK, Check
<1>1. /\ transfer'[t].st = "open" /\ transfer'[t].type = type
      /\ transfer'[t].moved = 0 /\ transfer'[t].size = 0
      /\ \A x \in Transfers \ {t} : transfer'[x] = transfer[x]
      /\ transfer[t].st = "none"
  BY DEF Open, JInv, IInv, TypeOK, None
<1>2. type \in {"upload", "download"}
  BY CheckerAssumption DEF Transfers
<1>3. /\ adding' \subseteq adding \cup {t}
      /\ UNCHANGED <<quota, used, removing, entries, current, check>>
  BY DEF Open
<1>4. /\ t \notin adding \cup entries \cup removing /\ current[t] = 0
      /\ \A p \in check.updates \cup check.taken : p.t # t
  BY <1>1 DEF JInv, StartedOnce
<1>5. StartedOnce'
  <2>1. (adding \cap entries = {})'
    BY <1>3, <1>4 DEF JInv, StartedOnce
  <2>2. ASSUME NEW x \in Transfers
        PROVE (IF transfer[x].st = "none"
               THEN /\ x \notin adding \cup entries \cup removing
                    /\ current[x] = 0
                    /\ \A p \in check.updates \cup check.taken : p.t # x
               ELSE TypeOf(x) \in {"upload", "download"})'
    BY <1>1, <1>2, <1>3 DEF JInv, StartedOnce, TypeOf
  <2> QED BY <2>1, <2>2 DEF StartedOnce
<1>6. SizesBehind'
  <2>1. NotAhead(check.updates)' /\ NotAhead(check.taken)'
    BY <1>0, <1>1, <1>3, <1>4 DEF JInv, SizesBehind, NotAhead, Listed, Entry
  <2>2. \A x \in Transfers : IsOpen(x)' => transfer'[x].size = transfer'[x].moved
    BY <1>1 DEF JInv, SizesBehind, IsOpen
  <2>3. \A x \in Transfers : Listed(x)' => /\ current'[x] <= transfer'[x].moved
                                           /\ transfer'[x].size <= transfer'[x].moved
    BY <1>1, <1>3, <1>4 DEF JInv, SizesBehind, Listed
  <2> QED BY <1>3, <2>1, <2>2, <2>3 DEF JInv, SizesBehind
<1>7. ASSUME NEW u \in Users PROVE Used(u) <= Used(u)' /\ Pending(u) \subseteq Pending(u)'
  <2>1. Chargeable(u)' = Chargeable(u)
    BY <1>1, <1>3, <1>4 DEF JInv, IInv, TypeOK, Chargeable, IsOpen
  <2>2. Pending(u)' = Pending(u)
    BY <1>3, <2>1 DEF Pending, ToStore, StoredFor
  <2>3. Used(u) \in Nat /\ Used(u)' = Used(u)
    BY <1>3 DEF JInv, IInv, TypeOK, Used
  <2> QED BY <2>2, <2>3
<1>8. FloorKept' /\ NothingUncounted'
  BY <1>3, <1>6, <1>7, FloorFrame DEF IInv
<1> QED BY <1>5, <1>6, <1>8 DEF JInv

(* A step of one transfer that neither charges nor ends it.                 *)
LEMMA MoveCounts ==
  ASSUME JInv, IInv', NEW t \in Transfers, Move(t) \/ Aborted(t) \/ RemoveTransfer(t)
  PROVE JInv'
<1>1. /\ transfer[t] \in BaseTransfer /\ transfer'[t] \in BaseTransfer
      /\ TypeOK /\ TypeOK'
  BY DEF JInv, IInv, TypeOK
<1>2. transfer' = [transfer EXCEPT ![t] = transfer'[t]]
  BY DEF JInv, IInv, TypeOK, Move, Aborted, RemoveTransfer
<1>3. /\ transfer[t].st # "none" /\ transfer'[t].st # "none"
      /\ transfer'[t].type = transfer[t].type
      /\ (transfer'[t].st = "open") = (transfer[t].st = "open")
      /\ transfer'[t].st \in {"open", "charged"} =>
           /\ Listed(t) /\ transfer'[t].moved >= transfer[t].moved
           /\ transfer'[t].size = transfer'[t].moved
           /\ HasSizeLimits(transfer'[t]) = HasSizeLimits(transfer[t])
  <2>1. CASE Move(t)
    <3>1. transfer[t].st = "open" /\ transfer[t].moved \in Nat
      BY <1>1, <2>1 DEF Move, IsOpen, BaseTransfer
    <3>2. /\ transfer'[t].st = "open" /\ transfer'[t].type = transfer[t].type
          /\ transfer'[t].moved = transfer[t].moved + 1
          /\ transfer'[t].size = transfer[t].moved + 1
          /\ transfer'[t].total = transfer[t].total
          /\ transfer'[t].ul = transfer[t].ul /\ transfer'[t].dl = transfer[t].dl
      BY <1>1, <2>1, <3>1 DEF Move, JInv, IInv, TypeOK, BaseTransfer
    <3> QED BY <3>1, <3>2 DEF Listed, HasSizeLimits
  <2>2. CASE Aborted(t)
    <3>1. transfer[t].st = "open" /\ transfer[t].moved \in Nat
      BY <1>1, <2>2 DEF Aborted, IsOpen, BaseTransfer
    <3>2. /\ transfer'[t].st = "open" /\ transfer'[t].type = transfer[t].type
          /\ transfer'[t].moved = transfer[t].moved
          /\ transfer'[t].size = transfer[t].size
          /\ transfer'[t].total = transfer[t].total
          /\ transfer'[t].ul = transfer[t].ul /\ transfer'[t].dl = transfer[t].dl
      BY <1>1, <2>2, <3>1 DEF Aborted, JInv, IInv, TypeOK, BaseTransfer
    <3>3. transfer[t].size = transfer[t].moved
      BY <2>2 DEF Aborted, JInv, SizesBehind
    <3> QED BY <3>1, <3>2, <3>3 DEF Listed, HasSizeLimits
  <2>3. CASE RemoveTransfer(t)
    <3>1. transfer[t].st = "charged"
      BY <2>3 DEF RemoveTransfer
    <3>2. transfer'[t] = [None EXCEPT !.st = "over", !.type = TypeOf(t)]
      BY <2>3 DEF RemoveTransfer, JInv, IInv, TypeOK
    <3>3. transfer'[t].st = "over" /\ transfer'[t].type = transfer[t].type
      BY <3>2 DEF None, TypeOf
    <3> QED BY <3>1, <3>3
  <2> QED BY <2>1, <2>2, <2>3
<1>4. /\ removing' \subseteq removing \cup {t}
      /\ UNCHANGED <<quota, used, adding, entries, current, check>>
  BY DEF Move, Aborted, RemoveTransfer
<1>5. \A n \in Nat : n <= n
  OBVIOUS
<1>6. transfer'[t].moved \in Nat
  BY <1>1 DEF BaseTransfer
<1>7. StartedOnce' /\ SizesBehind'
  BY <1>1, <1>2, <1>3, <1>4, <1>5, <1>6, Progress
<1>8. ASSUME NEW u \in Users PROVE Used(u) <= Used(u)' /\ Pending(u) \subseteq Pending(u)'
  <2>1. Pending(u)' = Pending(u)
    BY <1>1, <1>2, <1>3, <1>4, SamePending
  <2>2. Used(u) \in Nat /\ Used(u)' = Used(u)
    BY <1>4 DEF JInv, IInv, TypeOK, Used
  <2> QED BY <2>1, <2>2
<1>9. FloorKept' /\ NothingUncounted'
  BY <1>1, <1>4, <1>7, <1>8, FloorFrame
<1> QED BY <1>7, <1>9 DEF JInv

(* What Close charges covers what the check would have counted.             *)
LEMMA CloseCounts ==
  ASSUME JInv, IInv', NEW t \in Transfers, Close(t)
  PROVE JInv'
<1> DEFINE u0 == UserOf(t)
           r == transfer[t]
           n == IF HasSizeLimits(r) THEN r.moved ELSE 0
<1>1. /\ r \in BaseTransfer /\ transfer'[t] \in BaseTransfer
      /\ TypeOK /\ TypeOK' /\ u0 \in Users /\ n \in Nat
  BY OwnerTyped DEF JInv, IInv, TypeOK, BaseTransfer
<1>2. transfer' = [transfer EXCEPT ![t] = transfer'[t]]
  BY DEF JInv, IInv, TypeOK, Close
<1>3. /\ r.st = "open" /\ transfer'[t].st = "charged"
      /\ transfer'[t].type = r.type /\ transfer'[t].moved = r.moved
      /\ transfer'[t].size \in {0, r.size}
  BY <1>1 DEF Close, IsOpen, TypeOK, BaseTransfer
<1>4. UNCHANGED <<quota, adding, removing, entries, current, check>>
  BY DEF Close
<1>5. transfer'[t].size <= transfer'[t].moved /\ transfer'[t].moved >= r.moved /\ Listed(t)
  <2>1. r.size = r.moved /\ r.moved \in Nat
    BY <1>1, <1>3 DEF JInv, SizesBehind, IsOpen, BaseTransfer
  <2> QED BY <1>3, <2>1 DEF Listed
<1>6. StartedOnce' /\ SizesBehind'
  <2>1. removing' \subseteq removing \cup {t}
    BY <1>4
  <2> QED BY <1>1, <1>2, <1>3, <1>4, <1>5, <2>1, Progress
<1>7. \A u \in Users : /\ Used(u) \in Nat /\ Used(u)' \in Nat
                       /\ Used(u)' = IF u = u0 THEN Used(u) + n ELSE Used(u)
  <2> SUFFICES ASSUME NEW u \in Users
               PROVE  /\ Used(u) \in Nat /\ Used(u)' \in Nat
                      /\ Used(u)' = IF u = u0 THEN Used(u) + n ELSE Used(u)
    OBVIOUS
  <2>1. used[u].ul \in Nat /\ used[u].dl \in Nat
    BY <1>1 DEF TypeOK
  <2>2. CASE u # u0
    <3>1. used'[u] = used[u]
      BY <1>1, <2>2 DEF Close, TypeOK
    <3> QED BY <2>1, <2>2, <3>1 DEF Used
  <2>3. CASE u = u0
    <3>1. \/ used'[u].ul = used[u].ul + n /\ used'[u].dl = used[u].dl
          \/ used'[u].ul = used[u].ul /\ used'[u].dl = used[u].dl + n
      BY <1>1, <2>3 DEF Close, TypeOK
    <3> HIDE DEF n, u0
    <3> QED BY <1>1, <2>1, <2>3, <3>1 DEF Used
  <2> QED BY <2>2, <2>3
<1>8. \A x \in Transfers : transfer'[x] = IF x = t THEN transfer'[t] ELSE transfer[x]
  BY <1>1, <1>2 DEF TypeOK
<1>9. ASSUME NEW u \in Users PROVE Chargeable(u)' = Chargeable(u) \ {t}
  BY <1>1, <1>3, <1>4, <1>8 DEF TypeOK, Chargeable, IsOpen
<1>10. ASSUME NEW u \in Users, t \notin Chargeable(u) PROVE Pending(u)' = Pending(u)
  <2>1. Chargeable(u)' = Chargeable(u)
    BY <1>9, <1>10
  <2> QED BY <1>4, <2>1 DEF Pending, ToStore, StoredFor
<1>11. CASE t \notin Chargeable(u0)
  <2>1. ASSUME NEW u \in Users PROVE Used(u) <= Used(u)' /\ Pending(u) \subseteq Pending(u)'
    <3>1. t \notin Chargeable(u)
      BY <1>11 DEF Chargeable
    <3>2. Used(u) <= Used(u)'
      <4> HIDE DEF n, u0
      <4> QED BY <1>1, <1>7
    <3> QED BY <1>10, <3>1, <3>2
  <2>2. FloorKept' /\ NothingUncounted'
    BY <1>1, <1>4, <1>6, <2>1, FloorFrame
  <2> QED BY <1>6, <2>2 DEF JInv
<1>12. CASE t \in Chargeable(u0)
  <2>1. n = r.moved /\ r.moved \in Nat
    BY <1>1, <1>12 DEF Chargeable, BaseTransfer
  <2> DEFINE one == {[t |-> t, size |-> n]}
  <2>2. ASSUME NEW p \in Pending(u0), p.t = t PROVE p.size \in Nat /\ p.size <= n
    <3>1. p.size \in Nat
      BY <1>1, PendingSizes DEF JInv, Sizes, Entry
    <3>2. current[t] <= r.moved
      BY <1>5 DEF JInv, SizesBehind
    <3>3. \A q \in check.updates : q.t = t => q.size <= r.moved
      BY <1>5 DEF JInv, SizesBehind, NotAhead
    <3> HIDE DEF n
    <3> QED BY <2>1, <2>2, <3>1, <3>2, <3>3 DEF Pending, ToStore, StoredFor
  <2>3. ASSUME NEW p \in Pending(u0), p.t # t PROVE p \in Pending(u0)'
    BY <1>1, <1>4, <1>9, <2>3 DEF Pending, ToStore, StoredFor
  <2>4. Bytes(Pending(u0)) \subseteq Bytes(Pending(u0)') \cup Bytes(one)
    <3> SUFFICES ASSUME NEW b \in Bytes(Pending(u0))
                 PROVE  b \in Bytes(Pending(u0)') \cup Bytes(one)
      OBVIOUS
    <3>1. PICK p \in Pending(u0) : b \in {p.t} \X (1 .. p.size)
      BY BytesOf
    <3>2. CASE p.t # t
      <4>1. p \in Pending(u0)' BY <2>3, <3>2
      <4> QED BY <3>1, <4>1, BytesOf
    <3>3. CASE p.t = t
      <4>1. b \in {t} \X (1 .. n)
        <5>1. p.size \in Nat /\ p.size <= n /\ n \in Nat BY <1>1, <2>2, <3>3
        <5>2. 1 .. p.size \subseteq 1 .. n
          <6> HIDE DEF n
          <6> QED BY <5>1
        <5> HIDE DEF n
        <5> QED BY <3>1, <3>3, <5>2
      <4>2. b \in Bytes(one)
        <5> HIDE DEF n
        <5> QED BY <4>1 DEF Bytes
      <4> QED BY <4>2
    <3> QED BY <3>2, <3>3
  <2>5. Size(Pending(u0)) <= Size(Pending(u0)') + n
    <3>1. Sizes(Pending(u0)) BY <1>1, PendingSizes DEF JInv
    <3>2. Sizes(Pending(u0)') BY <1>1, <1>6, PendingSizesNext DEF Sizes, Entry
    <3>3. Sizes(one) /\ Size(one) = n
      <4> HIDE DEF n
      <4> QED BY <1>1, SizeOfOne
    <3> HIDE DEF one, n
    <3> QED BY <2>4, <3>1, <3>2, <3>3, SizeOfTwo
  <2>6. ASSUME NEW u \in Users
        PROVE Size(Pending(u)) + Used(u) <= Size(Pending(u)') + Used(u)'
    <3>1. Sizes(Pending(u)) BY <1>1, PendingSizes DEF JInv
    <3>2. Sizes(Pending(u)') BY <1>1, <1>6, PendingSizesNext DEF Sizes, Entry
    <3>3. Size(Pending(u)) \in Nat /\ Size(Pending(u)') \in Nat
      BY <3>1, <3>2, BytesFinite
    <3>4. CASE u = u0
      <4>1. Used(u)' = Used(u) + n /\ Used(u) \in Nat BY <1>7, <3>4
      <4>2. Size(Pending(u)) <= Size(Pending(u)') + n BY <2>5, <3>4
      <4> HIDE DEF n, u0
      <4> QED BY <1>1, <3>3, <4>1, <4>2
    <3>5. CASE u # u0
      <4>1. Used(u)' = Used(u) /\ Used(u) \in Nat BY <1>7, <3>5
      <4>2. t \notin Chargeable(u) BY <3>5 DEF Chargeable
      <4>3. Pending(u)' = Pending(u) BY <1>10, <4>2
      <4> QED BY <3>3, <4>1, <4>3
    <3> QED BY <3>4, <3>5
  <2>7. FloorKept'
    <3>1. ASSUME check.pc = "sizes", NEW u \in Users
          PROVE check.floor[u] <= Used(u)' + Size(Pending(u)')
      <4>1. check.floor[u] <= Used(u) + Size(Pending(u)) /\ check.floor[u] \in Nat
        BY <3>1 DEF JInv, FloorKept
      <4>2. Sizes(Pending(u)) BY <1>1, PendingSizes DEF JInv
      <4>3. Sizes(Pending(u)') BY <1>1, <1>6, PendingSizesNext DEF Sizes, Entry
      <4>4. Size(Pending(u)) \in Nat /\ Size(Pending(u)') \in Nat
        BY <4>2, <4>3, BytesFinite
      <4>5. Used(u) \in Nat /\ Used(u)' \in Nat BY <1>7
      <4> HIDE DEF n, u0
      <4> QED BY <2>6, <4>1, <4>4, <4>5
    <3> QED BY <1>4, <3>1 DEF JInv, FloorKept, Size, Bytes
  <2>8. NothingUncounted'
    <3>1. ASSUME check.pc = "fetch", NEW u \in Users
          PROVE Used(u)' + Size(TakenOf(u)) >= check.floor[u]
      <4>1. Used(u) + Size(TakenOf(u)) >= check.floor[u] /\ check.floor[u] \in Nat
        BY <3>1 DEF JInv, NothingUncounted, FloorKept
      <4>2. Size(TakenOf(u)) \in Nat
        BY TakenSizes, BytesFinite DEF JInv, IInv
      <4>3. Used(u) \in Nat /\ Used(u)' \in Nat /\ Used(u) <= Used(u)'
        <5> HIDE DEF n, u0
        <5> QED BY <1>1, <1>7
      <4> HIDE DEF n, u0
      <4> QED BY <4>1, <4>2, <4>3
    <3> QED BY <1>4, <3>1 DEF NothingUncounted, TakenOf, Size, Bytes
  <2> QED BY <1>6, <2>7, <2>8 DEF JInv
<1> QED BY <1>11, <1>12

LEMMA AddCounts ==
  ASSUME JInv, IInv', NEW t \in Transfers, CheckerAdd(t)
  PROVE JInv'
<1>0. /\ TypeOK /\ TypeOK' /\ current \in [Transfers -> Nat]
      /\ \A x \in Transfers : transfer[x].moved \in Nat
  BY DEF JInv, IInv, TypeOK, BaseTransfer
<1>1. /\ t \in adding /\ t \notin entries
      /\ adding' = adding \ {t} /\ entries' = entries \cup {t}
      /\ UNCHANGED <<quota, transfer, used, removing, check>>
      /\ \A x \in Transfers : current'[x] = IF x = t THEN 0 ELSE current[x]
  BY <1>0 DEF CheckerAdd, JInv, StartedOnce
<1>2. StartedOnce'
  BY <1>1 DEF JInv, StartedOnce, TypeOf
<1>3. SizesBehind'
  BY <1>0, <1>1 DEF JInv, SizesBehind, NotAhead, Listed, IsOpen
<1>4. ASSUME NEW u \in Users PROVE Used(u) <= Used(u)' /\ Pending(u) \subseteq Pending(u)'
  <2>1. Chargeable(u) \subseteq Chargeable(u)' /\ t \notin Chargeable(u)
    BY <1>1 DEF Chargeable, IsOpen
  <2>2. ToStore(Chargeable(u)) \subseteq Pending(u)'
    BY <1>1, <2>1 DEF ToStore, Pending
  <2>3. StoredFor(Chargeable(u)) \subseteq Pending(u)'
    <3>1. \A x \in Chargeable(u) : x \in Transfers /\ current'[x] = current[x]
      BY <1>0, <1>1, <2>1 DEF Chargeable, TypeOK
    <3> QED BY <1>1, <2>1, <3>1 DEF StoredFor, Pending
  <2>4. Used(u) \in Nat /\ Used(u)' = Used(u)
    BY <1>0, <1>1 DEF TypeOK, Used
  <2>5. Used(u) <= Used(u)' BY <2>4
  <2> QED BY <2>2, <2>3, <2>5 DEF Pending
<1>5. FloorKept' /\ NothingUncounted'
  BY <1>0, <1>1, <1>3, <1>4, FloorFrame
<1> QED BY <1>2, <1>3, <1>5 DEF JInv

(* A removal takes no chargeable transfer away: its transfer is over.       *)
LEMMA RemoveCounts ==
  ASSUME JInv, IInv', NEW t \in Transfers, CheckerRemove(t)
  PROVE JInv'
<1>0. /\ TypeOK /\ TypeOK' /\ current \in [Transfers -> Nat]
      /\ \A x \in Transfers : transfer[x].moved \in Nat
  BY DEF JInv, IInv, TypeOK, BaseTransfer
<1>1. /\ transfer[t].st = "over"
      /\ removing' = removing \ {t} /\ entries' = entries \ {t}
      /\ UNCHANGED <<quota, transfer, used, adding, check>>
      /\ \A x \in Transfers : current'[x] = IF x = t THEN 0 ELSE current[x]
  BY <1>0 DEF CheckerRemove, JInv, IInv, RemovedAreOver
<1>2. StartedOnce'
  BY <1>1 DEF JInv, StartedOnce, TypeOf
<1>3. SizesBehind'
  BY <1>0, <1>1 DEF JInv, SizesBehind, NotAhead, Listed, IsOpen
<1>4. ASSUME NEW u \in Users PROVE Used(u) <= Used(u)' /\ Pending(u) \subseteq Pending(u)'
  <2>1. Chargeable(u)' = Chargeable(u) /\ t \notin Chargeable(u)
    BY <1>1 DEF Chargeable, IsOpen
  <2>2. \A x \in Chargeable(u) : x \in Transfers /\ current'[x] = current[x]
    BY <1>0, <1>1, <2>1 DEF Chargeable, TypeOK
  <2>3. StoredFor(Chargeable(u)) \subseteq Pending(u)'
    BY <1>1, <2>1, <2>2 DEF StoredFor, Pending
  <2>4. ToStore(Chargeable(u)) \subseteq Pending(u)'
    BY <1>1, <2>1 DEF ToStore, Pending
  <2>5. Used(u) \in Nat /\ Used(u)' = Used(u)
    BY <1>0, <1>1 DEF TypeOK, Used
  <2>6. Used(u) <= Used(u)' BY <2>5
  <2> QED BY <2>3, <2>4, <2>6 DEF Pending
<1>5. FloorKept' /\ NothingUncounted'
  BY <1>0, <1>1, <1>3, <1>4, FloorFrame
<1> QED BY <1>2, <1>3, <1>5 DEF JInv

(* The sizes that are read when the check begins are what has been moved.   *)
LEMMA BeginCounts ==
  ASSUME JInv, IInv', CheckBegins
  PROVE JInv'
<1> DEFINE found == {t \in Transfers : Listed(t) /\ Limited(transfer[t])}
           up == {[t |-> t, size |-> transfer[t].size] : t \in found}
<1>0. /\ TypeOK /\ TypeOK' /\ current \in [Transfers -> Nat]
      /\ \A x \in Transfers : transfer[x] \in BaseTransfer
  BY DEF JInv, IInv, TypeOK
<1>1. /\ check' = [pc |-> "sizes", updates |-> up, taken |-> {}, over |-> {},
                   floor |-> movedSoFar]
      /\ UNCHANGED <<quota, transfer, used, adding, removing, entries, current>>
  BY DEF CheckBegins, Idle, state
<1>2. StartedOnce'
  <2>1. ASSUME NEW p \in check'.updates \cup check'.taken
        PROVE p.t \in Transfers /\ transfer[p.t].st # "none"
    BY <1>1, <2>1 DEF Listed
  <2>2. \A t \in Transfers : TypeOf(t)' = TypeOf(t)
    BY <1>1 DEF TypeOf
  <2> QED BY <1>1, <2>1, <2>2 DEF JInv, StartedOnce
<1>3. SizesBehind'
  <2>1. NotAhead(check.updates)'
    BY <1>0, <1>1 DEF NotAhead, JInv, SizesBehind, Listed
  <2>2. NotAhead(check.taken)'
    BY <1>1 DEF NotAhead
  <2>3. \A t \in Transfers : IsOpen(t)' = IsOpen(t) /\ Listed(t)' = Listed(t)
    BY <1>1 DEF IsOpen, Listed
  <2> QED BY <1>1, <2>1, <2>2, <2>3 DEF JInv, SizesBehind
<1>4. ASSUME NEW u \in Users
      PROVE  /\ Pending(u)' = Moved(Chargeable(u))
             /\ movedSoFar[u] = Used(u) + Size(Moved(Chargeable(u)))
             /\ Used(u) \in Nat /\ Used(u)' = Used(u)
  <2>1. Chargeable(u)' = Chargeable(u)
    BY <1>1 DEF Chargeable, IsOpen
  <2>2. Chargeable(u) \subseteq found
    BY <1>0 DEF Chargeable, Listed, IsOpen, Limited, TypeOK
  <2>3. \A t \in Chargeable(u) : transfer[t].size = transfer[t].moved
    BY <1>0 DEF Chargeable, JInv, SizesBehind, TypeOK
  <2>4. {p \in up : p.t \in Chargeable(u)} = Moved(Chargeable(u))
    BY <2>2, <2>3 DEF Moved
  <2>5. \A t \in Chargeable(u) : \E p \in up : p.t = t
    <3> SUFFICES ASSUME NEW t \in Chargeable(u) PROVE \E p \in up : p.t = t
      OBVIOUS
    <3>1. [t |-> t, size |-> transfer[t].size] \in up
      BY <2>2
    <3> HIDE DEF up
    <3> QED BY <3>1
  <2>6. ToStore(Chargeable(u))' = Moved(Chargeable(u))
    <3> HIDE DEF up
    <3> QED BY <1>1, <2>1, <2>4 DEF ToStore
  <2>7. StoredFor(Chargeable(u))' = {}
    <3> HIDE DEF up
    <3> QED BY <1>1, <2>1, <2>5 DEF StoredFor
  <2> QED BY <1>0, <1>1, <2>6, <2>7 DEF Pending, movedSoFar, TypeOK, Used
<1>5. FloorKept'
  <2>1. ASSUME NEW u \in Users
        PROVE /\ check'.floor[u] \in Nat
              /\ check'.floor[u] <= Used(u)' + Size(Pending(u)')
    <3>1. Sizes(Pending(u)') BY <1>0, <1>3, PendingSizesNext DEF Sizes, Entry
    <3>2. Size(Pending(u)') \in Nat BY <3>1, BytesFinite
    <3>3. check'.floor[u] = Used(u)' + Size(Pending(u)') BY <1>1, <1>4
    <3>4. Used(u)' \in Nat BY <1>4
    <3> QED BY <3>2, <3>3, <3>4
  <2>2. check'.floor = movedSoFar /\ DOMAIN movedSoFar = Users
    BY <1>1 DEF movedSoFar
  <2>3. check'.floor \in [Users -> Nat]
    <3>1. movedSoFar = [u \in Users |-> movedSoFar[u]] BY DEF movedSoFar
    <3> QED BY <2>1, <2>2, <3>1
  <2> QED BY <2>1, <2>3 DEF FloorKept, Size, Bytes
<1>6. NothingUncounted'
  BY <1>1 DEF NothingUncounted
<1> QED BY <1>2, <1>3, <1>5, <1>6 DEF JInv

(* Storing a size changes nothing of what will be counted.                  *)
LEMMA UpdateCounts ==
  ASSUME JInv, IInv', NEW p \in check.updates, UpdateTransferCurrentSizes(p)
  PROVE JInv'
<1>0. /\ TypeOK /\ TypeOK' /\ current \in [Transfers -> Nat] /\ current' \in [Transfers -> Nat]
      /\ \A x \in Transfers : transfer[x] \in BaseTransfer /\ transfer[x].moved \in Nat
      /\ p \in Entry /\ p.t \in Transfers /\ p.size \in Nat /\ p = [t |-> p.t, size |-> p.size]
      /\ entries \subseteq Transfers
  BY DEF JInv, IInv, TypeOK, BaseTransfer, Check, Entry
<1>1. /\ check'.updates = check.updates \ {p} /\ check'.pc = check.pc
      /\ check'.taken = check.taken /\ check'.floor = check.floor
      /\ UNCHANGED <<quota, transfer, used, adding, removing, entries>>
      /\ \A x \in Transfers : current'[x] = IF x = p.t /\ x \in entries THEN p.size ELSE current[x]
  BY <1>0, CheckFields DEF UpdateTransferCurrentSizes, state, JInv
<1>2. StartedOnce'
  BY <1>0, <1>1 DEF JInv, StartedOnce, TypeOf
<1>3. SizesBehind'
  <2>1. NotAhead(check.updates)' /\ NotAhead(check.taken)'
    BY <1>1 DEF JInv, SizesBehind, NotAhead, Listed
  <2>2. \A t \in Transfers : IsOpen(t)' = IsOpen(t) /\ Listed(t)' = Listed(t)
    BY <1>1 DEF IsOpen, Listed
  <2>3. Listed(p.t) => p.size <= transfer[p.t].moved
    BY DEF JInv, SizesBehind, NotAhead
  <2> QED BY <1>1, <2>1, <2>2, <2>3 DEF JInv, SizesBehind
<1>4. ASSUME NEW u \in Users PROVE Pending(u) \subseteq Pending(u)'
  <2>1. Chargeable(u)' = Chargeable(u) /\ Chargeable(u) \subseteq entries
    BY <1>1 DEF Chargeable, IsOpen
  <2>2. \A q \in check.updates : q.t = p.t => q = p
    BY DEF JInv, SizesBehind, NotAhead
  <2>3. ASSUME NEW q \in ToStore(Chargeable(u)) PROVE q \in Pending(u)'
    <3>1. q \in check.updates /\ q.t \in Chargeable(u) BY DEF ToStore
    <3>2. CASE q # p BY <1>1, <2>1, <3>1, <3>2 DEF Pending, ToStore
    <3>3. CASE q = p
      <4>1. p.t \in entries /\ current'[p.t] = p.size
        BY <1>0, <1>1, <2>1, <3>1, <3>3
      <4>2. \A x \in check'.updates : x.t # p.t BY <1>1, <2>2
      <4>3. q = [t |-> p.t, size |-> current'[p.t]] BY <1>0, <3>3, <4>1
      <4> QED BY <2>1, <3>1, <3>3, <4>2, <4>3 DEF Pending, StoredFor
    <3> QED BY <3>2, <3>3
  <2>4. ASSUME NEW x \in Chargeable(u), \A q \in check.updates : q.t # x
        PROVE [t |-> x, size |-> current[x]] \in Pending(u)'
    <3>1. current'[x] = current[x] BY <1>0, <1>1, <2>1, <2>4
    <3>2. \A q \in check'.updates : q.t # x BY <1>1, <2>4
    <3> QED BY <2>1, <3>1, <3>2 DEF Pending, StoredFor
  <2>5. StoredFor(Chargeable(u)) \subseteq Pending(u)' BY <2>4 DEF StoredFor
  <2> QED BY <2>3, <2>5 DEF Pending
<1>5. FloorKept'
  <2>1. ASSUME check.pc = "sizes", NEW u \in Users
        PROVE check.floor[u] <= Used(u)' + Size(Pending(u)')
    <3>1. check.floor[u] <= Used(u) + Size(Pending(u)) /\ check.floor[u] \in Nat
      BY <2>1 DEF JInv, FloorKept
    <3>2. Sizes(Pending(u)) BY <1>0, PendingSizes DEF JInv
    <3>3. Sizes(Pending(u)') BY <1>0, <1>3, PendingSizesNext DEF Sizes, Entry
    <3>4. Bytes(Pending(u)) \subseteq Bytes(Pending(u)') BY <1>4 DEF Bytes
    <3>5. Size(Pending(u)) <= Size(Pending(u)') BY <3>2, <3>3, <3>4, SizeAtMost
    <3>6. Size(Pending(u)) \in Nat /\ Size(Pending(u)') \in Nat
      BY <3>2, <3>3, BytesFinite
    <3>7. Used(u) \in Nat /\ Used(u)' = Used(u) BY <1>0, <1>1 DEF TypeOK, Used
    <3> QED BY <3>1, <3>5, <3>6, <3>7
  <2> QED BY <1>1, <2>1 DEF JInv, FloorKept, Size, Bytes
<1>6. NothingUncounted'
  <2>1. \A u : TakenOf(u)' = TakenOf(u) /\ Used(u)' = Used(u)
    BY <1>1 DEF TakenOf, Used
  <2> QED BY <1>1, <2>1 DEF JInv, NothingUncounted, Size, Bytes
<1> QED BY <1>2, <1>3, <1>5, <1>6 DEF JInv

(* The copied entries have every size that was pending.                     *)
LEMMA AggregateCounts ==
  ASSUME JInv, IInv', Aggregate
  PROVE JInv'
<1> DEFINE tk == {[t |-> t, size |-> current[t]] : t \in entries}
<1>0. /\ TypeOK /\ TypeOK' /\ current \in [Transfers -> Nat] /\ entries \subseteq Transfers
  BY DEF JInv, IInv, TypeOK
<1>1. /\ check.pc = "sizes" /\ check.updates = {}
      /\ check'.pc = "fetch" /\ check'.updates = {}
      /\ check'.taken = tk /\ check'.floor = check.floor
      /\ UNCHANGED <<quota, transfer, used, adding, removing, entries, current>>
  BY CheckFields DEF Aggregate, state, JInv
<1>2. StartedOnce'
  <2>1. ASSUME NEW p \in check'.updates \cup check'.taken
        PROVE p.t \in Transfers /\ transfer[p.t].st # "none"
    BY <1>0, <1>1, <2>1 DEF JInv, StartedOnce
  <2>2. \A t \in Transfers : TypeOf(t)' = TypeOf(t)
    BY <1>1 DEF TypeOf
  <2> QED BY <1>1, <2>1, <2>2 DEF JInv, StartedOnce
<1>3. SizesBehind'
  <2>1. NotAhead(check.updates)'
    BY <1>1 DEF NotAhead
  <2>2. NotAhead(check.taken)'
    BY <1>0, <1>1 DEF NotAhead, JInv, SizesBehind, Listed
  <2>3. \A t \in Transfers : IsOpen(t)' = IsOpen(t) /\ Listed(t)' = Listed(t)
    BY <1>1 DEF IsOpen, Listed
  <2> QED BY <1>1, <2>1, <2>2, <2>3 DEF JInv, SizesBehind
<1>4. FloorKept'
  BY <1>1 DEF JInv, FloorKept
<1>5. ASSUME NEW u \in Users PROVE Used(u)' + Size(TakenOf(u)') >= check.floor[u]
  <2>1. check.floor[u] <= Used(u) + Size(Pending(u)) /\ check.floor[u] \in Nat
    BY <1>1 DEF JInv, FloorKept
  <2>2. Pending(u) \subseteq TakenOf(u)'
    <3>1. Pending(u) = {[t |-> t, size |-> current[t]] : t \in Chargeable(u)}
      BY <1>1 DEF Pending, ToStore, StoredFor
    <3> QED BY <1>1, <3>1 DEF TakenOf, Chargeable
  <2>3. Sizes(Pending(u)) BY <1>0, PendingSizes DEF JInv
  <2>4. Sizes(TakenOf(u)')
    <3>1. TakenOf(u)' \subseteq tk BY <1>1 DEF TakenOf
    <3>2. Sizes(tk) BY <1>0 DEF Sizes, Entry
    <3> HIDE DEF tk
    <3> QED BY <3>1, <3>2 DEF Sizes
  <2>5. Bytes(Pending(u)) \subseteq Bytes(TakenOf(u)') BY <2>2 DEF Bytes
  <2>6. Size(Pending(u)) <= Size(TakenOf(u)') BY <2>3, <2>4, <2>5, SizeAtMost
  <2>7. Size(Pending(u)) \in Nat /\ Size(TakenOf(u)') \in Nat
    BY <2>3, <2>4, BytesFinite
  <2>8. Used(u) \in Nat /\ Used(u)' = Used(u) BY <1>0, <1>1 DEF TypeOK, Used
  <2> QED BY <2>1, <2>6, <2>7, <2>8
<1>6. NothingUncounted'
  BY <1>1, <1>5 DEF NothingUncounted, Size, Bytes
<1> QED BY <1>2, <1>3, <1>4, <1>6 DEF JInv

(* The check ends, with or without transfers to signal, and signals them.   *)
LEMMA EndCounts ==
  ASSUME JInv, IInv', GetOverquotaTransfers \/ FetchFails \/ SignalTransferClose
  PROVE JInv'
<1>0. TypeOK /\ TypeOK'
  BY DEF JInv, IInv
<1>1. /\ check'.pc \in {"idle", "signal"} /\ check'.updates = {} /\ check'.taken = {}
      /\ check'.floor = [u \in Users |-> 0]
      /\ UNCHANGED <<used, adding, removing, entries, current>>
  <2>1. CASE GetOverquotaTransfers
    <3> DEFINE over == UNION {overquotaOf(u) : u \in usersToFetch}
    <3>1. /\ check' = IF over = {} THEN Idle ELSE [Idle EXCEPT !.pc = "signal", !.over = over]
          /\ UNCHANGED <<used, adding, removing, entries, current>>
      BY <2>1 DEF GetOverquotaTransfers, state
    <3> HIDE DEF over
    <3> QED BY <3>1 DEF Idle
  <2>2. CASE FetchFails
    BY <2>2 DEF FetchFails, Idle, state
  <2>3. CASE SignalTransferClose
    BY <2>3 DEF SignalTransferClose, Idle
  <2> QED BY <2>1, <2>2, <2>3
<1>2. \A t \in Transfers :
        /\ transfer'[t].st = transfer[t].st /\ transfer'[t].type = transfer[t].type
        /\ transfer'[t].moved = transfer[t].moved /\ transfer'[t].size = transfer[t].size
  BY <1>0 DEF GetOverquotaTransfers, FetchFails, SignalTransferClose, state, TypeOK, BaseTransfer
<1>3. StartedOnce'
  BY <1>1, <1>2 DEF JInv, StartedOnce, TypeOf
<1>4. SizesBehind'
  <2>1. NotAhead(check.updates)' /\ NotAhead(check.taken)'
    BY <1>1 DEF NotAhead
  <2>2. \A t \in Transfers : IsOpen(t)' = IsOpen(t) /\ Listed(t)' = Listed(t)
    BY <1>2 DEF IsOpen, Listed
  <2> QED BY <1>1, <1>2, <2>1, <2>2 DEF JInv, SizesBehind
<1>5. FloorKept' /\ NothingUncounted'
  BY <1>1 DEF FloorKept, NothingUncounted
<1> QED BY <1>3, <1>4, <1>5 DEF JInv

LEMMA CountsStep == JInv /\ [Next]_vars => JInv'
<1> SUFFICES ASSUME JInv, [Next]_vars PROVE JInv'
  OBVIOUS
<1>0. IInv'
  BY Step DEF JInv
<1>1. ASSUME NEW t \in Transfers, TransferStep(t) PROVE JInv'
  BY <1>0, <1>1, OpenCounts, MoveCounts, CloseCounts, AddCounts, RemoveCounts
     DEF TransferStep
<1>2. CASE CheckStep
  BY <1>0, <1>2, BeginCounts, UpdateCounts, AggregateCounts, EndCounts DEF CheckStep
<1>3. CASE UNCHANGED vars
  <2>1. StartedOnce' /\ SizesBehind'
    BY <1>3 DEF vars, JInv, StartedOnce, SizesBehind, NotAhead, TypeOf, Listed, IsOpen
  <2>2. \A u \in Users : Used(u) \in Nat
    BY DEF JInv, IInv, TypeOK, Used
  <2>3. ASSUME NEW u \in Users PROVE Used(u) <= Used(u)' /\ Pending(u) \subseteq Pending(u)'
    BY <1>3, <2>2 DEF vars, Used, Pending, ToStore, StoredFor, Chargeable, IsOpen
  <2>4. check' = check /\ TypeOK'
    BY <1>0, <1>3 DEF vars, IInv
  <2> QED BY <1>0, <2>1, <2>3, <2>4, FloorFrame DEF JInv
<1> QED BY <1>1, <1>2, <1>3 DEF Next

LEMMA CountsInit == Init => JInv
<1> SUFFICES ASSUME Init PROVE JInv
  OBVIOUS
<1>1. IInv
  BY Initially
<1>2. StartedOnce /\ SizesBehind
  BY DEF Init, StartedOnce, SizesBehind, NotAhead, None, Idle, Listed, IsOpen
<1>3. FloorKept /\ NothingUncounted
  BY DEF Init, Idle, FloorKept, NothingUncounted
<1> QED BY <1>1, <1>2, <1>3 DEF JInv

(* NothingUncounted: whatever moves, ends, is charged, added to and removed *)
(* from the checker while the sizes are read and stored, the sums the       *)
(* quotas are compared with miss no chargeable byte that had moved before.  *)
THEOREM BytesCounted == Spec => []NothingUncounted
<1>1. JInv => NothingUncounted
  BY DEF JInv
<1> QED BY CountsInit, CountsStep, <1>1, PTL DEF Spec

(* What is copied of a user's transfers of one type is what those move that *)
(* run, at most, unless it is bytes of one that has ended.                  *)
LEMMA LoadCovers ==
  ASSUME JInv, NEW u, ~EndedCounted(u), NEW type,
         NEW S \in SUBSET {p \in TakenOf(u) : TypeOf(p.t) = type}
  PROVE /\ Size(S) \in Nat /\ Load(u, type) \in Nat
        /\ Size(S) <= Load(u, type)
<1> DEFINE running == {t \in Transfers : UserOf(t) = u /\ TypeOf(t) = type /\ IsOpen(t)}
<1>1. /\ \A t \in Transfers : transfer[t].moved \in Nat
      /\ check.taken \subseteq Entry
  BY DEF JInv, IInv, TypeOK, BaseTransfer, Check
<1>2. Sizes(S) /\ Sizes(Moved(running))
  <2>1. Sizes(TakenOf(u))
    BY TakenSizes DEF JInv, IInv
  <2>2. Sizes(Moved(running))
    BY <1>1 DEF Moved, Sizes, Entry
  <2> QED BY <2>1, <2>2 DEF Sizes
<1>3. Bytes(S) \subseteq Bytes(Moved(running))
  <2> SUFFICES ASSUME NEW b \in Bytes(S) PROVE b \in Bytes(Moved(running))
    OBVIOUS
  <2>1. PICK p \in S : b \in {p.t} \X (1 .. p.size)
    BY BytesOf
  <2>2. /\ p \in TakenOf(u) /\ TypeOf(p.t) = type /\ UserOf(p.t) = u
        /\ p.t \in Transfers /\ p.size \in Nat
    BY <1>1 DEF TakenOf, Entry
  <2>3. p.size > 0
    BY <2>1, <2>2
  <2>4. IsOpen(p.t) /\ Listed(p.t)
    BY <2>2, <2>3 DEF EndedCounted, IsOpen, Listed
  <2> DEFINE q == [t |-> p.t, size |-> transfer[p.t].moved]
  <2>5. q \in Moved(running) BY <2>2, <2>4 DEF Moved
  <2>6. p.size <= transfer[p.t].moved
    BY <2>2, <2>4 DEF JInv, SizesBehind, NotAhead, TakenOf
  <2>7. 1 .. p.size \subseteq 1 .. transfer[p.t].moved
    BY <1>1, <2>2, <2>6
  <2>8. b \in {q.t} \X (1 .. q.size)
    BY <2>1, <2>7
  <2> HIDE DEF q
  <2> QED BY <2>5, <2>8, BytesOf
<1>4. Load(u, type) = Size(Moved(running))
  BY DEF Load
<1> HIDE DEF running
<1> QED BY <1>2, <1>3, <1>4, SizeAtMost, BytesFinite

(* The quotas are compared with no more than is charged and runs.           *)
LEMMA OverIsOver ==
  ASSUME JInv, NEW u \in Users, ~EndedCounted(u), NEW t \in overquotaOf(u)
  PROVE OverQuota(u)
<1> DEFINE up == Size(TakenUp(u))
           down == Size(TakenOf(u) \ TakenUp(u))
<1>1. /\ quota[u] \in Quota /\ used[u] \in [size : Nat, ul : Nat, dl : Nat]
      /\ check.taken \subseteq Entry
  BY CheckerAssumption DEF JInv, IInv, TypeOK, Check
<1>2. up \in Nat /\ Load(u, "upload") \in Nat /\ up <= Load(u, "upload")
  BY LoadCovers DEF TakenUp
<1>3. down \in Nat /\ Load(u, "download") \in Nat /\ down <= Load(u, "download")
  <2>1. \A p \in TakenOf(u) : TypeOf(p.t) \in {"upload", "download"}
    BY <1>1 DEF JInv, StartedOnce, TakenOf, Entry
  <2>2. TakenOf(u) \ TakenUp(u) \in SUBSET {p \in TakenOf(u) : TypeOf(p.t) = "download"}
    BY <2>1 DEF TakenUp
  <2> QED BY <2>2, LoadCovers
<1>4. \/ OverDisk(u)
      \/ \E p \in TakenOf(u) : isDataTransferExceeded(u, p)
  BY DEF overquotaOf
<1>5. CASE OverDisk(u)
  <2>1. quota[u].QuotaSize > 0 /\ up > quota[u].QuotaSize - used[u].size
    BY <1>5 DEF OverDisk
  <2>2. quota[u].QuotaSize \in Nat /\ used[u].size \in Nat
    BY <1>1 DEF Quota
  <2> HIDE DEF up, down
  <2>3. used[u].size + Load(u, "upload") > quota[u].QuotaSize
    BY <1>2, <2>1, <2>2
  <2> QED BY <2>1, <2>3 DEF OverQuota
<1>6. CASE \E p \in TakenOf(u) : isDataTransferExceeded(u, p)
  <2>1. \/ quota[u].total > 0 /\ up + down > checkUserQuota(u).total
        \/ quota[u].dl > 0 /\ down > checkUserQuota(u).dl
        \/ quota[u].ul > 0 /\ up > checkUserQuota(u).ul
    BY <1>6 DEF isDataTransferExceeded
  <2>2. /\ quota[u].total \in Nat /\ quota[u].dl \in Nat /\ quota[u].ul \in Nat
        /\ used[u].ul \in Nat /\ used[u].dl \in Nat /\ Used(u) \in Nat
    BY <1>1 DEF Quota, Used
  <2>3. /\ quota[u].total > 0 => checkUserQuota(u).total = quota[u].total - Used(u)
        /\ quota[u].dl > 0 => checkUserQuota(u).dl = quota[u].dl - used[u].dl
        /\ quota[u].ul > 0 => checkUserQuota(u).ul = quota[u].ul - used[u].ul
    BY DEF checkUserQuota, Left
  <2> HIDE DEF up, down
  <2>4. \/ /\ quota[u].total > 0
           /\ Used(u) + Load(u, "upload") + Load(u, "download") > quota[u].total
        \/ quota[u].dl > 0 /\ used[u].dl + Load(u, "download") > quota[u].dl
        \/ quota[u].ul > 0 /\ used[u].ul + Load(u, "upload") > quota[u].ul
    BY <1>2, <1>3, <2>1, <2>2, <2>3
  <2> QED BY <2>4 DEF OverQuota
<1> QED BY <1>4, <1>5, <1>6

(* SignalJustified: the check closes transfers of users who are over a      *)
(* quota with what is charged and what runs, and nobody else's, except      *)
(* those of a user with bytes counted of a transfer that has ended.         *)
THEOREM SignalsJustified == Spec => SignalJustified
<1>1. ASSUME JInv, [Next]_vars
      PROVE [\A t \in check'.over \ check.over :
               OverQuota(UserOf(t)) \/ EndedCounted(UserOf(t))]_vars
  <2> SUFFICES ASSUME Next, NEW t \in check'.over \ check.over
               PROVE OverQuota(UserOf(t)) \/ EndedCounted(UserOf(t))
    BY <1>1
  <2>1. CASE \E x \in Transfers : TransferStep(x)
    BY <2>1 DEF TransferStep, Open, Move, Aborted, Close, RemoveTransfer, CheckerAdd, CheckerRemove
  <2>2. CASE CheckBegins
    BY <2>2 DEF CheckBegins, Idle
  <2>3. CASE \E p \in check.updates : UpdateTransferCurrentSizes(p)
    BY <1>1, <2>3, CheckFields DEF UpdateTransferCurrentSizes, JInv
  <2>4. CASE Aggregate
    BY <1>1, <2>4, CheckFields DEF Aggregate, JInv
  <2>5. CASE GetOverquotaTransfers
    <3> DEFINE over == UNION {overquotaOf(u) : u \in usersToFetch}
    <3>1. check' = IF over = {} THEN Idle ELSE [Idle EXCEPT !.pc = "signal", !.over = over]
      BY <2>5 DEF GetOverquotaTransfers
    <3>2. t \in over
      <4> HIDE DEF over
      <4> QED BY <3>1 DEF Idle
    <3>3. PICK u \in Users : t \in overquotaOf(u)
      BY <3>2 DEF usersToFetch
    <3>4. UserOf(t) = u
      BY <3>3 DEF overquotaOf, TakenOf, TakenUp
    <3> QED BY <1>1, <3>3, <3>4, OverIsOver
  <2>6. CASE FetchFails \/ SignalTransferClose
    BY <2>6 DEF FetchFails, SignalTransferClose, Idle
  <2> QED BY <2>1, <2>2, <2>3, <2>4, <2>5, <2>6 DEF Next, CheckStep
<1> QED BY CountsInit, CountsStep, <1>1, PTL DEF Spec, SignalJustified
=============================================================================

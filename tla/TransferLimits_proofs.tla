----------------------- MODULE TransferLimits_proofs -----------------------
(* Theorems about TransferLimits, for any requests, connections and limits. *)
EXTENDS TransferLimits, FiniteSetTheorems, TLAPS

(* The transfers WaitForTransfers found running end and do not start again. *)
ExistingEnd ==
  /\ existing # {} => isShuttingDown
  /\ \A r \in existing :
       pc[r] \in {"open", "closing", "uncounted", "unlisting", "idle"}
(* Those not seen yet are on connections that are still to be looked at.    *)
ScanSees ==
  wait = "scan" =>
    \A r \in existing : pc[r] = "idle" \/ ConnOf[r] \in toScan \/ found
ScanDone == wait = "graceful" => \A r \in existing : pc[r] = "idle"
HooksEnd ==
  /\ \A h \in existingHooks : hook[h] \in {"running", "ended"}
  /\ wait \in {"scan", "graceful"} => \A h \in existingHooks : hook[h] = "ended"

Shutdown == ExistingEnd /\ ScanSees /\ ScanDone /\ HooksEnd

IInv == TypeOK /\ TransfersExact /\ Shutdown

(* The parts of TransfersExact.                                            *)
TotalExact == totalTransfers = Cardinality(InTotal)
UsersExact == \A u \in Users : transfers[u] = Cardinality(OfUser(u))
IPsExact   == \A ip \in IPs : transfersPerIP[ip] = Cardinality(OfIP(ip))
Listed(c)  == {r \in Requests : ConnOf[r] = c
                 /\ pc[r] \in {"open", "closing", "uncounted", "unlisting"}}
ListExact  == \A c \in Conns : activeTransfers[c] = Listed(c)
RunningHooks == {h \in Hooks : hook[h] = "running"}
HooksExact == activeHooks = Cardinality(RunningHooks)

LEMMA ExactParts ==
  TransfersExact <=> TotalExact /\ UsersExact /\ IPsExact /\ ListExact /\ HooksExact
BY DEF TransfersExact, TotalExact, UsersExact, IPsExact, ListExact, Listed,
       HooksExact, RunningHooks

-----------------------------------------------------------------------------
(* Cardinalities                                                           *)

LEMMA OneMore ==
  ASSUME NEW U, IsFiniteSet(U), NEW S, S \subseteq U, NEW x \in U, x \notin S
  PROVE  Cardinality(S \cup {x}) = Cardinality(S) + 1
<1>1. IsFiniteSet(S)
  BY FS_Subset
<1> QED
  BY <1>1, FS_AddElement

LEMMA OneLess ==
  ASSUME NEW U, IsFiniteSet(U), NEW S, S \subseteq U, NEW x \in S
  PROVE  /\ Cardinality(S \ {x}) = Cardinality(S) - 1
         /\ Cardinality(S) \in Nat /\ Cardinality(S) > 0
<1>1. IsFiniteSet(S)
  BY FS_Subset
<1>2. /\ Cardinality(S \ {x}) = Cardinality(S) - 1
      /\ Cardinality(S \ {x}) \in Nat /\ Cardinality(S) \in Nat
  BY <1>1, FS_RemoveElement, FS_CardinalityType, FS_Subset
<1> QED
  BY <1>2

-----------------------------------------------------------------------------
(* What leaves a part of the invariant alone.                              *)

(* Requests that serve existing transfers stay where the shutdown needs    *)
(* them: one of them only goes on towards its end.                         *)
LEMMA ShutdownMove ==
  ASSUME TypeOK, Shutdown, Running, NEW r \in Requests, NEW p,
         pc' = [pc EXCEPT ![r] = p], UNCHANGED waitVars,
         \A h \in Hooks : hook[h] \in {"running", "ended"} => hook'[h] = hook[h],
         r \in existing => p \in {"open", "closing", "uncounted", "unlisting", "idle"}
                           /\ (pc[r] = "idle" => p = "idle")
  PROVE  Shutdown'
<1>1. ExistingEnd'
  BY DEF Shutdown, ExistingEnd, waitVars, TypeOK
<1>2. ScanSees'
  BY DEF Shutdown, ScanSees, waitVars, TypeOK
<1>3. ScanDone'
  BY DEF Shutdown, ScanDone, waitVars, TypeOK, Running
<1>4. HooksEnd'
  BY DEF Shutdown, HooksEnd, waitVars, TypeOK
<1> QED
  BY <1>1, <1>2, <1>3, <1>4 DEF Shutdown

(* A request only moves on.                                                *)
LEMMA MoveTypes ==
  ASSUME TypeOK, NEW r \in Requests, NEW p \in PCs,
         pc' = [pc EXCEPT ![r] = p], UNCHANGED waitVars,
         totalTransfers' \in Nat, transfers' \in [Users -> Nat],
         transfersPerIP' \in [IPs -> Nat],
         activeTransfers' \in [Conns -> SUBSET Requests],
         hook' \in [Hooks -> {"none", "spawned", "running", "ended"}],
         activeHooks' \in Nat
  PROVE  TypeOK'
<1>1. pc' \in [Requests -> PCs]
  BY DEF TypeOK
<1> QED
  BY <1>1 DEF TypeOK, waitVars

LEMMA PCsAre ==
  \A p : p \in PCs <=> p \in {"idle", "user", "ip", "total", "allowed", "counting",
                              "counted", "listing", "open", "closing", "uncounted",
                              "unlisting"}
BY DEF PCs

(* A request that is compared or gives up is not counted anywhere.         *)
Uncounted == {"idle", "user", "ip", "total", "allowed"}

LEMMA UncountedMove ==
  ASSUME IInv, Running, NEW r \in Requests, NEW p \in Uncounted,
         pc[r] \in Uncounted, pc[r] = "idle" => ~isShuttingDown,
         pc' = [pc EXCEPT ![r] = p],
         UNCHANGED <<counters, activeTransfers, hookVars, waitVars>>
  PROVE  IInv'
<1> USE DEF IInv
<1>1. TypeOK'
  <2>1. p \in PCs
    BY PCsAre DEF Uncounted
  <2> QED
    BY <2>1, MoveTypes DEF TypeOK, counters, hookVars
<1>2. InTotal' = InTotal
  BY DEF InTotal, Uncounted, TypeOK
<1>3. \A u \in Users : OfUser(u)' = OfUser(u)
  BY DEF OfUser, User, Uncounted, TypeOK
<1>4. \A ip \in IPs : OfIP(ip)' = OfIP(ip)
  BY DEF OfIP, IP, Uncounted, TypeOK
<1>5. \A c \in Conns : Listed(c)' = Listed(c)
  BY DEF Listed, Uncounted, TypeOK
<1>6. RunningHooks' = RunningHooks
  BY DEF RunningHooks, hookVars
<1>7. TransfersExact'
  <2>1. TotalExact' /\ UsersExact' /\ IPsExact' /\ ListExact' /\ HooksExact'
    BY <1>2, <1>3, <1>4, <1>5, <1>6, ExactParts
       DEF TotalExact, UsersExact, IPsExact, ListExact, HooksExact, counters, hookVars
  <2> QED
    BY <2>1, ExactParts, PTL
<1>8. r \notin existing
  BY DEF Shutdown, ExistingEnd, Uncounted, TypeOK
<1>9. Shutdown'
  BY <1>8, ShutdownMove DEF hookVars
<1> QED
  BY <1>1, <1>7, <1>9

-----------------------------------------------------------------------------
(* AddTransfer: each step puts the request into one more of the sets.       *)

LEMMA CountTotalStep ==
  ASSUME TransferLimitsAssumption, IInv, Running, NEW r \in Requests, CountTotal(r)
  PROVE  IInv'
<1> USE DEF IInv, CountTotal, Move
<1>1. TypeOK'
  <2>1. totalTransfers' \in Nat
    BY DEF TypeOK
  <2> QED
    BY <2>1, MoveTypes, PCsAre DEF TypeOK, hookVars
<1>2. InTotal' = InTotal \cup {r} /\ r \notin InTotal /\ InTotal \subseteq Requests
  BY DEF InTotal, TypeOK
<1>3. TotalExact'
  BY <1>2, OneMore, ExactParts DEF TotalExact, TransferLimitsAssumption
<1>4. UsersExact'
  <2>1. \A u \in Users : OfUser(u)' = OfUser(u)
    BY DEF OfUser, User, TypeOK
  <2> QED
    BY <2>1, ExactParts DEF UsersExact
<1>5. IPsExact'
  <2>1. \A ip \in IPs : OfIP(ip)' = OfIP(ip)
    BY DEF OfIP, IP, TypeOK
  <2> QED
    BY <2>1, ExactParts DEF IPsExact
<1>6. ListExact'
  BY ExactParts DEF ListExact, Listed, TypeOK
<1>7. HooksExact'
  BY ExactParts DEF HooksExact, RunningHooks, hookVars
<1>8. TransfersExact'
  BY <1>3, <1>4, <1>5, <1>6, <1>7, ExactParts, PTL
<1>9. r \notin existing
  BY DEF Shutdown, ExistingEnd, TypeOK
<1>10. Shutdown'
  BY <1>9, ShutdownMove DEF hookVars
<1> QED
  BY <1>1, <1>8, <1>10

LEMMA CountUserStep ==
  ASSUME TransferLimitsAssumption, IInv, Running, NEW r \in Requests, CountUser(r)
  PROVE  IInv'
<1> USE DEF IInv, CountUser, Move
<1>0. User(r) \in Users
  BY DEF User, TransferLimitsAssumption
<1>1. TypeOK'
  <2>1. transfers' \in [Users -> Nat]
    BY <1>0 DEF TypeOK
  <2> QED
    BY <2>1, MoveTypes, PCsAre DEF TypeOK, hookVars
<1>2. TotalExact'
  <2>1. InTotal' = InTotal
    BY DEF InTotal, TypeOK
  <2> QED
    BY <2>1, ExactParts DEF TotalExact
<1>3. UsersExact'
  <2> SUFFICES ASSUME NEW u \in Users PROVE transfers'[u] = Cardinality(OfUser(u)')
    BY DEF UsersExact
  <2>1. CASE u = User(r)
    <3>1. /\ OfUser(u)' = OfUser(u) \cup {r}
          /\ r \notin OfUser(u) /\ OfUser(u) \subseteq Requests
      BY <2>1 DEF OfUser, User, TypeOK
    <3> QED
      BY <2>1, <3>1, OneMore, ExactParts DEF UsersExact, TypeOK, TransferLimitsAssumption
  <2>2. CASE u # User(r)
    <3>1. OfUser(u)' = OfUser(u)
      BY <2>2 DEF OfUser, User, TypeOK
    <3> QED
      BY <2>2, <3>1, ExactParts DEF UsersExact, TypeOK
  <2> QED
    BY <2>1, <2>2
<1>4. IPsExact'
  <2>1. \A ip \in IPs : OfIP(ip)' = OfIP(ip)
    BY DEF OfIP, IP, TypeOK
  <2> QED
    BY <2>1, ExactParts DEF IPsExact
<1>5. ListExact'
  BY ExactParts DEF ListExact, Listed, TypeOK
<1>6. HooksExact'
  BY ExactParts DEF HooksExact, RunningHooks, hookVars
<1>7. TransfersExact'
  BY <1>2, <1>3, <1>4, <1>5, <1>6, ExactParts, PTL
<1>8. r \notin existing
  BY DEF Shutdown, ExistingEnd, TypeOK
<1>9. Shutdown'
  BY <1>8, ShutdownMove DEF hookVars
<1> QED
  BY <1>1, <1>7, <1>9

LEMMA CountIPStep ==
  ASSUME TransferLimitsAssumption, IInv, Running, NEW r \in Requests, CountIP(r)
  PROVE  IInv'
<1> USE DEF IInv, CountIP, Move
<1>0. IP(r) \in IPs
  BY DEF IP, TransferLimitsAssumption
<1>1. TypeOK'
  <2>1. transfersPerIP' \in [IPs -> Nat]
    BY <1>0 DEF TypeOK
  <2> QED
    BY <2>1, MoveTypes, PCsAre DEF TypeOK, hookVars
<1>2. TotalExact'
  <2>1. InTotal' = InTotal
    BY DEF InTotal, TypeOK
  <2> QED
    BY <2>1, ExactParts DEF TotalExact
<1>3. UsersExact'
  <2>1. \A u \in Users : OfUser(u)' = OfUser(u)
    BY DEF OfUser, User, TypeOK
  <2> QED
    BY <2>1, ExactParts DEF UsersExact
<1>4. IPsExact'
  <2> SUFFICES ASSUME NEW ip \in IPs PROVE transfersPerIP'[ip] = Cardinality(OfIP(ip)')
    BY DEF IPsExact
  <2>1. CASE ip = IP(r)
    <3>1. /\ OfIP(ip)' = OfIP(ip) \cup {r}
          /\ r \notin OfIP(ip) /\ OfIP(ip) \subseteq Requests
      BY <2>1 DEF OfIP, IP, TypeOK
    <3> QED
      BY <2>1, <3>1, OneMore, ExactParts DEF IPsExact, TypeOK, TransferLimitsAssumption
  <2>2. CASE ip # IP(r)
    <3>1. OfIP(ip)' = OfIP(ip)
      BY <2>2 DEF OfIP, IP, TypeOK
    <3> QED
      BY <2>2, <3>1, ExactParts DEF IPsExact, TypeOK
  <2> QED
    BY <2>1, <2>2
<1>5. ListExact'
  BY ExactParts DEF ListExact, Listed, TypeOK
<1>6. HooksExact'
  BY ExactParts DEF HooksExact, RunningHooks, hookVars
<1>7. TransfersExact'
  BY <1>2, <1>3, <1>4, <1>5, <1>6, ExactParts, PTL
<1>8. r \notin existing
  BY DEF Shutdown, ExistingEnd, TypeOK
<1>9. Shutdown'
  BY <1>8, ShutdownMove DEF hookVars
<1> QED
  BY <1>1, <1>7, <1>9

LEMMA ListStep ==
  ASSUME TransferLimitsAssumption, IInv, Running, NEW r \in Requests, List(r)
  PROVE  IInv'
<1> USE DEF IInv, List, Move
<1>0. ConnOf[r] \in Conns
  BY DEF TransferLimitsAssumption
<1>1. TypeOK'
  <2>1. activeTransfers' \in [Conns -> SUBSET Requests]
    BY <1>0 DEF TypeOK
  <2> QED
    BY <2>1, MoveTypes, PCsAre DEF TypeOK, counters, hookVars
<1>2. TotalExact' /\ UsersExact' /\ IPsExact'
  <2>1. InTotal' = InTotal
    BY DEF InTotal, TypeOK
  <2>2. \A u \in Users : OfUser(u)' = OfUser(u)
    BY DEF OfUser, User, TypeOK
  <2>3. \A ip \in IPs : OfIP(ip)' = OfIP(ip)
    BY DEF OfIP, IP, TypeOK
  <2> QED
    BY <2>1, <2>2, <2>3, ExactParts DEF TotalExact, UsersExact, IPsExact, counters
<1>3. ListExact'
  BY <1>0, ExactParts DEF ListExact, Listed, TypeOK
<1>4. HooksExact'
  BY ExactParts DEF HooksExact, RunningHooks, hookVars
<1>5. TransfersExact'
  BY <1>2, <1>3, <1>4, ExactParts, PTL
<1>6. r \notin existing
  BY DEF Shutdown, ExistingEnd, TypeOK
<1>7. Shutdown'
  BY <1>6, ShutdownMove DEF hookVars
<1> QED
  BY <1>1, <1>5, <1>7

-----------------------------------------------------------------------------
(* Close and RemoveTransfer: each step takes the request out of one set.    *)

LEMMA CloseStep ==
  ASSUME TransferLimitsAssumption, IInv, Running, NEW r \in Requests, Close(r)
  PROVE  IInv'
<1> USE DEF IInv, Close, Move
<1>1. hook' \in [Hooks -> {"none", "spawned", "running", "ended"}]
  BY DEF TypeOK
<1>2. \A h \in Hooks : (hook'[h] = "running" <=> hook[h] = "running")
                     /\ (hook[h] = "ended" => hook'[h] = "ended")
  BY DEF TypeOK
<1>3. TypeOK'
  BY <1>1, MoveTypes, PCsAre DEF TypeOK, counters
<1>4. TotalExact' /\ UsersExact' /\ IPsExact'
  <2>1. InTotal' = InTotal
    BY DEF InTotal, TypeOK
  <2>2. \A u \in Users : OfUser(u)' = OfUser(u)
    BY DEF OfUser, User, TypeOK
  <2>3. \A ip \in IPs : OfIP(ip)' = OfIP(ip)
    BY DEF OfIP, IP, TypeOK
  <2> QED
    BY <2>1, <2>2, <2>3, ExactParts DEF TotalExact, UsersExact, IPsExact, counters
<1>5. ListExact'
  BY ExactParts DEF ListExact, Listed, TypeOK
<1>6. HooksExact'
  <2>1. RunningHooks' = RunningHooks
    BY <1>2 DEF RunningHooks
  <2> QED
    BY <2>1, ExactParts DEF HooksExact
<1>7. TransfersExact'
  BY <1>4, <1>5, <1>6, ExactParts, PTL
<1>8. Shutdown'
  <2>1. \A h \in Hooks : hook[h] \in {"running", "ended"} => hook'[h] = hook[h]
    BY <1>1, <1>2
  <2> QED
    BY <2>1, ShutdownMove
<1> QED
  BY <1>3, <1>7, <1>8

LEMMA UncountUserStep ==
  ASSUME TransferLimitsAssumption, IInv, Running, NEW r \in Requests, UncountUser(r)
  PROVE  IInv'
<1> USE DEF IInv, UncountUser, Move
<1>0. User(r) \in Users
  BY DEF User, TransferLimitsAssumption
<1>1. /\ r \in OfUser(User(r)) /\ OfUser(User(r)) \subseteq Requests
      /\ r \in InTotal /\ InTotal \subseteq Requests
  BY DEF OfUser, InTotal
<1>2. transfers[User(r)] > 0 /\ totalTransfers > 0
  BY <1>0, <1>1, OneLess, ExactParts DEF UsersExact, TotalExact, TransferLimitsAssumption
<1>3. /\ transfers' = [transfers EXCEPT ![User(r)] = @ - 1]
      /\ totalTransfers' = totalTransfers - 1
  BY <1>2
<1>4. TypeOK'
  <2>1. transfers' \in [Users -> Nat]
    BY <1>0, <1>2, <1>3 DEF TypeOK
  <2>2. totalTransfers' \in Nat
    BY <1>2, <1>3 DEF TypeOK
  <2> QED
    BY <2>1, <2>2, MoveTypes, PCsAre DEF TypeOK, hookVars
<1>5. TotalExact'
  <2>1. InTotal' = InTotal \ {r}
    BY DEF InTotal, TypeOK
  <2> QED
    BY <1>1, <1>3, <2>1, OneLess, ExactParts DEF TotalExact, TransferLimitsAssumption
<1>6. UsersExact'
  <2> SUFFICES ASSUME NEW u \in Users PROVE transfers'[u] = Cardinality(OfUser(u)')
    BY DEF UsersExact
  <2>1. CASE u = User(r)
    <3>1. OfUser(u)' = OfUser(u) \ {r}
      BY <2>1 DEF OfUser, User, TypeOK
    <3> QED
      BY <1>1, <1>3, <2>1, <3>1, OneLess, ExactParts
         DEF UsersExact, TypeOK, TransferLimitsAssumption
  <2>2. CASE u # User(r)
    <3>1. OfUser(u)' = OfUser(u)
      BY <2>2 DEF OfUser, User, TypeOK
    <3> QED
      BY <1>3, <2>2, <3>1, ExactParts DEF UsersExact, TypeOK
  <2> QED
    BY <2>1, <2>2
<1>7. IPsExact'
  <2>1. \A ip \in IPs : OfIP(ip)' = OfIP(ip)
    BY DEF OfIP, IP, TypeOK
  <2> QED
    BY <2>1, ExactParts DEF IPsExact
<1>8. ListExact'
  BY ExactParts DEF ListExact, Listed, TypeOK
<1>9. HooksExact'
  BY ExactParts DEF HooksExact, RunningHooks, hookVars
<1>10. TransfersExact'
  BY <1>5, <1>6, <1>7, <1>8, <1>9, ExactParts, PTL
<1>11. Shutdown'
  BY ShutdownMove DEF hookVars
<1> QED
  BY <1>4, <1>10, <1>11

LEMMA UncountIPStep ==
  ASSUME TransferLimitsAssumption, IInv, Running, NEW r \in Requests, UncountIP(r)
  PROVE  IInv'
<1> USE DEF IInv, UncountIP, Move
<1>0. IP(r) \in IPs
  BY DEF IP, TransferLimitsAssumption
<1>1. r \in OfIP(IP(r)) /\ OfIP(IP(r)) \subseteq Requests
  BY DEF OfIP
<1>2. transfersPerIP[IP(r)] > 0
  BY <1>0, <1>1, OneLess, ExactParts DEF IPsExact, TransferLimitsAssumption
<1>3. transfersPerIP' = [transfersPerIP EXCEPT ![IP(r)] = @ - 1]
  BY <1>2
<1>4. TypeOK'
  <2>1. transfersPerIP' \in [IPs -> Nat]
    BY <1>0, <1>2, <1>3 DEF TypeOK
  <2> QED
    BY <2>1, MoveTypes, PCsAre DEF TypeOK, hookVars
<1>5. TotalExact' /\ UsersExact'
  <2>1. InTotal' = InTotal
    BY DEF InTotal, TypeOK
  <2>2. \A u \in Users : OfUser(u)' = OfUser(u)
    BY DEF OfUser, User, TypeOK
  <2> QED
    BY <2>1, <2>2, ExactParts DEF TotalExact, UsersExact
<1>6. IPsExact'
  <2> SUFFICES ASSUME NEW ip \in IPs PROVE transfersPerIP'[ip] = Cardinality(OfIP(ip)')
    BY DEF IPsExact
  <2>1. CASE ip = IP(r)
    <3>1. OfIP(ip)' = OfIP(ip) \ {r}
      BY <2>1 DEF OfIP, IP, TypeOK
    <3> QED
      BY <1>1, <1>3, <2>1, <3>1, OneLess, ExactParts
         DEF IPsExact, TypeOK, TransferLimitsAssumption
  <2>2. CASE ip # IP(r)
    <3>1. OfIP(ip)' = OfIP(ip)
      BY <2>2 DEF OfIP, IP, TypeOK
    <3> QED
      BY <1>3, <2>2, <3>1, ExactParts DEF IPsExact, TypeOK
  <2> QED
    BY <2>1, <2>2
<1>7. ListExact'
  BY ExactParts DEF ListExact, Listed, TypeOK
<1>8. HooksExact'
  BY ExactParts DEF HooksExact, RunningHooks, hookVars
<1>9. TransfersExact'
  BY <1>5, <1>6, <1>7, <1>8, ExactParts, PTL
<1>10. Shutdown'
  BY ShutdownMove DEF hookVars
<1> QED
  BY <1>4, <1>9, <1>10

LEMMA UnlistStep ==
  ASSUME TransferLimitsAssumption, IInv, Running, NEW r \in Requests, Unlist(r)
  PROVE  IInv'
<1> USE DEF IInv, Unlist, Move
<1>0. ConnOf[r] \in Conns
  BY DEF TransferLimitsAssumption
<1>1. TypeOK'
  <2>1. activeTransfers' \in [Conns -> SUBSET Requests]
    BY <1>0 DEF TypeOK
  <2> QED
    BY <2>1, MoveTypes, PCsAre DEF TypeOK, counters, hookVars
<1>2. TotalExact' /\ UsersExact' /\ IPsExact'
  <2>1. InTotal' = InTotal
    BY DEF InTotal, TypeOK
  <2>2. \A u \in Users : OfUser(u)' = OfUser(u)
    BY DEF OfUser, User, TypeOK
  <2>3. \A ip \in IPs : OfIP(ip)' = OfIP(ip)
    BY DEF OfIP, IP, TypeOK
  <2> QED
    BY <2>1, <2>2, <2>3, ExactParts DEF TotalExact, UsersExact, IPsExact, counters
<1>3. ListExact'
  BY <1>0, ExactParts DEF ListExact, Listed, TypeOK
<1>4. HooksExact'
  BY ExactParts DEF HooksExact, RunningHooks, hookVars
<1>5. TransfersExact'
  BY <1>2, <1>3, <1>4, ExactParts, PTL
<1>6. Shutdown'
  BY ShutdownMove DEF hookVars
<1> QED
  BY <1>1, <1>5, <1>6

-----------------------------------------------------------------------------
(* The hooks.                                                              *)

(* Hooks do not concern the transfers.                                     *)
LEMMA HookKeeps ==
  ASSUME IInv, UNCHANGED <<counters, activeTransfers, pc, waitVars>>
  PROVE  /\ TotalExact' /\ UsersExact' /\ IPsExact' /\ ListExact'
         /\ ExistingEnd' /\ ScanSees' /\ ScanDone'
<1> USE DEF IInv
<1>1. TotalExact' /\ UsersExact' /\ IPsExact' /\ ListExact'
  BY ExactParts DEF TotalExact, UsersExact, IPsExact, ListExact, Listed, InTotal,
     OfUser, OfIP, counters
<1>2. ExistingEnd' /\ ScanSees' /\ ScanDone'
  BY DEF Shutdown, ExistingEnd, ScanSees, ScanDone, waitVars
<1> QED
  BY <1>1, <1>2

LEMMA HookTypes ==
  ASSUME TypeOK, UNCHANGED <<counters, activeTransfers, pc, waitVars>>,
         hook' \in [Hooks -> {"none", "spawned", "running", "ended"}],
         activeHooks' \in Nat
  PROVE  TypeOK'
BY DEF TypeOK, counters, waitVars

LEMMA HookStartsStep ==
  ASSUME TransferLimitsAssumption, IInv, NEW h \in Hooks, HookStarts(h)
  PROVE  IInv'
<1> USE DEF IInv, HookStarts
<1>1. hook' \in [Hooks -> {"none", "spawned", "running", "ended"}]
      /\ activeHooks' \in Nat
  BY DEF TypeOK
<1>2. TypeOK'
  BY <1>1, HookTypes
<1>3. HooksExact'
  <2>1. /\ RunningHooks' = RunningHooks \cup {h}
        /\ h \notin RunningHooks /\ RunningHooks \subseteq Hooks
    BY DEF RunningHooks, TypeOK
  <2> QED
    BY <2>1, OneMore, ExactParts DEF HooksExact, TransferLimitsAssumption
<1>4. HooksEnd'
  BY DEF Shutdown, HooksEnd, TypeOK, waitVars
<1>5. TransfersExact'
  BY <1>3, HookKeeps, ExactParts, PTL
<1>6. Shutdown'
  BY <1>4, HookKeeps DEF Shutdown
<1> QED
  BY <1>2, <1>5, <1>6

LEMMA HookEndsStep ==
  ASSUME TransferLimitsAssumption, IInv, NEW h \in Hooks, HookEnds(h)
  PROVE  IInv'
<1> USE DEF IInv, HookEnds
<1>1. h \in RunningHooks /\ RunningHooks \subseteq Hooks
  BY DEF RunningHooks
<1>2. activeHooks > 0
  BY <1>1, OneLess, ExactParts DEF HooksExact, TransferLimitsAssumption
<1>3. hook' \in [Hooks -> {"none", "spawned", "running", "ended"}]
      /\ activeHooks' \in Nat
  BY <1>2 DEF TypeOK
<1>4. TypeOK'
  BY <1>3, HookTypes
<1>5. HooksExact'
  <2>1. RunningHooks' = RunningHooks \ {h}
    BY DEF RunningHooks, TypeOK
  <2> QED
    BY <1>1, <2>1, OneLess, ExactParts DEF HooksExact, TransferLimitsAssumption
<1>6. HooksEnd'
  BY DEF Shutdown, HooksEnd, TypeOK, waitVars
<1>7. TransfersExact'
  BY <1>5, HookKeeps, ExactParts, PTL
<1>8. Shutdown'
  BY <1>6, HookKeeps DEF Shutdown
<1> QED
  BY <1>4, <1>7, <1>8

-----------------------------------------------------------------------------
(* WaitForTransfers                                                        *)

(* It changes nothing but its own variables.                               *)
LEMMA WaitKeeps ==
  ASSUME IInv, UNCHANGED serving
  PROVE  TransfersExact'
BY DEF IInv, TransfersExact, InTotal, OfUser, OfIP, serving, counters, hookVars

LEMMA WaitTypes ==
  ASSUME TypeOK, UNCHANGED serving,
         isShuttingDown' \in BOOLEAN, found' \in BOOLEAN,
         wait' \in {"none", "hooks", "scan", "waiting", "graceful", "hard"},
         toScan' \subseteq Conns, existing' \subseteq Requests,
         existingHooks' \subseteq Hooks
  PROVE  TypeOK'
BY DEF TypeOK, serving, counters, hookVars

LEMMA InterruptStep ==
  ASSUME TransferLimitsAssumption, IInv, Interrupt
  PROVE  IInv'
<1> USE DEF IInv, Interrupt
<1>1. \A r \in existing' : r \in Requests
         /\ pc[r] \in {"open", "closing", "uncounted", "unlisting"}
  BY ExactParts DEF ListExact, Listed
<1>2. isShuttingDown' \in BOOLEAN
  OBVIOUS
<1>3. found' \in BOOLEAN
  BY DEF TypeOK
<1>4. TypeOK'
  BY <1>1, <1>2, <1>3, WaitTypes DEF TypeOK
<1>5. ExistingEnd'
  BY <1>1 DEF ExistingEnd, serving
<1>6. ScanSees' /\ ScanDone'
  BY DEF ScanSees, ScanDone
<1>7. HooksEnd'
  BY DEF HooksEnd, serving, hookVars
<1> QED
  BY <1>4, <1>5, <1>6, <1>7, WaitKeeps DEF Shutdown

(* No active hook: those that ran at the interrupt have ended.             *)
LEMMA ReadHooksStep ==
  ASSUME TransferLimitsAssumption, IInv, ReadHooks
  PROVE  IInv'
<1> USE DEF IInv, ReadHooks
<1>1. found' \in BOOLEAN
  BY DEF TypeOK
<1>2. isShuttingDown' \in BOOLEAN
  BY DEF TypeOK
<1>3. TypeOK'
  BY <1>1, <1>2, WaitTypes DEF TypeOK
<1>4. ExistingEnd'
  BY DEF Shutdown, ExistingEnd, serving
<1>5. ScanSees'
  BY DEF ScanSees, TransferLimitsAssumption, TypeOK
<1>6. ScanDone'
  BY DEF ScanDone
<1>7. HooksEnd'
  <2>1. CASE activeHooks = 0
    <3>1. RunningHooks = {}
      <4>1. SUFFICES ASSUME NEW h \in RunningHooks PROVE FALSE
        OBVIOUS
      <4>2. Cardinality(RunningHooks) > 0
        BY OneLess DEF RunningHooks, TransferLimitsAssumption
      <4> QED
        BY <2>1, <4>2, ExactParts DEF HooksExact
    <3> QED
      BY <3>1 DEF RunningHooks, Shutdown, HooksEnd, TypeOK, serving, hookVars
  <2>2. CASE activeHooks # 0
    BY <2>2 DEF Shutdown, HooksEnd, serving, hookVars
  <2> QED
    BY <2>1, <2>2
<1> QED
  BY <1>3, <1>4, <1>5, <1>6, <1>7, WaitKeeps DEF Shutdown

(* A connection without transfers has none of the existing ones left.      *)
LEMMA ScanConnectionStep ==
  ASSUME TransferLimitsAssumption, IInv, NEW c \in Conns, ScanConnection(c)
  PROVE  IInv'
<1> USE DEF IInv, ScanConnection
<1>1. found' \in BOOLEAN
  BY DEF TypeOK
<1>2. isShuttingDown' \in BOOLEAN
  BY DEF TypeOK
<1>3. TypeOK'
  BY <1>1, <1>2, WaitTypes DEF TypeOK
<1>4. ExistingEnd' /\ ScanDone'
  BY DEF Shutdown, ExistingEnd, ScanDone, serving
<1>5. ScanSees'
  <2> SUFFICES ASSUME NEW r \in existing, pc[r] # "idle",
                      ConnOf[r] \notin toScan \ {c}, ~found,
                      activeTransfers[c] = {}
               PROVE  FALSE
    BY DEF ScanSees, serving
  <2>1. ConnOf[r] = c /\ r \in Requests
    BY DEF Shutdown, ScanSees, TypeOK
  <2>2. r \in Listed(c)
    BY <2>1 DEF Listed, Shutdown, ExistingEnd
  <2> QED
    BY <2>2, ExactParts DEF ListExact
<1>6. HooksEnd'
  BY DEF Shutdown, HooksEnd, serving, hookVars
<1> QED
  BY <1>3, <1>4, <1>5, <1>6, WaitKeeps DEF Shutdown

LEMMA ScannedStep ==
  ASSUME TransferLimitsAssumption, IInv, Scanned
  PROVE  IInv'
<1> USE DEF IInv, Scanned
<1>1. found' \in BOOLEAN
  BY DEF TypeOK
<1>2. isShuttingDown' \in BOOLEAN
  BY DEF TypeOK
<1>3. TypeOK'
  BY <1>1, <1>2, WaitTypes DEF TypeOK
<1>4. ExistingEnd' /\ ScanSees'
  BY DEF Shutdown, ExistingEnd, ScanSees, serving
<1>5. ScanDone'
  BY DEF Shutdown, ScanSees, ScanDone, serving
<1>6. HooksEnd'
  BY DEF Shutdown, HooksEnd, serving, hookVars
<1> QED
  BY <1>3, <1>4, <1>5, <1>6, WaitKeeps DEF Shutdown

LEMMA WaitingStep ==
  ASSUME TransferLimitsAssumption, IInv, Tick \/ GraceExpires
  PROVE  IInv'
<1> USE DEF IInv, Tick, GraceExpires
<1>1. found' \in BOOLEAN
  BY DEF TypeOK
<1>2. isShuttingDown' \in BOOLEAN
  BY DEF TypeOK
<1>3. TypeOK'
  BY <1>1, <1>2, WaitTypes DEF TypeOK
<1>4. ExistingEnd' /\ ScanSees' /\ ScanDone'
  BY DEF Shutdown, ExistingEnd, ScanSees, ScanDone, serving
<1>5. HooksEnd'
  BY DEF Shutdown, HooksEnd, serving, hookVars
<1> QED
  BY <1>3, <1>4, <1>5, WaitKeeps DEF Shutdown

-----------------------------------------------------------------------------
(* The initial state, any step, the theorems.                              *)

LEMMA InitIInv ==
  ASSUME TransferLimitsAssumption, Init
  PROVE  IInv
<1> USE DEF Init
<1>1. TypeOK
  <2>1. isShuttingDown \in BOOLEAN /\ found \in BOOLEAN
    OBVIOUS
  <2>2. pc \in [Requests -> PCs]
    BY PCsAre
  <2> QED
    BY <2>1, <2>2 DEF TypeOK
<1>2. /\ InTotal = {} /\ RunningHooks = {}
      /\ \A u \in Users : OfUser(u) = {}
      /\ \A ip \in IPs : OfIP(ip) = {}
      /\ \A c \in Conns : Listed(c) = {}
  BY DEF InTotal, RunningHooks, OfUser, OfIP, Listed
<1>3. TransfersExact
  BY <1>2, FS_EmptySet, ExactParts
     DEF TotalExact, UsersExact, IPsExact, ListExact, HooksExact
<1>4. Shutdown
  BY DEF Shutdown, ExistingEnd, ScanSees, ScanDone, HooksEnd
<1> QED
  BY <1>1, <1>3, <1>4 DEF IInv

(* Whatever a limit says, the request stays uncounted or is let in.        *)
LEMMA CompareStep ==
  ASSUME IInv, Running, NEW r \in Requests, NEW from \in Uncounted, from # "idle",
         NEW reached, NEW to \in Uncounted, Compare(r, from, reached, to)
  PROVE  IInv'
<1>1. pc' = [pc EXCEPT ![r] = "idle"] \/ pc' = [pc EXCEPT ![r] = to]
  BY DEF Compare, Move
<1>2. "idle" \in Uncounted
  BY DEF Uncounted
<1>3. pc[r] = from /\ UNCHANGED <<counters, activeTransfers, hookVars, waitVars>>
  BY DEF Compare, Move
<1>4. CASE pc' = [pc EXCEPT ![r] = "idle"]
  BY <1>2, <1>3, <1>4, UncountedMove
<1>5. CASE pc' = [pc EXCEPT ![r] = to]
  BY <1>3, <1>5, UncountedMove
<1> QED
  BY <1>1, <1>4, <1>5

LEMMA TransferStep ==
  ASSUME TransferLimitsAssumption, IInv, Running, NEW r \in Requests, Transfer(r)
  PROVE  IInv'
<1>1. CASE BeginTransfer(r)
  <2> DEFINE p == IF Unlimited(User(r)) THEN "allowed" ELSE "user"
  <2>1. p \in Uncounted /\ pc[r] \in Uncounted /\ ~isShuttingDown
    BY <1>1 DEF BeginTransfer, Move, Uncounted
  <2>2. pc' = [pc EXCEPT ![r] = p]
        /\ UNCHANGED <<counters, activeTransfers, hookVars, waitVars>>
    BY <1>1 DEF BeginTransfer, Move
  <2> HIDE DEF p
  <2> QED
    BY <2>1, <2>2, UncountedMove
<1>2. CASE CompareUser(r)
  BY <1>2, CompareStep DEF CompareUser, Uncounted
<1>3. CASE CompareIP(r)
  BY <1>3, CompareStep DEF CompareIP, Uncounted
<1>4. CASE CompareTotal(r)
  BY <1>4, CompareStep DEF CompareTotal, Uncounted
<1>5. CASE OpenFails(r)
  BY <1>5, UncountedMove DEF OpenFails, Move, Uncounted
<1> QED
  BY <1>1, <1>2, <1>3, <1>4, <1>5, CountTotalStep, CountUserStep, CountIPStep,
     ListStep, CloseStep, UncountUserStep, UncountIPStep, UnlistStep DEF Transfer

LEMMA NextIInv ==
  ASSUME TransferLimitsAssumption, IInv, [Next]_vars
  PROVE  IInv'
<1>1. CASE Running /\ \E r \in Requests : Transfer(r)
  BY <1>1, TransferStep
<1>2. CASE \E h \in Hooks : HookStarts(h) \/ HookEnds(h)
  BY <1>2, HookStartsStep, HookEndsStep
<1>3. CASE WaitForTransfers
  BY <1>3, InterruptStep, ReadHooksStep, ScanConnectionStep, ScannedStep, WaitingStep
     DEF WaitForTransfers
<1>4. CASE UNCHANGED vars
  <2>1. UNCHANGED serving /\ UNCHANGED waitVars
    BY <1>4 DEF vars, serving, counters, hookVars, waitVars
  <2>2. TransfersExact'
    BY <2>1, WaitKeeps
  <2>3. isShuttingDown' \in BOOLEAN /\ found' \in BOOLEAN
    BY <2>1 DEF IInv, TypeOK, waitVars
  <2>4. TypeOK'
    BY <2>1, <2>3, WaitTypes DEF IInv, TypeOK, waitVars
  <2>5. Shutdown'
    BY <2>1 DEF IInv, Shutdown, ExistingEnd, ScanSees, ScanDone, HooksEnd,
       waitVars, serving, hookVars
  <2> QED
    BY <2>2, <2>4, <2>5 DEF IInv
<1> QED
  BY <1>1, <1>2, <1>3, <1>4 DEF Next

(* The inductive invariant holds of every behaviour.                       *)
THEOREM Inductive ==
  ASSUME TransferLimitsAssumption
  PROVE  Spec => []IInv
BY InitIInv, NextIInv, PTL DEF Spec

(* The types of common.go's transfer and hook counters: none of them ever  *)
(* falls below zero.                                                       *)
THEOREM TypeCorrect ==
  ASSUME TransferLimitsAssumption
  PROVE  Spec => []TypeOK
<1>1. IInv => TypeOK
  BY DEF IInv
<1> QED
  BY <1>1, Inductive, PTL

(* The counters IsNewTransferAllowed compares are exact between the steps  *)
(* of AddTransfer and RemoveTransfer, for any number of requests.          *)
THEOREM CountsExact ==
  ASSUME TransferLimitsAssumption
  PROVE  Spec => []TransfersExact
<1>1. IInv => TransfersExact
  BY DEF IInv
<1> QED
  BY <1>1, Inductive, PTL

(* WaitForTransfers only returns early when the transfers and the hooks it *)
(* found have ended.                                                       *)
THEOREM ShutdownGraceful ==
  ASSUME TransferLimitsAssumption
  PROVE  Spec => []GracefulExit
<1>1. IInv => GracefulExit
  <2> SUFFICES ASSUME IInv, wait = "graceful"
               PROVE  /\ \A c \in Conns : existing \cap activeTransfers[c] = {}
                      /\ \A h \in existingHooks : hook[h] = "ended"
    BY DEF GracefulExit
  <2>1. \A r \in existing : pc[r] = "idle"
    BY DEF IInv, Shutdown, ScanDone
  <2>2. \A c \in Conns : activeTransfers[c] = Listed(c)
    BY ExactParts DEF IInv, ListExact
  <2>3. \A c \in Conns : existing \cap activeTransfers[c] = {}
    BY <2>1, <2>2 DEF Listed
  <2> QED
    BY <2>3 DEF IInv, Shutdown, HooksEnd
<1> QED
  BY <1>1, Inductive, PTL
=============================================================================

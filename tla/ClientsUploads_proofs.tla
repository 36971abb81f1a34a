------------------------ MODULE ClientsUploads_proofs ------------------------
(***************************************************************************)
(* Proofs about the two ends of a session.  First ClientLimits, for any    *)
(* clients, addresses and limits: the counters of the clients are exact,   *)
(* and no limit is exceeded.  Then Uploads, for any paths, uploads, sizes  *)
(* and limits: what an upload leaves at its path and at its temporary      *)
(* file, the limit on its size, and the quota, which every upload charges  *)
(* by differences against sizes it has read before.                        *)
(***************************************************************************)
EXTENDS ClientLimits, Uploads, FiniteSetTheorems, TLAPS

(* Clients that passed the comparison with the limit of their address, and *)
(* with the total: what the two limits need to be inductive.               *)
PastHost(ip) ==
  {c \in Clients :
     IPOf[c] = ip /\ pc[c] \in {"total", "transfers", "sessions", "accepted"}}
PastTotal == {c \in Clients : pc[c] \in {"transfers", "sessions", "accepted"}}

HostPassed ==
  MaxPerHostConnections > 0 =>
    \A ip \in IPs \ SafeIPs : Cardinality(PastHost(ip)) <= MaxPerHostConnections
TotalPassed ==
  MaxTotalConnections > 0 =>
    /\ Cardinality(PastTotal) <= MaxTotalConnections
    /\ Accepted \subseteq PastTotal

IInv == TypeOK /\ ClientsExact /\ HostPassed /\ TotalPassed

-----------------------------------------------------------------------------
(* Cardinalities                                                           *)

(* Every set of clients is finite and no larger than a set it is part of.  *)
LEMMA ClientSets ==
  ASSUME ClientLimitsAssumption, NEW S, NEW T, S \subseteq T, T \subseteq Clients
  PROVE  /\ IsFiniteSet(S) /\ IsFiniteSet(T)
         /\ Cardinality(S) \in Nat /\ Cardinality(T) \in Nat
         /\ Cardinality(S) <= Cardinality(T)
<1>1. IsFiniteSet(T)
  BY FS_Subset DEF ClientLimitsAssumption
<1>2. IsFiniteSet(S)
  BY <1>1, FS_Subset
<1>3. Cardinality(S) \in Nat /\ Cardinality(T) \in Nat
  BY <1>1, <1>2, FS_CardinalityType
<1> QED
  BY <1>1, <1>2, <1>3, FS_Subset

(* One client more.                                                        *)
LEMMA OneMore ==
  ASSUME ClientLimitsAssumption, NEW S, S \subseteq Clients,
         NEW c \in Clients, c \notin S
  PROVE  Cardinality(S \cup {c}) = Cardinality(S) + 1
<1>1. IsFiniteSet(S)
  BY FS_Subset DEF ClientLimitsAssumption
<1> QED
  BY <1>1, FS_AddElement

(* One client less.                                                        *)
LEMMA OneLess ==
  ASSUME ClientLimitsAssumption, NEW S, S \subseteq Clients, NEW c \in S
  PROVE  /\ Cardinality(S \ {c}) = Cardinality(S) - 1
         /\ Cardinality(S) > 0
<1>1. IsFiniteSet(S)
  BY FS_Subset DEF ClientLimitsAssumption
<1>2. /\ Cardinality(S \ {c}) = Cardinality(S) - 1
      /\ Cardinality(S \ {c}) \in Nat /\ Cardinality(S) \in Nat
  BY <1>1, FS_RemoveElement, FS_CardinalityType, FS_Subset
<1> QED
  BY <1>2

-----------------------------------------------------------------------------
(* The initial state.                                                      *)
LEMMA InitIInv ==
  ASSUME ClientLimitsAssumption, Init PROVE IInv
<1>1. TypeOK
  <2>1. /\ totalConnections \in Nat /\ clients \in [IPs -> Nat]
        /\ pc \in [Clients -> PCs]
    BY DEF Init, PCs
  <2>2. 0 \in 0..MaxPerClient
    BY DEF ClientLimitsAssumption
  <2>3. /\ sessions \in [Clients -> 0..MaxPerClient]
        /\ transfers \in [Clients -> 0..MaxPerClient]
    BY <2>2 DEF Init
  <2>4. isShuttingDown \in BOOLEAN
    BY DEF Init
  <2> QED
    BY <2>1, <2>3, <2>4 DEF TypeOK
<1>2. InTotal = {} /\ PastTotal = {} /\ Accepted = {}
  BY DEF Init, InTotal, PastTotal, Accepted
<1>3. \A ip \in IPs : InSource(ip) = {} /\ PastHost(ip) = {}
  BY DEF Init, InSource, PastHost
<1>4. Cardinality({}) = 0
  BY FS_EmptySet
<1>5. ClientsExact
  BY <1>2, <1>3, <1>4 DEF ClientsExact, Init
<1>6. HostPassed
  BY <1>3, <1>4 DEF HostPassed, ClientLimitsAssumption
<1>7. TotalPassed
  BY <1>2, <1>4 DEF TotalPassed, ClientLimitsAssumption
<1> QED
  BY <1>1, <1>5, <1>6, <1>7 DEF IInv

-----------------------------------------------------------------------------
(* Steps.  What a step of client c does to the sets the counts stand for.  *)

(* Steps that only move c from one pc to another and leave the counters    *)
(* alone: the sets that do not tell the two apart stay the same.           *)
LEMMA MoveKeepsCounts ==
  ASSUME ClientLimitsAssumption, TypeOK, ClientsExact, NEW c \in Clients, NEW p \in PCs,
         pc[c] \notin {"idle", "adding"}, p \notin {"idle", "adding"},
         pc' = [pc EXCEPT ![c] = p], UNCHANGED counters
  PROVE  ClientsExact'
<1>1. InTotal' = InTotal
  BY DEF InTotal, TypeOK
<1>2. \A ip \in IPs : InSource(ip)' = InSource(ip)
  BY DEF InSource, TypeOK
<1> QED
  BY <1>1, <1>2 DEF ClientsExact, counters

(* A client that passes neither limit leaves no more clients past them.    *)
LEMMA FewerPassed ==
  ASSUME ClientLimitsAssumption, HostPassed, TotalPassed,
         \A ip \in IPs : PastHost(ip)' \subseteq PastHost(ip),
         MaxTotalConnections > 0 =>
           /\ PastTotal' \subseteq PastTotal
           /\ Accepted' \subseteq PastTotal'
  PROVE  HostPassed' /\ TotalPassed'
<1>1. \A ip \in IPs : /\ Cardinality(PastHost(ip)') <= Cardinality(PastHost(ip))
                      /\ Cardinality(PastHost(ip)') \in Nat
                      /\ Cardinality(PastHost(ip)) \in Nat
  BY ClientSets DEF PastHost
<1>2. MaxTotalConnections > 0 => /\ Cardinality(PastTotal') <= Cardinality(PastTotal)
                                 /\ Cardinality(PastTotal') \in Nat
                                 /\ Cardinality(PastTotal) \in Nat
  BY ClientSets DEF PastTotal
<1>3. HostPassed'
  BY <1>1 DEF HostPassed, ClientLimitsAssumption
<1>4. TotalPassed'
  BY <1>2 DEF TotalPassed, ClientLimitsAssumption
<1> QED
  BY <1>3, <1>4

-----------------------------------------------------------------------------
(* The halves of clientsMap.add and clientsMap.remove.                     *)

LEMMA AddTotalStep ==
  ASSUME ClientLimitsAssumption, IInv, NEW c \in Clients, AddTotal(c)
  PROVE  IInv'
<1> USE DEF IInv
<1>1. TypeOK'
  BY DEF TypeOK, AddTotal, work, PCs
<1>2. InTotal' = InTotal \cup {c} /\ c \notin InTotal /\ InTotal \subseteq Clients
  BY DEF InTotal, AddTotal, TypeOK
<1>3. \A ip \in IPs : InSource(ip)' = InSource(ip)
  BY DEF InSource, AddTotal, TypeOK
<1>4. ClientsExact'
  BY <1>2, <1>3, OneMore DEF ClientsExact, AddTotal
<1>5. /\ \A ip \in IPs : PastHost(ip)' \subseteq PastHost(ip)
      /\ PastTotal' \subseteq PastTotal
      /\ MaxTotalConnections > 0 => Accepted' \subseteq PastTotal'
  BY DEF PastHost, PastTotal, Accepted, AddTotal, TypeOK
<1> QED
  BY <1>1, <1>4, <1>5, FewerPassed

LEMMA AddSourceStep ==
  ASSUME ClientLimitsAssumption, IInv, NEW c \in Clients, AddSource(c)
  PROVE  IInv'
<1> USE DEF IInv
<1>1. TypeOK'
  BY DEF TypeOK, AddSource, work, PCs, ClientLimitsAssumption
<1>2. InTotal' = InTotal
  BY DEF InTotal, AddSource, TypeOK
<1>3. ASSUME NEW ip \in IPs PROVE clients'[ip] = Cardinality(InSource(ip)')
  <2>1. CASE ip = IPOf[c]
    <3>1. /\ InSource(ip)' = InSource(ip) \cup {c}
          /\ c \notin InSource(ip) /\ InSource(ip) \subseteq Clients
      BY <2>1 DEF InSource, AddSource, TypeOK
    <3> QED
      BY <2>1, <3>1, OneMore DEF ClientsExact, AddSource, TypeOK
  <2>2. CASE ip # IPOf[c]
    <3>1. InSource(ip)' = InSource(ip)
      BY <2>2 DEF InSource, AddSource, TypeOK
    <3> QED
      BY <2>2, <3>1 DEF ClientsExact, AddSource, TypeOK
  <2> QED
    BY <2>1, <2>2
<1>4. ClientsExact'
  BY <1>2, <1>3 DEF ClientsExact, AddSource
<1>5. /\ \A ip \in IPs : PastHost(ip)' \subseteq PastHost(ip)
      /\ PastTotal' \subseteq PastTotal
      /\ MaxTotalConnections > 0 => Accepted' \subseteq PastTotal'
  BY DEF PastHost, PastTotal, Accepted, AddSource, TypeOK
<1> QED
  BY <1>1, <1>4, <1>5, FewerPassed

LEMMA DisconnectStep ==
  ASSUME ClientLimitsAssumption, IInv, NEW c \in Clients, ClientDisconnected(c)
  PROVE  IInv'
<1> USE DEF IInv
<1>1. c \in InTotal /\ InTotal \subseteq Clients
      /\ c \in InSource(IPOf[c]) /\ InSource(IPOf[c]) \subseteq Clients
      /\ IPOf[c] \in IPs
  BY DEF InTotal, InSource, ClientDisconnected, ClientLimitsAssumption
<1>2. totalConnections > 0 /\ clients[IPOf[c]] > 0
  BY <1>1, OneLess DEF ClientsExact
<1>3. /\ totalConnections' = totalConnections - 1
      /\ clients' = [clients EXCEPT ![IPOf[c]] = @ - 1]
      /\ pc' = [pc EXCEPT ![c] = "idle"]
  BY <1>2 DEF ClientDisconnected, remove
<1>4. TypeOK'
  <2>1. clients' \in [IPs -> Nat] /\ totalConnections' \in Nat
    BY <1>1, <1>2, <1>3 DEF TypeOK
  <2>2. pc' \in [Clients -> PCs]
    BY <1>3 DEF TypeOK, PCs
  <2> QED
    BY <2>1, <2>2 DEF TypeOK, ClientDisconnected, work
<1>5. InTotal' = InTotal \ {c}
  BY <1>3 DEF InTotal, TypeOK
<1>6. ASSUME NEW ip \in IPs PROVE clients'[ip] = Cardinality(InSource(ip)')
  <2>1. CASE ip = IPOf[c]
    <3>1. InSource(ip)' = InSource(ip) \ {c}
      BY <1>3 DEF InSource, TypeOK
    <3> QED
      BY <1>1, <1>3, <2>1, <3>1, OneLess DEF ClientsExact, TypeOK
  <2>2. CASE ip # IPOf[c]
    <3>1. InSource(ip)' = InSource(ip)
      BY <1>3, <2>2 DEF InSource, TypeOK
    <3> QED
      BY <1>3, <2>2, <3>1 DEF ClientsExact, TypeOK
  <2> QED
    BY <2>1, <2>2
<1>7. ClientsExact'
  BY <1>1, <1>3, <1>5, <1>6, OneLess DEF ClientsExact
<1>8. /\ \A ip \in IPs : PastHost(ip)' \subseteq PastHost(ip)
      /\ PastTotal' \subseteq PastTotal
      /\ MaxTotalConnections > 0 => Accepted' \subseteq PastTotal'
  BY <1>3 DEF PastHost, PastTotal, Accepted, TypeOK
<1> QED
  BY <1>4, <1>7, <1>8, FewerPassed

-----------------------------------------------------------------------------
(* The comparisons of IsNewConnectionAllowed.                              *)

(* Any comparison that refuses, or that is not with a limit, keeps all.    *)
LEMMA CheckTypes ==
  ASSUME TypeOK, NEW c \in Clients, NEW at, NEW refuse, NEW next \in PCs,
         Check(c, at, refuse, next)
  PROVE  /\ TypeOK'
         /\ pc[c] = at
         /\ UNCHANGED counters
         /\ pc' = [pc EXCEPT ![c] = "refused"] \/ pc' = [pc EXCEPT ![c] = next]
<1>1. pc' = [pc EXCEPT ![c] = "refused"] \/ pc' = [pc EXCEPT ![c] = next]
  BY DEF Check
<1>2. pc' \in [Clients -> PCs]
  BY <1>1 DEF TypeOK, PCs
<1> QED
  BY <1>1, <1>2 DEF Check, TypeOK, counters, work

LEMMA RefusedStep ==
  ASSUME ClientLimitsAssumption, IInv, NEW c \in Clients,
         pc[c] \notin {"idle", "adding"},
         pc' = [pc EXCEPT ![c] = "refused"], UNCHANGED counters
  PROVE  ClientsExact' /\ HostPassed' /\ TotalPassed'
<1> USE DEF IInv
<1>1. ClientsExact'
  BY MoveKeepsCounts DEF PCs
<1>2. /\ \A ip \in IPs : PastHost(ip)' \subseteq PastHost(ip)
      /\ PastTotal' \subseteq PastTotal
      /\ MaxTotalConnections > 0 => Accepted' \subseteq PastTotal'
  BY DEF PastHost, PastTotal, Accepted, TypeOK, TotalPassed
<1> QED
  BY <1>1, <1>2, FewerPassed

LEMMA CheckClosingStep ==
  ASSUME ClientLimitsAssumption, IInv, NEW c \in Clients, CheckClosing(c)
  PROVE  IInv'
<1> USE DEF IInv
<1> DEFINE next == IF MaxTotalConnections = 0 /\ MaxPerHostConnections = 0
                   THEN "accepted" ELSE "host"
<1>1. next \in PCs /\ next \notin {"idle", "adding"}
  BY DEF PCs
<1>2. /\ TypeOK' /\ pc[c] = "closing" /\ UNCHANGED counters
      /\ pc' = [pc EXCEPT ![c] = "refused"] \/ pc' = [pc EXCEPT ![c] = next]
  BY <1>1, CheckTypes DEF CheckClosing
<1>3. CASE pc' = [pc EXCEPT ![c] = "refused"]
  BY <1>2, <1>3, RefusedStep
<1>4. CASE pc' = [pc EXCEPT ![c] = next]
  <2>1. ClientsExact'
    BY <1>1, <1>2, <1>4, MoveKeepsCounts
  <2>2. CASE MaxTotalConnections = 0 /\ MaxPerHostConnections = 0
    BY <1>2, <2>1, <2>2 DEF HostPassed, TotalPassed
  <2>3. CASE ~(MaxTotalConnections = 0 /\ MaxPerHostConnections = 0)
    <3>1. pc' = [pc EXCEPT ![c] = "host"]
      BY <1>4, <2>3
    <3>2. /\ \A ip \in IPs : PastHost(ip)' \subseteq PastHost(ip)
          /\ PastTotal' \subseteq PastTotal
          /\ MaxTotalConnections > 0 => Accepted' \subseteq PastTotal'
      BY <3>1 DEF PastHost, PastTotal, Accepted, TypeOK, TotalPassed
    <3> QED
      BY <1>2, <2>1, <3>2, FewerPassed
  <2> QED
    BY <2>2, <2>3
<1> QED
  BY <1>2, <1>3, <1>4

(* Whoever passes the limit of the address is counted for it, and so is    *)
(* everybody who passed it before.                                         *)
LEMMA CheckHostStep ==
  ASSUME ClientLimitsAssumption, IInv, NEW c \in Clients, CheckHost(c)
  PROVE  IInv'
<1> USE DEF IInv
<1> DEFINE next == IF MaxTotalConnections > 0 THEN "total" ELSE "accepted"
           refuse == /\ MaxPerHostConnections > 0
                     /\ clients[IPOf[c]] > MaxPerHostConnections
                     /\ IPOf[c] \notin SafeIPs
<1>1. next \in PCs /\ next \notin {"idle", "adding"}
  BY DEF PCs
<1>2. /\ TypeOK' /\ pc[c] = "host" /\ UNCHANGED counters
      /\ pc' = [pc EXCEPT ![c] = "refused"] \/ pc' = [pc EXCEPT ![c] = next]
  BY <1>1, CheckTypes DEF CheckHost
<1>3. CASE pc' = [pc EXCEPT ![c] = "refused"]
  BY <1>2, <1>3, RefusedStep
<1>4. CASE ~refuse
  <2>1. pc' = [pc EXCEPT ![c] = next]
    BY <1>4 DEF CheckHost, Check
  <2>2. ClientsExact'
    BY <1>1, <1>2, <2>1, MoveKeepsCounts
  <2>3. HostPassed'
    <3> SUFFICES ASSUME MaxPerHostConnections > 0, NEW ip \in IPs \ SafeIPs
                 PROVE  Cardinality(PastHost(ip)') <= MaxPerHostConnections
      BY DEF HostPassed
    <3>1. CASE ip # IPOf[c]
      <4>1. PastHost(ip)' = PastHost(ip)
        BY <2>1, <3>1 DEF PastHost, TypeOK
      <4> QED
        BY <4>1 DEF HostPassed
    <3>2. CASE ip = IPOf[c]
      <4>1. PastHost(ip)' \subseteq InSource(ip) /\ InSource(ip) \subseteq Clients
        BY <1>2, <2>1 DEF PastHost, InSource, TypeOK
      <4>2. /\ Cardinality(PastHost(ip)') <= Cardinality(InSource(ip))
            /\ Cardinality(PastHost(ip)') \in Nat /\ Cardinality(InSource(ip)) \in Nat
        BY <4>1, ClientSets
      <4>3. Cardinality(InSource(ip)) <= MaxPerHostConnections
        BY <1>4, <3>2, <4>2 DEF ClientsExact, ClientLimitsAssumption
      <4> QED
        BY <4>2, <4>3 DEF ClientLimitsAssumption
    <3> QED
      BY <3>1, <3>2
  <2>4. TotalPassed'
    <3> SUFFICES ASSUME MaxTotalConnections > 0
                 PROVE  /\ Cardinality(PastTotal') <= MaxTotalConnections
                        /\ Accepted' \subseteq PastTotal'
      BY DEF TotalPassed
    <3>1. pc' = [pc EXCEPT ![c] = "total"]
      BY <2>1
    <3>2. PastTotal' = PastTotal /\ Accepted' \subseteq PastTotal'
      BY <1>2, <3>1 DEF PastTotal, Accepted, TypeOK, TotalPassed
    <3> QED
      BY <3>2 DEF TotalPassed
  <2> QED
    BY <1>2, <2>2, <2>3, <2>4
<1>5. CASE refuse
  BY <1>3, <1>5 DEF CheckHost, Check
<1> QED
  BY <1>4, <1>5

(* The same for the total.                                                 *)
LEMMA CheckTotalStep ==
  ASSUME ClientLimitsAssumption, IInv, NEW c \in Clients, CheckTotal(c)
  PROVE  IInv'
<1> USE DEF IInv
<1>1. /\ TypeOK' /\ pc[c] = "total" /\ UNCHANGED counters
      /\ pc' = [pc EXCEPT ![c] = "refused"] \/ pc' = [pc EXCEPT ![c] = "transfers"]
  BY CheckTypes DEF CheckTotal, PCs
<1>2. CASE pc' = [pc EXCEPT ![c] = "refused"]
  BY <1>1, <1>2, RefusedStep
<1>3. CASE totalConnections <= MaxTotalConnections
  <2>0. ~(totalConnections > MaxTotalConnections)
    BY <1>3 DEF TypeOK, ClientLimitsAssumption
  <2>1. pc' = [pc EXCEPT ![c] = "transfers"]
    BY <2>0 DEF CheckTotal, Check
  <2>2. ClientsExact'
    BY <1>1, <2>1, MoveKeepsCounts DEF PCs
  <2>3. HostPassed'
    <3>1. \A ip \in IPs : PastHost(ip)' = PastHost(ip)
      BY <1>1, <2>1 DEF PastHost, TypeOK
    <3> QED
      BY <3>1 DEF HostPassed
  <2>4. /\ PastTotal' \subseteq InTotal /\ InTotal \subseteq Clients
        /\ MaxTotalConnections > 0 => Accepted' \subseteq PastTotal'
    BY <1>1, <2>1 DEF PastTotal, InTotal, Accepted, TypeOK, TotalPassed
  <2>5. /\ Cardinality(PastTotal') <= Cardinality(InTotal)
        /\ Cardinality(PastTotal') \in Nat /\ Cardinality(InTotal) \in Nat
    BY <2>4, ClientSets
  <2>6. TotalPassed'
    BY <1>3, <2>4, <2>5 DEF TotalPassed, ClientsExact, ClientLimitsAssumption
  <2> QED
    BY <1>1, <2>2, <2>3, <2>6
<1>4. CASE ~(totalConnections <= MaxTotalConnections)
  <2>1. totalConnections > MaxTotalConnections
    BY <1>4 DEF TypeOK, ClientLimitsAssumption
  <2> QED
    BY <1>2, <2>1 DEF CheckTotal, Check
<1> QED
  BY <1>3, <1>4

(* Comparisons with the transfers and the sessions, after both limits.     *)
LEMMA LaterCheckStep ==
  ASSUME ClientLimitsAssumption, IInv, NEW c \in Clients,
         CheckTransfers(c) \/ CheckSessions(c)
  PROVE  IInv'
<1> USE DEF IInv
<1>1. /\ TypeOK' /\ UNCHANGED counters
      /\ pc[c] \in {"transfers", "sessions"}
      /\ \E p \in {"refused", "sessions", "accepted"} : pc' = [pc EXCEPT ![c] = p]
  <2>1. CASE CheckTransfers(c)
    BY <2>1, CheckTypes DEF CheckTransfers, PCs
  <2>2. CASE CheckSessions(c)
    BY <2>2, CheckTypes DEF CheckSessions, PCs
  <2> QED
    BY <2>1, <2>2
<1>2. PICK p \in {"refused", "sessions", "accepted"} : pc' = [pc EXCEPT ![c] = p]
  BY <1>1
<1>3. ClientsExact'
  BY <1>1, <1>2, MoveKeepsCounts DEF PCs
<1>4. /\ \A ip \in IPs : PastHost(ip)' \subseteq PastHost(ip)
      /\ PastTotal' \subseteq PastTotal
      /\ MaxTotalConnections > 0 => Accepted' \subseteq PastTotal'
  BY <1>1, <1>2 DEF PastHost, PastTotal, Accepted, TypeOK
<1> QED
  BY <1>1, <1>3, <1>4, FewerPassed

LEMMA RefuseStep ==
  ASSUME ClientLimitsAssumption, IInv, NEW c \in Clients, Refuse(c)
  PROVE  IInv'
<1> USE DEF IInv
<1>1. TypeOK'
  BY DEF Refuse, TypeOK, PCs, counters, work
<1> QED
  BY <1>1, RefusedStep DEF Refuse

(* Sessions, transfers and the shutdown change nothing that is counted.    *)
LEMMA OtherStep ==
  ASSUME ClientLimitsAssumption, IInv, UNCHANGED <<counters, pc>>,
         \/ \E c \in Clients : Work(c)
         \/ Shutdown
         \/ UNCHANGED vars
  PROVE  IInv'
<1> USE DEF IInv
<1> DEFINE WorkType == /\ sessions \in [Clients -> 0..MaxPerClient]
                      /\ transfers \in [Clients -> 0..MaxPerClient]
<1>1. WorkType'
  <2>1. ASSUME NEW c \in Clients, AddSession(c) PROVE WorkType'
    BY <2>1 DEF AddSession, TypeOK, ClientLimitsAssumption
  <2>2. ASSUME NEW c \in Clients, EndSession(c) PROVE WorkType'
    BY <2>2 DEF EndSession, TypeOK, ClientLimitsAssumption
  <2>3. ASSUME NEW c \in Clients, StartTransfer(c) PROVE WorkType'
    BY <2>3 DEF StartTransfer, TypeOK, ClientLimitsAssumption
  <2>4. ASSUME NEW c \in Clients, EndTransfer(c) PROVE WorkType'
    BY <2>4 DEF EndTransfer, TypeOK, ClientLimitsAssumption
  <2>5. CASE Shutdown \/ UNCHANGED vars
    BY <2>5 DEF Shutdown, vars, work, TypeOK
  <2> QED
    BY <2>1, <2>2, <2>3, <2>4, <2>5 DEF Work
<1>2. isShuttingDown' \in BOOLEAN
  BY DEF Work, AddSession, EndSession, StartTransfer, EndTransfer, Shutdown, vars, TypeOK
<1>3. TypeOK'
  BY <1>1, <1>2 DEF TypeOK, counters
<1>4. /\ InTotal' = InTotal /\ Accepted' = Accepted /\ PastTotal' = PastTotal
      /\ \A ip \in IPs : InSource(ip)' = InSource(ip) /\ PastHost(ip)' = PastHost(ip)
  BY DEF InTotal, Accepted, PastTotal, InSource, PastHost
<1>5. ClientsExact' /\ HostPassed' /\ TotalPassed'
  BY <1>4 DEF ClientsExact, HostPassed, TotalPassed, counters
<1> QED
  BY <1>3, <1>5

-----------------------------------------------------------------------------
(* The inductive invariant, one step per action of Next.                   *)
THEOREM Inductive == ASSUME ClientLimitsAssumption PROVE Spec => []IInv
<1>1. Init => IInv
  BY InitIInv
<1>2. IInv /\ [Next]_vars => IInv'
  <2> SUFFICES ASSUME IInv, [Next]_vars PROVE IInv'
    OBVIOUS
  <2>1. ASSUME NEW c \in Clients, AddTotal(c) PROVE IInv'
    BY <2>1, AddTotalStep
  <2>2. ASSUME NEW c \in Clients, AddSource(c) PROVE IInv'
    BY <2>2, AddSourceStep
  <2>3. ASSUME NEW c \in Clients, CheckClosing(c) PROVE IInv'
    BY <2>3, CheckClosingStep
  <2>4. ASSUME NEW c \in Clients, CheckHost(c) PROVE IInv'
    BY <2>4, CheckHostStep
  <2>5. ASSUME NEW c \in Clients, CheckTotal(c) PROVE IInv'
    BY <2>5, CheckTotalStep
  <2>6. ASSUME NEW c \in Clients, CheckTransfers(c) \/ CheckSessions(c) PROVE IInv'
    BY <2>6, LaterCheckStep
  <2>7. ASSUME NEW c \in Clients, Refuse(c) PROVE IInv'
    BY <2>7, RefuseStep
  <2>8. ASSUME NEW c \in Clients, ClientDisconnected(c) PROVE IInv'
    BY <2>8, DisconnectStep
  <2>9. ASSUME NEW c \in Clients, Work(c) PROVE IInv'
    <3>1. UNCHANGED <<counters, pc>>
      BY <2>9 DEF Work, AddSession, EndSession, StartTransfer, EndTransfer
    <3> QED
      BY <2>9, <3>1, OtherStep
  <2>10. CASE Shutdown
    <3>1. UNCHANGED <<counters, pc>>
      BY <2>10 DEF Shutdown
    <3> QED
      BY <2>10, <3>1, OtherStep
  <2>11. CASE UNCHANGED vars
    <3>1. UNCHANGED <<counters, pc>>
      BY <2>11 DEF vars
    <3> QED
      BY <2>11, <3>1, OtherStep
  <2> QED
    BY <2>1, <2>2, <2>3, <2>4, <2>5, <2>6, <2>7, <2>8, <2>9, <2>10, <2>11
       DEF Next, Admission
<1> QED
  BY <1>1, <1>2, PTL DEF Spec

(* The types, for any clients, addresses and limits.                       *)
THEOREM TypeCorrect == ASSUME ClientLimitsAssumption PROVE Spec => []TypeOK
<1>1. IInv => TypeOK
  BY DEF IInv
<1> QED
  BY <1>1, Inductive, PTL

(* The total and the counts are those of the clients that are there.       *)
THEOREM CountsExact == ASSUME ClientLimitsAssumption PROVE Spec => []ClientsExact
<1>1. IInv => ClientsExact
  BY DEF IInv
<1> QED
  BY <1>1, Inductive, PTL

(* Racing clients never exceed MaxTotalConnections: everybody past the     *)
(* comparison was in the total when the last of them compared.             *)
THEOREM TotalKept == ASSUME ClientLimitsAssumption PROVE Spec => []TotalLimit
<1>1. IInv => TotalLimit
  <2> SUFFICES ASSUME IInv, MaxTotalConnections > 0
               PROVE  Cardinality(Accepted) <= MaxTotalConnections
    BY DEF TotalLimit
  <2>1. Accepted \subseteq PastTotal /\ PastTotal \subseteq Clients
    BY DEF IInv, TotalPassed, PastTotal
  <2>2. /\ Cardinality(Accepted) <= Cardinality(PastTotal)
        /\ Cardinality(Accepted) \in Nat /\ Cardinality(PastTotal) \in Nat
    BY <2>1, ClientSets
  <2> QED
    BY <2>2 DEF IInv, TotalPassed, ClientLimitsAssumption
<1> QED
  BY <1>1, Inductive, PTL

(* Nor MaxPerHostConnections, from an address that is not in the safe list. *)
THEOREM HostKept == ASSUME ClientLimitsAssumption PROVE Spec => []HostLimit
<1>1. IInv => HostLimit
  <2> SUFFICES ASSUME IInv, MaxPerHostConnections > 0, NEW ip \in IPs \ SafeIPs
               PROVE  Cardinality({c \in Accepted : IPOf[c] = ip})
                        <= MaxPerHostConnections
    BY DEF HostLimit
  <2> DEFINE A == {c \in Accepted : IPOf[c] = ip}
  <2>1. A \subseteq PastHost(ip) /\ PastHost(ip) \subseteq Clients
    BY DEF Accepted, PastHost
  <2>2. /\ Cardinality(A) <= Cardinality(PastHost(ip))
        /\ Cardinality(A) \in Nat /\ Cardinality(PastHost(ip)) \in Nat
    BY <2>1, ClientSets
  <2> QED
    BY <2>2 DEF IInv, HostPassed, ClientLimitsAssumption
<1> QED
  BY <1>1, Inductive, PTL

(* Both limits together.                                                    *)
THEOREM AdmissionLimits == ASSUME ClientLimitsAssumption PROVE Spec => []LimitsKept
<1>1. TotalLimit /\ HostLimit => LimitsKept
  BY DEF LimitsKept
<1> QED
  BY <1>1, TotalKept, HostKept, PTL


-----------------------------------------------------------------------------
(* Sums, as numbers of bytes                                                *)

Sum(size) == Cardinality(Bytes(size))

LEMMA OneOfBytes ==
  ASSUME NEW x, NEW n \in Nat
  PROVE  IsFiniteSet({x} \X (1 .. n)) /\ Cardinality({x} \X (1 .. n)) = n
<1>1. IsFiniteSet({x}) /\ Cardinality({x}) = 1
  BY FS_Singleton
<1>2. IsFiniteSet(1 .. n) /\ Cardinality(1 .. n) = n
  BY FS_Interval
<1>3. IsFiniteSet({x} \X (1 .. n))
  BY <1>1, <1>2, FS_Product
<1>4. Cardinality({x} \X (1 .. n)) = 1 * n
  BY <1>1, <1>2, FS_Product
<1> QED BY <1>3, <1>4

LEMMA SumFinite ==
  ASSUME NEW X, IsFiniteSet(X), NEW f \in [X -> Nat], NEW Y \in SUBSET X
  PROVE  IsFiniteSet(UNION {{y} \X (1 .. f[y]) : y \in Y})
<1> DEFINE g == [y \in Y |-> {y} \X (1 .. f[y])]
           B == {{y} \X (1 .. f[y]) : y \in Y}
<1>1. g \in Surjection(Y, B)
  <2>1. g \in [Y -> B]
    OBVIOUS
  <2>2. \A b \in B : \E y \in Y : g[y] = b
    OBVIOUS
  <2> HIDE DEF g, B
  <2> QED BY <2>1, <2>2 DEF Surjection
<1>2. IsFiniteSet(B)
  <2> HIDE DEF g, B
  <2> QED BY <1>1, FS_Subset, FS_Surjection
<1>3. \A b \in B : IsFiniteSet(b)
  <2> SUFFICES ASSUME NEW y \in Y PROVE IsFiniteSet({y} \X (1 .. f[y]))
    OBVIOUS
  <2>1. f[y] \in Nat
    OBVIOUS
  <2> QED BY <2>1, OneOfBytes
<1>4. IsFiniteSet(UNION B)
  <2> HIDE DEF B
  <2> QED BY <1>2, <1>3, FS_UNION
<1> QED BY <1>4

(* A sum is what one has and what the others have. *)
LEMMA SumSplit ==
  ASSUME NEW X, IsFiniteSet(X), NEW f \in [X -> Nat], NEW x \in X
  PROVE  LET rest == UNION {{y} \X (1 .. f[y]) : y \in X \ {x}}
         IN  Sum(f) = Cardinality(rest) + f[x] /\ Cardinality(rest) \in Nat
<1> DEFINE rest == UNION {{y} \X (1 .. f[y]) : y \in X \ {x}}
           own  == {x} \X (1 .. f[x])
<1>1. Bytes(f) = rest \cup own
  BY DEF Bytes
<1>2. rest \cap own = {}
  OBVIOUS
<1>3. IsFiniteSet(rest) /\ IsFiniteSet(own) /\ Cardinality(own) = f[x]
  BY SumFinite, OneOfBytes
<1> HIDE DEF rest, own
<1>4. Cardinality(rest \cup own) = Cardinality(rest) + Cardinality(own) - Cardinality({})
  BY <1>2, <1>3, FS_Union
<1>5. Cardinality(rest) \in Nat /\ f[x] \in Nat /\ Cardinality({}) = 0
  BY <1>3, FS_CardinalityType, FS_EmptySet
<1>6. Sum(f) = Cardinality(rest) + f[x]
  BY <1>1, <1>3, <1>4, <1>5 DEF Sum
<1> QED BY <1>5, <1>6 DEF rest

(* When one changes, the sum changes by as much. *)
LEMMA SumChange ==
  ASSUME NEW X, IsFiniteSet(X), NEW f \in [X -> Nat], NEW g \in [X -> Nat],
         NEW x \in X, \A y \in X \ {x} : g[y] = f[y]
  PROVE  Sum(f) \in Nat /\ Sum(g) \in Nat /\ Sum(g) = Sum(f) - f[x] + g[x]
<1> DEFINE rest(h) == UNION {{y} \X (1 .. h[y]) : y \in X \ {x}}
<1>1. rest(g) = rest(f)
  OBVIOUS
<1>2. /\ Sum(f) = Cardinality(rest(f)) + f[x] /\ Cardinality(rest(f)) \in Nat
      /\ Sum(g) = Cardinality(rest(g)) + g[x]
  BY SumSplit
<1>3. f[x] \in Nat /\ g[x] \in Nat
  OBVIOUS
<1> HIDE DEF rest
<1> QED BY <1>1, <1>2, <1>3

LEMMA SumOfNone ==
  ASSUME NEW X, NEW f \in [X -> Nat], \A x \in X : f[x] = 0
  PROVE  Sum(f) = 0
<1>1. Bytes(f) = {}
  BY DEF Bytes
<1> QED BY <1>1, FS_EmptySet DEF Sum

(* The number of those that have one. *)
LEMMA SumOfOnes ==
  ASSUME NEW X, IsFiniteSet(X), NEW f \in [X -> {0, 1}]
  PROVE  Sum(f) = Cardinality({x \in X : f[x] = 1})
<1> DEFINE S == {x \in X : f[x] = 1}
           h == [x \in S |-> <<x, 1>>]
<1>1. IsFiniteSet(S)
  BY FS_Subset
<1>2. \A b : b \in Bytes(f) <=> \E x \in S : b = <<x, 1>>
  <2>1. ASSUME NEW x \in S PROVE <<x, 1>> \in Bytes(f)
    BY DEF Bytes
  <2>2. ASSUME NEW b \in Bytes(f) PROVE \E x \in S : b = <<x, 1>>
    <3>1. PICK x \in X : b \in {x} \X (1 .. f[x])
      BY DEF Bytes
    <3>2. f[x] \in {0, 1}
      OBVIOUS
    <3>3. f[x] = 1
      BY <3>1, <3>2
    <3> QED BY <3>1, <3>3
  <2> QED BY <2>1, <2>2
<1>3. h \in Bijection(S, Bytes(f))
  <2>1. h \in [S -> Bytes(f)]
    BY <1>2
  <2>2. \A x, y \in S : h[x] = h[y] => x = y
    OBVIOUS
  <2>3. \A b \in Bytes(f) : \E x \in S : h[x] = b
    BY <1>2
  <2> HIDE DEF h, S
  <2> QED BY <2>1, <2>2, <2>3 DEF Bijection, Injection, Surjection, IsInjective
<1> HIDE DEF h, S
<1>4. Cardinality(Bytes(f)) = Cardinality(S)
  BY <1>1, <1>3, FS_Bijection DEF ExistsBijection
<1> QED BY <1>4 DEF Sum, S

LEMMA ChangeOfUpload ==
  ASSUME NEW f \in [Uploads -> Nat], NEW g \in [Uploads -> Nat],
         NEW u \in Uploads, \A v \in Uploads \ {u} : g[v] = f[v]
  PROVE  Sum(f) \in Nat /\ Sum(g) \in Nat /\ Sum(g) = Sum(f) - f[u] + g[u]
BY SumChange, UploadsAssumption

-----------------------------------------------------------------------------
(* What each step of an upload does                                         *)

USE DEF config

(* The number of files is bounded where the uploads are alone: see UInv.    *)
AnyTransfer ==
  [pc : {"idle", "checking", "admitted", "open", "settled", "hook", "ended"},
   path : Paths \cup {NoFile}, protocol : Protocols \cup {"none"},
   flag : {"none", "trunc", "append", "readwrite"}, isNewFile : BOOLEAN,
   fileSize : 0 .. MaxSize, InitialSize : 0 .. MaxSize, MinWriteOffset : 0 .. MaxSize,
   BytesReceived : 0 .. MaxReceived, MaxWriteSize : Int,
   ErrTransfer : {"none", "quota", "other"}, numFiles : Int]

Typed ==
  /\ uploadMode \in UploadModes
  /\ file \in [Paths -> Contents] /\ temp \in [Uploads -> Contents]
  /\ usedFiles \in Int /\ usedSize \in Int
  /\ up \in [Uploads -> AnyTransfer]
  /\ \A u \in Uploads : up[u].pc # "idle" => up[u].path \in Paths

(* While it is active no other client uses the path of an upload.           *)
Active(u) == up[u].pc \notin {"idle", "ended"}
Alone ==
  \A u, v \in Uploads :
    (u # v /\ Active(u) /\ Active(v)) => up[u].path # up[v].path

Base ==
  /\ Typed
  /\ ~Overlap => Alone
  /\ \A u \in Uploads :
       /\ up[u].pc = "open" => Written(u) # NoFile
       /\ up[u].pc \in {"checking", "admitted"} =>
            up[u].BytesReceived = 0 /\ up[u].ErrTransfer = "none"

Others(u) == \A v \in Uploads \ {u} : up'[v] = up[v] /\ temp'[v] = temp[v]
Elsewhere(p) == \A q \in Paths \ {p} : file'[q] = file[q]
Goes(u) ==
  /\ up'[u].path = up[u].path /\ up'[u].protocol = up[u].protocol
  /\ up'[u].flag = up[u].flag /\ up'[u].isNewFile = up[u].isNewFile
Writes(u, n) ==
  IF Direct(up[u].path)
  THEN file'[up[u].path] = Content(n, FALSE) /\ Elsewhere(up[u].path) /\ temp' = temp
  ELSE temp'[u] = Content(n, FALSE) /\ file' = file

LEMMA ContentTyped ==
  /\ \A n \in 0 .. MaxSize, whole \in BOOLEAN :
       /\ Content(n, whole) \in Contents /\ Content(n, whole) # NoFile
       /\ Content(n, whole).size = n /\ Content(n, whole).whole = whole
       /\ SizeOf(Content(n, whole)) = n
  /\ \A c \in Contents : c # NoFile => c.size \in 0 .. MaxSize /\ c.whole \in BOOLEAN
  /\ \A c \in Contents : SizeOf(c) \in 0 .. MaxSize
  /\ MaxSize \in Nat /\ NoFile \in Contents /\ SizeOf(NoFile) = 0
<1>1. MaxSize \in Nat /\ \A n \in 0 .. MaxSize, whole \in BOOLEAN : Content(n, whole) # NoFile
  BY UploadsAssumption
<1>2. \A n \in 0 .. MaxSize, whole \in BOOLEAN :
        /\ Content(n, whole) \in [size : 0 .. MaxSize, whole : BOOLEAN]
        /\ Content(n, whole).size = n /\ Content(n, whole).whole = whole
  BY DEF Content
<1>3. \A c \in Contents : c # NoFile => c.size \in 0 .. MaxSize /\ c.whole \in BOOLEAN
  BY DEF Contents
<1> QED BY <1>1, <1>2, <1>3 DEF Contents, SizeOf

LEMMA OneUpload ==
  ASSUME Typed, NEW u \in Uploads, NEW r \in AnyTransfer, up' = [up EXCEPT ![u] = r],
         r.pc # "idle" => r.path \in Paths, UNCHANGED uploadMode,
         file' \in [Paths -> Contents], temp' \in [Uploads -> Contents],
         \A v \in Uploads \ {u} : temp'[v] = temp[v],
         usedFiles' \in Int, usedSize' \in Int
  PROVE  Typed' /\ Others(u) /\ up'[u] = r
BY DEF Typed, Others

LEMMA IdleTyped ==
  /\ Idle \in AnyTransfer /\ Idle.pc = "idle" /\ Idle.numFiles = 0
  /\ Idle.BytesReceived = 0 /\ Idle.ErrTransfer = "none"
<1>1. MaxSize \in Nat /\ MaxReceived \in Nat
  BY UploadsAssumption
<1> QED BY <1>1 DEF Idle, AnyTransfer

LEMMA LstatDoes ==
  ASSUME Base, NEW u \in Uploads, NEW p \in Paths, NEW protocol \in Protocols,
         NEW flag \in Flags(protocol), Lstat(u, p, protocol, flag)
  PROVE  /\ Typed' /\ Others(u) /\ Elsewhere(p) /\ Free(p)
         /\ up[u].pc = "idle" /\ temp[u] = NoFile
         /\ up'[u].pc = "checking" /\ up'[u].path = p /\ up'[u].protocol = protocol
         /\ up'[u].flag = flag /\ up'[u].isNewFile = (file[p] = NoFile)
         /\ up'[u].fileSize = SizeOf(file[p]) /\ up'[u].numFiles = 0
         /\ up'[u].BytesReceived = 0 /\ up'[u].ErrTransfer = "none"
         /\ IF file[p] # NoFile /\ Atomic(p) /\ RenamesFirst(protocol)
            THEN temp'[u] = file[p] /\ file'[p] = NoFile
            ELSE temp' = temp /\ file' = file
         /\ UNCHANGED <<uploadMode, usedFiles, usedSize>>
<1> DEFINE exists == file[p] # NoFile
           size == IF exists THEN file[p].size ELSE 0
           r == [Idle EXCEPT !.pc = "checking", !.path = p, !.protocol = protocol,
                             !.flag = flag, !.isNewFile = ~exists, !.fileSize = size]
<1>0. Typed /\ up[u] = Idle
  BY DEF Base, Lstat
<1>1. size \in 0 .. MaxSize /\ size = SizeOf(file[p])
  <2>1. file[p] \in Contents
    BY <1>0 DEF Typed
  <2> QED BY <2>1, ContentTyped DEF SizeOf
<1>2. flag \in {"trunc", "append", "readwrite"}
  BY DEF Flags
<1>3. exists \in BOOLEAN /\ MaxSize \in Nat /\ MaxReceived \in Nat
  BY UploadsAssumption
<1>4. up' = [up EXCEPT ![u] = r]
  BY DEF Lstat
<1>5. /\ r \in AnyTransfer
      /\ r.pc = "checking" /\ r.path = p /\ r.protocol = protocol /\ r.flag = flag
      /\ r.isNewFile = ~exists /\ r.fileSize = size /\ r.numFiles = 0
      /\ r.BytesReceived = 0 /\ r.ErrTransfer = "none"
  <2> DEFINE new == ~exists
  <2>1. r = [Idle EXCEPT !.pc = "checking", !.path = p, !.protocol = protocol,
                         !.flag = flag, !.isNewFile = new, !.fileSize = size]
    OBVIOUS
  <2>2. new \in BOOLEAN
    OBVIOUS
  <2>3. new = ~exists
    OBVIOUS
  <2> HIDE DEF exists, size, r, new
  <2>4. /\ r \in AnyTransfer
        /\ r.pc = "checking" /\ r.path = p /\ r.protocol = protocol /\ r.flag = flag
        /\ r.isNewFile = new /\ r.fileSize = size /\ r.numFiles = 0
        /\ r.BytesReceived = 0 /\ r.ErrTransfer = "none"
    BY <1>1, <1>2, <2>1, <2>2, IdleTyped DEF AnyTransfer
  <2> QED BY <2>3, <2>4
<1>7. /\ file' \in [Paths -> Contents] /\ temp' \in [Uploads -> Contents]
      /\ Elsewhere(p) /\ \A v \in Uploads \ {u} : temp'[v] = temp[v]
      /\ IF exists /\ Atomic(p) /\ RenamesFirst(protocol)
         THEN temp'[u] = file[p] /\ file'[p] = NoFile
         ELSE temp' = temp /\ file' = file
  <2>1. file \in [Paths -> Contents] /\ temp \in [Uploads -> Contents] /\ NoFile \in Contents
    BY <1>0, ContentTyped DEF Typed
  <2>2. CASE exists /\ Atomic(p) /\ RenamesFirst(protocol)
    <3>1. temp' = [temp EXCEPT ![u] = file[p]] /\ file' = [file EXCEPT ![p] = NoFile]
      BY <2>2 DEF Lstat
    <3> QED BY <2>1, <2>2, <3>1 DEF Elsewhere
  <2>3. CASE ~(exists /\ Atomic(p) /\ RenamesFirst(protocol))
    <3>1. temp' = temp /\ file' = file
      BY <2>3 DEF Lstat
    <3> QED BY <2>1, <2>3, <3>1 DEF Elsewhere
  <2> QED BY <2>2, <2>3
<1>8. /\ Free(p) /\ temp[u] = NoFile /\ UNCHANGED <<uploadMode, usedFiles, usedSize>>
  BY DEF Lstat
<1>9. Typed' /\ Others(u) /\ up'[u] = r
  <2>1. r.pc # "idle" => r.path \in Paths
    <3> HIDE DEF exists, size, r
    <3> QED BY <1>5
  <2>2. usedFiles' \in Int /\ usedSize' \in Int
    BY <1>0, <1>8 DEF Typed
  <2> HIDE DEF exists, size, r
  <2> QED BY <1>0, <1>4, <1>5, <1>7, <1>8, <2>1, <2>2, OneUpload
<1>10. up[u].pc = "idle"
  BY <1>0, IdleTyped
<1>11. /\ up'[u].pc = "checking" /\ up'[u].path = p /\ up'[u].protocol = protocol
       /\ up'[u].flag = flag /\ up'[u].isNewFile = ~exists
       /\ up'[u].fileSize = size /\ up'[u].numFiles = 0
       /\ up'[u].BytesReceived = 0 /\ up'[u].ErrTransfer = "none"
  <2> HIDE DEF exists, size, r
  <2> QED BY <1>5, <1>9
<1> QED BY <1>1, <1>7, <1>8, <1>9, <1>10, <1>11

(* The upload is over: denied, failed or accounted for. *)
LEMMA EndsIdle ==
  ASSUME Typed, NEW u \in Uploads, up' = [up EXCEPT ![u] = Idle], UNCHANGED uploadMode,
         file' \in [Paths -> Contents], temp' \in [Uploads -> Contents],
         \A v \in Uploads \ {u} : temp'[v] = temp[v],
         usedFiles' \in Int, usedSize' \in Int
  PROVE  Typed' /\ Others(u) /\ up'[u] = Idle /\ up'[u].pc = "idle"
BY OneUpload, IdleTyped

LEMMA MaxWriteSizeTyped ==
  ASSUME Typed, NEW u \in Uploads
  PROVE  GetMaxWriteSize(u) \in Int
<1>1. /\ up[u].fileSize \in Int /\ usedSize \in Int
  BY DEF Typed, AnyTransfer
<1>2. QuotaSize \in Int /\ MaxUploadFileSize \in Int
  BY UploadsAssumption
<1> QED BY <1>1, <1>2 DEF GetMaxWriteSize, AtMost

LEMMA AdmitDoes ==
  ASSUME Base, NEW u \in Uploads, Admit(u)
  PROVE  /\ Typed' /\ Others(u) /\ Goes(u)
         /\ up[u].pc = "checking" /\ HasSpace(up[u].isNewFile) /\ ResumeAllowed(u)
         /\ up'[u].pc = "admitted" /\ up'[u].MaxWriteSize = GetMaxWriteSize(u)
         /\ up'[u].fileSize = up[u].fileSize /\ up'[u].numFiles = up[u].numFiles
         /\ up'[u].BytesReceived = up[u].BytesReceived
         /\ up'[u].ErrTransfer = up[u].ErrTransfer
         /\ UNCHANGED <<uploadMode, file, temp, usedFiles, usedSize>>
<1> DEFINE r == [up[u] EXCEPT !.pc = "admitted", !.MaxWriteSize = GetMaxWriteSize(u)]
<1>1. /\ Typed /\ up[u] \in AnyTransfer /\ GetMaxWriteSize(u) \in Int
      /\ up[u].pc = "checking" /\ HasSpace(up[u].isNewFile) /\ ResumeAllowed(u)
      /\ UNCHANGED <<uploadMode, file, temp, usedFiles, usedSize>>
  BY MaxWriteSizeTyped DEF Base, Typed, Admit
<1>2. up' = [up EXCEPT ![u] = r]
  BY <1>1 DEF Admit, Typed, AnyTransfer
<1>3. /\ r \in AnyTransfer /\ r.pc = "admitted" /\ r.path = up[u].path
      /\ r.protocol = up[u].protocol /\ r.flag = up[u].flag /\ r.isNewFile = up[u].isNewFile
      /\ r.MaxWriteSize = GetMaxWriteSize(u) /\ r.fileSize = up[u].fileSize
      /\ r.numFiles = up[u].numFiles /\ r.BytesReceived = up[u].BytesReceived
      /\ r.ErrTransfer = up[u].ErrTransfer
  BY <1>1 DEF AnyTransfer
<1> HIDE DEF r
<1>4. Typed' /\ Others(u) /\ up'[u] = r
  BY <1>1, <1>2, <1>3, OneUpload DEF Typed
<1> QED BY <1>1, <1>3, <1>4 DEF Goes

Count(content) == IF content = NoFile THEN 0 ELSE 1
Before(u) == IF up[u].isNewFile THEN 0 ELSE 1

LEMMA AboutUpload ==
  ASSUME Base, NEW u \in Uploads
  PROVE  /\ Typed /\ up[u] \in AnyTransfer /\ temp[u] \in Contents
         /\ up[u].pc # "idle" => up[u].path \in Paths /\ Current(u) \in Contents
         /\ up[u].pc = "open" =>
              Written(u) \in Contents /\ Written(u) # NoFile /\ Written(u).size \in 0 .. MaxSize
         /\ MaxSize \in Nat /\ MaxReceived \in Nat /\ QuotaSize \in Nat /\ QuotaFiles \in Nat
         /\ MaxUploadFileSize \in Nat
<1>1. /\ Typed /\ up[u] \in AnyTransfer /\ temp[u] \in Contents
      /\ up[u].pc # "idle" => up[u].path \in Paths /\ Current(u) \in Contents
  BY DEF Base, Typed, Current
<1>2. ASSUME up[u].pc = "open"
      PROVE  Written(u) \in Contents /\ Written(u) # NoFile /\ Written(u).size \in 0 .. MaxSize
  <2>1. Written(u) \in Contents
    BY <1>1, <1>2 DEF Written
  <2>2. Written(u) # NoFile
    BY <1>2 DEF Base
  <2> QED BY <2>1, <2>2, ContentTyped
<1> QED BY <1>1, <1>2, UploadsAssumption

LEMMA WriteDoes ==
  ASSUME Typed, NEW u \in Uploads, up[u].path \in Paths, NEW n \in 0 .. MaxSize,
         Write(u, Content(n, FALSE))
  PROVE  /\ file' \in [Paths -> Contents] /\ temp' \in [Uploads -> Contents]
         /\ \A v \in Uploads \ {u} : temp'[v] = temp[v]
         /\ Writes(u, n)
<1> DEFINE content == Content(n, FALSE)
<1>1. content \in Contents /\ content = Content(n, FALSE)
  BY ContentTyped
<1>2. file \in [Paths -> Contents] /\ temp \in [Uploads -> Contents]
  BY DEF Typed
<1> HIDE DEF content
<1>3. CASE Direct(up[u].path)
  <2>1. file' = [file EXCEPT ![up[u].path] = content] /\ temp' = temp
    BY <1>1, <1>3 DEF Write
  <2> QED BY <1>1, <1>2, <1>3, <2>1 DEF Writes, Elsewhere
<1>4. CASE ~Direct(up[u].path)
  <2>1. temp' = [temp EXCEPT ![u] = content] /\ file' = file
    BY <1>1, <1>4 DEF Write
  <2> QED BY <1>1, <1>2, <1>4, <2>1 DEF Writes
<1> QED BY <1>3, <1>4

LEMMA CreateDoes ==
  ASSUME Base, NEW u \in Uploads, Create(u)
  PROVE  /\ Typed' /\ Others(u) /\ Goes(u)
         /\ up[u].pc = "admitted" /\ up'[u].pc = "open"
         /\ up'[u].InitialSize = IF TruncatesNow(u) THEN 0 ELSE up[u].fileSize
         /\ up'[u].MaxWriteSize =
              IF ~up[u].isNewFile /\ up[u].MaxWriteSize > 0 /\ RenamesFirst(up[u].protocol)
              THEN up[u].MaxWriteSize + up[u].fileSize ELSE up[u].MaxWriteSize
         /\ up'[u].BytesReceived = up[u].BytesReceived
         /\ up'[u].ErrTransfer = up[u].ErrTransfer /\ up'[u].numFiles = up[u].numFiles
         /\ ToRename(u) => Current(u) # NoFile
         /\ OpenedSize(u) \in 0 .. MaxSize
         /\ IF Direct(up[u].path)
            THEN /\ file'[up[u].path] = Content(OpenedSize(u), FALSE)
                 /\ Elsewhere(up[u].path) /\ temp' = temp
            ELSE /\ temp'[u] = Content(OpenedSize(u), FALSE)
                 /\ IF ToRename(u) THEN file'[up[u].path] = NoFile /\ Elsewhere(up[u].path)
                    ELSE file' = file
         /\ usedFiles' = usedFiles
         /\ usedSize' = usedSize - (IF TruncatesNow(u) THEN up[u].fileSize ELSE 0)
<1> DEFINE f == up[u].fileSize
           p == up[u].path
           offset == IF IsResume(u) /\ up[u].flag = "append" THEN f ELSE 0
           initial == IF TruncatesNow(u) THEN 0 ELSE f
           max == IF ~up[u].isNewFile /\ up[u].MaxWriteSize > 0 /\ RenamesFirst(up[u].protocol)
                  THEN up[u].MaxWriteSize + f ELSE up[u].MaxWriteSize
           content == Content(OpenedSize(u), FALSE)
           r == [up[u] EXCEPT !.pc = "open", !.MinWriteOffset = offset,
                              !.InitialSize = initial, !.MaxWriteSize = max]
<1>1. /\ Typed /\ up[u] \in AnyTransfer /\ up[u].pc = "admitted" /\ p \in Paths
      /\ Current(u) \in Contents /\ temp[u] \in Contents /\ MaxSize \in Nat
      /\ ToRename(u) => Current(u) # NoFile
      /\ UNCHANGED uploadMode
  BY AboutUpload DEF Create
<1>2. f \in 0 .. MaxSize /\ up[u].MaxWriteSize \in Int /\ 0 \in 0 .. MaxSize
  BY <1>1 DEF AnyTransfer
<1>3. offset \in 0 .. MaxSize /\ initial \in 0 .. MaxSize /\ max \in Int
  BY <1>2
<1>4. OpenedSize(u) \in 0 .. MaxSize
  <2>1. Existing(u) \in Contents
    BY <1>1 DEF Existing
  <2> QED BY <1>2, <2>1, ContentTyped DEF OpenedSize
<1>5. content \in Contents
  BY <1>4, ContentTyped
<1>6. up' = [up EXCEPT ![u] = r]
  BY <1>1 DEF Create, Typed, AnyTransfer
<1>7. /\ r \in AnyTransfer /\ r.pc = "open" /\ r.path = p
      /\ r.protocol = up[u].protocol /\ r.flag = up[u].flag /\ r.isNewFile = up[u].isNewFile
      /\ r.InitialSize = initial /\ r.MaxWriteSize = max
      /\ r.BytesReceived = up[u].BytesReceived /\ r.ErrTransfer = up[u].ErrTransfer
      /\ r.numFiles = up[u].numFiles
  <2> HIDE DEF f, offset, initial, max
  <2> QED BY <1>1, <1>3 DEF AnyTransfer
<1>8. usedFiles' = usedFiles + 0 /\ usedSize' = usedSize + IF TruncatesNow(u) THEN -f ELSE 0
  BY DEF Create, ChangeQuota
<1>9. usedFiles' = usedFiles /\ usedSize' = usedSize - (IF TruncatesNow(u) THEN f ELSE 0)
      /\ usedFiles' \in Int /\ usedSize' \in Int
  BY <1>1, <1>2, <1>8 DEF Typed
<1>10. /\ file' \in [Paths -> Contents] /\ temp' \in [Uploads -> Contents]
       /\ \A v \in Uploads \ {u} : temp'[v] = temp[v]
       /\ IF Direct(p) THEN file'[p] = content /\ Elsewhere(p) /\ temp' = temp
          ELSE /\ temp'[u] = content
               /\ IF ToRename(u) THEN file'[p] = NoFile /\ Elsewhere(p) ELSE file' = file
  <2>0. /\ file \in [Paths -> Contents] /\ temp \in [Uploads -> Contents]
        /\ NoFile \in Contents /\ content = Content(OpenedSize(u), FALSE)
    BY <1>1, ContentTyped DEF Typed
  <2>1. CASE Direct(p)
    <3>1. file' = [file EXCEPT ![p] = Content(OpenedSize(u), FALSE)] /\ temp' = temp
      BY <2>1 DEF Create
    <3> HIDE DEF content, p
    <3> QED BY <1>1, <1>5, <2>0, <2>1, <3>1 DEF Elsewhere
  <2>2. CASE ~Direct(p)
    <3>1. /\ temp' = [temp EXCEPT ![u] = Content(OpenedSize(u), FALSE)]
          /\ file' = IF ToRename(u) THEN [file EXCEPT ![p] = NoFile] ELSE file
      BY <2>2 DEF Create
    <3> HIDE DEF content, p
    <3> QED BY <1>1, <1>5, <2>0, <2>2, <3>1 DEF Elsewhere
  <2> QED BY <2>1, <2>2
<1>11. Typed' /\ Others(u) /\ up'[u] = r
  <2>1. r.pc # "idle" => r.path \in Paths
    BY <1>1, <1>7
  <2> HIDE DEF f, p, offset, initial, max, content, r
  <2> QED BY <1>1, <1>6, <1>7, <1>9, <1>10, <2>1, OneUpload
<1> HIDE DEF r
<1> QED BY <1>1, <1>4, <1>7, <1>9, <1>10, <1>11 DEF Goes

LEMMA WriteAtDoes ==
  ASSUME Base, NEW u \in Uploads, NEW off \in Offsets(u), WriteAt(u, off)
  PROVE  /\ Typed' /\ Others(u) /\ Goes(u)
         /\ up[u].pc = "open" /\ up'[u].pc = "open"
         /\ up'[u].InitialSize = up[u].InitialSize
         /\ up'[u].MaxWriteSize = up[u].MaxWriteSize /\ up'[u].numFiles = up[u].numFiles
         /\ up'[u].BytesReceived = up[u].BytesReceived + 1
         /\ up'[u].ErrTransfer =
              IF up[u].ErrTransfer = "none" /\ Exceeded(u, up[u].BytesReceived + 1)
              THEN "quota" ELSE up[u].ErrTransfer
         /\ \E n \in 0 .. MaxSize :
              Written(u).size <= n /\ n <= Written(u).size + 1 /\ Writes(u, n)
         /\ UNCHANGED <<uploadMode, usedFiles, usedSize>>
<1> DEFINE received == up[u].BytesReceived + 1
           err == IF up[u].ErrTransfer = "none" /\ Exceeded(u, received)
                  THEN "quota" ELSE up[u].ErrTransfer
           old == Written(u).size
           n == IF off + 1 > old THEN off + 1 ELSE old
           r == [up[u] EXCEPT !.BytesReceived = received, !.ErrTransfer = err]
<1>1. /\ Typed /\ up[u] \in AnyTransfer /\ up[u].pc = "open" /\ up[u].path \in Paths
      /\ old \in 0 .. MaxSize /\ MaxSize \in Nat /\ MaxReceived \in Nat
      /\ UNCHANGED <<uploadMode, usedFiles, usedSize>>
  BY AboutUpload DEF WriteAt
<1>2. received <= MaxReceived /\ off + 1 <= MaxSize
  BY DEF WriteAt
<1>3. up[u].MinWriteOffset \in 0 .. MaxSize /\ up[u].BytesReceived \in 0 .. MaxReceived
  BY <1>1 DEF AnyTransfer
<1>4. off \in 0 .. old
  <2> HIDE DEF old
  <2>1. off \in up[u].MinWriteOffset .. old \/ off = old
    BY DEF Offsets, old
  <2> QED BY <1>1, <1>3, <2>1
<1>5. n \in 0 .. MaxSize /\ old <= n /\ n <= old + 1
  <2> HIDE DEF old
  <2> QED BY <1>1, <1>2, <1>4
<1>6. received \in 0 .. MaxReceived /\ err \in {"none", "quota", "other"}
  BY <1>1, <1>2, <1>3 DEF AnyTransfer
<1>7. Write(u, Content(n, FALSE))
  BY DEF WriteAt
<1>8. up' = [up EXCEPT ![u] = r]
  BY <1>1 DEF WriteAt, Typed, AnyTransfer
<1>9. /\ r \in AnyTransfer /\ r.pc = "open" /\ r.path = up[u].path
      /\ r.protocol = up[u].protocol /\ r.flag = up[u].flag /\ r.isNewFile = up[u].isNewFile
      /\ r.InitialSize = up[u].InitialSize /\ r.MaxWriteSize = up[u].MaxWriteSize
      /\ r.numFiles = up[u].numFiles /\ r.BytesReceived = received /\ r.ErrTransfer = err
  <2> HIDE DEF received, err
  <2> QED BY <1>1, <1>6 DEF AnyTransfer
<1> HIDE DEF n, r, old
<1>10. /\ file' \in [Paths -> Contents] /\ temp' \in [Uploads -> Contents]
       /\ \A v \in Uploads \ {u} : temp'[v] = temp[v]
       /\ Writes(u, n)
  BY <1>1, <1>5, <1>7, WriteDoes
<1>11. Typed' /\ Others(u) /\ up'[u] = r
  <2>1. r.pc # "idle" => r.path \in Paths
    BY <1>1, <1>9
  <2>2. usedFiles' \in Int /\ usedSize' \in Int
    BY <1>1 DEF Typed
  <2> QED BY <1>1, <1>8, <1>9, <1>10, <2>1, <2>2, OneUpload
<1>12. \E m \in 0 .. MaxSize : Written(u).size <= m /\ m <= Written(u).size + 1 /\ Writes(u, m)
  BY <1>5, <1>10 DEF old
<1> QED BY <1>1, <1>9, <1>11, <1>12 DEF Goes

LEMMA WriteFailsDoes ==
  ASSUME Base, NEW u \in Uploads, WriteFails(u)
  PROVE  /\ Typed' /\ Others(u) /\ Goes(u)
         /\ up[u].pc = "open" /\ up'[u].pc = "open"
         /\ up'[u].InitialSize = up[u].InitialSize
         /\ up'[u].MaxWriteSize = up[u].MaxWriteSize /\ up'[u].numFiles = up[u].numFiles
         /\ up'[u].ErrTransfer # "none"
         /\ UNCHANGED <<uploadMode, file, temp, usedFiles, usedSize>>
<1> DEFINE r == [up[u] EXCEPT !.ErrTransfer = Failed(up[u].ErrTransfer)]
<1>1. /\ Typed /\ up[u] \in AnyTransfer /\ up[u].pc = "open" /\ up[u].path \in Paths
      /\ UNCHANGED <<uploadMode, file, temp, usedFiles, usedSize>>
  BY AboutUpload DEF WriteFails
<1>2. /\ Failed(up[u].ErrTransfer) \in {"none", "quota", "other"}
      /\ Failed(up[u].ErrTransfer) # "none"
  BY <1>1 DEF Failed, AnyTransfer
<1>3. up' = [up EXCEPT ![u] = r]
  BY <1>1 DEF WriteFails, Typed, AnyTransfer
<1>4. /\ r \in AnyTransfer /\ r.pc = "open" /\ r.path = up[u].path
      /\ r.protocol = up[u].protocol /\ r.flag = up[u].flag /\ r.isNewFile = up[u].isNewFile
      /\ r.InitialSize = up[u].InitialSize /\ r.MaxWriteSize = up[u].MaxWriteSize
      /\ r.numFiles = up[u].numFiles /\ r.ErrTransfer # "none"
  BY <1>1, <1>2 DEF AnyTransfer
<1> HIDE DEF r
<1>5. Typed' /\ Others(u) /\ up'[u] = r
  BY <1>1, <1>3, <1>4, OneUpload DEF Typed
<1> QED BY <1>1, <1>4, <1>5 DEF Goes

LEMMA TruncateHandleDoes ==
  ASSUME Base, NEW u \in Uploads, NEW size \in TruncateSizes, TruncateHandle(u, size)
  PROVE  /\ Typed' /\ Others(u) /\ Goes(u)
         /\ up[u].pc = "open" /\ up'[u].pc = "open" /\ Kind(u) = "local"
         /\ size \in 0 .. MaxSize
         /\ up'[u].InitialSize = size /\ up'[u].numFiles = up[u].numFiles
         /\ up'[u].MaxWriteSize =
              IF up[u].MaxWriteSize > 0 THEN up[u].MaxWriteSize + up[u].InitialSize - size ELSE 0
         /\ up'[u].BytesReceived = IF up[u].MaxWriteSize > 0 THEN 0 ELSE up[u].BytesReceived
         /\ up'[u].ErrTransfer = up[u].ErrTransfer
         /\ Writes(u, size)
         /\ UNCHANGED <<uploadMode, usedFiles>>
         /\ usedSize' = usedSize + size - up[u].InitialSize
<1> DEFINE max == IF up[u].MaxWriteSize > 0
                  THEN up[u].MaxWriteSize + up[u].InitialSize - size ELSE 0
           received == IF up[u].MaxWriteSize > 0 THEN 0 ELSE up[u].BytesReceived
           r == [up[u] EXCEPT !.InitialSize = size, !.MaxWriteSize = max,
                              !.BytesReceived = received]
<1>1. /\ Typed /\ up[u] \in AnyTransfer /\ up[u].pc = "open" /\ up[u].path \in Paths
      /\ Kind(u) = "local" /\ MaxSize \in Nat /\ MaxReceived \in Nat
      /\ UNCHANGED uploadMode
  BY AboutUpload DEF TruncateHandle
<1>2. size \in 0 .. MaxSize
  BY UploadsAssumption
<1>3. /\ up[u].MaxWriteSize \in Int /\ up[u].InitialSize \in 0 .. MaxSize
      /\ up[u].BytesReceived \in 0 .. MaxReceived
  BY <1>1 DEF AnyTransfer
<1>4. max \in Int /\ received \in 0 .. MaxReceived
  BY <1>1, <1>2, <1>3
<1>5. up' = [up EXCEPT ![u] = r]
  BY <1>1 DEF TruncateHandle, Typed, AnyTransfer
<1>6. /\ r \in AnyTransfer /\ r.pc = "open" /\ r.path = up[u].path
      /\ r.protocol = up[u].protocol /\ r.flag = up[u].flag /\ r.isNewFile = up[u].isNewFile
      /\ r.InitialSize = size /\ r.MaxWriteSize = max /\ r.BytesReceived = received
      /\ r.numFiles = up[u].numFiles /\ r.ErrTransfer = up[u].ErrTransfer
  <2> HIDE DEF max, received
  <2> QED BY <1>1, <1>2, <1>4 DEF AnyTransfer
<1>7. usedFiles' = usedFiles + 0 /\ usedSize' = usedSize + (size - up[u].InitialSize)
  BY DEF TruncateHandle, ChangeQuota
<1>8. /\ usedFiles' = usedFiles /\ usedSize' = usedSize + size - up[u].InitialSize
      /\ usedFiles' \in Int /\ usedSize' \in Int
  BY <1>1, <1>2, <1>3, <1>7 DEF Typed
<1>9. Write(u, Content(size, FALSE))
  BY DEF TruncateHandle
<1> HIDE DEF r
<1>10. /\ file' \in [Paths -> Contents] /\ temp' \in [Uploads -> Contents]
       /\ \A v \in Uploads \ {u} : temp'[v] = temp[v]
       /\ Writes(u, size)
  BY <1>1, <1>2, <1>9, WriteDoes
<1>11. Typed' /\ Others(u) /\ up'[u] = r
  <2>1. r.pc # "idle" => r.path \in Paths
    BY <1>1, <1>6
  <2> QED BY <1>1, <1>5, <1>6, <1>8, <1>10, <2>1, OneUpload
<1> QED BY <1>1, <1>2, <1>6, <1>8, <1>10, <1>11 DEF Goes

(* What the end of an upload leaves: at its path what it has written,       *)
(* nothing, or what was there, and perhaps its temporary file.              *)
Closed(u, err, aborted) == Content(Written(u).size, err = "none" /\ ~aborted)

LeftBehind(u) ==
  /\ Atomic(up[u].path) /\ file'[up[u].path] = Current(u) /\ temp'[u] = temp[u]
  /\ uncharged' = [files |-> uncharged.files + 1,
                    size |-> uncharged.size + SizeOf(temp[u])]

Settles(u, err, aborted) ==
  /\ Typed' /\ Others(u) /\ Goes(u) /\ Elsewhere(up[u].path)
  /\ up[u].pc = "open" /\ up'[u].pc = "settled"
  /\ up'[u].InitialSize = up[u].InitialSize /\ up'[u].numFiles = up[u].numFiles
  /\ up'[u].ErrTransfer = "none" =>
       err = "none" /\ file'[up[u].path] = Closed(u, err, aborted)
  /\ up'[u].ErrTransfer = err \/ Atomic(up[u].path)
  /\ \/ /\ file'[up[u].path] = Closed(u, err, aborted)
        /\ Kept(u, err) \/ Direct(up[u].path)
     \/ file'[up[u].path] = NoFile /\ Direct(up[u].path)
     \/ file'[up[u].path] = Current(u) /\ ~Direct(up[u].path)
  /\ (temp'[u] = NoFile /\ uncharged' = uncharged) \/ LeftBehind(u)
  /\ aborted => "abort" \in Failures /\ (err = "none" => up[u].protocol = "http")
  /\ err = "none" => up[u].ErrTransfer = "none"
  /\ UNCHANGED <<uploadMode, usedFiles, usedSize>>

LEMMA SettleDoes ==
  ASSUME Base, NEW u \in Uploads, NEW err \in {"none", "quota", "other"},
         NEW aborted \in BOOLEAN, NEW renamed \in BOOLEAN, NEW removed \in BOOLEAN,
         up[u].pc = "open", Settle(u, err, aborted, renamed, removed),
         aborted => "abort" \in Failures /\ (err = "none" => up[u].protocol = "http"),
         err = "none" => up[u].ErrTransfer = "none",
         UNCHANGED <<uploadMode, usedFiles, usedSize>>
  PROVE  Settles(u, err, aborted)
<1> DEFINE p == up[u].path
           content == Content(Written(u).size, err = "none" /\ ~aborted)
           notRenamed == Atomic(p) /\ Kept(u, err) /\ ~renamed
           placed == Kept(u, err) /\ ~notRenamed
           removes == IF notRenamed THEN tempPath ELSE ~placed
           left == Atomic(p) /\ ~placed /\ ~(removes /\ removed)
           at == IF placed \/ (Direct(p) /\ ~removed) THEN content
                 ELSE IF Direct(p) THEN NoFile ELSE Current(u)
           e == IF notRenamed THEN Failed(err) ELSE err
           r == [up[u] EXCEPT !.pc = "settled", !.ErrTransfer = e]
<1>1. /\ Typed /\ up[u] \in AnyTransfer /\ p \in Paths /\ Current(u) \in Contents
      /\ Written(u).size \in 0 .. MaxSize /\ Written(u) # NoFile
  BY AboutUpload
<1>2. content \in Contents /\ NoFile \in Contents
  BY <1>1, ContentTyped
<1>3. /\ file \in [Paths -> Contents] /\ temp \in [Uploads -> Contents]
      /\ usedFiles' \in Int /\ usedSize' \in Int
  BY <1>1 DEF Typed
<1>4. /\ file' = IF placed \/ (Direct(p) /\ ~removed) THEN [file EXCEPT ![p] = content]
                 ELSE IF Direct(p) THEN [file EXCEPT ![p] = NoFile] ELSE file
      /\ temp' = IF left THEN temp ELSE [temp EXCEPT ![u] = NoFile]
      /\ uncharged' = IF left THEN [files |-> uncharged.files + 1,
                                    size |-> uncharged.size + content.size]
                      ELSE uncharged
  BY DEF Settle
<1>5. up' = [up EXCEPT ![u] = r]
  BY <1>1 DEF Settle, Typed, AnyTransfer
<1>6. e \in {"none", "quota", "other"} /\ (e = "none" => err = "none" /\ ~notRenamed)
  BY DEF Failed
<1>7. /\ r \in AnyTransfer /\ r.pc = "settled" /\ r.path = up[u].path
      /\ r.protocol = up[u].protocol /\ r.flag = up[u].flag /\ r.isNewFile = up[u].isNewFile
      /\ r.InitialSize = up[u].InitialSize /\ r.numFiles = up[u].numFiles
      /\ r.ErrTransfer = e
  <2> HIDE DEF e
  <2> QED BY <1>1, <1>6 DEF AnyTransfer
<1>8. /\ placed => Kept(u, err)
      /\ err = "none" => Kept(u, err)
      /\ notRenamed => Atomic(p)
      /\ left => Atomic(p) /\ ~placed /\ ~Direct(p)
  BY DEF Kept, Atomic, Direct
<1>9. content = Closed(u, err, aborted) /\ (~notRenamed /\ Kept(u, err) => placed)
  BY DEF Closed
<1>10. e = err \/ Atomic(p)
  OBVIOUS
<1>11. left => content.size = SizeOf(temp[u])
  <2>1. content.size = Written(u).size
    BY <1>1, ContentTyped
  <2>2. left => Written(u) = temp[u]
    BY <1>8 DEF Written
  <2> HIDE DEF content, left
  <2> QED BY <1>1, <2>1, <2>2 DEF SizeOf
<1> HIDE DEF content, notRenamed, placed, removes, left, e, r
<1>12. file' = [file EXCEPT ![p] = at]
  <2>1. CASE placed \/ (Direct(p) /\ ~removed)
    BY <1>4, <2>1
  <2>2. CASE ~(placed \/ (Direct(p) /\ ~removed)) /\ Direct(p)
    BY <1>4, <2>2
  <2>3. CASE ~(placed \/ (Direct(p) /\ ~removed)) /\ ~Direct(p)
    <3>1. file' = file /\ at = Current(u)
      BY <1>4, <2>3
    <3>2. [file EXCEPT ![p] = Current(u)] = file
      BY <1>1, <1>3 DEF Current
    <3> QED BY <3>1, <3>2
  <2> QED BY <2>1, <2>2, <2>3
<1>13. at \in Contents
  BY <1>1, <1>2
<1>14. /\ placed => at = content
       /\ \/ at = content /\ (placed \/ Direct(p))
          \/ at = NoFile /\ Direct(p)
          \/ at = Current(u) /\ ~Direct(p)
       /\ left => at = Current(u)
  BY <1>8
<1> HIDE DEF at
<1>15. /\ file' \in [Paths -> Contents] /\ temp' \in [Uploads -> Contents]
       /\ \A v \in Uploads \ {u} : temp'[v] = temp[v]
       /\ file'[p] = at /\ Elsewhere(p)
       /\ IF left THEN temp'[u] = temp[u] ELSE temp'[u] = NoFile
  BY <1>1, <1>2, <1>3, <1>4, <1>12, <1>13 DEF Elsewhere
<1>16. Typed' /\ Others(u) /\ up'[u] = r
  <2>1. r.pc # "idle" => r.path \in Paths
    BY <1>1, <1>7
  <2> QED BY <1>1, <1>3, <1>5, <1>7, <1>15, <2>1, OneUpload
<1>17. (temp'[u] = NoFile /\ uncharged' = uncharged) \/ LeftBehind(u)
  <2>1. CASE left
    BY <1>4, <1>8, <1>11, <1>14, <1>15, <2>1 DEF LeftBehind
  <2>2. CASE ~left
    BY <1>4, <1>15, <2>2
  <2> QED BY <2>1, <2>2
<1>18. up'[u].ErrTransfer = "none" =>
         err = "none" /\ file'[p] = Closed(u, err, aborted)
  BY <1>6, <1>7, <1>8, <1>9, <1>14, <1>15, <1>16
<1>19. \/ file'[p] = Closed(u, err, aborted) /\ (Kept(u, err) \/ Direct(p))
       \/ file'[p] = NoFile /\ Direct(p)
       \/ file'[p] = Current(u) /\ ~Direct(p)
  BY <1>8, <1>9, <1>14, <1>15
<1>20. up'[u].ErrTransfer = err \/ Atomic(p)
  BY <1>7, <1>10, <1>16
<1> QED BY <1>7, <1>15, <1>16, <1>17, <1>18, <1>19, <1>20 DEF Settles, Goes

LEMMA EndDoes ==
  ASSUME Base, NEW u \in Uploads, Close(u) \/ Abort(u)
  PROVE  \E err \in {"none", "quota", "other"}, aborted \in BOOLEAN : Settles(u, err, aborted)
<1>1. /\ up[u].ErrTransfer \in {"none", "quota", "other"}
      /\ Outcomes("rename") \subseteq BOOLEAN /\ Outcomes("remove") \subseteq BOOLEAN
  BY AboutUpload DEF AnyTransfer, Outcomes
<1>2. CASE Close(u)
  <2>1. PICK renamed \in BOOLEAN, removed \in BOOLEAN :
          Settle(u, up[u].ErrTransfer, FALSE, renamed, removed)
    BY <1>1, <1>2 DEF Close
  <2>2. up[u].pc = "open" /\ UNCHANGED <<uploadMode, usedFiles, usedSize>>
    BY <1>2 DEF Close
  <2>3. Settles(u, up[u].ErrTransfer, FALSE)
    BY <1>1, <2>1, <2>2, SettleDoes
  <2> QED BY <1>1, <2>3
<1>3. CASE Abort(u)
  <2> DEFINE err == IF up[u].protocol = "http" THEN up[u].ErrTransfer
                    ELSE Failed(up[u].ErrTransfer)
  <2>1. PICK renamed \in BOOLEAN, removed \in BOOLEAN : Settle(u, err, TRUE, renamed, removed)
    BY <1>1, <1>3 DEF Abort
  <2>2. /\ up[u].pc = "open" /\ "abort" \in Failures
        /\ UNCHANGED <<uploadMode, usedFiles, usedSize>>
    BY <1>3 DEF Abort
  <2>3. /\ err \in {"none", "quota", "other"}
        /\ err = "none" => up[u].protocol = "http"
        /\ err = "none" => up[u].ErrTransfer = "none"
    BY <1>1 DEF Failed
  <2> HIDE DEF err
  <2>4. Settles(u, err, TRUE)
    BY <2>1, <2>2, <2>3, SettleDoes
  <2> QED BY <2>3, <2>4
<1> QED BY <1>2, <1>3

LEMMA StatUploadDoes ==
  ASSUME Base, NEW u \in Uploads, StatUpload(u)
  PROVE  /\ Typed' /\ Others(u) /\ Goes(u) /\ Elsewhere(up[u].path)
         /\ up[u].pc = "settled" /\ up'[u].pc = "hook"
         /\ up'[u].InitialSize = up[u].InitialSize
         /\ up'[u].ErrTransfer = up[u].ErrTransfer
         /\ \/ file'[up[u].path] = Current(u)
            \/ file'[up[u].path] = NoFile /\ Dropped(u)
         /\ up'[u].fileSize = SizeOf(file'[up[u].path])
         /\ up'[u].numFiles = Count(file'[up[u].path]) - Before(u)
         /\ UNCHANGED <<uploadMode, temp, usedFiles, usedSize>>
<1> PICK removed \in Outcomes("remove") :
      LET stays == Current(u) # NoFile /\ ~(Dropped(u) /\ removed)
      IN /\ up' = [up EXCEPT
              ![u].pc = "hook",
              ![u].fileSize = IF stays THEN Current(u).size ELSE 0,
              ![u].numFiles = (IF up[u].isNewFile THEN 1 ELSE 0) - (IF stays THEN 0 ELSE 1)]
         /\ file' = IF stays THEN file ELSE [file EXCEPT ![up[u].path] = NoFile]
  BY DEF StatUpload
<1> DEFINE p == up[u].path
           stays == Current(u) # NoFile /\ ~(Dropped(u) /\ removed)
           size == IF stays THEN Current(u).size ELSE 0
           n == (IF up[u].isNewFile THEN 1 ELSE 0) - (IF stays THEN 0 ELSE 1)
           r == [up[u] EXCEPT !.pc = "hook", !.fileSize = size, !.numFiles = n]
           at == IF stays THEN Current(u) ELSE NoFile
<1>1. /\ Typed /\ up[u] \in AnyTransfer /\ up[u].pc = "settled" /\ p \in Paths
      /\ Current(u) \in Contents /\ MaxSize \in Nat
      /\ UNCHANGED <<uploadMode, temp, usedFiles, usedSize>>
  BY AboutUpload DEF StatUpload
<1>2. size \in 0 .. MaxSize /\ n \in Int
  BY <1>1, ContentTyped
<1>3. size = SizeOf(at) /\ n = Count(at) - Before(u) /\ at \in Contents
  BY <1>1, ContentTyped DEF SizeOf, Count, Before
<1>4. up' = [up EXCEPT ![u] = r]
  BY <1>1 DEF Typed, AnyTransfer
<1>5. /\ r \in AnyTransfer /\ r.pc = "hook" /\ r.path = up[u].path
      /\ r.protocol = up[u].protocol /\ r.flag = up[u].flag /\ r.isNewFile = up[u].isNewFile
      /\ r.InitialSize = up[u].InitialSize /\ r.numFiles = n /\ r.fileSize = size
      /\ r.ErrTransfer = up[u].ErrTransfer
  <2> HIDE DEF size, n
  <2> QED BY <1>1, <1>2 DEF AnyTransfer
<1>6. /\ file \in [Paths -> Contents] /\ temp' \in [Uploads -> Contents]
      /\ usedFiles' \in Int /\ usedSize' \in Int
  BY <1>1 DEF Typed
<1>7. file' = [file EXCEPT ![p] = at]
  <2>1. CASE stays
    <3>1. file' = file /\ at = Current(u)
      BY <2>1
    <3> QED BY <1>1, <1>6, <3>1 DEF Current
  <2>2. CASE ~stays
    BY <2>2
  <2> QED BY <2>1, <2>2
<1>8. at = Current(u) \/ (at = NoFile /\ Dropped(u))
  OBVIOUS
<1> HIDE DEF at, size, n, r
<1>9. /\ file' \in [Paths -> Contents] /\ file'[p] = at /\ Elsewhere(p)
  BY <1>1, <1>3, <1>6, <1>7 DEF Elsewhere
<1>10. Typed' /\ Others(u) /\ up'[u] = r
  <2>1. r.pc # "idle" => r.path \in Paths
    BY <1>1, <1>5
  <2> QED BY <1>1, <1>4, <1>5, <1>6, <1>9, <2>1, OneUpload
<1> QED BY <1>1, <1>3, <1>5, <1>8, <1>9, <1>10 DEF Goes

LEMMA HookEndsDoes ==
  ASSUME Base, NEW u \in Uploads, HookEnds(u)
  PROVE  /\ Typed' /\ Others(u) /\ Goes(u)
         /\ up[u].pc = "hook" /\ up'[u].pc = "ended"
         /\ up'[u].InitialSize = up[u].InitialSize /\ up'[u].fileSize = up[u].fileSize
         /\ up'[u].numFiles = up[u].numFiles /\ up'[u].ErrTransfer = up[u].ErrTransfer
         /\ UNCHANGED <<uploadMode, file, temp, usedFiles, usedSize>>
<1> DEFINE r == [up[u] EXCEPT !.pc = "ended"]
<1>1. /\ Typed /\ up[u] \in AnyTransfer /\ up[u].pc = "hook" /\ up[u].path \in Paths
      /\ UNCHANGED <<uploadMode, file, temp, usedFiles, usedSize>>
  BY AboutUpload DEF HookEnds
<1>2. up' = [up EXCEPT ![u] = r]
  BY <1>1 DEF HookEnds, Typed, AnyTransfer
<1>3. /\ r \in AnyTransfer /\ r.pc = "ended" /\ r.path = up[u].path
      /\ r.protocol = up[u].protocol /\ r.flag = up[u].flag /\ r.isNewFile = up[u].isNewFile
      /\ r.InitialSize = up[u].InitialSize /\ r.fileSize = up[u].fileSize
      /\ r.numFiles = up[u].numFiles /\ r.ErrTransfer = up[u].ErrTransfer
  BY <1>1 DEF AnyTransfer
<1> HIDE DEF r
<1>4. Typed' /\ Others(u) /\ up'[u] = r
  BY <1>1, <1>2, <1>3, OneUpload DEF Typed
<1> QED BY <1>1, <1>3, <1>4 DEF Goes

LEMMA HookFailsDoes ==
  ASSUME Base, NEW u \in Uploads, HookFails(u)
  PROVE  /\ Typed' /\ Others(u) /\ Goes(u) /\ Elsewhere(up[u].path)
         /\ up[u].pc = "hook" /\ up'[u].pc = "ended" /\ "hook" \in Failures
         /\ up'[u].InitialSize = up[u].InitialSize
         /\ \/ /\ file' = file
               /\ up'[u].fileSize = up[u].fileSize /\ up'[u].numFiles = up[u].numFiles
            \/ /\ Current(u) # NoFile /\ file'[up[u].path] = NoFile
               /\ up'[u].fileSize = 0 /\ up'[u].numFiles = up[u].numFiles - 1
         /\ up'[u].ErrTransfer # "none"
         /\ UNCHANGED <<uploadMode, temp, usedFiles, usedSize>>
<1> PICK removed \in IF Current(u) = NoFile THEN {FALSE} ELSE Outcomes("remove") :
      /\ file' = IF removed THEN [file EXCEPT ![up[u].path] = NoFile] ELSE file
      /\ up' = [up EXCEPT
           ![u].pc = "ended",
           ![u].ErrTransfer = Failed(@),
           ![u].numFiles = IF removed THEN @ - 1 ELSE @,
           ![u].fileSize = IF removed THEN 0 ELSE @]
  BY DEF HookFails
<1> DEFINE p == up[u].path
           err == Failed(up[u].ErrTransfer)
           size == IF removed THEN 0 ELSE up[u].fileSize
           n == IF removed THEN up[u].numFiles - 1 ELSE up[u].numFiles
           r == [up[u] EXCEPT !.pc = "ended", !.ErrTransfer = err,
                              !.numFiles = n, !.fileSize = size]
<1>1. /\ Typed /\ up[u] \in AnyTransfer /\ up[u].pc = "hook" /\ p \in Paths
      /\ MaxSize \in Nat /\ "hook" \in Failures
      /\ UNCHANGED <<uploadMode, temp, usedFiles, usedSize>>
      /\ removed => Current(u) # NoFile
  BY AboutUpload DEF HookFails
<1>2. err \in {"none", "quota", "other"} /\ err # "none"
  BY <1>1 DEF Failed, AnyTransfer
<1>3. up[u].fileSize \in 0 .. MaxSize /\ up[u].numFiles \in Int
  BY <1>1 DEF AnyTransfer
<1>4. size \in 0 .. MaxSize /\ n \in Int
  BY <1>1, <1>3
<1>5. up' = [up EXCEPT ![u] = r]
  BY <1>1 DEF Typed, AnyTransfer
<1>6. /\ r \in AnyTransfer /\ r.pc = "ended" /\ r.path = up[u].path
      /\ r.protocol = up[u].protocol /\ r.flag = up[u].flag /\ r.isNewFile = up[u].isNewFile
      /\ r.InitialSize = up[u].InitialSize /\ r.numFiles = n /\ r.fileSize = size
      /\ r.ErrTransfer = err
  <2> HIDE DEF size, n, err
  <2> QED BY <1>1, <1>2, <1>4 DEF AnyTransfer
<1>7. /\ file \in [Paths -> Contents] /\ temp' \in [Uploads -> Contents]
      /\ usedFiles' \in Int /\ usedSize' \in Int
  BY <1>1 DEF Typed
<1>8. /\ file' \in [Paths -> Contents] /\ Elsewhere(p)
      /\ IF removed THEN file'[p] = NoFile ELSE file' = file
  BY <1>1, <1>7, ContentTyped DEF Elsewhere
<1>9. IF removed THEN size = 0 /\ n = up[u].numFiles - 1
      ELSE size = up[u].fileSize /\ n = up[u].numFiles
  OBVIOUS
<1> HIDE DEF size, n, err, r
<1>10. Typed' /\ Others(u) /\ up'[u] = r
  <2>1. r.pc # "idle" => r.path \in Paths
    BY <1>1, <1>6
  <2> QED BY <1>1, <1>5, <1>6, <1>7, <1>8, <2>1, OneUpload
<1>11. \/ /\ file' = file
          /\ up'[u].fileSize = up[u].fileSize /\ up'[u].numFiles = up[u].numFiles
       \/ /\ Current(u) # NoFile /\ file'[p] = NoFile
          /\ up'[u].fileSize = 0 /\ up'[u].numFiles = up[u].numFiles - 1
  BY <1>1, <1>6, <1>8, <1>9, <1>10
<1> QED BY <1>1, <1>2, <1>6, <1>8, <1>10, <1>11 DEF Goes

LEMMA DenyDoes ==
  ASSUME Base, NEW u \in Uploads, Deny(u)
  PROVE  /\ Typed' /\ Others(u) /\ up[u].pc = "checking"
         /\ up'[u] = Idle /\ up'[u].pc = "idle"
         /\ UNCHANGED <<uploadMode, file, temp, usedFiles, usedSize>>
<1>1. Typed /\ up[u].pc = "checking" /\ up' = [up EXCEPT ![u] = Idle]
      /\ UNCHANGED <<uploadMode, file, temp, usedFiles, usedSize>>
  BY DEF Base, Deny
<1>2. /\ file' \in [Paths -> Contents] /\ temp' \in [Uploads -> Contents]
      /\ \A v \in Uploads \ {u} : temp'[v] = temp[v]
      /\ usedFiles' \in Int /\ usedSize' \in Int
  BY <1>1 DEF Typed
<1> QED BY <1>1, <1>2, EndsIdle

LEMMA CreateFailsDoes ==
  ASSUME Base, NEW u \in Uploads, CreateFails(u)
  PROVE  /\ Typed' /\ Others(u) /\ up[u].pc = "admitted"
         /\ up'[u] = Idle /\ up'[u].pc = "idle"
         /\ \/ file' = file /\ temp' = temp
            \/ /\ ToRename(u) /\ Current(u) # NoFile
               /\ temp'[u] = Current(u) /\ file'[up[u].path] = NoFile
               /\ Elsewhere(up[u].path)
         /\ UNCHANGED <<uploadMode, usedFiles, usedSize>>
<1>1. /\ Typed /\ up[u].pc = "admitted" /\ up' = [up EXCEPT ![u] = Idle]
      /\ up[u].path \in Paths /\ Current(u) \in Contents
      /\ UNCHANGED <<uploadMode, usedFiles, usedSize>>
  BY AboutUpload DEF CreateFails
<1>2. /\ file \in [Paths -> Contents] /\ temp \in [Uploads -> Contents] /\ NoFile \in Contents
      /\ usedFiles' \in Int /\ usedSize' \in Int
  BY <1>1, ContentTyped DEF Typed
<1>3. \/ file' = file /\ temp' = temp
      \/ /\ ToRename(u) /\ Current(u) # NoFile
         /\ temp' = [temp EXCEPT ![u] = Current(u)]
         /\ file' = [file EXCEPT ![up[u].path] = NoFile]
  BY DEF CreateFails
<1>4. /\ file' \in [Paths -> Contents] /\ temp' \in [Uploads -> Contents]
      /\ \A v \in Uploads \ {u} : temp'[v] = temp[v]
      /\ \/ file' = file /\ temp' = temp
         \/ /\ ToRename(u) /\ Current(u) # NoFile
            /\ temp'[u] = Current(u) /\ file'[up[u].path] = NoFile
            /\ Elsewhere(up[u].path)
  BY <1>1, <1>2, <1>3 DEF Elsewhere
<1>5. Typed' /\ Others(u) /\ up'[u] = Idle /\ up'[u].pc = "idle"
  BY <1>1, <1>2, <1>4, EndsIdle
<1> QED BY <1>1, <1>4, <1>5

LEMMA UpdateQuotaDoes ==
  ASSUME Base, NEW u \in Uploads, UpdateQuota(u)
  PROVE  /\ Typed' /\ Others(u) /\ up[u].pc = "ended"
         /\ up'[u] = Idle /\ up'[u].pc = "idle"
         /\ IF Kind(u) = "cloud" /\ up[u].ErrTransfer # "none"
            THEN UNCHANGED <<usedFiles, usedSize>>
            ELSE /\ usedFiles' = usedFiles + up[u].numFiles
                 /\ usedSize' = usedSize + up[u].fileSize - up[u].InitialSize
         /\ UNCHANGED <<uploadMode, file, temp>>
<1>1. /\ Typed /\ up[u].pc = "ended" /\ up' = [up EXCEPT ![u] = Idle]
      /\ UNCHANGED <<uploadMode, file, temp>>
  BY DEF Base, UpdateQuota
<1>2. /\ up[u].numFiles \in Int /\ up[u].fileSize \in Int /\ up[u].InitialSize \in Int
      /\ usedFiles \in Int /\ usedSize \in Int
  BY <1>1 DEF Typed, AnyTransfer
<1>3. IF Kind(u) = "cloud" /\ up[u].ErrTransfer # "none"
      THEN UNCHANGED <<usedFiles, usedSize>>
      ELSE /\ usedFiles' = usedFiles + up[u].numFiles
           /\ usedSize' = usedSize + (up[u].fileSize - up[u].InitialSize)
  BY DEF UpdateQuota, ChangeQuota
<1>4. usedFiles' \in Int /\ usedSize' \in Int
  BY <1>2, <1>3
<1>5. /\ file' \in [Paths -> Contents] /\ temp' \in [Uploads -> Contents]
      /\ \A v \in Uploads \ {u} : temp'[v] = temp[v]
  BY <1>1 DEF Typed
<1>6. Typed' /\ Others(u) /\ up'[u] = Idle /\ up'[u].pc = "idle"
  BY <1>1, <1>4, <1>5, EndsIdle
<1> QED BY <1>1, <1>2, <1>3, <1>6

LEMMA RemoveLeftoverDoes ==
  ASSUME Base, NEW u \in Uploads, RemoveLeftover(u)
  PROVE  /\ Typed' /\ up' = up /\ file' = file /\ Others(u)
         /\ up[u] = Idle /\ temp[u] # NoFile /\ temp'[u] = NoFile
         /\ usedFiles' = usedFiles - 1 /\ usedSize' = usedSize - SizeOf(temp[u])
         /\ uploadMode' = uploadMode /\ uncharged' = uncharged
<1>1. /\ up' = up /\ file' = file /\ uploadMode' = uploadMode /\ up[u] = Idle
      /\ uncharged' = uncharged
      /\ temp[u] # NoFile /\ temp' = [temp EXCEPT ![u] = NoFile]
      /\ usedFiles' = usedFiles + (-1) /\ usedSize' = usedSize + (-temp[u].size)
  BY DEF RemoveLeftover, ChangeQuota
<1>2. Typed /\ temp[u] \in Contents /\ NoFile \in Contents /\ MaxSize \in Nat
  BY AboutUpload, ContentTyped
<1>3. SizeOf(temp[u]) = temp[u].size /\ temp[u].size \in 0 .. MaxSize
  BY <1>1, <1>2, ContentTyped DEF SizeOf
<1>4. usedFiles \in Int /\ usedSize \in Int /\ temp \in [Uploads -> Contents]
  BY <1>2 DEF Typed
<1>5. usedFiles' = usedFiles - 1 /\ usedSize' = usedSize - SizeOf(temp[u])
      /\ usedFiles' \in Int /\ usedSize' \in Int
  BY <1>1, <1>2, <1>3, <1>4
<1>6. temp' \in [Uploads -> Contents] /\ temp'[u] = NoFile /\ Others(u)
  BY <1>1, <1>2, <1>4 DEF Others
<1>7. Typed'
  BY <1>1, <1>2, <1>5, <1>6 DEF Typed
<1> QED BY <1>1, <1>5, <1>6, <1>7

(* Requests that change what is at one or two paths no upload is using.     *)
LEMMA RemoveFileDoes ==
  ASSUME Base, NEW p \in Paths, RemoveFile(p)
  PROVE  /\ Typed' /\ up' = up /\ temp' = temp /\ Elsewhere(p) /\ Free(p)
         /\ file[p] # NoFile /\ file'[p] = NoFile
         /\ usedFiles' = usedFiles - 1 /\ usedSize' = usedSize - SizeOf(file[p])
         /\ uploadMode' = uploadMode
<1>1. /\ up' = up /\ temp' = temp /\ uploadMode' = uploadMode /\ Free(p)
      /\ file[p] # NoFile /\ file' = [file EXCEPT ![p] = NoFile]
      /\ usedFiles' = usedFiles + (-1) /\ usedSize' = usedSize + (-file[p].size)
  BY DEF RemoveFile, ChangeQuota
<1>2. /\ Typed /\ file \in [Paths -> Contents] /\ usedFiles \in Int /\ usedSize \in Int
      /\ NoFile \in Contents /\ MaxSize \in Nat
  BY ContentTyped DEF Base, Typed
<1>3. SizeOf(file[p]) = file[p].size /\ file[p].size \in 0 .. MaxSize
  BY <1>1, <1>2, ContentTyped DEF SizeOf
<1>4. usedFiles' = usedFiles - 1 /\ usedSize' = usedSize - SizeOf(file[p])
      /\ usedFiles' \in Int /\ usedSize' \in Int
  BY <1>1, <1>2, <1>3
<1>5. file' \in [Paths -> Contents] /\ file'[p] = NoFile /\ Elsewhere(p)
  BY <1>1, <1>2 DEF Elsewhere
<1>6. Typed'
  BY <1>1, <1>2, <1>4, <1>5 DEF Typed
<1> QED BY <1>1, <1>4, <1>5, <1>6

LEMMA RenameDoes ==
  ASSUME Base, NEW p \in Paths, NEW q \in Paths, Rename(p, q)
  PROVE  /\ Typed' /\ up' = up /\ temp' = temp /\ Free(p) /\ Free(q) /\ p # q
         /\ KindOf[p] = KindOf[q] /\ file[p] # NoFile
         /\ file' = [[file EXCEPT ![p] = NoFile] EXCEPT ![q] = file[p]]
         /\ file'[p] = NoFile /\ file'[q] = file[p]
         /\ \A x \in Paths \ {p, q} : file'[x] = file[x]
         /\ usedFiles' = usedFiles - Count(file[q]) /\ usedSize' = usedSize - SizeOf(file[q])
         /\ uploadMode' = uploadMode
<1>1. /\ up' = up /\ temp' = temp /\ uploadMode' = uploadMode /\ Free(p) /\ Free(q)
      /\ p # q /\ KindOf[p] = KindOf[q] /\ file[p] # NoFile
      /\ file' = [file EXCEPT ![q] = file[p], ![p] = NoFile]
      /\ IF file[q] = NoFile THEN UNCHANGED <<usedFiles, usedSize>>
         ELSE usedFiles' = usedFiles + (-1) /\ usedSize' = usedSize + (-file[q].size)
  BY DEF Rename, updateQuotaAfterRename, ChangeQuota
<1>2. /\ Typed /\ file \in [Paths -> Contents] /\ usedFiles \in Int /\ usedSize \in Int
      /\ NoFile \in Contents /\ MaxSize \in Nat
  BY ContentTyped DEF Base, Typed
<1>3. /\ usedFiles' = usedFiles - Count(file[q]) /\ usedSize' = usedSize - SizeOf(file[q])
      /\ usedFiles' \in Int /\ usedSize' \in Int
  <2>1. CASE file[q] = NoFile
    BY <1>1, <1>2, <2>1, ContentTyped DEF Count
  <2>2. CASE file[q] # NoFile
    <3>1. SizeOf(file[q]) = file[q].size /\ file[q].size \in 0 .. MaxSize
      BY <1>2, <2>2, ContentTyped DEF SizeOf
    <3> QED BY <1>1, <1>2, <2>2, <3>1 DEF Count
  <2> QED BY <2>1, <2>2
<1>4. /\ file' = [[file EXCEPT ![p] = NoFile] EXCEPT ![q] = file[p]]
      /\ file'[p] = NoFile /\ file'[q] = file[p]
      /\ \A x \in Paths \ {p, q} : file'[x] = file[x]
      /\ file' \in [Paths -> Contents]
  <2> DEFINE g == [[file EXCEPT ![p] = NoFile] EXCEPT ![q] = file[p]]
  <2>1. /\ file' \in [Paths -> Contents] /\ file'[p] = NoFile /\ file'[q] = file[p]
        /\ \A x \in Paths \ {p, q} : file'[x] = file[x]
    BY <1>1, <1>2
  <2>2. /\ g \in [Paths -> Contents] /\ g[p] = NoFile /\ g[q] = file[p]
        /\ \A x \in Paths \ {p, q} : g[x] = file[x]
    BY <1>1, <1>2
  <2>3. file' = g
    <3> HIDE DEF g
    <3>1. \A x \in Paths : file'[x] = g[x]
      BY <2>1, <2>2
    <3> QED BY <2>1, <2>2, <3>1
  <2> QED BY <2>1, <2>3
<1>5. Typed'
  BY <1>1, <1>2, <1>3, <1>4 DEF Typed
<1> QED BY <1>1, <1>3, <1>4, <1>5

LEMMA TruncateDoes ==
  ASSUME Base, NEW p \in Paths, NEW size \in TruncateSizes, Truncate(p, size)
  PROVE  /\ Typed' /\ up' = up /\ temp' = temp /\ Elsewhere(p) /\ Free(p)
         /\ KindOf[p] = "local" /\ size \in 0 .. MaxSize
         /\ file[p] # NoFile /\ file'[p] # NoFile
         /\ file'[p].size = size /\ SizeOf(file'[p]) = size
         /\ file'[p].whole = file[p].whole
         /\ usedFiles' = usedFiles /\ usedSize' = usedSize + size - SizeOf(file[p])
         /\ uploadMode' = uploadMode
<1> DEFINE c == [file[p] EXCEPT !.size = size]
<1>1. /\ up' = up /\ temp' = temp /\ uploadMode' = uploadMode /\ Free(p)
      /\ KindOf[p] = "local" /\ file[p] # NoFile
      /\ usedFiles' = usedFiles + 0 /\ usedSize' = usedSize + (size - file[p].size)
  BY DEF Truncate, ChangeQuota
<1>2. /\ Typed /\ file \in [Paths -> Contents] /\ usedFiles \in Int /\ usedSize \in Int
      /\ NoFile \in Contents /\ MaxSize \in Nat /\ size \in 0 .. MaxSize
  BY ContentTyped, UploadsAssumption DEF Base, Typed
<1>3. /\ SizeOf(file[p]) = file[p].size /\ file[p].size \in 0 .. MaxSize
      /\ file[p].whole \in BOOLEAN
  BY <1>1, <1>2, ContentTyped DEF SizeOf
<1>4. usedFiles' = usedFiles /\ usedSize' = usedSize + size - SizeOf(file[p])
      /\ usedFiles' \in Int /\ usedSize' \in Int
  BY <1>1, <1>2, <1>3
<1>5. c = Content(size, file[p].whole)
  <2>1. file[p] \in [size : 0 .. MaxSize, whole : BOOLEAN]
    BY <1>1, <1>2 DEF Contents
  <2> QED BY <2>1 DEF Content
<1>6. /\ c \in Contents /\ c # NoFile /\ c.size = size /\ SizeOf(c) = size
      /\ c.whole = file[p].whole
  BY <1>2, <1>3, <1>5, ContentTyped
<1>7. file' = [file EXCEPT ![p] = c]
  BY <1>2 DEF Truncate
<1> HIDE DEF c
<1>8. file' \in [Paths -> Contents] /\ file'[p] = c /\ Elsewhere(p)
  BY <1>2, <1>6, <1>7 DEF Elsewhere
<1>9. Typed'
  BY <1>1, <1>2, <1>4, <1>8 DEF Typed
<1> QED BY <1>1, <1>2, <1>4, <1>6, <1>8, <1>9

-----------------------------------------------------------------------------
(* Uploads next to each other                                               *)

Mine(u, p) == Active(u) /\ up[u].path = p
Allowed(u) == \A p \in Paths : file'[p] # file[p] => Free(p) \/ Mine(u, p)

LEMMA OthersKept ==
  ASSUME Base, ~Overlap, NEW v \in Uploads, Active(v), up'[v] = up[v],
         \A p \in Paths :
           file'[p] # file[p] => Free(p) \/ \E u \in Uploads \ {v} : Mine(u, p)
  PROVE  Current(v)' = Current(v) /\ up[v].path \in Paths
<1> DEFINE p == up[v].path
<1>1. p \in Paths
  BY DEF Base, Typed, Active
<1>2. ~Free(p)
  BY DEF Free, UploadsTo, Active
<1>3. ~\E u \in Uploads \ {v} : Mine(u, p)
  BY DEF Base, Alone, Mine
<1>4. file'[p] = file[p]
  BY <1>1, <1>2, <1>3
<1>5. Current(v)' = file'[up'[v].path] /\ Current(v) = file[up[v].path]
  BY DEF Current
<1> QED BY <1>1, <1>4, <1>5

LEMMA OtherUploadsKept ==
  ASSUME Base, ~Overlap, NEW u \in Uploads, Allowed(u), Others(u),
         NEW v \in Uploads \ {u}, Active(v)
  PROVE  Current(v)' = Current(v) /\ up[v].path \in Paths
BY OthersKept DEF Allowed, Others

LEMMA AllowedHere ==
  ASSUME NEW u \in Uploads, Active(u), Elsewhere(up[u].path)
  PROVE  Allowed(u)
BY DEF Allowed, Elsewhere, Mine

LEMMA AllowedNothing ==
  ASSUME NEW u \in Uploads, file' = file
  PROVE  Allowed(u)
BY DEF Allowed

LEMMA BaseKept ==
  ASSUME Base, Typed', uploadMode' = uploadMode, NEW u \in Uploads, Others(u), Allowed(u),
         up'[u].pc = "open" => Written(u)' # NoFile,
         up'[u].pc \in {"checking", "admitted"} =>
           up'[u].BytesReceived = 0 /\ up'[u].ErrTransfer = "none",
         Active(u)' => Free(up'[u].path) \/ Mine(u, up'[u].path)
  PROVE  Base'
<1>1. ASSUME ~Overlap PROVE Alone'
  <2> SUFFICES ASSUME NEW v \in Uploads, NEW w \in Uploads, v # w, Active(v)', Active(w)'
               PROVE  up'[v].path # up'[w].path
    BY DEF Alone
  <2>0. Alone
    BY <1>1 DEF Base
  <2>1. ASSUME NEW x \in Uploads \ {u}, Active(x)', Active(u)'
        PROVE  up'[x].path # up'[u].path
    <3>1. Active(x) /\ up'[x] = up[x]
      BY <2>1 DEF Others, Active
    <3>2. CASE Free(up'[u].path)
      BY <1>1, <3>1, <3>2 DEF Free, UploadsTo, Active
    <3>3. CASE Mine(u, up'[u].path)
      BY <2>0, <3>1, <3>3 DEF Alone, Mine
    <3> QED BY <2>1, <3>2, <3>3
  <2>2. CASE v # u /\ w # u
    BY <2>0, <2>2 DEF Others, Active, Alone
  <2> QED BY <2>1, <2>2
<1>2. ASSUME NEW v \in Uploads, up'[v].pc = "open" PROVE Written(v)' # NoFile
  <2>1. CASE v # u
    <3>1. up'[v] = up[v] /\ temp'[v] = temp[v] /\ up[v].pc = "open" /\ Written(v) # NoFile
      BY <1>2, <2>1 DEF Others, Base
    <3>2. CASE Direct(up[v].path)
      <4>1. uploadMode \in UploadModes /\ uploadMode = "standard"
        BY <3>2 DEF Base, Typed, Direct
      <4>2. ~Overlap
        BY <4>1, UploadsAssumption
      <4>3. Current(v)' = Current(v)
        BY <2>1, <3>1, <4>2, OtherUploadsKept DEF Active
      <4>4. Direct(up[v].path)'
        BY <3>1, <3>2 DEF Direct
      <4> QED BY <3>1, <3>2, <4>3, <4>4 DEF Written
    <3>3. CASE ~Direct(up[v].path)
      <4>1. ~Direct(up[v].path)'
        BY <3>1, <3>3 DEF Direct
      <4> QED BY <3>1, <3>3, <4>1 DEF Written
    <3> QED BY <3>2, <3>3
  <2> QED BY <1>2, <2>1
<1>3. ASSUME NEW v \in Uploads, up'[v].pc \in {"checking", "admitted"}
      PROVE  up'[v].BytesReceived = 0 /\ up'[v].ErrTransfer = "none"
  BY <1>3 DEF Base, Others
<1> QED BY <1>1, <1>2, <1>3 DEF Base

(* Another request of the user. *)
LEMMA BaseKeptByOthers ==
  ASSUME Base, Typed', uploadMode' = uploadMode, up' = up, temp' = temp,
         \A p \in Paths : file'[p] # file[p] => Free(p)
  PROVE  Base'
<1>1. CASE Uploads = {}
  BY <1>1 DEF Base, Alone
<1>2. ASSUME NEW u \in Uploads PROVE Base'
  <2>1. Others(u) /\ Allowed(u)
    BY DEF Others, Allowed
  <2>2. ASSUME up[u].pc = "open" PROVE Written(u)' # NoFile
    <3>1. CASE Direct(up[u].path)
      <4>1. uploadMode \in UploadModes /\ uploadMode = "standard"
        BY <3>1 DEF Base, Typed, Direct
      <4>2. ~Overlap
        BY <4>1, UploadsAssumption
      <4>3. Current(u)' = Current(u)
        BY <2>2, <4>2, OthersKept DEF Active
      <4>4. Direct(up[u].path)'
        BY <3>1 DEF Direct
      <4> QED BY <2>2, <3>1, <4>3, <4>4 DEF Written, Base
    <3>2. CASE ~Direct(up[u].path)
      <4>1. ~Direct(up[u].path)'
        BY <3>2 DEF Direct
      <4> QED BY <2>2, <3>2, <4>1 DEF Written, Base
    <3> QED BY <3>1, <3>2
  <2>3. up'[u].pc \in {"checking", "admitted"} =>
          up'[u].BytesReceived = 0 /\ up'[u].ErrTransfer = "none"
    BY DEF Base
  <2>4. Active(u)' => Mine(u, up'[u].path)
    BY DEF Active, Mine
  <2> QED BY <2>1, <2>2, <2>3, <2>4, BaseKept
<1> QED BY <1>1, <1>2

LEMMA WritesWritten ==
  ASSUME NEW u \in Uploads, NEW n \in 0 .. MaxSize, Goes(u), uploadMode' = uploadMode,
         Writes(u, n)
  PROVE  /\ Written(u)' = Content(n, FALSE) /\ Written(u)' # NoFile
         /\ Written(u)'.size = n /\ SizeOf(Written(u)') = n /\ Elsewhere(up[u].path)
<1>1. Direct(up[u].path)' = Direct(up[u].path) /\ up'[u].path = up[u].path
  BY DEF Goes, Direct
<1>2. CASE Direct(up[u].path)
  <2>1. file'[up[u].path] = Content(n, FALSE) /\ Elsewhere(up[u].path)
    BY <1>2 DEF Writes
  <2>2. Written(u)' = Content(n, FALSE)
    BY <1>1, <1>2, <2>1 DEF Written, Current
  <2> QED BY <2>1, <2>2, ContentTyped
<1>3. CASE ~Direct(up[u].path)
  <2>1. temp'[u] = Content(n, FALSE) /\ Elsewhere(up[u].path)
    BY <1>3 DEF Writes, Elsewhere
  <2> QED BY <1>1, <1>3, <2>1, ContentTyped DEF Written
<1> QED BY <1>2, <1>3

(* What an open upload has written is in the same place after a step.       *)
LEMMA CreatedWritten ==
  ASSUME Base, NEW u \in Uploads, Create(u)
  PROVE  /\ Written(u)' = Content(OpenedSize(u), FALSE) /\ Written(u)' # NoFile
         /\ Written(u)'.size = OpenedSize(u) /\ SizeOf(Written(u)') = OpenedSize(u)
         /\ Elsewhere(up[u].path)
<1>1. /\ Goes(u) /\ OpenedSize(u) \in 0 .. MaxSize
      /\ IF Direct(up[u].path)
         THEN /\ file'[up[u].path] = Content(OpenedSize(u), FALSE)
              /\ Elsewhere(up[u].path) /\ temp' = temp
         ELSE /\ temp'[u] = Content(OpenedSize(u), FALSE)
              /\ IF ToRename(u) THEN file'[up[u].path] = NoFile /\ Elsewhere(up[u].path)
                 ELSE file' = file
  BY CreateDoes
<1>2. Direct(up[u].path)' = Direct(up[u].path) /\ up'[u].path = up[u].path
  BY <1>1 DEF Goes, Direct, Create
<1>3. Elsewhere(up[u].path)
  BY <1>1 DEF Elsewhere
<1>4. Written(u)' = Content(OpenedSize(u), FALSE)
  <2>1. CASE Direct(up[u].path)
    BY <1>1, <1>2, <2>1 DEF Written, Current
  <2>2. CASE ~Direct(up[u].path)
    BY <1>1, <1>2, <2>2 DEF Written
  <2> QED BY <2>1, <2>2
<1> QED BY <1>1, <1>3, <1>4, ContentTyped

LEMMA BaseInit == UploadsInit => Base
<1> SUFFICES ASSUME UploadsInit PROVE Base
  OBVIOUS
<1>1. /\ Idle \in AnyTransfer /\ Idle.pc = "idle" /\ NoFile \in Contents
  BY IdleTyped, ContentTyped
<1>2. \A u \in Uploads : up[u] = Idle
  BY DEF UploadsInit
<1>3. Typed
  BY <1>1, <1>2 DEF UploadsInit, Typed
<1>4. Alone
  BY <1>1, <1>2 DEF Alone, Active
<1> QED BY <1>1, <1>2, <1>3, <1>4 DEF Base

LEMMA BaseUpload ==
  ASSUME Base, NEW u \in Uploads, Upload(u)
  PROVE  Base'
<1>1. ASSUME NEW p \in Paths, NEW protocol \in Protocols, NEW flag \in Flags(protocol),
             Lstat(u, p, protocol, flag)
      PROVE  Base'
  <2>1. /\ Typed' /\ Others(u) /\ Elsewhere(p) /\ Free(p)
        /\ up'[u].pc = "checking" /\ up'[u].path = p
        /\ up'[u].BytesReceived = 0 /\ up'[u].ErrTransfer = "none"
        /\ uploadMode' = uploadMode
    BY <1>1, LstatDoes
  <2>2. Allowed(u)
    BY <2>1 DEF Allowed, Elsewhere
  <2> QED BY <2>1, <2>2, BaseKept
<1>2. CASE Deny(u)
  BY <1>2, DenyDoes, AllowedNothing, BaseKept DEF Active
<1>3. CASE Admit(u)
  <2>1. /\ Typed' /\ Others(u) /\ Goes(u) /\ up[u].pc = "checking" /\ up'[u].pc = "admitted"
        /\ up'[u].BytesReceived = up[u].BytesReceived
        /\ up'[u].ErrTransfer = up[u].ErrTransfer
        /\ uploadMode' = uploadMode /\ file' = file
    BY <1>3, AdmitDoes
  <2>2. Mine(u, up'[u].path) /\ Allowed(u)
    BY <2>1, AllowedNothing DEF Mine, Active, Goes
  <2>3. up[u].BytesReceived = 0 /\ up[u].ErrTransfer = "none"
    BY <2>1 DEF Base
  <2> QED BY <2>1, <2>2, <2>3, BaseKept
<1>4. CASE Create(u)
  <2>1. /\ Typed' /\ Others(u) /\ Goes(u) /\ up[u].pc = "admitted" /\ up'[u].pc = "open"
        /\ uploadMode' = uploadMode
    BY <1>4, CreateDoes DEF Create
  <2>2. Written(u)' # NoFile /\ Elsewhere(up[u].path)
    BY <1>4, CreatedWritten
  <2>3. Mine(u, up'[u].path) /\ Allowed(u)
    BY <2>1, <2>2, AllowedHere DEF Mine, Active, Goes
  <2> QED BY <2>1, <2>2, <2>3, BaseKept
<1>5. CASE CreateFails(u)
  <2>1. /\ Typed' /\ Others(u) /\ up[u].pc = "admitted" /\ up'[u].pc = "idle"
        /\ Elsewhere(up[u].path) /\ uploadMode' = uploadMode
    BY <1>5, CreateFailsDoes DEF Elsewhere
  <2>2. Allowed(u)
    BY <2>1, AllowedHere DEF Active
  <2> QED BY <2>1, <2>2, BaseKept DEF Active
<1>6. ASSUME NEW off \in Offsets(u), WriteAt(u, off)
      PROVE  Base'
  <2>1. /\ Typed' /\ Others(u) /\ Goes(u) /\ up[u].pc = "open" /\ up'[u].pc = "open"
        /\ uploadMode' = uploadMode
        /\ \E n \in 0 .. MaxSize : Writes(u, n)
    BY <1>6, WriteAtDoes
  <2>2. Written(u)' # NoFile /\ Elsewhere(up[u].path)
    BY <2>1, WritesWritten
  <2>3. Mine(u, up'[u].path) /\ Allowed(u)
    BY <2>1, <2>2, AllowedHere DEF Mine, Active, Goes
  <2> QED BY <2>1, <2>2, <2>3, BaseKept
<1>7. CASE WriteFails(u)
  <2>1. /\ Typed' /\ Others(u) /\ Goes(u) /\ up[u].pc = "open" /\ up'[u].pc = "open"
        /\ uploadMode' = uploadMode /\ file' = file /\ temp' = temp
    BY <1>7, WriteFailsDoes
  <2>2. Written(u)' # NoFile
    <3>1. Written(u) # NoFile
      BY <2>1 DEF Base
    <3> QED BY <2>1, <3>1 DEF Written, Direct, Current, Goes
  <2>3. Mine(u, up'[u].path) /\ Allowed(u)
    BY <2>1, AllowedNothing DEF Mine, Active, Goes
  <2> QED BY <2>1, <2>2, <2>3, BaseKept
<1>8. ASSUME NEW size \in TruncateSizes, TruncateHandle(u, size)
      PROVE  Base'
  <2>1. /\ Typed' /\ Others(u) /\ Goes(u) /\ up[u].pc = "open" /\ up'[u].pc = "open"
        /\ uploadMode' = uploadMode /\ size \in 0 .. MaxSize /\ Writes(u, size)
    BY <1>8, TruncateHandleDoes
  <2>2. Written(u)' # NoFile /\ Elsewhere(up[u].path)
    BY <2>1, WritesWritten
  <2>3. Mine(u, up'[u].path) /\ Allowed(u)
    BY <2>1, <2>2, AllowedHere DEF Mine, Active, Goes
  <2> QED BY <2>1, <2>2, <2>3, BaseKept
<1>9. CASE Close(u) \/ Abort(u)
  <2>1. /\ Typed' /\ Others(u) /\ Goes(u) /\ Elsewhere(up[u].path)
        /\ up[u].pc = "open" /\ up'[u].pc = "settled" /\ uploadMode' = uploadMode
    BY <1>9, EndDoes DEF Settles
  <2>2. Mine(u, up'[u].path) /\ Allowed(u)
    BY <2>1, AllowedHere DEF Mine, Active, Goes
  <2> QED BY <2>1, <2>2, BaseKept
<1>10. CASE StatUpload(u)
  <2>1. /\ Typed' /\ Others(u) /\ Goes(u) /\ Elsewhere(up[u].path)
        /\ up[u].pc = "settled" /\ up'[u].pc = "hook" /\ uploadMode' = uploadMode
    BY <1>10, StatUploadDoes
  <2>2. Mine(u, up'[u].path) /\ Allowed(u)
    BY <2>1, AllowedHere DEF Mine, Active, Goes
  <2> QED BY <2>1, <2>2, BaseKept
<1>11. CASE HookEnds(u)
  BY <1>11, HookEndsDoes, AllowedNothing, BaseKept DEF Active
<1>12. CASE HookFails(u)
  <2>1. /\ Typed' /\ Others(u) /\ Goes(u) /\ Elsewhere(up[u].path)
        /\ up[u].pc = "hook" /\ up'[u].pc = "ended" /\ uploadMode' = uploadMode
    BY <1>12, HookFailsDoes
  <2>2. Allowed(u)
    BY <2>1, AllowedHere DEF Active
  <2> QED BY <2>1, <2>2, BaseKept DEF Active
<1>13. CASE UpdateQuota(u)
  BY <1>13, UpdateQuotaDoes, AllowedNothing, BaseKept DEF Active
<1> QED BY <1>1, <1>2, <1>3, <1>4, <1>5, <1>6, <1>7, <1>8, <1>9, <1>10, <1>11, <1>12, <1>13
        DEF Upload

LEMMA BaseStep == Base /\ [UploadsNext]_uploadsVars => Base'
<1> SUFFICES ASSUME Base, [UploadsNext]_uploadsVars PROVE Base'
  OBVIOUS
<1>1. ASSUME NEW u \in Uploads, Upload(u) PROVE Base'
  BY <1>1, BaseUpload
<1>2. ASSUME NEW u \in Uploads, RemoveLeftover(u) PROVE Base'
  <2>1. /\ Typed' /\ Others(u) /\ file' = file /\ up' = up /\ up[u] = Idle
        /\ uploadMode' = uploadMode
    BY <1>2, RemoveLeftoverDoes
  <2>2. up'[u].pc = "idle"
    BY <2>1, IdleTyped
  <2> QED BY <2>1, <2>2, AllowedNothing, BaseKept DEF Active
<1>3. ASSUME NEW p \in Paths, RemoveFile(p) PROVE Base'
  BY <1>3, RemoveFileDoes, BaseKeptByOthers DEF Elsewhere
<1>4. ASSUME NEW p \in Paths, NEW q \in Paths, Rename(p, q) PROVE Base'
  <2>1. /\ Typed' /\ up' = up /\ temp' = temp /\ Free(p) /\ Free(q)
        /\ \A x \in Paths \ {p, q} : file'[x] = file[x]
        /\ uploadMode' = uploadMode
    BY <1>4, RenameDoes
  <2>2. \A x \in Paths : file'[x] # file[x] => Free(x)
    BY <2>1
  <2> QED BY <2>1, <2>2, BaseKeptByOthers
<1>5. ASSUME NEW p \in Paths, NEW size \in TruncateSizes, Truncate(p, size) PROVE Base'
  BY <1>5, TruncateDoes, BaseKeptByOthers DEF Elsewhere
<1>6. CASE UNCHANGED uploadsVars
  <2>1. /\ uploadMode' = uploadMode /\ file' = file /\ temp' = temp /\ up' = up
        /\ usedFiles' = usedFiles /\ usedSize' = usedSize
    BY <1>6 DEF uploadsVars
  <2>2. Typed'
    BY <2>1 DEF Base, Typed
  <2> QED BY <2>1, <2>2, BaseKeptByOthers
<1> QED BY <1>1, <1>2, <1>3, <1>4, <1>5, <1>6 DEF UploadsNext

-----------------------------------------------------------------------------
(* What an upload has found at its path, and what it has left there         *)

(* The hook of a cloud upload does not fail: when it does, what it removes  *)
(* stays charged.                                                           *)
HooksHold == "hook" \in Failures => \A p \in Paths : KindOf[p] # "cloud"

(* A failed upload to a cloud storage has changed nothing at its path.      *)
CloudFailed(u) == HooksHold /\ Kind(u) = "cloud" /\ up[u].ErrTransfer # "none"
Untouched(u) ==
  SizeOf(Current(u)) = up[u].InitialSize /\ Count(Current(u)) = Before(u)

FoundAt(u) ==
  IF up[u].isNewFile
  THEN Current(u) = NoFile /\ temp[u] = NoFile /\ up[u].fileSize = 0
  ELSE IF Atomic(up[u].path) /\ RenamesFirst(up[u].protocol)
  THEN Current(u) = NoFile /\ temp[u] # NoFile /\ temp[u].size = up[u].fileSize
  ELSE Current(u) # NoFile /\ Current(u).size = up[u].fileSize /\ temp[u] = NoFile

OpenAt(u) ==
  IF Direct(up[u].path) THEN Current(u) # NoFile /\ temp[u] = NoFile
  ELSE /\ temp[u] # NoFile
       /\ IF Atomic(up[u].path) THEN Current(u) = NoFile ELSE Untouched(u)

AtPath(u) ==
  /\ up[u].pc \in {"checking", "admitted"} => FoundAt(u)
  /\ up[u].pc = "open" => OpenAt(u)
  /\ (up[u].pc = "settled" /\ CloudFailed(u)) => Untouched(u)
  /\ up[u].pc = "hook" => /\ up[u].fileSize = SizeOf(Current(u))
                          /\ up[u].numFiles = Count(Current(u)) - Before(u)
  /\ (up[u].pc \in {"hook", "ended"} /\ CloudFailed(u)) =>
       up[u].fileSize = up[u].InitialSize /\ up[u].numFiles = 0
  /\ up[u].numFiles \in -1 .. 1 - Before(u)

UInv == Base /\ ~Overlap /\ \A u \in Uploads : AtPath(u)

LEMMA AtPathKept ==
  ASSUME NEW v, up'[v] = up[v], temp'[v] = temp[v], uploadMode' = uploadMode,
         Active(v) => Current(v)' = Current(v), AtPath(v)
  PROVE  AtPath(v)'
<1>1. /\ Kind(v)' = Kind(v) /\ Before(v)' = Before(v)
      /\ Direct(up[v].path)' = Direct(up[v].path) /\ Atomic(up[v].path)' = Atomic(up[v].path)
      /\ CloudFailed(v)' = CloudFailed(v)
  BY DEF Kind, Before, Direct, Atomic, CloudFailed
<1>2. ASSUME Active(v)
      PROVE  /\ Untouched(v)' = Untouched(v) /\ FoundAt(v)' = FoundAt(v)
             /\ OpenAt(v)' = OpenAt(v)
             /\ SizeOf(Current(v)') = SizeOf(Current(v)) /\ Count(Current(v)') = Count(Current(v))
  BY <1>1, <1>2 DEF Untouched, FoundAt, OpenAt
<1> QED BY <1>1, <1>2 DEF AtPath, Active

(* It is enough to see what a step does to the upload that takes it.        *)
LEMMA UInvKept ==
  ASSUME UInv, Base', uploadMode' = uploadMode, NEW u \in Uploads, Others(u), Allowed(u),
         AtPath(u)'
  PROVE  UInv'
<1> SUFFICES ASSUME NEW v \in Uploads, v # u PROVE AtPath(v)'
  BY DEF UInv
<1>1. up'[v] = up[v] /\ temp'[v] = temp[v] /\ AtPath(v)
  BY DEF Others, UInv
<1>2. Active(v) => Current(v)' = Current(v)
  BY OtherUploadsKept DEF UInv
<1> QED BY <1>1, <1>2, AtPathKept

LEMMA UInvKeptByOthers ==
  ASSUME UInv, Base', uploadMode' = uploadMode, up' = up, temp' = temp,
         \A p \in Paths : file'[p] # file[p] => Free(p)
  PROVE  UInv'
<1> SUFFICES ASSUME NEW v \in Uploads PROVE AtPath(v)'
  BY DEF UInv
<1>1. AtPath(v) /\ up'[v] = up[v] /\ temp'[v] = temp[v]
  BY DEF UInv
<1>2. Active(v) => Current(v)' = Current(v)
  BY <1>1, OthersKept DEF UInv
<1> QED BY <1>1, <1>2, AtPathKept

LEMMA IdleAtPath == \A u : up[u] = Idle => AtPath(u)
<1> SUFFICES ASSUME NEW u, up[u] = Idle PROVE AtPath(u)
  OBVIOUS
<1>1. up[u].pc = "idle" /\ up[u].numFiles = 0 /\ up[u].isNewFile = FALSE
  BY DEF Idle
<1> QED BY <1>1 DEF AtPath, Before

LEMMA IdleAtPathNext == (\A u : up[u] = Idle => AtPath(u))'
BY IdleAtPath, PTL

LEMMA Same ==
  ASSUME NEW u, Goes(u), uploadMode' = uploadMode
  PROVE  /\ Kind(u)' = Kind(u) /\ Before(u)' = Before(u)
         /\ Direct(up[u].path)' = Direct(up[u].path)
         /\ Atomic(up[u].path)' = Atomic(up[u].path)
         /\ (Current(u))' = file'[up[u].path]
         /\ up'[u].path = up[u].path /\ up'[u].protocol = up[u].protocol
         /\ up'[u].flag = up[u].flag /\ up'[u].isNewFile = up[u].isNewFile
BY DEF Goes, Kind, Before, Direct, Atomic, Current

LEMMA KindsOfPath ==
  ASSUME Base, NEW u \in Uploads, up[u].pc # "idle"
  PROVE  /\ Kind(u) \in {"local", "crypt", "cloud"}
         /\ (Kind(u) = "cloud") <=> (~Direct(up[u].path) /\ ~Atomic(up[u].path))
         /\ ~(Direct(up[u].path) /\ Atomic(up[u].path))
<1>1. Kind(u) \in {"local", "crypt", "cloud"}
  BY AboutUpload, UploadsAssumption DEF Kind
<1> QED BY <1>1 DEF Kind, Direct, Atomic

LEMMA LstatAtPath ==
  ASSUME UInv, NEW u \in Uploads, NEW p \in Paths, NEW protocol \in Protocols,
         NEW flag \in Flags(protocol), Lstat(u, p, protocol, flag)
  PROVE  AtPath(u)'
<1> DEFINE away == file[p] # NoFile /\ Atomic(p) /\ RenamesFirst(protocol)
<1>1. /\ up'[u].pc = "checking" /\ up'[u].path = p /\ up'[u].protocol = protocol
      /\ up'[u].isNewFile = (file[p] = NoFile)
      /\ up'[u].fileSize = SizeOf(file[p]) /\ up'[u].numFiles = 0
      /\ temp[u] = NoFile /\ uploadMode' = uploadMode
      /\ IF away THEN temp'[u] = file[p] /\ file'[p] = NoFile
         ELSE temp' = temp /\ file' = file
  BY LstatDoes DEF UInv
<1>2. Current(u)' = file'[p] /\ Atomic(up[u].path)' = Atomic(p)
  BY <1>1 DEF Current, Atomic
<1>3. FoundAt(u)'
  <2>1. CASE file[p] = NoFile
    BY <1>1, <1>2, <2>1 DEF FoundAt, SizeOf
  <2>2. CASE away
    BY <1>1, <1>2, <2>2 DEF FoundAt, SizeOf
  <2>3. CASE file[p] # NoFile /\ ~away
    BY <1>1, <1>2, <2>3 DEF FoundAt, SizeOf
  <2> QED BY <2>1, <2>2, <2>3
<1> QED BY <1>1, <1>3 DEF AtPath, Before

LEMMA AdmitAtPath ==
  ASSUME UInv, NEW u \in Uploads, Admit(u)
  PROVE  AtPath(u)'
<1>1. /\ Goes(u) /\ up[u].pc = "checking" /\ up'[u].pc = "admitted"
      /\ up'[u].fileSize = up[u].fileSize /\ up'[u].numFiles = up[u].numFiles
      /\ uploadMode' = uploadMode /\ file' = file /\ temp' = temp
  BY AdmitDoes DEF UInv
<1>2. AtPath(u) /\ FoundAt(u)
  BY <1>1 DEF UInv, AtPath
<1>3. FoundAt(u)'
  BY <1>1, <1>2, Same DEF FoundAt, Current
<1> QED BY <1>1, <1>2, <1>3, Same DEF AtPath

LEMMA CreateAtPath ==
  ASSUME UInv, NEW u \in Uploads, Create(u)
  PROVE  AtPath(u)'
<1>1. /\ Base /\ Goes(u) /\ up[u].pc = "admitted" /\ up'[u].pc = "open"
      /\ uploadMode' = uploadMode /\ up'[u].numFiles = up[u].numFiles
      /\ up'[u].InitialSize = IF TruncatesNow(u) THEN 0 ELSE up[u].fileSize
      /\ IF Direct(up[u].path)
         THEN /\ file'[up[u].path] = Content(OpenedSize(u), FALSE) /\ temp' = temp
         ELSE /\ temp'[u] = Content(OpenedSize(u), FALSE)
              /\ IF ToRename(u) THEN file'[up[u].path] = NoFile ELSE file' = file
  BY CreateDoes DEF UInv, Create
<1>2. AtPath(u) /\ FoundAt(u)
  BY <1>1 DEF UInv, AtPath
<1>3. Content(OpenedSize(u), FALSE) # NoFile
  BY <1>1, CreatedWritten, CreateDoes, ContentTyped
<1>4. OpenAt(u)'
  <2>1. CASE Direct(up[u].path)
    <3>1. temp[u] = NoFile
      BY <1>1, <1>2, <2>1, KindsOfPath DEF FoundAt
    <3> QED BY <1>1, <1>3, <2>1, <3>1, Same DEF OpenAt
  <2>2. CASE Atomic(up[u].path)
    <3>1. file'[up[u].path] = NoFile
      <4>1. CASE ToRename(u)
        BY <1>1, <2>2, <4>1, KindsOfPath
      <4>2. CASE ~ToRename(u)
        <5>1. Current(u) = NoFile
          BY <1>2, <2>2, <4>2 DEF ToRename, FoundAt
        <5> QED BY <1>1, <2>2, <4>2, <5>1, KindsOfPath DEF Current
      <4> QED BY <4>1, <4>2
    <3> QED BY <1>1, <1>3, <2>2, <3>1, Same, KindsOfPath DEF OpenAt
  <2>3. CASE ~Direct(up[u].path) /\ ~Atomic(up[u].path)
    <3>1. Kind(u) = "cloud" /\ ~ToRename(u) /\ ~TruncatesNow(u)
      BY <1>1, <2>3, KindsOfPath DEF ToRename, TruncatesNow
    <3>2. file' = file /\ up'[u].InitialSize = up[u].fileSize
      BY <1>1, <2>3, <3>1
    <3>3. SizeOf(Current(u)) = up[u].fileSize /\ Count(Current(u)) = Before(u)
      BY <1>2, <2>3 DEF FoundAt, SizeOf, Count, Before
    <3>4. Untouched(u)'
      BY <1>1, <3>2, <3>3, Same DEF Untouched, Current
    <3> QED BY <1>1, <1>3, <2>3, <3>4, Same DEF OpenAt
  <2> QED BY <2>1, <2>2, <2>3
<1> QED BY <1>1, <1>2, <1>4, Same DEF AtPath

LEMMA WriteAtPath ==
  ASSUME UInv, NEW u \in Uploads, NEW n \in 0 .. MaxSize, Goes(u), uploadMode' = uploadMode,
         up[u].pc = "open", up'[u].pc = "open", up'[u].numFiles = up[u].numFiles,
         Writes(u, n), up'[u].InitialSize = up[u].InitialSize \/ Kind(u) = "local"
  PROVE  AtPath(u)'
<1>1. Base /\ AtPath(u) /\ OpenAt(u)
  BY DEF UInv, AtPath
<1>2. Content(n, FALSE) # NoFile
  BY ContentTyped
<1>3. OpenAt(u)'
  <2>1. CASE Direct(up[u].path)
    <3>1. file'[up[u].path] = Content(n, FALSE) /\ temp' = temp
      BY <2>1 DEF Writes
    <3> QED BY <1>1, <1>2, <2>1, <3>1, Same DEF OpenAt
  <2>2. CASE Atomic(up[u].path)
    <3>1. temp'[u] = Content(n, FALSE) /\ file' = file /\ ~Direct(up[u].path)
      BY <1>1, <2>2, KindsOfPath DEF Writes
    <3> QED BY <1>1, <1>2, <2>2, <3>1, Same DEF OpenAt, Current
  <2>3. CASE ~Direct(up[u].path) /\ ~Atomic(up[u].path)
    <3>1. temp'[u] = Content(n, FALSE) /\ file' = file /\ Kind(u) = "cloud"
      BY <1>1, <2>3, KindsOfPath DEF Writes
    <3>2. Untouched(u)'
      BY <1>1, <2>3, <3>1, Same DEF OpenAt, Untouched, Current
    <3> QED BY <1>2, <2>3, <3>1, <3>2, Same DEF OpenAt
  <2> QED BY <2>1, <2>2, <2>3
<1> QED BY <1>1, <1>3, Same DEF AtPath

LEMMA WriteFailsAtPath ==
  ASSUME UInv, NEW u \in Uploads, WriteFails(u)
  PROVE  AtPath(u)'
<1>1. /\ Goes(u) /\ up[u].pc = "open" /\ up'[u].pc = "open"
      /\ up'[u].InitialSize = up[u].InitialSize /\ up'[u].numFiles = up[u].numFiles
      /\ uploadMode' = uploadMode /\ file' = file /\ temp' = temp
  BY WriteFailsDoes DEF UInv
<1>2. AtPath(u) /\ OpenAt(u)
  BY <1>1 DEF UInv, AtPath
<1>3. Current(u)' = Current(u) /\ Untouched(u)' = Untouched(u)
  BY <1>1, Same DEF Current, Untouched
<1>4. OpenAt(u)'
  BY <1>1, <1>2, <1>3, Same DEF OpenAt
<1> QED BY <1>1, <1>2, <1>4, Same DEF AtPath

LEMMA EndAtPath ==
  ASSUME UInv, NEW u \in Uploads, NEW err, NEW aborted, Settles(u, err, aborted)
  PROVE  AtPath(u)'
<1>1. /\ Goes(u) /\ uploadMode' = uploadMode /\ up[u].pc = "open" /\ up'[u].pc = "settled"
      /\ up'[u].InitialSize = up[u].InitialSize /\ up'[u].numFiles = up[u].numFiles
      /\ up'[u].ErrTransfer = err \/ Atomic(up[u].path)
      /\ \/ Kept(u, err) \/ Direct(up[u].path)
         \/ file'[up[u].path] = Current(u)
  BY DEF Settles
<1>2. Base /\ AtPath(u) /\ OpenAt(u)
  BY <1>1 DEF UInv, AtPath
<1>3. ASSUME CloudFailed(u)' PROVE Untouched(u)'
  <2>1. Kind(u) = "cloud" /\ ~Direct(up[u].path) /\ ~Atomic(up[u].path)
    BY <1>1, <1>2, <1>3, Same, KindsOfPath DEF CloudFailed
  <2>2. err # "none"
    BY <1>1, <1>3, <2>1 DEF CloudFailed
  <2>3. ~Kept(u, err)
    BY <2>1, <2>2 DEF Kept
  <2>4. Untouched(u) /\ Current(u)' = Current(u)
    BY <1>1, <1>2, <2>1, <2>3, Same DEF OpenAt
  <2> QED BY <1>1, <2>4, Same DEF Untouched
<1> QED BY <1>1, <1>2, <1>3, Same DEF AtPath

LEMMA CountBounds ==
  /\ \A c : Count(c) \in 0 .. 1
  /\ \A u : Before(u) \in 0 .. 1
BY DEF Count, Before

LEMMA StatUploadAtPath ==
  ASSUME UInv, NEW u \in Uploads, StatUpload(u)
  PROVE  AtPath(u)'
<1>1. /\ Goes(u) /\ uploadMode' = uploadMode
      /\ up[u].pc = "settled" /\ up'[u].pc = "hook"
      /\ up'[u].InitialSize = up[u].InitialSize
      /\ up'[u].ErrTransfer = up[u].ErrTransfer
      /\ file'[up[u].path] = Current(u) \/ Dropped(u)
      /\ up'[u].fileSize = SizeOf(file'[up[u].path])
      /\ up'[u].numFiles = Count(file'[up[u].path]) - Before(u)
      /\ temp' = temp
  BY StatUploadDoes DEF UInv
<1>2. AtPath(u)
  BY DEF UInv
<1>3. up'[u].numFiles \in -1 .. 1 - Before(u)
  <2> DEFINE c == Count(file'[up[u].path])
             b == Before(u)
  <2>1. c \in 0 .. 1 /\ b \in 0 .. 1 /\ up'[u].numFiles = c - b
    BY <1>1, CountBounds
  <2> HIDE DEF c, b
  <2>2. up'[u].numFiles \in -1 .. 1 - b
    BY <2>1
  <2> QED BY <2>2 DEF b
<1>4. ASSUME CloudFailed(u)'
      PROVE  up'[u].fileSize = up'[u].InitialSize /\ up'[u].numFiles = 0
  <2>1. Kind(u) = "cloud" /\ CloudFailed(u) /\ ~Dropped(u)
    BY <1>1, <1>4, Same DEF CloudFailed, Dropped
  <2>2. Untouched(u)
    BY <1>1, <1>2, <2>1 DEF AtPath
  <2> QED BY <1>1, <2>1, <2>2, CountBounds DEF Untouched
<1>5. (Current(u))' = file'[up[u].path] /\ Before(u)' = Before(u)
  BY <1>1, Same
<1> QED BY <1>1, <1>3, <1>4, <1>5 DEF AtPath

LEMMA HookEndsAtPath ==
  ASSUME UInv, NEW u \in Uploads, HookEnds(u)
  PROVE  AtPath(u)'
<1>1. /\ Goes(u) /\ uploadMode' = uploadMode /\ up[u].pc = "hook" /\ up'[u].pc = "ended"
      /\ up'[u].InitialSize = up[u].InitialSize /\ up'[u].fileSize = up[u].fileSize
      /\ up'[u].numFiles = up[u].numFiles /\ up'[u].ErrTransfer = up[u].ErrTransfer
      /\ temp' = temp
  BY HookEndsDoes DEF UInv
<1>2. AtPath(u)
  BY DEF UInv
<1>3. CloudFailed(u)' = CloudFailed(u) /\ Before(u)' = Before(u)
  BY <1>1, Same DEF CloudFailed
<1> QED BY <1>1, <1>2, <1>3 DEF AtPath

LEMMA HookFailsAtPath ==
  ASSUME UInv, NEW u \in Uploads, HookFails(u)
  PROVE  AtPath(u)' /\ ~CloudFailed(u)'
<1>1. /\ Base /\ Goes(u) /\ uploadMode' = uploadMode
      /\ up[u].pc = "hook" /\ up'[u].pc = "ended" /\ "hook" \in Failures
      /\ \/ up'[u].numFiles = up[u].numFiles
         \/ Current(u) # NoFile /\ up'[u].numFiles = up[u].numFiles - 1
  BY HookFailsDoes DEF UInv
<1>2. AtPath(u)
  BY DEF UInv
<1>3. up[u].numFiles = Count(Current(u)) - Before(u)
  BY <1>1, <1>2 DEF AtPath
<1>4. up'[u].numFiles \in -1 .. 1 - Before(u) /\ Before(u)' = Before(u)
  <2> DEFINE b == Before(u)
             n == up'[u].numFiles
  <2>1. b \in 0 .. 1 /\ Before(u)' = b
    BY <1>1, CountBounds, Same
  <2>2. up[u].numFiles \in -1 .. 1 - b
    BY <1>2 DEF AtPath
  <2>3. Current(u) # NoFile => up[u].numFiles = 1 - b
    BY <1>3 DEF Count
  <2>4. n = up[u].numFiles \/ n = -b
    <3> HIDE DEF b
    <3> QED BY <1>1, <2>1, <2>3
  <2> HIDE DEF b, n
  <2>5. n \in -1 .. 1 - b
    BY <2>1, <2>2, <2>4
  <2> QED BY <2>1, <2>5 DEF b, n
<1>5. up[u].path \in Paths
  BY <1>1, AboutUpload
<1>6. ~CloudFailed(u)'
  BY <1>1, <1>5, Same DEF CloudFailed, HooksHold, Kind
<1> QED BY <1>1, <1>3, <1>4, <1>6 DEF AtPath

LEMMA UInvInit == ~Overlap /\ UploadsInit => UInv
<1> SUFFICES ASSUME ~Overlap, UploadsInit PROVE UInv
  OBVIOUS
<1>1. \A u \in Uploads : up[u] = Idle
  BY DEF UploadsInit
<1> QED BY <1>1, BaseInit, IdleAtPath DEF UInv

(* What a step of an upload keeps, whatever the upload is.                  *)
LEMMA Frame ==
  ASSUME Base, NEW u \in Uploads, Upload(u)
  PROVE  Others(u) /\ Allowed(u) /\ uploadMode' = uploadMode
<1>1. ASSUME NEW p \in Paths, NEW protocol \in Protocols, NEW flag \in Flags(protocol),
             Lstat(u, p, protocol, flag)
      PROVE  Others(u) /\ Allowed(u) /\ uploadMode' = uploadMode
  <2>1. Others(u) /\ Elsewhere(p) /\ Free(p) /\ uploadMode' = uploadMode
    BY <1>1, LstatDoes
  <2> QED BY <2>1 DEF Allowed, Elsewhere
<1>2. CASE Deny(u)
  BY <1>2, DenyDoes, AllowedNothing
<1>3. CASE Admit(u)
  BY <1>3, AdmitDoes, AllowedNothing
<1>4. CASE Create(u)
  <2>1. Others(u) /\ up[u].pc = "admitted" /\ uploadMode' = uploadMode
    BY <1>4, CreateDoes DEF Create
  <2> QED BY <1>4, <2>1, CreatedWritten, AllowedHere DEF Active
<1>5. CASE CreateFails(u)
  <2>1. /\ Others(u) /\ up[u].pc = "admitted" /\ Elsewhere(up[u].path)
        /\ uploadMode' = uploadMode
    BY <1>5, CreateFailsDoes DEF Elsewhere
  <2> QED BY <2>1, AllowedHere DEF Active
<1>6. ASSUME NEW off \in Offsets(u), WriteAt(u, off)
      PROVE  Others(u) /\ Allowed(u) /\ uploadMode' = uploadMode
  <2>1. /\ Others(u) /\ Goes(u) /\ up[u].pc = "open" /\ uploadMode' = uploadMode
        /\ \E n \in 0 .. MaxSize : Writes(u, n)
    BY <1>6, WriteAtDoes
  <2> QED BY <2>1, WritesWritten, AllowedHere DEF Active
<1>7. CASE WriteFails(u)
  BY <1>7, WriteFailsDoes, AllowedNothing
<1>8. ASSUME NEW size \in TruncateSizes, TruncateHandle(u, size)
      PROVE  Others(u) /\ Allowed(u) /\ uploadMode' = uploadMode
  <2>1. /\ Others(u) /\ Goes(u) /\ up[u].pc = "open" /\ uploadMode' = uploadMode
        /\ size \in 0 .. MaxSize /\ Writes(u, size)
    BY <1>8, TruncateHandleDoes
  <2> QED BY <2>1, WritesWritten, AllowedHere DEF Active
<1>9. CASE Close(u) \/ Abort(u)
  <2>1. Others(u) /\ Elsewhere(up[u].path) /\ up[u].pc = "open" /\ uploadMode' = uploadMode
    BY <1>9, EndDoes DEF Settles
  <2> QED BY <2>1, AllowedHere DEF Active
<1>10. CASE StatUpload(u)
  <2>1. Others(u) /\ Elsewhere(up[u].path) /\ up[u].pc = "settled" /\ uploadMode' = uploadMode
    BY <1>10, StatUploadDoes
  <2> QED BY <2>1, AllowedHere DEF Active
<1>11. CASE HookEnds(u)
  BY <1>11, HookEndsDoes, AllowedNothing
<1>12. CASE HookFails(u)
  <2>1. Others(u) /\ Elsewhere(up[u].path) /\ up[u].pc = "hook" /\ uploadMode' = uploadMode
    BY <1>12, HookFailsDoes
  <2> QED BY <2>1, AllowedHere DEF Active
<1>13. CASE UpdateQuota(u)
  BY <1>13, UpdateQuotaDoes, AllowedNothing
<1> QED BY <1>1, <1>2, <1>3, <1>4, <1>5, <1>6, <1>7, <1>8, <1>9, <1>10, <1>11, <1>12, <1>13
        DEF Upload

LEMMA UploadAtPath ==
  ASSUME UInv, NEW u \in Uploads, Upload(u)
  PROVE  AtPath(u)'
<1>0. Base
  BY DEF UInv
<1>1. ASSUME NEW p \in Paths, NEW protocol \in Protocols, NEW flag \in Flags(protocol),
             Lstat(u, p, protocol, flag)
      PROVE  AtPath(u)'
  BY <1>1, LstatAtPath
<1>2. CASE Deny(u) \/ CreateFails(u) \/ UpdateQuota(u)
  <2>1. up'[u] = Idle
    BY <1>0, <1>2, DenyDoes, CreateFailsDoes, UpdateQuotaDoes
  <2> QED BY <2>1, IdleAtPathNext
<1>3. CASE Admit(u)
  BY <1>3, AdmitAtPath
<1>4. CASE Create(u)
  BY <1>4, CreateAtPath
<1>5. ASSUME NEW off \in Offsets(u), WriteAt(u, off)
      PROVE  AtPath(u)'
  <2>1. /\ Goes(u) /\ up[u].pc = "open" /\ up'[u].pc = "open" /\ uploadMode' = uploadMode
        /\ up'[u].InitialSize = up[u].InitialSize /\ up'[u].numFiles = up[u].numFiles
        /\ \E n \in 0 .. MaxSize : Writes(u, n)
    BY <1>0, <1>5, WriteAtDoes
  <2> QED BY <2>1, WriteAtPath
<1>6. CASE WriteFails(u)
  BY <1>6, WriteFailsAtPath
<1>7. ASSUME NEW size \in TruncateSizes, TruncateHandle(u, size)
      PROVE  AtPath(u)'
  BY <1>0, <1>7, TruncateHandleDoes, WriteAtPath
<1>8. CASE Close(u) \/ Abort(u)
  BY <1>0, <1>8, EndDoes, EndAtPath
<1>9. CASE StatUpload(u)
  BY <1>9, StatUploadAtPath
<1>10. CASE HookEnds(u)
  BY <1>10, HookEndsAtPath
<1>11. CASE HookFails(u)
  BY <1>11, HookFailsAtPath
<1> QED BY <1>1, <1>2, <1>3, <1>4, <1>5, <1>6, <1>7, <1>8, <1>9, <1>10, <1>11 DEF Upload

LEMMA UInvStep == UInv /\ [UploadsNext]_uploadsVars => UInv'
<1> SUFFICES ASSUME UInv, [UploadsNext]_uploadsVars PROVE UInv'
  OBVIOUS
<1>0. Base /\ Base'
  BY BaseStep DEF UInv
<1>1. ASSUME NEW u \in Uploads, Upload(u) PROVE UInv'
  BY <1>0, <1>1, Frame, UploadAtPath, UInvKept
<1>2. ASSUME NEW u \in Uploads, RemoveLeftover(u) PROVE UInv'
  <2>1. /\ Others(u) /\ file' = file /\ up' = up /\ up[u] = Idle
        /\ uploadMode' = uploadMode
    BY <1>0, <1>2, RemoveLeftoverDoes
  <2>2. AtPath(u)'
    BY <2>1, IdleAtPathNext
  <2> QED BY <1>0, <2>1, <2>2, AllowedNothing, UInvKept
<1>3. ASSUME NEW p \in Paths, RemoveFile(p) PROVE UInv'
  BY <1>0, <1>3, RemoveFileDoes, UInvKeptByOthers DEF Elsewhere
<1>4. ASSUME NEW p \in Paths, NEW q \in Paths, Rename(p, q) PROVE UInv'
  <2>1. /\ up' = up /\ temp' = temp /\ Free(p) /\ Free(q)
        /\ \A x \in Paths \ {p, q} : file'[x] = file[x]
        /\ uploadMode' = uploadMode
    BY <1>0, <1>4, RenameDoes
  <2>2. \A x \in Paths : file'[x] # file[x] => Free(x)
    BY <2>1
  <2> QED BY <1>0, <2>1, <2>2, UInvKeptByOthers
<1>5. ASSUME NEW p \in Paths, NEW size \in TruncateSizes, Truncate(p, size) PROVE UInv'
  BY <1>0, <1>5, TruncateDoes, UInvKeptByOthers DEF Elsewhere
<1>6. CASE UNCHANGED uploadsVars
  BY <1>0, <1>6, UInvKeptByOthers DEF uploadsVars
<1> QED BY <1>1, <1>2, <1>3, <1>4, <1>5, <1>6 DEF UploadsNext

(* The calls that failed and what nobody charges: only the end of an upload *)
(* leaves an uncharged file behind.                                         *)
HistoryTyped ==
  /\ tempPath \in BOOLEAN
  /\ failed \in [Uploads -> SUBSET {"open", "rename", "remove"}]
  /\ uncharged \in [files : Nat, size : Nat]

LeavesNone(u) ==
  /\ tempPath' = tempPath /\ uncharged' = uncharged
  /\ failed' = failed \/ \E calls \in SUBSET {"open", "rename", "remove"} :
                          failed' = [failed EXCEPT ![u] = calls]

LEMMA UploadHistory ==
  ASSUME NEW u \in Uploads, Upload(u), ~Close(u), ~Abort(u)
  PROVE  LeavesNone(u)
<1>1. CASE Deny(u) \/ CreateFails(u)
  BY <1>1 DEF Deny, CreateFails, Refused, LeavesNone
<1>2. CASE \/ Admit(u) \/ Create(u) \/ WriteFails(u) \/ StatUpload(u)
           \/ HookEnds(u) \/ HookFails(u) \/ UpdateQuota(u)
  BY <1>2 DEF Admit, Create, WriteFails, StatUpload, HookEnds, HookFails, UpdateQuota,
              LeavesNone, history
<1>3. ASSUME NEW p, NEW protocol, NEW flag, Lstat(u, p, protocol, flag)
      PROVE  LeavesNone(u)
  BY <1>3 DEF Lstat, LeavesNone, history
<1>4. ASSUME NEW off, WriteAt(u, off) PROVE LeavesNone(u)
  BY <1>4 DEF WriteAt, LeavesNone, history
<1>5. ASSUME NEW size, TruncateHandle(u, size) PROVE LeavesNone(u)
  BY <1>5 DEF TruncateHandle, LeavesNone, history
<1> QED BY <1>1, <1>2, <1>3, <1>4, <1>5 DEF Upload

LEMMA EndHistory ==
  ASSUME Base, HistoryTyped, NEW u \in Uploads, Close(u) \/ Abort(u)
  PROVE  /\ HistoryTyped' /\ tempPath' = tempPath
         /\ \A v \in Uploads \ {u} : failed'[v] = failed[v]
         /\ \/ temp'[u] = NoFile
            \/ "remove" \in failed'[u] \/ ("rename" \in failed'[u] /\ ~tempPath)
<1> DEFINE p == up[u].path
<1>1. PICK err, aborted, renamed, removed : Settle(u, err, aborted, renamed, removed)
  BY DEF Close, Abort
<1>2. tempPath' = tempPath /\ temp \in [Uploads -> Contents] /\ up[u].pc = "open"
  BY DEF Close, Abort, Base, Typed
<1>3. Written(u).size \in Nat
  BY <1>2, AboutUpload
<1> DEFINE notRenamed == Atomic(p) /\ Kept(u, err) /\ ~renamed
           placed == Kept(u, err) /\ ~notRenamed
           removes == IF notRenamed THEN tempPath ELSE ~placed
           left == Atomic(p) /\ ~placed /\ ~(removes /\ removed)
           calls == (IF notRenamed THEN {"rename"} ELSE {})
                    \cup (IF removes THEN {"remove"} ELSE {})
<1>4. /\ temp' = IF left THEN temp ELSE [temp EXCEPT ![u] = NoFile]
      /\ failed' = IF ~left THEN failed ELSE [failed EXCEPT ![u] = calls]
  BY <1>1 DEF Settle
<1>5. uncharged' = uncharged \/
        uncharged' = [files |-> uncharged.files + 1, size |-> uncharged.size + Written(u).size]
  <2>1. Content(Written(u).size, err = "none" /\ ~aborted).size = Written(u).size
    BY DEF Content
  <2> QED BY <1>1, <2>1 DEF Settle
<1>6. /\ calls \in SUBSET {"open", "rename", "remove"}
      /\ left => "remove" \in calls \/ ("rename" \in calls /\ ~tempPath)
  BY DEF Kept
<1>7. uncharged' \in [files : Nat, size : Nat]
  <2>1. uncharged.files \in Nat /\ uncharged.size \in Nat
    BY DEF HistoryTyped
  <2>2. uncharged.files + 1 \in Nat /\ uncharged.size + Written(u).size \in Nat
    BY <1>3, <2>1
  <2> QED BY <1>5, <2>2 DEF HistoryTyped
<1> HIDE DEF calls, left
<1> QED BY <1>2, <1>4, <1>6, <1>7 DEF HistoryTyped

LEMMA HistoryStep ==
  Base /\ HistoryTyped /\ [UploadsNext]_uploadsVars => HistoryTyped' /\ tempPath' = tempPath
<1> SUFFICES ASSUME Base, HistoryTyped, [UploadsNext]_uploadsVars
             PROVE  HistoryTyped' /\ tempPath' = tempPath
  OBVIOUS
<1>1. ASSUME NEW u \in Uploads, LeavesNone(u)
      PROVE  HistoryTyped' /\ tempPath' = tempPath
  BY <1>1 DEF LeavesNone, HistoryTyped
<1>2. ASSUME NEW u \in Uploads, Upload(u) PROVE HistoryTyped' /\ tempPath' = tempPath
  <2>1. CASE Close(u) \/ Abort(u)
    BY <2>1, EndHistory
  <2>2. CASE ~(Close(u) \/ Abort(u))
    BY <1>1, <1>2, <2>2, UploadHistory
  <2> QED BY <2>1, <2>2
<1>3. ASSUME NEW u \in Uploads, RemoveLeftover(u)
      PROVE  HistoryTyped' /\ tempPath' = tempPath
  BY <1>1, <1>3 DEF RemoveLeftover, LeavesNone
<1>4. ASSUME NEW p \in Paths,
             \/ RemoveFile(p) \/ \E q \in Paths : Rename(p, q)
             \/ \E size \in TruncateSizes : Truncate(p, size)
      PROVE  HistoryTyped' /\ tempPath' = tempPath
  BY <1>4 DEF RemoveFile, Rename, Truncate, HistoryTyped, history
<1>5. CASE UNCHANGED uploadsVars
  BY <1>5 DEF uploadsVars, history, HistoryTyped
<1> QED BY <1>2, <1>3, <1>4, <1>5 DEF UploadsNext

LEMMA HistoryInit == UploadsInit => HistoryTyped
BY UploadsAssumption DEF UploadsInit, HistoryTyped

(* Type correctness, where no two clients use a path at a time: an upload   *)
(* then changes the number of files by one at most, whatever fails.         *)
THEOREM UploadTypes == ~Overlap => (UploadsSpec => []UploadsTypeOK)
<1> SUFFICES ASSUME ~Overlap PROVE UploadsSpec => []UploadsTypeOK
  OBVIOUS
<1>1. UploadsInit => UInv /\ HistoryTyped
  BY UInvInit, HistoryInit
<1>2. UInv /\ HistoryTyped /\ [UploadsNext]_uploadsVars => (UInv /\ HistoryTyped)'
  BY UInvStep, HistoryStep DEF UInv
<1>3. UInv /\ HistoryTyped => UploadsTypeOK
  <2> SUFFICES ASSUME UInv, HistoryTyped PROVE UploadsTypeOK
    OBVIOUS
  <2>1. Typed
    BY DEF UInv, Base
  <2>2. ASSUME NEW u \in Uploads PROVE up[u] \in BaseTransfer
    <3>1. up[u] \in AnyTransfer /\ up[u].numFiles \in -1 .. 1 - Before(u)
      BY <2>1 DEF Typed, UInv, AtPath
    <3>2. up[u].numFiles \in -1 .. 1
      BY <3>1, CountBounds
    <3> QED BY <3>1, <3>2 DEF AnyTransfer, BaseTransfer
  <2> QED BY <2>1, <2>2 DEF Typed, HistoryTyped, UploadsTypeOK
<1> QED BY <1>1, <1>2, <1>3, PTL DEF UploadsSpec

-----------------------------------------------------------------------------
(* A path never holds a partial file                                        *)

WholeAt(p) ==
  (file[p] # NoFile /\ (uploadMode = "atomic" \/ KindOf[p] = "cloud")) => file[p].whole

LEMMA AtomicStep ==
  ~("abort" \in Failures /\ "http" \in Protocols) /\ Base /\ AtomicComplete
    /\ [UploadsNext]_uploadsVars => AtomicComplete'
<1> SUFFICES ASSUME ~("abort" \in Failures /\ "http" \in Protocols), Base, AtomicComplete,
                    [UploadsNext]_uploadsVars, NEW p \in Paths
             PROVE  WholeAt(p)'
  BY DEF AtomicComplete, WholeAt
<1>0. WholeAt(p)
  BY DEF AtomicComplete, WholeAt
<1>1. ASSUME file'[p] = file[p] \/ file'[p] = NoFile, uploadMode' = uploadMode
      PROVE  WholeAt(p)'
  BY <1>0, <1>1 DEF WholeAt
<1>2. ASSUME NEW u \in Uploads, NEW n, Writes(u, n), uploadMode' = uploadMode
      PROVE  WholeAt(p)'
  <2>1. CASE Direct(up[u].path) /\ p = up[u].path
    BY <1>2, <2>1 DEF WholeAt, Direct
  <2>2. CASE ~(Direct(up[u].path) /\ p = up[u].path)
    BY <1>1, <1>2, <2>2 DEF Writes, Elsewhere
  <2> QED BY <2>1, <2>2
<1>3. ASSUME NEW u \in Uploads, Upload(u) PROVE WholeAt(p)'
  <2>1. ASSUME NEW q \in Paths, NEW protocol \in Protocols, NEW flag \in Flags(protocol),
               Lstat(u, q, protocol, flag)
        PROVE  WholeAt(p)'
    BY <1>1, <2>1, LstatDoes DEF Elsewhere
  <2>2. CASE Deny(u)
    BY <1>1, <2>2, DenyDoes
  <2>3. CASE Admit(u)
    BY <1>1, <2>3, AdmitDoes
  <2>4. CASE Create(u)
    <3>1. /\ uploadMode' = uploadMode
          /\ IF Direct(up[u].path) THEN Elsewhere(up[u].path)
             ELSE (file'[up[u].path] = NoFile /\ Elsewhere(up[u].path)) \/ file' = file
      BY <2>4, CreateDoes DEF Create
    <3>2. CASE Direct(up[u].path) /\ p = up[u].path
      BY <3>1, <3>2 DEF WholeAt, Direct
    <3>3. CASE ~(Direct(up[u].path) /\ p = up[u].path)
      BY <1>1, <3>1, <3>3 DEF Elsewhere
    <3> QED BY <3>2, <3>3
  <2>5. CASE CreateFails(u)
    BY <1>1, <2>5, CreateFailsDoes DEF Elsewhere
  <2>6. ASSUME NEW off \in Offsets(u), WriteAt(u, off) PROVE WholeAt(p)'
    BY <1>2, <2>6, WriteAtDoes
  <2>7. CASE WriteFails(u)
    BY <1>1, <2>7, WriteFailsDoes
  <2>8. ASSUME NEW size \in TruncateSizes, TruncateHandle(u, size) PROVE WholeAt(p)'
    BY <1>2, <2>8, TruncateHandleDoes
  <2>9. CASE Close(u) \/ Abort(u)
    <3>1. PICK err \in {"none", "quota", "other"}, aborted \in BOOLEAN : Settles(u, err, aborted)
      BY <2>9, EndDoes
    <3>2. /\ Elsewhere(up[u].path) /\ uploadMode' = uploadMode /\ up[u].pc = "open"
          /\ \/ /\ file'[up[u].path] = Closed(u, err, aborted)
                /\ Kept(u, err) \/ Direct(up[u].path)
             \/ file'[up[u].path] \in {NoFile, Current(u)}
          /\ aborted => "abort" \in Failures /\ (err = "none" => up[u].protocol = "http")
      BY <3>1 DEF Settles
    <3>3. CASE p # up[u].path
      BY <1>1, <3>2, <3>3 DEF Elsewhere
    <3>4. CASE p = up[u].path /\ file'[p] \in {NoFile, Current(u)}
      BY <1>1, <3>2, <3>4 DEF Current
    <3>5. CASE /\ p = up[u].path /\ file'[p] = Closed(u, err, aborted)
               /\ Kept(u, err) \/ Direct(up[u].path)
      <4>1. SUFFICES ASSUME uploadMode = "atomic" \/ Kind(u) = "cloud"
                     PROVE  file'[p].whole
        BY <3>2, <3>5 DEF WholeAt, Kind
      <4>2. err = "none"
        BY <3>2, <3>5, <4>1, KindsOfPath DEF Kept, Atomic, Direct, Kind
      <4>3. "http" \in Protocols \/ up[u].protocol # "http"
        BY AboutUpload DEF AnyTransfer
      <4>4. ~aborted
        BY <3>2, <4>2, <4>3
      <4>5. file'[p] = Content(Written(u).size, TRUE) /\ Written(u).size \in 0 .. MaxSize
        BY <3>2, <3>5, <4>2, <4>4, AboutUpload DEF Closed
      <4> QED BY <4>5, ContentTyped
    <3> QED BY <3>2, <3>3, <3>4, <3>5
  <2>10. CASE StatUpload(u)
    BY <1>1, <2>10, StatUploadDoes DEF Elsewhere, Current
  <2>11. CASE HookEnds(u)
    BY <1>1, <2>11, HookEndsDoes
  <2>12. CASE HookFails(u)
    BY <1>1, <2>12, HookFailsDoes DEF Elsewhere
  <2>13. CASE UpdateQuota(u)
    BY <1>1, <2>13, UpdateQuotaDoes
  <2> QED BY <1>3, <2>1, <2>2, <2>3, <2>4, <2>5, <2>6, <2>7, <2>8, <2>9, <2>10, <2>11, <2>12,
             <2>13 DEF Upload
<1>4. ASSUME NEW u \in Uploads, RemoveLeftover(u) PROVE WholeAt(p)'
  BY <1>1, <1>4, RemoveLeftoverDoes
<1>5. ASSUME NEW q \in Paths, RemoveFile(q) PROVE WholeAt(p)'
  BY <1>1, <1>5, RemoveFileDoes DEF Elsewhere
<1>6. ASSUME NEW x \in Paths, NEW y \in Paths, Rename(x, y) PROVE WholeAt(p)'
  <2>1. /\ KindOf[x] = KindOf[y] /\ file'[x] = NoFile /\ file'[y] = file[x]
        /\ \A z \in Paths \ {x, y} : file'[z] = file[z] /\ uploadMode' = uploadMode
    BY <1>6, RenameDoes
  <2>2. uploadMode' = uploadMode /\ WholeAt(x)
    BY <1>6, RenameDoes DEF AtomicComplete, WholeAt
  <2>3. CASE p = y
    BY <2>1, <2>2, <2>3 DEF WholeAt
  <2>4. CASE p # y
    BY <1>1, <2>1, <2>2, <2>4
  <2> QED BY <2>3, <2>4
<1>7. ASSUME NEW q \in Paths, NEW size \in TruncateSizes, Truncate(q, size) PROVE WholeAt(p)'
  <2>1. /\ Elsewhere(q) /\ file[q] # NoFile /\ file'[q].whole = file[q].whole
        /\ uploadMode' = uploadMode
    BY <1>7, TruncateDoes
  <2>2. CASE p = q
    BY <1>0, <2>1, <2>2 DEF WholeAt
  <2>3. CASE p # q
    BY <1>1, <2>1, <2>3 DEF Elsewhere
  <2> QED BY <2>2, <2>3
<1>8. CASE UNCHANGED uploadsVars
  BY <1>1, <1>8 DEF uploadsVars
<1> QED BY <1>3, <1>4, <1>5, <1>6, <1>7, <1>8 DEF UploadsNext

(* In atomic mode, and in a cloud storage, a path never holds a partial     *)
(* file, overlapping uploads included.  An aborted HTTP upload is closed as *)
(* if it were complete: that one is left out.                               *)
THEOREM NeverPartial ==
  ~("abort" \in Failures /\ "http" \in Protocols) => (UploadsSpec => []AtomicComplete)
<1> SUFFICES ASSUME ~("abort" \in Failures /\ "http" \in Protocols)
             PROVE  UploadsSpec => []AtomicComplete
  OBVIOUS
<1>1. UploadsInit => Base /\ AtomicComplete
  BY BaseInit DEF UploadsInit, AtomicComplete
<1>2. Base /\ AtomicComplete /\ [UploadsNext]_uploadsVars => Base' /\ AtomicComplete'
  BY BaseStep, AtomicStep
<1> QED BY <1>1, <1>2, PTL DEF UploadsSpec

-----------------------------------------------------------------------------
(* What an upload leaves as a temporary file                                *)

Excused(u) ==
  "remove" \in failed[u] \/ ("rename" \in failed[u] /\ ~tempPath) \/ "open" \in failed[u]

LeftExcused ==
  \A u \in Uploads :
    (temp[u] # NoFile /\ up[u].pc \notin {"checking", "admitted", "open"}) => Excused(u)

LEMMA LeftExcusedStep ==
  Base /\ HistoryTyped /\ LeftExcused /\ [UploadsNext]_uploadsVars => LeftExcused'
<1> SUFFICES ASSUME Base, HistoryTyped, LeftExcused, [UploadsNext]_uploadsVars
             PROVE  LeftExcused'
  OBVIOUS
<1>1. ASSUME NEW u \in Uploads, Others(u), tempPath' = tempPath,
             \A v \in Uploads \ {u} : failed'[v] = failed[v],
             \/ temp'[u] = NoFile \/ up'[u].pc \in {"checking", "admitted", "open"}
             \/ Excused(u)'
      PROVE  LeftExcused'
  BY <1>1 DEF LeftExcused, Others, Excused
<1>2. ASSUME NEW u \in Uploads, up[u].pc \notin {"checking", "admitted", "open"},
             Others(u), temp' = temp, failed' = failed, tempPath' = tempPath
      PROVE  LeftExcused'
  <2>1. temp'[u] = NoFile \/ Excused(u)'
    BY <1>2 DEF LeftExcused, Excused
  <2> QED BY <1>1, <1>2, <2>1
<1>3. ASSUME NEW u \in Uploads, LeavesNone(u)
      PROVE  tempPath' = tempPath /\ \A v \in Uploads \ {u} : failed'[v] = failed[v]
  BY <1>3 DEF LeavesNone, HistoryTyped
<1>4. ASSUME NEW u \in Uploads, Upload(u) PROVE LeftExcused'
  <2>1. CASE Close(u) \/ Abort(u)
    <3>1. Others(u)
      BY <2>1, EndDoes DEF Settles
    <3> QED BY <1>1, <2>1, <3>1, EndHistory DEF Excused
  <2>2. CASE Deny(u) \/ CreateFails(u)
    <3>1. Others(u)
      BY <2>2, DenyDoes, CreateFailsDoes
    <3>2. temp'[u] = NoFile \/ "open" \in failed'[u]
      BY <2>2 DEF Deny, CreateFails, Refused, HistoryTyped
    <3>3. LeavesNone(u)
      BY <2>2 DEF Deny, CreateFails, Refused, LeavesNone
    <3> QED BY <1>1, <1>3, <3>1, <3>2, <3>3 DEF Excused
  <2>3. CASE StatUpload(u) \/ HookEnds(u) \/ HookFails(u) \/ UpdateQuota(u)
    <3>1. failed' = failed /\ tempPath' = tempPath
      BY <2>3 DEF StatUpload, HookEnds, HookFails, UpdateQuota, history
    <3>2. /\ Others(u) /\ temp' = temp
          /\ up[u].pc \notin {"checking", "admitted", "open"}
      BY <2>3, StatUploadDoes, HookEndsDoes, HookFailsDoes, UpdateQuotaDoes
    <3> QED BY <1>2, <3>1, <3>2
  <2>4. ASSUME \/ Admit(u) \/ Create(u) \/ WriteFails(u)
               \/ \E size \in TruncateSizes : TruncateHandle(u, size)
               \/ up[u].pc = "open" /\ \E off \in Offsets(u) : WriteAt(u, off)
               \/ \E p \in Paths, protocol \in Protocols : \E flag \in Flags(protocol) :
                    Lstat(u, p, protocol, flag)
        PROVE  LeftExcused'
    <3>1. Others(u) /\ up'[u].pc \in {"checking", "admitted", "open"}
      BY <2>4, AdmitDoes, CreateDoes, WriteFailsDoes, TruncateHandleDoes, WriteAtDoes,
         LstatDoes
    <3>2. LeavesNone(u)
      <4>1. ~Close(u) /\ ~Abort(u)
        <5>1. (Close(u) \/ Abort(u)) => up'[u].pc = "settled"
          BY EndDoes DEF Settles
        <5> QED BY <3>1, <5>1
      <4> QED BY <1>4, <4>1, UploadHistory
    <3> QED BY <1>1, <1>3, <3>1, <3>2
  <2> QED BY <1>4, <2>1, <2>2, <2>3, <2>4 DEF Upload
<1>5. ASSUME NEW u \in Uploads, RemoveLeftover(u) PROVE LeftExcused'
  <2>1. LeavesNone(u)
    BY <1>5 DEF RemoveLeftover, LeavesNone
  <2> QED BY <1>1, <1>3, <1>5, <2>1, RemoveLeftoverDoes
<1>6. ASSUME up' = up, temp' = temp, failed' = failed, tempPath' = tempPath
      PROVE  LeftExcused'
  BY <1>6 DEF LeftExcused, Excused
<1>7. ASSUME NEW p \in Paths,
             \/ RemoveFile(p) \/ \E q \in Paths : Rename(p, q)
             \/ \E size \in TruncateSizes : Truncate(p, size)
      PROVE  LeftExcused'
  BY <1>6, <1>7 DEF RemoveFile, Rename, Truncate, history
<1>8. CASE UNCHANGED uploadsVars
  BY <1>6, <1>8 DEF uploadsVars, history
<1> QED BY <1>4, <1>5, <1>7, <1>8 DEF UploadsNext

(* An upload that is over leaves a temporary file only when the call that   *)
(* was to remove it failed, when a failed rename kept it in the home        *)
(* directory, or when the upload was refused after the file it was to       *)
(* overwrite had been moved away: for every mode and any failures, uploads  *)
(* to the same path included.                                               *)
THEOREM NothingLeftBehind == UploadsSpec => []TempDeleted
<1>1. UploadsInit => Base /\ HistoryTyped /\ LeftExcused
  BY BaseInit, HistoryInit DEF UploadsInit, LeftExcused
<1>2. Base /\ HistoryTyped /\ LeftExcused /\ [UploadsNext]_uploadsVars =>
        Base' /\ HistoryTyped' /\ LeftExcused'
  BY BaseStep, HistoryStep, LeftExcusedStep
<1>3. LeftExcused => TempDeleted
  BY IdleTyped DEF LeftExcused, TempDeleted, Excused
<1> QED BY <1>1, <1>2, <1>3, PTL DEF UploadsSpec

-----------------------------------------------------------------------------
(* The limit on the size of an upload                                       *)

(* The part of the file that an upload has not received itself.             *)
Start(u) == IF Kind(u) = "local" THEN up[u].InitialSize ELSE 0

LimitAt(u) ==
  /\ up[u].pc = "admitted" =>
       LET left == MaxUploadFileSize - (IF IsResume(u) THEN up[u].fileSize ELSE 0)
       IN  /\ 0 < up[u].MaxWriteSize /\ up[u].MaxWriteSize <= left
           /\ QuotaSize = 0 => up[u].MaxWriteSize = left
           /\ IsResume(u) => Kind(u) = "local"
  /\ up[u].pc = "open" =>
       /\ 0 < up[u].MaxWriteSize /\ up[u].MaxWriteSize + Start(u) <= MaxUploadFileSize
       /\ QuotaSize = 0 => up[u].MaxWriteSize + Start(u) = MaxUploadFileSize
       /\ up[u].ErrTransfer = "none" =>
            /\ up[u].BytesReceived <= up[u].MaxWriteSize
            /\ Written(u).size <= up[u].BytesReceived + Start(u)

Limited ==
  /\ UInv
  /\ \A u \in Uploads : LimitAt(u)
  /\ \A p \in Paths : (file[p] # NoFile /\ file[p].whole) => file[p].size <= MaxUploadFileSize

(* The handlers that first move the file away add its size to the limit,    *)
(* and a truncation to more than the limit would lift it.                   *)
LimitsCounted ==
  /\ ~Overlap /\ MaxUploadFileSize > 0
  /\ \A protocol \in Protocols : ~RenamesFirst(protocol)
  /\ \/ TruncateSizes \subseteq {0}
     \/ QuotaSize = 0 /\ \A size \in TruncateSizes : size < MaxUploadFileSize

(* What an upload opens is what it has found, unless it starts anew.        *)
LEMMA OpenedIs ==
  ASSUME UInv, NEW u \in Uploads, up[u].pc = "admitted"
  PROVE  /\ OpenedSize(u) =
              IF up[u].flag = "trunc" \/ Kind(u) # "local" THEN 0 ELSE up[u].fileSize
         /\ up[u].isNewFile => up[u].fileSize = 0
<1>1. FoundAt(u) /\ Base
  BY DEF UInv, AtPath
<1>2. CASE up[u].flag = "trunc" \/ Kind(u) # "local"
  BY <1>1, <1>2 DEF OpenedSize, FoundAt
<1>3. CASE up[u].flag # "trunc" /\ Kind(u) = "local"
  <2>1. CASE up[u].isNewFile
    <3>1. Existing(u) = NoFile /\ up[u].fileSize = 0
      BY <1>1, <2>1 DEF FoundAt, Existing
    <3> QED BY <1>3, <3>1 DEF OpenedSize
  <2>2. CASE ~up[u].isNewFile
    <3>1. Existing(u) # NoFile /\ Existing(u).size = up[u].fileSize
      BY <1>1, <1>3, <2>2, KindsOfPath DEF FoundAt, Existing, ToRename
    <3> QED BY <1>3, <2>2, <3>1 DEF OpenedSize
  <2> QED BY <2>1, <2>2
<1> QED BY <1>2, <1>3

LEMMA AllowedSize ==
  ASSUME Base, NEW u \in Uploads, MaxUploadFileSize > 0,
         HasSpace(up[u].isNewFile), ResumeAllowed(u)
  PROVE  LET left == MaxUploadFileSize - (IF IsResume(u) THEN up[u].fileSize ELSE 0)
         IN  /\ 0 < GetMaxWriteSize(u) /\ GetMaxWriteSize(u) <= left
             /\ QuotaSize = 0 => GetMaxWriteSize(u) = left
             /\ IsResume(u) => Kind(u) = "local"
<1> DEFINE f == up[u].fileSize
           remaining == IF QuotaSize > 0 THEN QuotaSize - usedSize ELSE 0
<1>1. /\ f \in Nat /\ usedSize \in Int /\ QuotaSize \in Nat /\ MaxUploadFileSize \in Nat
  <2>1. up[u] \in AnyTransfer /\ Typed /\ QuotaSize \in Nat /\ MaxUploadFileSize \in Nat
    BY AboutUpload
  <2> QED BY <2>1 DEF AnyTransfer, Typed
<1>2. remaining \in Nat /\ (QuotaSize = 0 <=> remaining = 0)
  BY <1>1 DEF HasSpace
<1>3. IsResume(u) => Kind(u) = "local" /\ f < MaxUploadFileSize
  BY DEF ResumeAllowed
<1>4. GetMaxWriteSize(u) =
        IF IsResume(u) THEN AtMost(MaxUploadFileSize - f, remaining)
        ELSE AtMost(MaxUploadFileSize, IF remaining > 0 THEN remaining + f ELSE 0)
  BY DEF GetMaxWriteSize
<1> HIDE DEF f, remaining
<1>5. ASSUME NEW limit \in Int, limit > 0, NEW size \in Nat
      PROVE  /\ 0 < AtMost(limit, size) /\ AtMost(limit, size) <= limit
             /\ size = 0 => AtMost(limit, size) = limit
  BY <1>5 DEF AtMost
<1>6. CASE IsResume(u)
  <2>1. MaxUploadFileSize - f \in Int /\ MaxUploadFileSize - f > 0
    BY <1>1, <1>3, <1>6
  <2>2. GetMaxWriteSize(u) = AtMost(MaxUploadFileSize - f, remaining)
    BY <1>4, <1>6
  <2> QED BY <1>2, <1>3, <1>5, <1>6, <2>1, <2>2 DEF f
<1>7. CASE ~IsResume(u)
  <2> DEFINE size == IF remaining > 0 THEN remaining + f ELSE 0
  <2>1. size \in Nat /\ (QuotaSize = 0 => size = 0)
    BY <1>1, <1>2
  <2>2. GetMaxWriteSize(u) = AtMost(MaxUploadFileSize, size) /\ MaxUploadFileSize \in Int
    BY <1>1, <1>4, <1>7
  <2> HIDE DEF size
  <2>3. /\ 0 < GetMaxWriteSize(u) /\ GetMaxWriteSize(u) <= MaxUploadFileSize
        /\ QuotaSize = 0 => GetMaxWriteSize(u) = MaxUploadFileSize
    BY <1>5, <2>1, <2>2
  <2> QED BY <1>1, <1>7, <2>3
<1> QED BY <1>6, <1>7

(* The upload that takes a step. *)
LEMMA LimitAtUpload ==
  ASSUME LimitsCounted, Limited, NEW u \in Uploads, Upload(u)
  PROVE  LimitAt(u)'
<1>0. Base /\ UInv /\ MaxUploadFileSize > 0 /\ LimitAt(u)
  BY DEF Limited, UInv, LimitsCounted
<1>1. /\ up[u] \in AnyTransfer /\ MaxUploadFileSize \in Int
      /\ up[u].fileSize \in Int /\ up[u].MaxWriteSize \in Int /\ up[u].InitialSize \in Int
      /\ up[u].BytesReceived \in Int
  BY <1>0, AboutUpload DEF AnyTransfer
<1>2. ASSUME up'[u].pc \notin {"admitted", "open"} PROVE LimitAt(u)'
  BY <1>2 DEF LimitAt
<1>3. ASSUME NEW p \in Paths, NEW protocol \in Protocols, NEW flag \in Flags(protocol),
             Lstat(u, p, protocol, flag)
      PROVE  LimitAt(u)'
  BY <1>0, <1>2, <1>3, LstatDoes
<1>4. CASE Deny(u) \/ CreateFails(u) \/ UpdateQuota(u)
  BY <1>0, <1>2, <1>4, DenyDoes, CreateFailsDoes, UpdateQuotaDoes
<1>5. CASE Admit(u)
  <2>1. /\ Goes(u) /\ HasSpace(up[u].isNewFile) /\ ResumeAllowed(u)
        /\ up'[u].pc = "admitted" /\ up'[u].MaxWriteSize = GetMaxWriteSize(u)
        /\ up'[u].fileSize = up[u].fileSize /\ uploadMode' = uploadMode
    BY <1>0, <1>5, AdmitDoes
  <2>2. IsResume(u)' = IsResume(u) /\ Kind(u)' = Kind(u)
    BY <2>1, Same DEF IsResume
  <2> QED BY <1>0, <2>1, <2>2, AllowedSize DEF LimitAt
<1>6. CASE Create(u)
  <2>1. /\ Goes(u) /\ uploadMode' = uploadMode
        /\ up[u].pc = "admitted" /\ up'[u].pc = "open"
        /\ up'[u].InitialSize = IF TruncatesNow(u) THEN 0 ELSE up[u].fileSize
        /\ up'[u].MaxWriteSize =
             IF ~up[u].isNewFile /\ up[u].MaxWriteSize > 0 /\ RenamesFirst(up[u].protocol)
             THEN up[u].MaxWriteSize + up[u].fileSize ELSE up[u].MaxWriteSize
        /\ up'[u].BytesReceived = up[u].BytesReceived
    BY <1>0, <1>6, CreateDoes DEF Create
  <2>2. up'[u].MaxWriteSize = up[u].MaxWriteSize
    <3>1. up[u].protocol \in Protocols \cup {"none"}
      BY <1>1 DEF AnyTransfer
    <3>2. ~RenamesFirst(up[u].protocol)
      BY <3>1 DEF LimitsCounted, RenamesFirst
    <3> QED BY <2>1, <3>2
  <2>3. /\ OpenedSize(u) = IF up[u].flag = "trunc" \/ Kind(u) # "local" THEN 0
                           ELSE up[u].fileSize
        /\ up[u].isNewFile => up[u].fileSize = 0
    BY <1>0, <2>1, OpenedIs
  <2>4. Kind(u)' = Kind(u)
    BY <2>1, Same
  <2>5. Start(u)' = OpenedSize(u)
    BY <2>1, <2>3, <2>4 DEF Start, TruncatesNow
  <2>6. Start(u)' = IF IsResume(u) THEN up[u].fileSize ELSE 0
    <3>1. IsResume(u) => Kind(u) = "local"
      BY <1>0, <2>1 DEF LimitAt
    <3> QED BY <2>3, <2>5, <3>1 DEF IsResume
  <2>7. Written(u)'.size = OpenedSize(u) /\ up[u].BytesReceived = 0
    BY <1>0, <1>6, <2>1, CreatedWritten DEF Base
  <2>8. /\ 0 < up[u].MaxWriteSize
        /\ up[u].MaxWriteSize <= MaxUploadFileSize - (IF IsResume(u) THEN up[u].fileSize ELSE 0)
        /\ QuotaSize = 0 =>
             up[u].MaxWriteSize = MaxUploadFileSize - (IF IsResume(u) THEN up[u].fileSize ELSE 0)
    BY <1>0, <2>1 DEF LimitAt
  <2>9. /\ up[u].MaxWriteSize + Start(u)' <= MaxUploadFileSize
        /\ QuotaSize = 0 => up[u].MaxWriteSize + Start(u)' = MaxUploadFileSize
    BY <1>1, <2>6, <2>8
  <2>10. Start(u)' \in Int /\ OpenedSize(u) <= 0 + Start(u)'
    BY <1>1, <2>5, <2>6
  <2>11. up'[u].BytesReceived = 0 /\ 0 <= up[u].MaxWriteSize
    BY <1>1, <2>1, <2>7, <2>8
  <2>12. Written(u)'.size <= 0 + Start(u)'
    BY <2>7, <2>10
  <2> QED BY <2>1, <2>2, <2>8, <2>9, <2>11, <2>12 DEF LimitAt
<1>7. ASSUME NEW off \in Offsets(u), WriteAt(u, off)
      PROVE  LimitAt(u)'
  <2>1. /\ Goes(u) /\ up[u].pc = "open" /\ up'[u].pc = "open" /\ uploadMode' = uploadMode
        /\ up'[u].InitialSize = up[u].InitialSize /\ up'[u].MaxWriteSize = up[u].MaxWriteSize
        /\ up'[u].BytesReceived = up[u].BytesReceived + 1
        /\ up'[u].ErrTransfer =
             IF up[u].ErrTransfer = "none" /\ Exceeded(u, up[u].BytesReceived + 1)
             THEN "quota" ELSE up[u].ErrTransfer
    BY <1>0, <1>7, WriteAtDoes
  <2>2. PICK n \in 0 .. MaxSize :
          Written(u).size <= n /\ n <= Written(u).size + 1 /\ Writes(u, n)
    BY <1>0, <1>7, WriteAtDoes
  <2>3. Written(u)'.size = n
    BY <2>1, <2>2, WritesWritten
  <2>4. Start(u)' = Start(u) /\ Start(u) \in Int /\ Written(u).size \in Int
    BY <1>0, <1>1, <2>1, Same, AboutUpload DEF Start
  <2>5. /\ 0 < up[u].MaxWriteSize /\ up[u].MaxWriteSize + Start(u) <= MaxUploadFileSize
        /\ QuotaSize = 0 => up[u].MaxWriteSize + Start(u) = MaxUploadFileSize
        /\ up[u].ErrTransfer = "none" => Written(u).size <= up[u].BytesReceived + Start(u)
    BY <1>0, <2>1 DEF LimitAt
  <2>6. ASSUME up'[u].ErrTransfer = "none"
        PROVE  /\ up[u].BytesReceived + 1 <= up[u].MaxWriteSize
               /\ n <= up[u].BytesReceived + 1 + Start(u)
    <3>1. up[u].ErrTransfer = "none" /\ ~Exceeded(u, up[u].BytesReceived + 1)
      BY <2>1, <2>6
    <3>2. up[u].BytesReceived + 1 <= up[u].MaxWriteSize
      BY <1>1, <2>5, <3>1 DEF Exceeded
    <3>3. n \in Int /\ n <= Written(u).size + 1
      BY <2>2
    <3> QED BY <1>1, <2>4, <2>5, <3>1, <3>2, <3>3
  <2> QED BY <2>1, <2>3, <2>4, <2>5, <2>6 DEF LimitAt
<1>8. CASE WriteFails(u)
  <2>1. /\ Goes(u) /\ up[u].pc = "open" /\ up'[u].pc = "open" /\ uploadMode' = uploadMode
        /\ up'[u].InitialSize = up[u].InitialSize /\ up'[u].MaxWriteSize = up[u].MaxWriteSize
        /\ up'[u].ErrTransfer # "none"
    BY <1>0, <1>8, WriteFailsDoes
  <2>2. Start(u)' = Start(u)
    BY <2>1, Same DEF Start
  <2> QED BY <1>0, <2>1, <2>2 DEF LimitAt
<1>9. ASSUME NEW size \in TruncateSizes, TruncateHandle(u, size)
      PROVE  LimitAt(u)'
  <2>1. /\ Goes(u) /\ up[u].pc = "open" /\ up'[u].pc = "open" /\ uploadMode' = uploadMode
        /\ Kind(u) = "local" /\ size \in 0 .. MaxSize /\ Writes(u, size)
        /\ up'[u].InitialSize = size
        /\ up'[u].MaxWriteSize =
             IF up[u].MaxWriteSize > 0 THEN up[u].MaxWriteSize + up[u].InitialSize - size ELSE 0
        /\ up'[u].BytesReceived = IF up[u].MaxWriteSize > 0 THEN 0 ELSE up[u].BytesReceived
    BY <1>0, <1>9, TruncateHandleDoes
  <2>2. /\ 0 < up[u].MaxWriteSize
        /\ up[u].MaxWriteSize + up[u].InitialSize <= MaxUploadFileSize
        /\ QuotaSize = 0 => up[u].MaxWriteSize + up[u].InitialSize = MaxUploadFileSize
    BY <1>0, <2>1 DEF LimitAt, Start
  <2>3. up[u].InitialSize >= 0 /\ size \in Int
    BY <1>1, <2>1 DEF AnyTransfer
  <2>4. /\ 0 < up[u].MaxWriteSize + up[u].InitialSize - size
    <3>1. CASE TruncateSizes \subseteq {0}
      BY <1>1, <2>2, <2>3, <3>1
    <3>2. CASE QuotaSize = 0 /\ size < MaxUploadFileSize
      BY <1>1, <2>2, <2>3, <3>2
    <3> QED BY <3>1, <3>2 DEF LimitsCounted
  <2>5. /\ up'[u].MaxWriteSize = up[u].MaxWriteSize + up[u].InitialSize - size
        /\ up'[u].BytesReceived = 0
    BY <2>1, <2>2
  <2>6. Start(u)' = size /\ Written(u)'.size = size
    BY <2>1, Same, WritesWritten DEF Start
  <2>7. up'[u].MaxWriteSize + size = up[u].MaxWriteSize + up[u].InitialSize
        /\ size <= 0 + size /\ 0 < up'[u].MaxWriteSize /\ 0 <= up'[u].MaxWriteSize
    BY <1>1, <2>3, <2>4, <2>5
  <2> QED BY <2>1, <2>2, <2>5, <2>6, <2>7 DEF LimitAt
<1>10. CASE Close(u) \/ Abort(u)
  BY <1>0, <1>2, <1>10, EndDoes DEF Settles
<1>11. CASE StatUpload(u)
  BY <1>0, <1>2, <1>11, StatUploadDoes
<1>12. CASE HookEnds(u)
  BY <1>0, <1>2, <1>12, HookEndsDoes
<1>13. CASE HookFails(u)
  BY <1>0, <1>2, <1>13, HookFailsDoes
<1> QED BY <1>3, <1>4, <1>5, <1>6, <1>7, <1>8, <1>9, <1>10, <1>11, <1>12, <1>13 DEF Upload

LEMMA LimitAtKept ==
  ASSUME NEW v, up'[v] = up[v], temp'[v] = temp[v], uploadMode' = uploadMode,
         Active(v) => Current(v)' = Current(v), LimitAt(v)
  PROVE  LimitAt(v)'
<1>1. /\ Start(v)' = Start(v) /\ IsResume(v)' = IsResume(v) /\ Kind(v)' = Kind(v)
      /\ Direct(up[v].path)' = Direct(up[v].path)
  BY DEF Start, IsResume, Kind, Direct
<1>2. up[v].pc = "open" => Written(v)' = Written(v)
  BY <1>1 DEF Written, Active
<1> QED BY <1>1, <1>2 DEF LimitAt

LEMMA SizesKeptStep ==
  ASSUME LimitsCounted, Limited, [UploadsNext]_uploadsVars, NEW p \in Paths
  PROVE  ((file[p] # NoFile /\ file[p].whole) => file[p].size <= MaxUploadFileSize)'
<1> DEFINE kept(q) == (file[q] # NoFile /\ file[q].whole) => file[q].size <= MaxUploadFileSize
<1>0. Base /\ UInv /\ \A q \in Paths : kept(q)
  BY DEF Limited, UInv
<1>1. ASSUME file'[p] = NoFile \/ (\E q \in Paths : file'[p] = file[q]) PROVE kept(p)'
  BY <1>0, <1>1
<1>2. ASSUME NEW n \in 0 .. MaxSize, file'[p] = Content(n, FALSE) PROVE kept(p)'
  <2>1. Content(n, FALSE).whole = FALSE
    BY ContentTyped
  <2> QED BY <1>2, <2>1
<1> HIDE DEF kept
<1>3. ASSUME NEW u \in Uploads, Upload(u) PROVE kept(p)'
  <2>1. ASSUME NEW q \in Paths, NEW protocol \in Protocols, NEW flag \in Flags(protocol),
               Lstat(u, q, protocol, flag)
        PROVE  kept(p)'
    BY <1>0, <1>1, <2>1, LstatDoes DEF Elsewhere
  <2>2. CASE Deny(u)
    BY <1>0, <1>1, <2>2, DenyDoes
  <2>3. CASE Admit(u)
    BY <1>0, <1>1, <2>3, AdmitDoes
  <2>4. CASE Create(u)
    <3>1. OpenedSize(u) \in 0 .. MaxSize
          /\ (file'[p] = file[p] \/ file'[p] = NoFile \/ file'[p] = Content(OpenedSize(u), FALSE))
      BY <1>0, <2>4, CreateDoes DEF Elsewhere
    <3> QED BY <1>1, <1>2, <3>1
  <2>5. CASE CreateFails(u)
    BY <1>0, <1>1, <2>5, CreateFailsDoes DEF Elsewhere
  <2>6. ASSUME NEW off \in Offsets(u), WriteAt(u, off) PROVE kept(p)'
    <3>1. PICK n \in 0 .. MaxSize : Writes(u, n)
      BY <1>0, <2>6, WriteAtDoes
    <3>2. file'[p] = file[p] \/ file'[p] = Content(n, FALSE)
      BY <3>1 DEF Writes, Elsewhere
    <3> QED BY <1>1, <1>2, <3>2
  <2>7. CASE WriteFails(u)
    BY <1>0, <1>1, <2>7, WriteFailsDoes
  <2>8. ASSUME NEW size \in TruncateSizes, TruncateHandle(u, size) PROVE kept(p)'
    <3>1. size \in 0 .. MaxSize /\ Writes(u, size)
      BY <1>0, <2>8, TruncateHandleDoes
    <3>2. file'[p] = file[p] \/ file'[p] = Content(size, FALSE)
      BY <3>1 DEF Writes, Elsewhere
    <3> QED BY <1>1, <1>2, <3>1, <3>2
  <2>9. CASE Close(u) \/ Abort(u)
    <3>1. PICK err \in {"none", "quota", "other"}, aborted \in BOOLEAN : Settles(u, err, aborted)
      BY <1>0, <2>9, EndDoes
    <3>2. /\ Elsewhere(up[u].path) /\ up[u].pc = "open"
          /\ \/ file'[up[u].path] = Closed(u, err, aborted)
             \/ file'[up[u].path] \in {NoFile, Current(u)}
          /\ err = "none" => up[u].ErrTransfer = "none"
      BY <3>1 DEF Settles
    <3>3. CASE p # up[u].path \/ file'[p] \in {NoFile, Current(u)}
      BY <1>1, <3>2, <3>3 DEF Elsewhere, Current
    <3>4. CASE p = up[u].path /\ file'[p] = Closed(u, err, aborted)
      <4> DEFINE n == Written(u).size
                 whole == err = "none" /\ ~aborted
      <4>1. n \in 0 .. MaxSize /\ MaxSize \in Nat
        BY <1>0, <3>2, AboutUpload
      <4>2. whole \in BOOLEAN /\ file'[p] = Content(n, whole)
        BY <3>2, <3>4 DEF Closed
      <4>3. ASSUME whole PROVE n <= MaxUploadFileSize
        <5>1. up[u].ErrTransfer = "none"
          BY <3>2, <4>3
        <5>2. /\ up[u].MaxWriteSize + Start(u) <= MaxUploadFileSize
              /\ up[u].BytesReceived <= up[u].MaxWriteSize
              /\ n <= up[u].BytesReceived + Start(u)
          BY <3>2, <5>1 DEF Limited, LimitAt
        <5>3. /\ up[u].MaxWriteSize \in Int /\ Start(u) \in Int /\ up[u].BytesReceived \in Int
              /\ MaxUploadFileSize \in Int
          BY <1>0, AboutUpload DEF AnyTransfer, Start
        <5> HIDE DEF n
        <5> QED BY <4>1, <5>2, <5>3
      <4> HIDE DEF n, whole
      <4> QED BY <4>1, <4>2, <4>3, ContentTyped DEF kept
    <3> QED BY <3>2, <3>3, <3>4
  <2>10. CASE StatUpload(u)
    BY <1>0, <1>1, <2>10, StatUploadDoes DEF Elsewhere, Current
  <2>11. CASE HookEnds(u)
    BY <1>0, <1>1, <2>11, HookEndsDoes
  <2>12. CASE HookFails(u)
    BY <1>0, <1>1, <2>12, HookFailsDoes DEF Elsewhere
  <2>13. CASE UpdateQuota(u)
    BY <1>0, <1>1, <2>13, UpdateQuotaDoes
  <2> QED BY <1>3, <2>1, <2>2, <2>3, <2>4, <2>5, <2>6, <2>7, <2>8, <2>9, <2>10, <2>11, <2>12,
             <2>13 DEF Upload
<1>4. ASSUME NEW u \in Uploads, RemoveLeftover(u) PROVE kept(p)'
  BY <1>0, <1>1, <1>4, RemoveLeftoverDoes
<1>5. ASSUME NEW q \in Paths, RemoveFile(q) PROVE kept(p)'
  BY <1>0, <1>1, <1>5, RemoveFileDoes DEF Elsewhere
<1>6. ASSUME NEW x \in Paths, NEW y \in Paths, Rename(x, y) PROVE kept(p)'
  <2>1. file'[p] = NoFile \/ file'[p] = file[x] \/ file'[p] = file[p]
    BY <1>0, <1>6, RenameDoes
  <2> QED BY <1>1, <2>1
<1>7. ASSUME NEW q \in Paths, NEW size \in TruncateSizes, Truncate(q, size) PROVE kept(p)'
  <2>1. /\ Elsewhere(q) /\ file'[q] # NoFile /\ file'[q].size = size /\ size \in 0 .. MaxSize
    BY <1>0, <1>7, TruncateDoes
  <2>2. size <= MaxUploadFileSize
    BY <2>1, UploadsAssumption DEF LimitsCounted
  <2>3. CASE p = q
    BY <2>1, <2>2, <2>3 DEF kept
  <2>4. CASE p # q
    BY <1>1, <2>1, <2>4 DEF Elsewhere
  <2> QED BY <2>3, <2>4
<1>8. ASSUME UNCHANGED uploadsVars PROVE kept(p)'
  <2>1. file' = file
    BY <1>8 DEF uploadsVars
  <2> QED BY <1>1, <2>1
<1>9. kept(p)'
  BY <1>3, <1>4, <1>5, <1>6, <1>7, <1>8 DEF UploadsNext
<1> QED BY <1>9 DEF kept

LEMMA LimitedStep == LimitsCounted /\ Limited /\ [UploadsNext]_uploadsVars => Limited'
<1> SUFFICES ASSUME LimitsCounted, Limited, [UploadsNext]_uploadsVars PROVE Limited'
  OBVIOUS
<1>0. Base /\ UInv /\ ~Overlap /\ \A u \in Uploads : LimitAt(u)
  BY DEF Limited, UInv, LimitsCounted
<1>1. UInv'
  BY <1>0, UInvStep
<1>2. \A p \in Paths : ((file[p] # NoFile /\ file[p].whole) => file[p].size <= MaxUploadFileSize)'
  BY SizesKeptStep
<1>3. ASSUME NEW u \in Uploads, Upload(u), NEW v \in Uploads PROVE LimitAt(v)'
  <2>1. Others(u) /\ Allowed(u) /\ uploadMode' = uploadMode
    BY <1>0, <1>3, Frame
  <2>2. CASE v = u
    BY <1>3, <2>2, LimitAtUpload
  <2>3. CASE v # u
    <3>1. up'[v] = up[v] /\ temp'[v] = temp[v]
      BY <2>1, <2>3 DEF Others
    <3>2. Active(v) => Current(v)' = Current(v)
      BY <1>0, <2>1, <2>3, OtherUploadsKept
    <3> QED BY <1>0, <2>1, <3>1, <3>2, LimitAtKept
  <2> QED BY <2>2, <2>3
<1>4. ASSUME NEW u \in Uploads, RemoveLeftover(u), NEW v \in Uploads PROVE LimitAt(v)'
  <2>1. Others(u) /\ file' = file /\ up' = up /\ up[u] = Idle /\ uploadMode' = uploadMode
    BY <1>0, <1>4, RemoveLeftoverDoes
  <2>2. CASE v = u
    <3>1. up'[v].pc = "idle"
      BY <2>1, <2>2, IdleTyped
    <3> QED BY <3>1 DEF LimitAt
  <2>3. CASE v # u
    BY <1>0, <2>1, <2>3, LimitAtKept DEF Others, Current
  <2> QED BY <2>2, <2>3
<1>5. ASSUME up' = up, temp' = temp, uploadMode' = uploadMode,
             \A p \in Paths : file'[p] # file[p] => Free(p),
             NEW v \in Uploads
      PROVE  LimitAt(v)'
  <2>1. Active(v) => Current(v)' = Current(v)
    BY <1>0, <1>5, OthersKept
  <2> QED BY <1>0, <1>5, <2>1, LimitAtKept
<1>6. ASSUME NEW p \in Paths, NEW q \in Paths, Rename(p, q), NEW v \in Uploads
      PROVE  LimitAt(v)'
  <2>1. /\ up' = up /\ temp' = temp /\ Free(p) /\ Free(q) /\ uploadMode' = uploadMode
        /\ \A x \in Paths \ {p, q} : file'[x] = file[x]
    BY <1>0, <1>6, RenameDoes
  <2>2. \A x \in Paths : file'[x] # file[x] => Free(x)
    BY <2>1
  <2> QED BY <1>5, <2>1, <2>2
<1>7. ASSUME NEW p \in Paths, RemoveFile(p), NEW v \in Uploads PROVE LimitAt(v)'
  BY <1>0, <1>5, <1>7, RemoveFileDoes DEF Elsewhere
<1>8. ASSUME NEW p \in Paths, NEW size \in TruncateSizes, Truncate(p, size), NEW v \in Uploads
      PROVE  LimitAt(v)'
  BY <1>0, <1>5, <1>8, TruncateDoes DEF Elsewhere
<1>9. CASE UNCHANGED uploadsVars
  BY <1>5, <1>9, <1>1, <1>2 DEF uploadsVars, Limited
<1> QED BY <1>1, <1>2, <1>3, <1>4, <1>6, <1>7, <1>8, <1>9 DEF UploadsNext, Limited

(* No upload succeeds with more than MaxUploadFileSize, resumed,            *)
(* overwritten or truncated in between.                                     *)
THEOREM LimitIsKept == LimitsCounted => (UploadsSpec => []LimitKept)
<1> SUFFICES ASSUME LimitsCounted PROVE UploadsSpec => []LimitKept
  OBVIOUS
<1>1. UploadsInit => Limited
  <2> SUFFICES ASSUME UploadsInit PROVE Limited
    OBVIOUS
  <2>1. UInv
    BY UInvInit DEF LimitsCounted
  <2>2. \A u \in Uploads : up[u].pc = "idle"
    BY IdleTyped DEF UploadsInit
  <2> QED BY <2>1, <2>2 DEF UploadsInit, Limited, LimitAt
<1>2. Limited /\ [UploadsNext]_uploadsVars => Limited'
  BY LimitedStep
<1>3. Limited => LimitKept
  BY DEF Limited, LimitKept
<1> QED BY <1>1, <1>2, <1>3, PTL DEF UploadsSpec

-----------------------------------------------------------------------------
(* The quota                                                                *)

FileSize == Sum([p \in Paths |-> SizeOf(file[p])])
FileCount == Sum([p \in Paths |-> Count(file[p])])

(* What an upload still adds to the used quota, and what it takes off it.   *)
Plus(u) ==
  IF up[u].pc = "open" THEN SizeOf(Current(u)) + SizeOf(temp[u])
  ELSE IF up[u].pc = "settled" THEN SizeOf(Current(u))
  ELSE IF up[u].pc \in {"hook", "ended"} THEN up[u].fileSize ELSE 0
Minus(u) ==
  IF up[u].pc \in {"idle", "checking", "admitted"} THEN 0 ELSE up[u].InitialSize

PlusFiles(u) ==
  IF up[u].pc = "open" THEN Count(Current(u)) + Count(temp[u])
  ELSE IF up[u].pc = "settled" THEN Count(Current(u))
  ELSE IF up[u].pc \in {"hook", "ended"} THEN up[u].numFiles + 1 ELSE 0
MinusFiles(u) ==
  IF up[u].pc \in {"open", "settled"} THEN Before(u)
  ELSE IF up[u].pc \in {"hook", "ended"} THEN 1 ELSE 0

Balanced ==
  /\ usedSize + Sum([u \in Uploads |-> Plus(u)]) + uncharged.size =
       FileSize + Sum([u \in Uploads |-> SizeOf(temp[u])])
                + Sum([u \in Uploads |-> Minus(u)])
  /\ usedFiles + Sum([u \in Uploads |-> PlusFiles(u)]) + uncharged.files =
       FileCount + Sum([u \in Uploads |-> Count(temp[u])])
                 + Sum([u \in Uploads |-> MinusFiles(u)])

(* The used quota is behind what is at the paths by this much, and by what  *)
(* nobody charges.                                                          *)
Owed(u) ==
  IF up[u].pc \in {"idle", "checking", "admitted"} THEN SizeOf(temp[u])
  ELSE IF up[u].pc = "open" THEN up[u].InitialSize - SizeOf(Current(u))
  ELSE IF up[u].pc = "settled"
  THEN SizeOf(temp[u]) + up[u].InitialSize - SizeOf(Current(u))
  ELSE SizeOf(temp[u]) + up[u].InitialSize - up[u].fileSize
OwedFiles(u) ==
  IF up[u].pc \in {"idle", "checking", "admitted"} THEN Count(temp[u])
  ELSE IF up[u].pc = "open" THEN Before(u) - Count(Current(u))
  ELSE IF up[u].pc = "settled" THEN Count(temp[u]) + Before(u) - Count(Current(u))
  ELSE Count(temp[u]) - up[u].numFiles

LEMMA SumParts ==
  ASSUME UInv, NEW u \in Uploads
  PROVE  /\ Plus(u) \in Nat /\ Minus(u) \in Nat /\ SizeOf(temp[u]) \in Nat
         /\ PlusFiles(u) \in Nat /\ MinusFiles(u) \in Nat /\ Count(temp[u]) \in Nat
         /\ SizeOf(temp[u]) + Minus(u) - Plus(u) = Owed(u)
         /\ Count(temp[u]) + MinusFiles(u) - PlusFiles(u) = OwedFiles(u)
<1>1. /\ Base /\ AtPath(u)
  BY DEF UInv
<1>2. /\ up[u] \in AnyTransfer /\ temp[u] \in Contents
      /\ up[u].pc # "idle" => Current(u) \in Contents
  BY <1>1, AboutUpload
<1>3. /\ SizeOf(temp[u]) \in Nat /\ (up[u].pc # "idle" => SizeOf(Current(u)) \in Nat)
  BY <1>2, ContentTyped
<1>4. Count(temp[u]) \in 0 .. 1 /\ Count(Current(u)) \in 0 .. 1 /\ Before(u) \in 0 .. 1
  BY CountBounds
<1>5. up[u].numFiles + 1 \in Nat /\ up[u].numFiles \in Int
  BY <1>1, <1>4 DEF AtPath
<1>6. up[u].fileSize \in Nat /\ up[u].InitialSize \in Nat
  BY <1>2 DEF AnyTransfer
<1>7. up[u].pc \in {"idle", "checking", "admitted", "open", "settled", "hook", "ended"}
  BY <1>2 DEF AnyTransfer
<1>8. CASE up[u].pc \in {"idle", "checking", "admitted"}
  BY <1>3, <1>4, <1>8 DEF Plus, Minus, PlusFiles, MinusFiles, Owed, OwedFiles
<1>9. CASE up[u].pc = "open"
  BY <1>3, <1>4, <1>6, <1>9 DEF Plus, Minus, PlusFiles, MinusFiles, Owed, OwedFiles
<1>11. CASE up[u].pc = "settled"
  BY <1>3, <1>4, <1>6, <1>11 DEF Plus, Minus, PlusFiles, MinusFiles, Owed, OwedFiles
<1>10. CASE up[u].pc \in {"hook", "ended"}
  <2> QED BY <1>3, <1>4, <1>5, <1>6, <1>10 DEF Plus, Minus, PlusFiles, MinusFiles, Owed, OwedFiles
<1> QED BY <1>7, <1>8, <1>9, <1>10, <1>11

LEMMA SumPartsNext ==
  (UInv => \A u \in Uploads :
     /\ Plus(u) \in Nat /\ Minus(u) \in Nat /\ SizeOf(temp[u]) \in Nat
     /\ PlusFiles(u) \in Nat /\ MinusFiles(u) \in Nat /\ Count(temp[u]) \in Nat
     /\ SizeOf(temp[u]) + Minus(u) - Plus(u) = Owed(u)
     /\ Count(temp[u]) + MinusFiles(u) - PlusFiles(u) = OwedFiles(u))'
<1>1. UInv => \A u \in Uploads :
        /\ Plus(u) \in Nat /\ Minus(u) \in Nat /\ SizeOf(temp[u]) \in Nat
        /\ PlusFiles(u) \in Nat /\ MinusFiles(u) \in Nat /\ Count(temp[u]) \in Nat
        /\ SizeOf(temp[u]) + Minus(u) - Plus(u) = Owed(u)
        /\ Count(temp[u]) + MinusFiles(u) - PlusFiles(u) = OwedFiles(u)
  BY SumParts
<1> QED BY <1>1, PTL

LEMMA SumsOfFiles ==
  ASSUME NEW f \in [Paths -> Contents]
  PROVE  /\ [p \in Paths |-> SizeOf(f[p])] \in [Paths -> Nat]
         /\ [p \in Paths |-> Count(f[p])] \in [Paths -> Nat]
<1>1. \A p \in Paths : SizeOf(f[p]) \in Nat /\ Count(f[p]) \in Nat
  BY ContentTyped DEF Count
<1> QED BY <1>1

(* What changes at one path changes the sums by as much. *)
LEMMA FilesChange ==
  ASSUME NEW f \in [Paths -> Contents], NEW g \in [Paths -> Contents], NEW p \in Paths,
         \A q \in Paths \ {p} : g[q] = f[q]
  PROVE  /\ Sum([q \in Paths |-> SizeOf(f[q])]) \in Int
         /\ Sum([q \in Paths |-> SizeOf(g[q])]) \in Int
         /\ Sum([q \in Paths |-> SizeOf(g[q])]) =
              Sum([q \in Paths |-> SizeOf(f[q])]) - SizeOf(f[p]) + SizeOf(g[p])
         /\ Sum([q \in Paths |-> Count(f[q])]) \in Int
         /\ Sum([q \in Paths |-> Count(g[q])]) \in Int
         /\ Sum([q \in Paths |-> Count(g[q])]) =
              Sum([q \in Paths |-> Count(f[q])]) - Count(f[p]) + Count(g[p])
<1> DEFINE F == [q \in Paths |-> SizeOf(f[q])]
           G == [q \in Paths |-> SizeOf(g[q])]
           N == [q \in Paths |-> Count(f[q])]
           O == [q \in Paths |-> Count(g[q])]
<1>1. /\ F \in [Paths -> Nat] /\ G \in [Paths -> Nat]
      /\ N \in [Paths -> Nat] /\ O \in [Paths -> Nat]
  BY SumsOfFiles
<1>2. /\ \A q \in Paths \ {p} : G[q] = F[q]
      /\ \A q \in Paths \ {p} : O[q] = N[q]
      /\ F[p] = SizeOf(f[p]) /\ G[p] = SizeOf(g[p])
      /\ N[p] = Count(f[p]) /\ O[p] = Count(g[p])
  OBVIOUS
<1>3. IsFiniteSet(Paths)
  BY UploadsAssumption
<1> HIDE DEF F, G, N, O
<1>4. Sum(F) \in Nat /\ Sum(G) \in Nat /\ Sum(G) = Sum(F) - F[p] + G[p]
  BY <1>1, <1>2, <1>3, SumChange
<1>5. Sum(N) \in Nat /\ Sum(O) \in Nat /\ Sum(O) = Sum(N) - N[p] + O[p]
  BY <1>1, <1>2, <1>3, SumChange
<1> QED BY <1>2, <1>4, <1>5 DEF F, G, N, O

LEMMA FilesAtPath ==
  ASSUME Typed, Typed', NEW p \in Paths, Elsewhere(p)
  PROVE  /\ FileSize' = FileSize - SizeOf(file[p]) + SizeOf(file'[p])
         /\ FileCount' = FileCount - Count(file[p]) + Count(file'[p])
<1>1. file \in [Paths -> Contents] /\ file' \in [Paths -> Contents]
      /\ \A q \in Paths \ {p} : file'[q] = file[q]
  BY DEF Typed, Elsewhere
<1> QED BY <1>1, FilesChange DEF FileSize, FileCount

LEMMA FilesTyped ==
  ASSUME NEW f \in [Paths -> Contents]
  PROVE  /\ Sum([p \in Paths |-> SizeOf(f[p])]) \in Int
         /\ Sum([p \in Paths |-> Count(f[p])]) \in Int
<1>1. CASE Paths = {}
  <2>1. /\ \A q \in Paths : [p \in Paths |-> SizeOf(f[p])][q] = 0
        /\ \A q \in Paths : [p \in Paths |-> Count(f[p])][q] = 0
    BY <1>1
  <2> QED BY <2>1, SumOfNone
<1>2. ASSUME NEW p \in Paths
      PROVE  /\ Sum([q \in Paths |-> SizeOf(f[q])]) \in Int
             /\ Sum([q \in Paths |-> Count(f[q])]) \in Int
  BY FilesChange
<1> QED BY <1>1, <1>2

LEMMA PartsKept ==
  ASSUME NEW v, up'[v] = up[v], temp'[v] = temp[v],
         Active(v) => Current(v)' = Current(v)
  PROVE  /\ Plus(v)' = Plus(v) /\ Minus(v)' = Minus(v)
         /\ PlusFiles(v)' = PlusFiles(v) /\ MinusFiles(v)' = MinusFiles(v)
<1>1. up[v].pc \in {"open", "settled"} =>
        /\ SizeOf(Current(v))' = SizeOf(Current(v)) /\ Count(Current(v))' = Count(Current(v))
        /\ SizeOf(temp[v])' = SizeOf(temp[v]) /\ Count(temp[v])' = Count(temp[v])
  BY DEF Active, SizeOf, Count
<1>2. Before(v)' = Before(v)
  BY DEF Before
<1> QED BY <1>1, <1>2 DEF Plus, Minus, PlusFiles, MinusFiles

LEMMA BalancedKept ==
  ASSUME UInv, UInv', HistoryTyped, HistoryTyped', Balanced, uploadMode' = uploadMode,
         NEW u \in Uploads, Others(u), Allowed(u),
         usedSize' - usedSize = FileSize' - FileSize + Owed(u)' - Owed(u)
                                + uncharged.size - uncharged'.size,
         usedFiles' - usedFiles = FileCount' - FileCount + OwedFiles(u)' - OwedFiles(u)
                                  + uncharged.files - uncharged'.files
  PROVE  Balanced'
<1> DEFINE T1 == [v \in Uploads |-> SizeOf(temp[v])]
           T2 == [v \in Uploads |-> SizeOf(temp'[v])]
           P1 == [v \in Uploads |-> Plus(v)]
           P2 == [v \in Uploads |-> Plus(v)']
           M1 == [v \in Uploads |-> Minus(v)]
           M2 == [v \in Uploads |-> Minus(v)']
           t1 == [v \in Uploads |-> Count(temp[v])]
           t2 == [v \in Uploads |-> Count(temp'[v])]
           p1 == [v \in Uploads |-> PlusFiles(v)]
           p2 == [v \in Uploads |-> PlusFiles(v)']
           m1 == [v \in Uploads |-> MinusFiles(v)]
           m2 == [v \in Uploads |-> MinusFiles(v)']
<1>1. /\ T1 \in [Uploads -> Nat] /\ P1 \in [Uploads -> Nat] /\ M1 \in [Uploads -> Nat]
      /\ t1 \in [Uploads -> Nat] /\ p1 \in [Uploads -> Nat] /\ m1 \in [Uploads -> Nat]
  BY SumParts
<1>2. /\ T2 \in [Uploads -> Nat] /\ P2 \in [Uploads -> Nat] /\ M2 \in [Uploads -> Nat]
      /\ t2 \in [Uploads -> Nat] /\ p2 \in [Uploads -> Nat] /\ m2 \in [Uploads -> Nat]
  BY SumPartsNext
<1>3. ASSUME NEW v \in Uploads \ {u}
      PROVE  /\ T2[v] = T1[v] /\ P2[v] = P1[v] /\ M2[v] = M1[v]
             /\ t2[v] = t1[v] /\ p2[v] = p1[v] /\ m2[v] = m1[v]
  <2>1. up'[v] = up[v] /\ temp'[v] = temp[v]
    BY DEF Others
  <2>2. Active(v) => Current(v)' = Current(v)
    BY OtherUploadsKept DEF UInv
  <2>3. /\ Plus(v)' = Plus(v) /\ Minus(v)' = Minus(v)
        /\ PlusFiles(v)' = PlusFiles(v) /\ MinusFiles(v)' = MinusFiles(v)
    BY <2>1, <2>2, PartsKept
  <2> QED BY <2>1, <2>3
<1>4. /\ T1[u] + M1[u] - P1[u] = Owed(u) /\ t1[u] + m1[u] - p1[u] = OwedFiles(u)
  BY SumParts
<1>5. /\ T2[u] + M2[u] - P2[u] = Owed(u)' /\ t2[u] + m2[u] - p2[u] = OwedFiles(u)'
  BY SumPartsNext
<1>6. /\ FileSize \in Int /\ FileSize' \in Int /\ FileCount \in Int /\ FileCount' \in Int
      /\ usedSize \in Int /\ usedSize' \in Int /\ usedFiles \in Int /\ usedFiles' \in Int
  <2>1. Typed /\ Typed'
    BY DEF UInv, Base
  <2> QED BY <2>1, FilesTyped DEF Typed, FileSize, FileCount
<1> DEFINE s1 == uncharged.size
           s2 == uncharged'.size
           n1 == uncharged.files
           n2 == uncharged'.files
<1>10. s1 \in Int /\ s2 \in Int /\ n1 \in Int /\ n2 \in Int
  BY DEF HistoryTyped
<1>7. /\ usedSize + Sum(P1) + s1 = FileSize + Sum(T1) + Sum(M1)
      /\ usedFiles + Sum(p1) + n1 = FileCount + Sum(t1) + Sum(m1)
  BY DEF Balanced
<1>11. /\ usedSize' - usedSize = FileSize' - FileSize + Owed(u)' - Owed(u) + s1 - s2
       /\ usedFiles' - usedFiles = FileCount' - FileCount + OwedFiles(u)' - OwedFiles(u) + n1 - n2
  OBVIOUS
<1> HIDE DEF T1, T2, P1, P2, M1, M2, t1, t2, p1, p2, m1, m2, s1, s2, n1, n2
<1>8. usedSize' + Sum(P2) + s2 = FileSize' + Sum(T2) + Sum(M2)
  <2>1. Sum(T1) \in Nat /\ Sum(T2) \in Nat /\ Sum(T2) = Sum(T1) - T1[u] + T2[u]
    <3>1. \A v \in Uploads \ {u} : T2[v] = T1[v]
      BY <1>3
    <3> QED BY <1>1, <1>2, <3>1, ChangeOfUpload
  <2>2. Sum(M1) \in Nat /\ Sum(M2) \in Nat /\ Sum(M2) = Sum(M1) - M1[u] + M2[u]
    <3>1. \A v \in Uploads \ {u} : M2[v] = M1[v]
      BY <1>3
    <3> QED BY <1>1, <1>2, <3>1, ChangeOfUpload
  <2>3. Sum(P1) \in Nat /\ Sum(P2) \in Nat /\ Sum(P2) = Sum(P1) - P1[u] + P2[u]
    <3>1. \A v \in Uploads \ {u} : P2[v] = P1[v]
      BY <1>3
    <3> QED BY <1>1, <1>2, <3>1, ChangeOfUpload
  <2>4. /\ T1[u] \in Nat /\ T2[u] \in Nat /\ M1[u] \in Nat /\ M2[u] \in Nat
        /\ P1[u] \in Nat /\ P2[u] \in Nat
    BY <1>1, <1>2
  <2>5. usedSize + Sum(P1) + s1 = FileSize + Sum(T1) + Sum(M1)
    BY <1>7
  <2>6. usedSize' - usedSize =
          FileSize' - FileSize + (T2[u] + M2[u] - P2[u]) - (T1[u] + M1[u] - P1[u]) + s1 - s2
    BY <1>4, <1>5, <1>11
  <2>7. /\ usedSize \in Int /\ usedSize' \in Int /\ FileSize \in Int /\ FileSize' \in Int
    BY <1>6
  <2>13. /\ Sum(T1) \in Int /\ Sum(M1) \in Int /\ Sum(P1) \in Int
         /\ Sum(T2) \in Int /\ Sum(M2) \in Int /\ Sum(P2) \in Int
    BY <2>1, <2>2, <2>3
  <2>8. usedSize = FileSize + Sum(T1) + Sum(M1) - Sum(P1) - s1
    BY <1>10, <2>5, <2>7, <2>13
  <2> DEFINE D == T2[u] + M2[u] - P2[u]
             C == T1[u] + M1[u] - P1[u]
  <2>9. /\ D \in Int /\ C \in Int
        /\ Sum(T2) + Sum(M2) - Sum(P2) = Sum(T1) + Sum(M1) - Sum(P1) + D - C
    BY <2>1, <2>2, <2>3, <2>4
  <2>10. usedSize' - usedSize = FileSize' - FileSize + D - C + s1 - s2
    BY <2>6
  <2> DEFINE B == Sum(T1) + Sum(M1) - Sum(P1)
             A == Sum(T2) + Sum(M2) - Sum(P2)
  <2>11. /\ usedSize = FileSize + B - s1 /\ A = B + D - C
         /\ B \in Int /\ A \in Int
    <3> HIDE DEF C, D
    <3> QED BY <1>10, <2>1, <2>2, <2>3, <2>7, <2>8, <2>9
  <2>12. usedSize' + s2 = FileSize' + A
    <3> HIDE DEF A, B, C, D
    <3> QED BY <1>10, <2>7, <2>9, <2>10, <2>11
  <2> QED BY <1>10, <2>7, <2>12, <2>13
<1>9. usedFiles' + Sum(p2) + n2 = FileCount' + Sum(t2) + Sum(m2)
  <2>1. Sum(t1) \in Nat /\ Sum(t2) \in Nat /\ Sum(t2) = Sum(t1) - t1[u] + t2[u]
    <3>1. \A v \in Uploads \ {u} : t2[v] = t1[v]
      BY <1>3
    <3> QED BY <1>1, <1>2, <3>1, ChangeOfUpload
  <2>2. Sum(m1) \in Nat /\ Sum(m2) \in Nat /\ Sum(m2) = Sum(m1) - m1[u] + m2[u]
    <3>1. \A v \in Uploads \ {u} : m2[v] = m1[v]
      BY <1>3
    <3> QED BY <1>1, <1>2, <3>1, ChangeOfUpload
  <2>3. Sum(p1) \in Nat /\ Sum(p2) \in Nat /\ Sum(p2) = Sum(p1) - p1[u] + p2[u]
    <3>1. \A v \in Uploads \ {u} : p2[v] = p1[v]
      BY <1>3
    <3> QED BY <1>1, <1>2, <3>1, ChangeOfUpload
  <2>4. /\ t1[u] \in Nat /\ t2[u] \in Nat /\ m1[u] \in Nat /\ m2[u] \in Nat
        /\ p1[u] \in Nat /\ p2[u] \in Nat
    BY <1>1, <1>2
  <2>5. usedFiles + Sum(p1) + n1 = FileCount + Sum(t1) + Sum(m1)
    BY <1>7
  <2>6. usedFiles' - usedFiles =
          FileCount' - FileCount + (t2[u] + m2[u] - p2[u]) - (t1[u] + m1[u] - p1[u]) + n1 - n2
    BY <1>4, <1>5, <1>11
  <2>7. /\ usedFiles \in Int /\ usedFiles' \in Int /\ FileCount \in Int /\ FileCount' \in Int
    BY <1>6
  <2>13. /\ Sum(t1) \in Int /\ Sum(m1) \in Int /\ Sum(p1) \in Int
         /\ Sum(t2) \in Int /\ Sum(m2) \in Int /\ Sum(p2) \in Int
    BY <2>1, <2>2, <2>3
  <2>8. usedFiles = FileCount + Sum(t1) + Sum(m1) - Sum(p1) - n1
    BY <1>10, <2>5, <2>7, <2>13
  <2> DEFINE D == t2[u] + m2[u] - p2[u]
             C == t1[u] + m1[u] - p1[u]
  <2>9. /\ D \in Int /\ C \in Int
        /\ Sum(t2) + Sum(m2) - Sum(p2) = Sum(t1) + Sum(m1) - Sum(p1) + D - C
    BY <2>1, <2>2, <2>3, <2>4
  <2>10. usedFiles' - usedFiles = FileCount' - FileCount + D - C + n1 - n2
    BY <2>6
  <2> DEFINE B == Sum(t1) + Sum(m1) - Sum(p1)
             A == Sum(t2) + Sum(m2) - Sum(p2)
  <2>11. /\ usedFiles = FileCount + B - n1 /\ A = B + D - C
         /\ B \in Int /\ A \in Int
    <3> HIDE DEF C, D
    <3> QED BY <1>10, <2>1, <2>2, <2>3, <2>7, <2>8, <2>9
  <2>12. usedFiles' + n2 = FileCount' + A
    <3> HIDE DEF A, B, C, D
    <3> QED BY <1>10, <2>7, <2>9, <2>10, <2>11
  <2> QED BY <1>10, <2>7, <2>12, <2>13
<1> QED BY <1>8, <1>9 DEF Balanced, T2, P2, M2, t2, p2, m2, s2, n2

LEMMA BalancedKeptByOthers ==
  ASSUME UInv, UInv', HistoryTyped, Balanced, up' = up, temp' = temp,
         uncharged' = uncharged,
         \A p \in Paths : file'[p] # file[p] => Free(p),
         usedSize' - usedSize = FileSize' - FileSize,
         usedFiles' - usedFiles = FileCount' - FileCount
  PROVE  Balanced'
<1>1. ASSUME NEW v \in Uploads
      PROVE  /\ Plus(v)' = Plus(v) /\ Minus(v)' = Minus(v)
             /\ PlusFiles(v)' = PlusFiles(v) /\ MinusFiles(v)' = MinusFiles(v)
  <2>1. Active(v) => Current(v)' = Current(v)
    BY OthersKept DEF UInv
  <2> QED BY <2>1, PartsKept
<1> DEFINE P1 == Sum([v \in Uploads |-> Plus(v)])
           P2 == Sum([v \in Uploads |-> Plus(v)'])
           M1 == Sum([v \in Uploads |-> Minus(v)])
           M2 == Sum([v \in Uploads |-> Minus(v)'])
           p1 == Sum([v \in Uploads |-> PlusFiles(v)])
           p2 == Sum([v \in Uploads |-> PlusFiles(v)'])
           m1 == Sum([v \in Uploads |-> MinusFiles(v)])
           m2 == Sum([v \in Uploads |-> MinusFiles(v)'])
           T1 == Sum([v \in Uploads |-> SizeOf(temp[v])])
           t1 == Sum([v \in Uploads |-> Count(temp[v])])
<1>2. P2 = P1 /\ M2 = M1 /\ p2 = p1 /\ m2 = m1
  <2>1. [v \in Uploads |-> Plus(v)'] = [v \in Uploads |-> Plus(v)]
    BY <1>1
  <2>2. [v \in Uploads |-> Minus(v)'] = [v \in Uploads |-> Minus(v)]
    BY <1>1
  <2>3. [v \in Uploads |-> PlusFiles(v)'] = [v \in Uploads |-> PlusFiles(v)]
    BY <1>1
  <2>4. [v \in Uploads |-> MinusFiles(v)'] = [v \in Uploads |-> MinusFiles(v)]
    BY <1>1
  <2> QED BY <2>1, <2>2, <2>3, <2>4
<1> DEFINE s == uncharged.size
           n == uncharged.files
<1>3. /\ usedSize + P1 + s = FileSize + T1 + M1 /\ usedFiles + p1 + n = FileCount + t1 + m1
      /\ s' = s /\ n' = n
  BY DEF Balanced
<1>8. s \in Int /\ n \in Int
  BY DEF HistoryTyped
<1>4. /\ FileSize \in Int /\ FileSize' \in Int /\ FileCount \in Int /\ FileCount' \in Int
      /\ usedSize \in Int /\ usedSize' \in Int /\ usedFiles \in Int /\ usedFiles' \in Int
  <2>1. Typed /\ Typed'
    BY DEF UInv, Base
  <2> QED BY <2>1, FilesTyped DEF Typed, FileSize, FileCount
<1>5. /\ P1 \in Int /\ M1 \in Int /\ p1 \in Int /\ m1 \in Int /\ T1 \in Int /\ t1 \in Int
  <2>1. /\ [v \in Uploads |-> Plus(v)] \in [Uploads -> Nat]
        /\ [v \in Uploads |-> Minus(v)] \in [Uploads -> Nat]
        /\ [v \in Uploads |-> PlusFiles(v)] \in [Uploads -> Nat]
        /\ [v \in Uploads |-> MinusFiles(v)] \in [Uploads -> Nat]
        /\ [v \in Uploads |-> SizeOf(temp[v])] \in [Uploads -> Nat]
        /\ [v \in Uploads |-> Count(temp[v])] \in [Uploads -> Nat]
    BY SumParts
  <2>2. ASSUME NEW f \in [Uploads -> Nat] PROVE Sum(f) \in Int
    <3>1. CASE Uploads = {}
      <4>1. \A v \in Uploads : f[v] = 0
        BY <3>1
      <4> QED BY <4>1, SumOfNone
    <3>2. ASSUME NEW v \in Uploads PROVE Sum(f) \in Int
      BY ChangeOfUpload
    <3> QED BY <3>1, <3>2
  <2> QED BY <2>1, <2>2
<1>6. /\ (Sum([v \in Uploads |-> SizeOf(temp[v])]))' = T1
      /\ (Sum([v \in Uploads |-> Count(temp[v])]))' = t1
  OBVIOUS
<1> HIDE DEF P1, P2, M1, M2, p1, p2, m1, m2, T1, t1, s, n
<1>7. usedSize' + P2 + s' = FileSize' + T1 + M2 /\ usedFiles' + p2 + n' = FileCount' + t1 + m2
  BY <1>2, <1>3, <1>4, <1>5, <1>8
<1> QED BY <1>6, <1>7 DEF Balanced, P2, M2, p2, m2, s, n

Charged(u) ==
  /\ usedSize' - usedSize = FileSize' - FileSize + Owed(u)' - Owed(u)
  /\ usedFiles' - usedFiles = FileCount' - FileCount + OwedFiles(u)' - OwedFiles(u)

LEMMA ChargedAtPath ==
  ASSUME Typed, Typed', NEW u, NEW p \in Paths, Elsewhere(p),
         usedSize' - usedSize = SizeOf(file'[p]) - SizeOf(file[p]) + Owed(u)' - Owed(u),
         usedFiles' - usedFiles = Count(file'[p]) - Count(file[p]) + OwedFiles(u)' - OwedFiles(u)
  PROVE  Charged(u)
<1>1. /\ FileSize' = FileSize - SizeOf(file[p]) + SizeOf(file'[p])
      /\ FileCount' = FileCount - Count(file[p]) + Count(file'[p])
  BY FilesAtPath
<1>2. /\ FileSize \in Int /\ FileCount \in Int
      /\ SizeOf(file[p]) \in Int /\ SizeOf(file'[p]) \in Int
      /\ Count(file[p]) \in Int /\ Count(file'[p]) \in Int
  <2>1. file \in [Paths -> Contents] /\ file' \in [Paths -> Contents]
    BY DEF Typed
  <2>2. FileSize \in Int /\ FileCount \in Int
    BY <2>1, FilesTyped DEF FileSize, FileCount
  <2>3. file[p] \in Contents /\ file'[p] \in Contents
    BY <2>1
  <2> QED BY <2>2, <2>3, ContentTyped, CountBounds
<1>3. /\ FileSize' - FileSize = SizeOf(file'[p]) - SizeOf(file[p])
      /\ FileCount' - FileCount = Count(file'[p]) - Count(file[p])
  BY <1>1, <1>2
<1> QED BY <1>3 DEF Charged

LEMMA SameFiles ==
  ASSUME Typed, file' = file
  PROVE  /\ FileSize' = FileSize /\ FileCount' = FileCount
         /\ FileSize' - FileSize = 0 /\ FileCount' - FileCount = 0
<1>1. FileSize \in Int /\ FileCount \in Int
  BY FilesTyped DEF Typed, FileSize, FileCount
<1>2. FileSize' = FileSize /\ FileCount' = FileCount
  BY DEF FileSize, FileCount
<1> QED BY <1>1, <1>2

(* Nothing is charged and nothing changes. *)
LEMMA ChargedNothing ==
  ASSUME Typed, NEW u, file' = file, usedSize' = usedSize, usedFiles' = usedFiles,
         Owed(u) \in Int, OwedFiles(u) \in Int,
         Owed(u)' = Owed(u), OwedFiles(u)' = OwedFiles(u)
  PROVE  Charged(u)
<1>1. FileSize' - FileSize = 0 /\ FileCount' - FileCount = 0
  BY SameFiles
<1>2. usedSize \in Int /\ usedFiles \in Int
  BY DEF Typed
<1> QED BY <1>1, <1>2 DEF Charged

LEMMA UploadInts ==
  ASSUME UInv, NEW u \in Uploads
  PROVE  /\ Typed /\ Base /\ AtPath(u)
         /\ SizeOf(temp[u]) \in Int /\ Count(temp[u]) \in Int
         /\ up[u].InitialSize \in Int /\ up[u].fileSize \in Int /\ up[u].numFiles \in Int
         /\ Before(u) \in Int /\ usedSize \in Int /\ usedFiles \in Int
         /\ up[u].pc # "idle" => /\ up[u].path \in Paths /\ SizeOf(Current(u)) \in Int
                                 /\ Count(Current(u)) \in Int
         /\ Owed(u) \in Int /\ OwedFiles(u) \in Int
<1>1. /\ Typed /\ Base /\ AtPath(u) /\ up[u] \in AnyTransfer /\ temp[u] \in Contents
      /\ up[u].pc # "idle" => up[u].path \in Paths /\ Current(u) \in Contents
  BY AboutUpload DEF UInv
<1>2. /\ SizeOf(temp[u]) \in Int /\ Count(temp[u]) \in Int
      /\ up[u].pc # "idle" => SizeOf(Current(u)) \in Int /\ Count(Current(u)) \in Int
  BY <1>1, ContentTyped, CountBounds
<1>3. /\ up[u].InitialSize \in Int /\ up[u].fileSize \in Int /\ up[u].numFiles \in Int
      /\ Before(u) \in Int /\ usedSize \in Int /\ usedFiles \in Int
  BY <1>1, CountBounds DEF AnyTransfer, Typed
<1> QED BY <1>1, <1>2, <1>3 DEF Owed, OwedFiles

(* What an upload has found is there, at its path or moved away.            *)
LEMMA FoundSum ==
  ASSUME UInv, NEW u \in Uploads, up[u].pc \in {"checking", "admitted"}
  PROVE  /\ SizeOf(Current(u)) + SizeOf(temp[u]) = up[u].fileSize
         /\ Count(Current(u)) + Count(temp[u]) = Before(u)
<1>1. FoundAt(u) /\ up[u].fileSize \in Int
  BY UploadInts DEF AtPath
<1> QED BY <1>1 DEF FoundAt, SizeOf, Count, Before

LEMMA LstatCharged ==
  ASSUME UInv, NEW u \in Uploads, NEW p \in Paths, NEW protocol \in Protocols,
         NEW flag \in Flags(protocol), Lstat(u, p, protocol, flag)
  PROVE  Charged(u)
<1>1. /\ Typed /\ Typed' /\ Elsewhere(p) /\ up[u].pc = "idle" /\ temp[u] = NoFile
      /\ up'[u].pc = "checking"
      /\ \/ temp'[u] = file[p] /\ file'[p] = NoFile
         \/ temp' = temp /\ file' = file
      /\ UNCHANGED <<usedFiles, usedSize>>
  BY LstatDoes DEF UInv, Base
<1>2. /\ Owed(u) = 0 /\ OwedFiles(u) = 0
      /\ Owed(u)' = SizeOf(temp'[u]) /\ OwedFiles(u)' = Count(temp'[u])
  BY <1>1, ContentTyped DEF Owed, OwedFiles, Count, SizeOf
<1>3. /\ SizeOf(file[p]) \in Int /\ Count(file[p]) \in Int
      /\ usedSize \in Int /\ usedFiles \in Int
  BY <1>1, ContentTyped, CountBounds DEF Typed
<1>4. SizeOf(NoFile) = 0 /\ Count(NoFile) = 0
  BY DEF SizeOf, Count
<1>5. /\ usedSize' - usedSize = SizeOf(file'[p]) - SizeOf(file[p]) + Owed(u)' - Owed(u)
      /\ usedFiles' - usedFiles = Count(file'[p]) - Count(file[p]) + OwedFiles(u)' - OwedFiles(u)
  BY <1>1, <1>2, <1>3, <1>4
<1> QED BY <1>1, <1>5, ChargedAtPath

LEMMA CreateCharged ==
  ASSUME UInv, NEW u \in Uploads, Create(u)
  PROVE  Charged(u)
<1>0. Base
  BY DEF UInv
<1>1. /\ Typed' /\ Goes(u) /\ up[u].pc = "admitted" /\ up'[u].pc = "open"
      /\ up'[u].InitialSize = IF TruncatesNow(u) THEN 0 ELSE up[u].fileSize
      /\ usedFiles' = usedFiles
      /\ usedSize' = usedSize - (IF TruncatesNow(u) THEN up[u].fileSize ELSE 0)
      /\ uploadMode' = uploadMode
  BY <1>0, CreateDoes DEF Create
<1>2. /\ Elsewhere(up[u].path)
  BY <1>0, CreatedWritten
<1>3. /\ Owed(u) = SizeOf(temp[u]) /\ OwedFiles(u) = Count(temp[u])
  BY <1>1 DEF Owed, OwedFiles
<1>4. /\ Owed(u)' = up'[u].InitialSize - SizeOf(file'[up[u].path])
      /\ OwedFiles(u)' = Before(u) - Count(file'[up[u].path])
  BY <1>1, Same DEF Owed, OwedFiles
<1>5. /\ SizeOf(file[up[u].path]) + SizeOf(temp[u]) = up[u].fileSize
      /\ Count(file[up[u].path]) + Count(temp[u]) = Before(u)
  BY <1>1, FoundSum DEF Current
<1>6. /\ Typed /\ up[u].path \in Paths /\ up[u].fileSize \in Int
      /\ SizeOf(temp[u]) \in Int /\ Count(temp[u]) \in Int
      /\ usedSize \in Int /\ usedFiles \in Int /\ Before(u) \in Int
      /\ SizeOf(file[up[u].path]) \in Int /\ Count(file[up[u].path]) \in Int
  BY <1>1, UploadInts DEF Current
<1>7. SizeOf(file'[up[u].path]) \in Int /\ Count(file'[up[u].path]) \in Int
  BY <1>1, <1>6, ContentTyped, CountBounds DEF Typed
<1>8. /\ usedSize' - usedSize =
           SizeOf(file'[up[u].path]) - SizeOf(file[up[u].path]) + Owed(u)' - Owed(u)
      /\ usedFiles' - usedFiles =
           Count(file'[up[u].path]) - Count(file[up[u].path]) + OwedFiles(u)' - OwedFiles(u)
  BY <1>1, <1>3, <1>4, <1>5, <1>6, <1>7
<1> QED BY <1>1, <1>2, <1>6, <1>8, ChargedAtPath

(* Whatever is written: only the initial size is owed. *)
LEMMA OpenCharged ==
  ASSUME UInv, NEW u \in Uploads, Typed', Goes(u), Elsewhere(up[u].path),
         up[u].pc = "open", up'[u].pc = "open" \/ (up'[u].pc = "settled" /\ temp'[u] = NoFile),
         usedFiles' = usedFiles,
         usedSize' - usedSize = up'[u].InitialSize - up[u].InitialSize
  PROVE  Charged(u)
<1>1. /\ Owed(u) = up[u].InitialSize - SizeOf(file[up[u].path])
      /\ OwedFiles(u) = Before(u) - Count(file[up[u].path])
  BY DEF Owed, OwedFiles, Current
<1>2. /\ Owed(u)' = up'[u].InitialSize - SizeOf(file'[up[u].path])
      /\ OwedFiles(u)' = Before(u) - Count(file'[up[u].path])
  <2>1. SizeOf(NoFile) = 0 /\ Count(NoFile) = 0
    BY DEF SizeOf, Count
  <2>2. up'[u].InitialSize \in Int /\ Before(u) \in Int
    BY CountBounds DEF Typed, AnyTransfer
  <2>3. Current(u)' = file'[up[u].path] /\ Before(u)' = Before(u)
    BY DEF Current, Before, Goes
  <2>4. file'[up[u].path] \in Contents
    BY UploadInts DEF Typed
  <2>5. SizeOf(file'[up[u].path]) \in Int /\ Count(file'[up[u].path]) \in Int
    BY <2>4, ContentTyped, CountBounds
  <2>6. CASE up'[u].pc = "open"
    BY <2>3, <2>6 DEF Owed, OwedFiles
  <2>7. CASE up'[u].pc = "settled" /\ temp'[u] = NoFile
    <3>1. /\ Owed(u)' = 0 + up'[u].InitialSize - SizeOf(file'[up[u].path])
          /\ OwedFiles(u)' = 0 + Before(u) - Count(file'[up[u].path])
      BY <2>1, <2>3, <2>7 DEF Owed, OwedFiles
    <3> QED BY <2>2, <2>5, <3>1
  <2> QED BY <2>6, <2>7
<1>3. /\ Typed /\ up[u].path \in Paths
      /\ up[u].InitialSize \in Int /\ up'[u].InitialSize \in Int
      /\ usedSize \in Int /\ usedSize' \in Int /\ usedFiles \in Int /\ Before(u) \in Int
      /\ SizeOf(file[up[u].path]) \in Int /\ Count(file[up[u].path]) \in Int
  BY UploadInts DEF Current, Typed, AnyTransfer
<1>4. SizeOf(file'[up[u].path]) \in Int /\ Count(file'[up[u].path]) \in Int
  <2>1. file'[up[u].path] \in Contents
    BY <1>3 DEF Typed
  <2> QED BY <2>1, ContentTyped, CountBounds
<1>5. /\ usedSize' - usedSize =
           SizeOf(file'[up[u].path]) - SizeOf(file[up[u].path]) + Owed(u)' - Owed(u)
      /\ usedFiles' - usedFiles =
           Count(file'[up[u].path]) - Count(file[up[u].path]) + OwedFiles(u)' - OwedFiles(u)
  BY <1>1, <1>2, <1>3, <1>4
<1> QED BY <1>3, <1>5, ChargedAtPath

(* What the end leaves behind is neither owed nor charged. *)
LEMMA EndCharged ==
  ASSUME UInv, HistoryTyped, NEW u \in Uploads, Close(u) \/ Abort(u)
  PROVE  \/ Charged(u) /\ uncharged' = uncharged
         \/ /\ usedSize' - usedSize = FileSize' - FileSize + Owed(u)' - Owed(u)
                                       + uncharged.size - uncharged'.size
            /\ usedFiles' - usedFiles = FileCount' - FileCount + OwedFiles(u)' - OwedFiles(u)
                                         + uncharged.files - uncharged'.files
<1>0. Base /\ Typed
  BY DEF UInv, Base
<1>1. /\ Typed' /\ Goes(u) /\ up[u].pc = "open" /\ up'[u].pc = "settled"
      /\ up'[u].InitialSize = up[u].InitialSize /\ Elsewhere(up[u].path)
      /\ uploadMode' = uploadMode /\ usedFiles' = usedFiles /\ usedSize' = usedSize
      /\ (temp'[u] = NoFile /\ uncharged' = uncharged) \/ LeftBehind(u)
  BY <1>0, EndDoes DEF Settles
<1>2. CASE temp'[u] = NoFile /\ uncharged' = uncharged
  <2>1. usedSize' - usedSize = up'[u].InitialSize - up[u].InitialSize
    BY <1>1, UploadInts
  <2> QED BY <1>1, <1>2, <2>1, OpenCharged
<1>3. CASE LeftBehind(u)
  <2>1. /\ temp[u] # NoFile /\ temp'[u] = temp[u] /\ Current(u)' = Current(u)
        /\ uncharged'.files = uncharged.files + 1
        /\ uncharged'.size = uncharged.size + SizeOf(temp[u])
    <3>1. Written(u) # NoFile /\ ~Direct(up[u].path)
      BY <1>0, <1>1, <1>3, KindsOfPath DEF Base, LeftBehind
    <3> QED BY <1>1, <1>3, <3>1, Same DEF LeftBehind, Written
  <2>2. file' = file
    <3>1. file'[up[u].path] = file[up[u].path]
      BY <1>3 DEF LeftBehind, Current
    <3>2. \A q \in Paths : file'[q] = file[q]
      BY <1>1, <3>1 DEF Elsewhere
    <3> QED BY <1>0, <1>1, <3>2 DEF Typed
  <2>3. FileSize' - FileSize = 0 /\ FileCount' - FileCount = 0
    BY <1>0, <2>2, SameFiles
  <2>4. /\ Owed(u) = up[u].InitialSize - SizeOf(Current(u))
        /\ OwedFiles(u) = Before(u) - Count(Current(u))
    BY <1>1 DEF Owed, OwedFiles
  <2>5. /\ Owed(u)' = SizeOf(temp[u]) + up[u].InitialSize - SizeOf(Current(u))
        /\ OwedFiles(u)' = 1 + Before(u) - Count(Current(u))
    <3>1. Before(u)' = Before(u) /\ Count(temp'[u]) = 1
      BY <1>1, <2>1, Same DEF Count
    <3> QED BY <1>1, <2>1, <3>1 DEF Owed, OwedFiles
  <2>6. /\ SizeOf(temp[u]) \in Int /\ up[u].InitialSize \in Int /\ SizeOf(Current(u)) \in Int
        /\ Before(u) \in Int /\ Count(Current(u)) \in Int
        /\ usedSize \in Int /\ usedFiles \in Int
    BY <1>1, UploadInts
  <2>7. uncharged.files \in Int /\ uncharged.size \in Int
    BY DEF HistoryTyped
  <2> QED BY <1>1, <2>1, <2>3, <2>4, <2>5, <2>6, <2>7
<1> QED BY <1>1, <1>2, <1>3

LEMMA StatUploadCharged ==
  ASSUME UInv, NEW u \in Uploads, StatUpload(u)
  PROVE  Charged(u)
<1>1. /\ Typed' /\ Goes(u) /\ Elsewhere(up[u].path)
      /\ up[u].pc = "settled" /\ up'[u].pc = "hook"
      /\ up'[u].InitialSize = up[u].InitialSize
      /\ up'[u].fileSize = SizeOf(file'[up[u].path])
      /\ up'[u].numFiles = Count(file'[up[u].path]) - Before(u)
      /\ UNCHANGED <<temp, usedFiles, usedSize>>
  BY StatUploadDoes DEF UInv
<1>2. /\ Owed(u) = SizeOf(temp[u]) + up[u].InitialSize - SizeOf(file[up[u].path])
      /\ OwedFiles(u) = Count(temp[u]) + Before(u) - Count(file[up[u].path])
  BY <1>1 DEF Owed, OwedFiles, Current
<1>3. /\ Owed(u)' = SizeOf(temp[u]) + up[u].InitialSize - SizeOf(file'[up[u].path])
      /\ OwedFiles(u)' = Count(temp[u]) - (Count(file'[up[u].path]) - Before(u))
  BY <1>1 DEF Owed, OwedFiles
<1>4. /\ Typed /\ up[u].path \in Paths /\ up[u].InitialSize \in Int
      /\ usedSize \in Int /\ usedFiles \in Int /\ Before(u) \in Int
      /\ SizeOf(temp[u]) \in Int /\ Count(temp[u]) \in Int
      /\ SizeOf(file[up[u].path]) \in Int /\ Count(file[up[u].path]) \in Int
  BY <1>1, UploadInts DEF Current
<1>5. SizeOf(file'[up[u].path]) \in Int /\ Count(file'[up[u].path]) \in Int
  BY <1>1, <1>4, ContentTyped, CountBounds DEF Typed
<1>6. /\ usedSize' - usedSize =
           SizeOf(file'[up[u].path]) - SizeOf(file[up[u].path]) + Owed(u)' - Owed(u)
      /\ usedFiles' - usedFiles =
           Count(file'[up[u].path]) - Count(file[up[u].path]) + OwedFiles(u)' - OwedFiles(u)
  BY <1>1, <1>2, <1>3, <1>4, <1>5
<1> QED BY <1>1, <1>4, <1>6, ChargedAtPath

LEMMA HookFailsCharged ==
  ASSUME UInv, NEW u \in Uploads, HookFails(u)
  PROVE  Charged(u)
<1>1. /\ Typed' /\ Goes(u) /\ Elsewhere(up[u].path)
      /\ up[u].pc = "hook" /\ up'[u].pc = "ended"
      /\ up'[u].InitialSize = up[u].InitialSize
      /\ \/ /\ file' = file
            /\ up'[u].fileSize = up[u].fileSize /\ up'[u].numFiles = up[u].numFiles
         \/ /\ Current(u) # NoFile /\ file'[up[u].path] = NoFile
            /\ up'[u].fileSize = 0 /\ up'[u].numFiles = up[u].numFiles - 1
      /\ UNCHANGED <<temp, usedFiles, usedSize>>
  BY HookFailsDoes DEF UInv
<1>2. /\ Typed /\ up[u].path \in Paths /\ up[u].InitialSize \in Int /\ up[u].fileSize \in Int
      /\ up[u].numFiles \in Int /\ usedSize \in Int /\ usedFiles \in Int
      /\ SizeOf(Current(u)) \in Int /\ Count(Current(u)) \in Int
      /\ SizeOf(temp[u]) \in Int /\ Count(temp[u]) \in Int
      /\ Owed(u) \in Int /\ OwedFiles(u) \in Int
      /\ up[u].fileSize = SizeOf(Current(u))
  BY <1>1, UploadInts DEF AtPath
<1>3. /\ Owed(u) = SizeOf(temp[u]) + up[u].InitialSize - up[u].fileSize
      /\ OwedFiles(u) = Count(temp[u]) - up[u].numFiles
      /\ Owed(u)' = SizeOf(temp[u]) + up[u].InitialSize - up'[u].fileSize
      /\ OwedFiles(u)' = Count(temp[u]) - up'[u].numFiles
  BY <1>1 DEF Owed, OwedFiles
<1>4. CASE /\ file' = file
           /\ up'[u].fileSize = up[u].fileSize /\ up'[u].numFiles = up[u].numFiles
  <2>1. Owed(u)' = Owed(u) /\ OwedFiles(u)' = OwedFiles(u)
    BY <1>3, <1>4
  <2> QED BY <1>1, <1>2, <1>4, <2>1, ChargedNothing
<1>5. CASE /\ Current(u) # NoFile /\ file'[up[u].path] = NoFile
           /\ up'[u].fileSize = 0 /\ up'[u].numFiles = up[u].numFiles - 1
  <2>1. /\ SizeOf(file'[up[u].path]) = 0 /\ Count(file'[up[u].path]) = 0
        /\ file[up[u].path] = Current(u) /\ Count(Current(u)) = 1
    BY <1>5 DEF SizeOf, Count, Current
  <2>2. /\ usedSize' - usedSize =
             SizeOf(file'[up[u].path]) - SizeOf(file[up[u].path]) + Owed(u)' - Owed(u)
        /\ usedFiles' - usedFiles =
             Count(file'[up[u].path]) - Count(file[up[u].path]) + OwedFiles(u)' - OwedFiles(u)
    BY <1>1, <1>2, <1>3, <1>5, <2>1
  <2> QED BY <1>1, <1>2, <2>2, ChargedAtPath
<1> QED BY <1>1, <1>4, <1>5

LEMMA UpdateQuotaCharged ==
  ASSUME HooksHold, UInv, NEW u \in Uploads, UpdateQuota(u)
  PROVE  Charged(u)
<1>1. /\ Typed' /\ up[u].pc = "ended" /\ up'[u].pc = "idle"
      /\ IF Kind(u) = "cloud" /\ up[u].ErrTransfer # "none"
         THEN UNCHANGED <<usedFiles, usedSize>>
         ELSE /\ usedFiles' = usedFiles + up[u].numFiles
              /\ usedSize' = usedSize + up[u].fileSize - up[u].InitialSize
      /\ file' = file /\ temp' = temp
  BY UpdateQuotaDoes DEF UInv
<1>2. /\ Typed /\ AtPath(u) /\ up[u].InitialSize \in Int /\ up[u].fileSize \in Int
      /\ up[u].numFiles \in Int /\ usedSize \in Int /\ usedFiles \in Int
  BY UploadInts
<1>3. /\ usedFiles' = usedFiles + up[u].numFiles
      /\ usedSize' = usedSize + up[u].fileSize - up[u].InitialSize
  <2>1. CASE Kind(u) = "cloud" /\ up[u].ErrTransfer # "none"
    <3>1. up[u].fileSize = up[u].InitialSize /\ up[u].numFiles = 0
      BY <1>1, <1>2, <2>1 DEF AtPath, CloudFailed
    <3> QED BY <1>1, <1>2, <2>1, <3>1
  <2> QED BY <1>1, <2>1
<1>4. SizeOf(temp[u]) \in Int /\ Count(temp[u]) \in Int
  BY UploadInts
<1>5. /\ Owed(u) = SizeOf(temp[u]) + up[u].InitialSize - up[u].fileSize
      /\ OwedFiles(u) = Count(temp[u]) - up[u].numFiles
      /\ Owed(u)' = SizeOf(temp[u]) /\ OwedFiles(u)' = Count(temp[u])
  BY <1>1 DEF Owed, OwedFiles
<1>6. FileSize' - FileSize = 0 /\ FileCount' - FileCount = 0
  BY <1>1, <1>2, SameFiles
<1> QED BY <1>2, <1>3, <1>4, <1>5, <1>6 DEF Charged

LEMMA EveryUploadCharged ==
  ASSUME HooksHold, UInv, NEW u \in Uploads, Upload(u), ~Close(u), ~Abort(u)
  PROVE  Charged(u)
<1>0. /\ Base /\ Typed /\ Owed(u) \in Int /\ OwedFiles(u) \in Int
      /\ up[u].InitialSize \in Int /\ usedSize \in Int
  BY UploadInts
<1>1. ASSUME NEW p \in Paths, NEW protocol \in Protocols, NEW flag \in Flags(protocol),
             Lstat(u, p, protocol, flag)
      PROVE  Charged(u)
  BY <1>1, LstatCharged
<1>2. ASSUME Typed', up[u].pc \in {"checking", "admitted"},
             up'[u].pc \in {"idle", "admitted"}, temp' = temp, file' = file,
             UNCHANGED <<usedFiles, usedSize>>
      PROVE  Charged(u)
  <2>1. Owed(u)' = Owed(u) /\ OwedFiles(u)' = OwedFiles(u)
    BY <1>2 DEF Owed, OwedFiles
  <2> QED BY <1>0, <1>2, <2>1, ChargedNothing
<1>3. CASE Deny(u)
  BY <1>0, <1>2, <1>3, DenyDoes
<1>4. CASE Admit(u)
  BY <1>0, <1>2, <1>4, AdmitDoes
<1>5. CASE Create(u)
  BY <1>5, CreateCharged
<1>6. CASE CreateFails(u)
  <2>1. /\ Typed' /\ up[u].pc = "admitted" /\ up'[u].pc = "idle"
        /\ UNCHANGED <<usedFiles, usedSize>>
        /\ \/ file' = file /\ temp' = temp
           \/ /\ ToRename(u) /\ Current(u) # NoFile
              /\ temp'[u] = Current(u) /\ file'[up[u].path] = NoFile
              /\ Elsewhere(up[u].path)
    BY <1>0, <1>6, CreateFailsDoes
  <2>2. CASE file' = file /\ temp' = temp
    BY <1>2, <2>1, <2>2
  <2>3. CASE /\ ToRename(u) /\ Current(u) # NoFile
             /\ temp'[u] = Current(u) /\ file'[up[u].path] = NoFile
             /\ Elsewhere(up[u].path)
    <3>1. FoundAt(u)
      BY <2>1 DEF UInv, AtPath
    <3>2. temp[u] = NoFile
      BY <2>3, <3>1 DEF FoundAt, ToRename
    <3>3. /\ Owed(u) = 0 /\ OwedFiles(u) = 0
          /\ Owed(u)' = SizeOf(file[up[u].path]) /\ OwedFiles(u)' = Count(file[up[u].path])
      BY <2>1, <2>3, <3>2 DEF Owed, OwedFiles, SizeOf, Count, Current
    <3>4. SizeOf(file'[up[u].path]) = 0 /\ Count(file'[up[u].path]) = 0
      BY <2>3 DEF SizeOf, Count
    <3>5. /\ up[u].path \in Paths /\ usedFiles \in Int
          /\ SizeOf(file[up[u].path]) \in Int /\ Count(file[up[u].path]) \in Int
      BY <2>1, UploadInts DEF Current
    <3>6. /\ usedSize' - usedSize =
               SizeOf(file'[up[u].path]) - SizeOf(file[up[u].path]) + Owed(u)' - Owed(u)
          /\ usedFiles' - usedFiles =
               Count(file'[up[u].path]) - Count(file[up[u].path]) + OwedFiles(u)' - OwedFiles(u)
      BY <1>0, <2>1, <3>3, <3>4, <3>5
    <3> QED BY <1>0, <2>1, <2>3, <3>5, <3>6, ChargedAtPath
  <2> QED BY <2>1, <2>2, <2>3
<1>7. ASSUME NEW off \in Offsets(u), WriteAt(u, off) PROVE Charged(u)
  <2>1. /\ Typed' /\ Goes(u) /\ up[u].pc = "open" /\ up'[u].pc = "open"
        /\ up'[u].InitialSize = up[u].InitialSize /\ UNCHANGED <<uploadMode, usedFiles, usedSize>>
        /\ \E n \in 0 .. MaxSize : Writes(u, n)
    BY <1>0, <1>7, WriteAtDoes
  <2>2. Elsewhere(up[u].path)
    BY <2>1, WritesWritten
  <2> QED BY <1>0, <2>1, <2>2, OpenCharged
<1>8. CASE WriteFails(u)
  <2>1. /\ Typed' /\ Goes(u) /\ up[u].pc = "open" /\ up'[u].pc = "open"
        /\ up'[u].InitialSize = up[u].InitialSize /\ UNCHANGED <<file, usedFiles, usedSize>>
    BY <1>0, <1>8, WriteFailsDoes
  <2> QED BY <1>0, <2>1, OpenCharged DEF Elsewhere
<1>9. ASSUME NEW size \in TruncateSizes, TruncateHandle(u, size) PROVE Charged(u)
  <2>1. /\ Typed' /\ Goes(u) /\ up[u].pc = "open" /\ up'[u].pc = "open"
        /\ size \in 0 .. MaxSize /\ up'[u].InitialSize = size
        /\ Writes(u, size) /\ UNCHANGED <<uploadMode, usedFiles>>
        /\ usedSize' = usedSize + size - up[u].InitialSize
    BY <1>0, <1>9, TruncateHandleDoes
  <2>2. Elsewhere(up[u].path)
    BY <2>1, WritesWritten
  <2> QED BY <1>0, <2>1, <2>2, OpenCharged
<1>11. CASE StatUpload(u)
  BY <1>11, StatUploadCharged
<1>12. CASE HookEnds(u)
  <2>1. /\ up[u].pc = "hook" /\ up'[u].pc = "ended"
        /\ up'[u].InitialSize = up[u].InitialSize /\ up'[u].fileSize = up[u].fileSize
        /\ up'[u].numFiles = up[u].numFiles
        /\ UNCHANGED <<file, temp, usedFiles, usedSize>>
    BY <1>0, <1>12, HookEndsDoes
  <2>2. Owed(u)' = Owed(u) /\ OwedFiles(u)' = OwedFiles(u)
    BY <2>1 DEF Owed, OwedFiles
  <2> QED BY <1>0, <2>1, <2>2, ChargedNothing
<1>13. CASE HookFails(u)
  BY <1>13, HookFailsCharged
<1>14. CASE UpdateQuota(u)
  BY <1>14, UpdateQuotaCharged
<1> QED BY <1>1, <1>3, <1>4, <1>5, <1>6, <1>7, <1>8, <1>9, <1>11, <1>12, <1>13, <1>14
        DEF Upload

LEMMA OwedNext ==
  (UInv => \A u \in Uploads : Owed(u) \in Int /\ OwedFiles(u) \in Int)'
<1>1. UInv => \A u \in Uploads : Owed(u) \in Int /\ OwedFiles(u) \in Int
  BY UploadInts
<1> QED BY <1>1, PTL

LEMMA BalancedStep ==
  HooksHold /\ UInv /\ HistoryTyped /\ Balanced /\ [UploadsNext]_uploadsVars => Balanced'
<1> SUFFICES ASSUME HooksHold, UInv, HistoryTyped, Balanced, [UploadsNext]_uploadsVars
             PROVE  Balanced'
  OBVIOUS
<1>0. Base /\ Typed /\ UInv' /\ Typed'
  BY UInvStep DEF UInv, Base
<1>8. /\ HistoryTyped'
      /\ uncharged.size \in Int /\ uncharged.files \in Int
  BY <1>0, HistoryStep DEF HistoryTyped
<1>9. ASSUME NEW u, Charged(u), uncharged' = uncharged, Typed, Typed',
             Owed(u) \in Int, Owed(u)' \in Int, OwedFiles(u) \in Int, OwedFiles(u)' \in Int
      PROVE  /\ usedSize' - usedSize = FileSize' - FileSize + Owed(u)' - Owed(u)
                                       + uncharged.size - uncharged'.size
             /\ usedFiles' - usedFiles = FileCount' - FileCount + OwedFiles(u)' - OwedFiles(u)
                                         + uncharged.files - uncharged'.files
  <2>1. FileSize \in Int /\ FileSize' \in Int /\ FileCount \in Int /\ FileCount' \in Int
    BY <1>9, FilesTyped DEF Typed, FileSize, FileCount
  <2> QED BY <1>8, <1>9, <2>1 DEF Charged
<1>1. ASSUME NEW u \in Uploads, Upload(u) PROVE Balanced'
  <2>1. Others(u) /\ Allowed(u) /\ uploadMode' = uploadMode
    BY <1>0, <1>1, Frame
  <2>2. Owed(u) \in Int /\ Owed(u)' \in Int /\ OwedFiles(u) \in Int /\ OwedFiles(u)' \in Int
    BY <1>0, UploadInts, OwedNext
  <2>3. /\ usedSize' - usedSize = FileSize' - FileSize + Owed(u)' - Owed(u)
                                  + uncharged.size - uncharged'.size
        /\ usedFiles' - usedFiles = FileCount' - FileCount + OwedFiles(u)' - OwedFiles(u)
                                    + uncharged.files - uncharged'.files
    <3>1. CASE Close(u) \/ Abort(u)
      BY <1>0, <1>9, <2>2, <3>1, EndCharged
    <3>2. CASE ~Close(u) /\ ~Abort(u)
      <4>1. Charged(u) /\ uncharged' = uncharged
        BY <1>1, <3>2, EveryUploadCharged, UploadHistory DEF LeavesNone
      <4> QED BY <1>0, <1>9, <2>2, <4>1
    <3> QED BY <3>1, <3>2
  <2> QED BY <1>0, <1>8, <2>1, <2>3, BalancedKept
<1>2. ASSUME NEW u \in Uploads, RemoveLeftover(u) PROVE Balanced'
  <2>1. /\ Others(u) /\ file' = file /\ up' = up /\ up[u] = Idle
        /\ temp[u] # NoFile /\ temp'[u] = NoFile
        /\ usedFiles' = usedFiles - 1 /\ usedSize' = usedSize - SizeOf(temp[u])
        /\ uploadMode' = uploadMode /\ uncharged' = uncharged
    BY <1>0, <1>2, RemoveLeftoverDoes
  <2>2. /\ Owed(u) = SizeOf(temp[u]) /\ OwedFiles(u) = 1
        /\ Owed(u)' = 0 /\ OwedFiles(u)' = 0
    <3>1. up[u].pc = "idle" /\ up'[u].pc = "idle"
      BY <2>1, IdleTyped
    <3> QED BY <2>1, <3>1 DEF Owed, OwedFiles, SizeOf, Count
  <2>3. FileSize' - FileSize = 0 /\ FileCount' - FileCount = 0
    BY <1>0, <2>1, SameFiles
  <2>4. SizeOf(temp[u]) \in Int /\ usedSize \in Int /\ usedFiles \in Int
    BY UploadInts
  <2>5. Charged(u)
    BY <2>1, <2>2, <2>3, <2>4 DEF Charged
  <2>6. /\ usedSize' - usedSize = FileSize' - FileSize + Owed(u)' - Owed(u)
                                  + uncharged.size - uncharged'.size
        /\ usedFiles' - usedFiles = FileCount' - FileCount + OwedFiles(u)' - OwedFiles(u)
                                    + uncharged.files - uncharged'.files
    BY <1>0, <1>9, <2>1, <2>2, <2>4, <2>5
  <2> QED BY <1>0, <1>8, <2>1, <2>6, AllowedNothing, BalancedKept
<1>3. ASSUME NEW p \in Paths, Elsewhere(p), Free(p), up' = up, temp' = temp,
             uncharged' = uncharged,
             usedSize' = usedSize - SizeOf(file[p]) + SizeOf(file'[p]),
             usedFiles' = usedFiles - Count(file[p]) + Count(file'[p])
      PROVE  Balanced'
  <2>1. /\ FileSize' = FileSize - SizeOf(file[p]) + SizeOf(file'[p])
        /\ FileCount' = FileCount - Count(file[p]) + Count(file'[p])
    BY <1>0, <1>3, FilesAtPath
  <2>2. file \in [Paths -> Contents] /\ file' \in [Paths -> Contents]
    BY <1>0 DEF Typed
  <2>3. FileSize \in Int /\ FileCount \in Int
    BY <2>2, FilesTyped DEF FileSize, FileCount
  <2>4. file[p] \in Contents /\ file'[p] \in Contents
    BY <2>2
  <2>5. /\ SizeOf(file[p]) \in Int /\ SizeOf(file'[p]) \in Int
        /\ Count(file[p]) \in Int /\ Count(file'[p]) \in Int
    BY <2>4, ContentTyped, CountBounds
  <2>6. usedSize \in Int /\ usedFiles \in Int
    BY <1>0 DEF Typed
  <2>7. usedSize' - usedSize = FileSize' - FileSize /\ usedFiles' - usedFiles = FileCount' - FileCount
    BY <1>3, <2>1, <2>3, <2>5, <2>6
  <2>8. \A q \in Paths : file'[q] # file[q] => Free(q)
    BY <1>3 DEF Elsewhere
  <2> QED BY <1>0, <1>3, <2>7, <2>8, BalancedKeptByOthers
<1>4. ASSUME NEW p \in Paths, RemoveFile(p) PROVE Balanced'
  <2>1. /\ Elsewhere(p) /\ Free(p) /\ up' = up /\ temp' = temp
        /\ file[p] # NoFile /\ file'[p] = NoFile
        /\ usedFiles' = usedFiles - 1 /\ usedSize' = usedSize - SizeOf(file[p])
        /\ uncharged' = uncharged
    BY <1>0, <1>4, RemoveFileDoes DEF RemoveFile, history
  <2>2. Count(file[p]) = 1 /\ Count(file'[p]) = 0 /\ SizeOf(file'[p]) = 0
    BY <2>1 DEF Count, SizeOf
  <2>3. usedSize \in Int /\ usedFiles \in Int /\ SizeOf(file[p]) \in Int
    BY <1>0, ContentTyped DEF Typed
  <2>4. /\ usedSize' = usedSize - SizeOf(file[p]) + SizeOf(file'[p])
        /\ usedFiles' = usedFiles - Count(file[p]) + Count(file'[p])
    BY <2>1, <2>2, <2>3
  <2> QED BY <1>3, <2>1, <2>4
<1>5. ASSUME NEW p \in Paths, NEW size \in TruncateSizes, Truncate(p, size) PROVE Balanced'
  <2>1. /\ Elsewhere(p) /\ Free(p) /\ up' = up /\ temp' = temp
        /\ file[p] # NoFile /\ file'[p] # NoFile /\ SizeOf(file'[p]) = size
        /\ size \in 0 .. MaxSize
        /\ usedFiles' = usedFiles /\ usedSize' = usedSize + size - SizeOf(file[p])
        /\ uncharged' = uncharged
    BY <1>0, <1>5, TruncateDoes DEF Truncate, history
  <2>2. Count(file[p]) = 1 /\ Count(file'[p]) = 1
    BY <2>1 DEF Count
  <2>3. usedSize \in Int /\ usedFiles \in Int /\ SizeOf(file[p]) \in Int /\ size \in Int
    BY <1>0, <2>1, ContentTyped DEF Typed
  <2>4. /\ usedSize' = usedSize - SizeOf(file[p]) + SizeOf(file'[p])
        /\ usedFiles' = usedFiles - Count(file[p]) + Count(file'[p])
    BY <2>1, <2>2, <2>3
  <2> QED BY <1>3, <2>1, <2>4
<1>6. ASSUME NEW p \in Paths, NEW q \in Paths, Rename(p, q) PROVE Balanced'
  <2> DEFINE g == [file EXCEPT ![p] = NoFile]
  <2>1. /\ up' = up /\ temp' = temp /\ Free(p) /\ Free(q) /\ p # q
        /\ file' = [g EXCEPT ![q] = file[p]]
        /\ \A x \in Paths \ {p, q} : file'[x] = file[x]
        /\ usedFiles' = usedFiles - Count(file[q]) /\ usedSize' = usedSize - SizeOf(file[q])
        /\ uncharged' = uncharged
    BY <1>0, <1>6, RenameDoes DEF Rename, history
  <2>2. file \in [Paths -> Contents] /\ NoFile \in Contents
    BY <1>0, ContentTyped DEF Typed
  <2>3. /\ g \in [Paths -> Contents] /\ g[p] = NoFile /\ g[q] = file[q]
        /\ \A x \in Paths \ {p} : g[x] = file[x]
    BY <2>1, <2>2
  <2> HIDE DEF g
  <2>4. /\ file' \in [Paths -> Contents] /\ file'[q] = file[p]
        /\ \A x \in Paths \ {q} : file'[x] = g[x]
    BY <2>1, <2>2, <2>3
  <2> DEFINE S == Sum([x \in Paths |-> SizeOf(g[x])])
             N == Sum([x \in Paths |-> Count(g[x])])
  <2>5. /\ FileSize \in Int /\ S \in Int /\ S = FileSize - SizeOf(file[p]) + SizeOf(NoFile)
        /\ FileCount \in Int /\ N \in Int /\ N = FileCount - Count(file[p]) + Count(NoFile)
    BY <2>2, <2>3, FilesChange DEF FileSize, FileCount
  <2>6. /\ FileSize' = S - SizeOf(file[q]) + SizeOf(file[p])
        /\ FileCount' = N - Count(file[q]) + Count(file[p])
    BY <2>3, <2>4, FilesChange DEF FileSize, FileCount
  <2>7. /\ SizeOf(file[p]) \in Int /\ SizeOf(file[q]) \in Int /\ SizeOf(NoFile) = 0
        /\ Count(file[p]) \in Int /\ Count(file[q]) \in Int /\ Count(NoFile) = 0
    <3>1. file[p] \in Contents /\ file[q] \in Contents
      BY <2>2
    <3> QED BY <3>1, ContentTyped, CountBounds DEF Count
  <2>8. usedSize \in Int /\ usedFiles \in Int
    BY <1>0 DEF Typed
  <2> HIDE DEF S, N
  <2>9. usedSize' - usedSize = FileSize' - FileSize /\ usedFiles' - usedFiles = FileCount' - FileCount
    BY <2>1, <2>5, <2>6, <2>7, <2>8
  <2>10. \A x \in Paths : file'[x] # file[x] => Free(x)
    BY <2>1
  <2> QED BY <1>0, <2>1, <2>9, <2>10, BalancedKeptByOthers
<1>7. CASE UNCHANGED uploadsVars
  <2>1. file' = file /\ up' = up /\ temp' = temp /\ usedSize' = usedSize /\ usedFiles' = usedFiles
        /\ uncharged' = uncharged
    BY <1>7 DEF uploadsVars, history
  <2>2. FileSize' - FileSize = 0 /\ FileCount' - FileCount = 0
    BY <1>0, <2>1, SameFiles
  <2>3. usedSize \in Int /\ usedFiles \in Int
    BY <1>0 DEF Typed
  <2>4. usedSize' - usedSize = FileSize' - FileSize /\ usedFiles' - usedFiles = FileCount' - FileCount
    BY <2>1, <2>2, <2>3
  <2> QED BY <1>0, <2>1, <2>4, BalancedKeptByOthers
<1> QED BY <1>1, <1>2, <1>4, <1>5, <1>6, <1>7 DEF UploadsNext

LEMMA BalancedInit == ~Overlap /\ UploadsInit => Balanced
<1> SUFFICES ASSUME ~Overlap, UploadsInit PROVE Balanced
  OBVIOUS
<1>1. \A u \in Uploads : up[u].pc = "idle" /\ temp[u] = NoFile
  BY IdleTyped DEF UploadsInit
<1>2. \A p \in Paths : file[p] = NoFile
  BY DEF UploadsInit
<1>3. SizeOf(NoFile) = 0 /\ Count(NoFile) = 0
  BY DEF SizeOf, Count
<1>4. \A u \in Uploads : /\ Plus(u) = 0 /\ Minus(u) = 0 /\ SizeOf(temp[u]) = 0
                         /\ PlusFiles(u) = 0 /\ MinusFiles(u) = 0 /\ Count(temp[u]) = 0
  BY <1>1, <1>3 DEF Plus, Minus, PlusFiles, MinusFiles
<1>5. \A p \in Paths : SizeOf(file[p]) = 0 /\ Count(file[p]) = 0
  BY <1>2, <1>3
<1>6. /\ FileSize = 0 /\ FileCount = 0
  <2>1. ASSUME NEW f \in [Paths -> Nat], \A p \in Paths : f[p] = 0 PROVE Sum(f) = 0
    BY <2>1, SumOfNone
  <2>2. /\ [p \in Paths |-> SizeOf(file[p])] \in [Paths -> Nat]
        /\ [p \in Paths |-> Count(file[p])] \in [Paths -> Nat]
    BY <1>5
  <2> QED BY <1>5, <2>1, <2>2 DEF FileSize, FileCount
<1>7. /\ Sum([u \in Uploads |-> Plus(u)]) = 0 /\ Sum([u \in Uploads |-> Minus(u)]) = 0
      /\ Sum([u \in Uploads |-> SizeOf(temp[u])]) = 0
      /\ Sum([u \in Uploads |-> PlusFiles(u)]) = 0 /\ Sum([u \in Uploads |-> MinusFiles(u)]) = 0
      /\ Sum([u \in Uploads |-> Count(temp[u])]) = 0
  <2>1. ASSUME NEW f \in [Uploads -> Nat], \A u \in Uploads : f[u] = 0 PROVE Sum(f) = 0
    BY <2>1, SumOfNone
  <2>2. /\ [u \in Uploads |-> Plus(u)] \in [Uploads -> Nat]
        /\ [u \in Uploads |-> Minus(u)] \in [Uploads -> Nat]
        /\ [u \in Uploads |-> SizeOf(temp[u])] \in [Uploads -> Nat]
        /\ [u \in Uploads |-> PlusFiles(u)] \in [Uploads -> Nat]
        /\ [u \in Uploads |-> MinusFiles(u)] \in [Uploads -> Nat]
        /\ [u \in Uploads |-> Count(temp[u])] \in [Uploads -> Nat]
    BY <1>4
  <2> QED BY <1>4, <2>1, <2>2
<1>8. usedSize = 0 /\ usedFiles = 0 /\ uncharged.size = 0 /\ uncharged.files = 0
  BY DEF UploadsInit
<1> QED BY <1>6, <1>7, <1>8 DEF Balanced

LEMMA StoredIsSum ==
  ASSUME Typed
  PROVE  /\ StoredSize = FileSize + Sum([u \in Uploads |-> SizeOf(temp[u])])
         /\ StoredFiles = FileCount + Sum([u \in Uploads |-> Count(temp[u])])
<1> DEFINE F == [p \in Paths |-> Count(file[p])]
           T == [u \in Uploads |-> Count(temp[u])]
<1>1. F \in [Paths -> {0, 1}] /\ T \in [Uploads -> {0, 1}]
  BY DEF Count
<1>2. IsFiniteSet(Paths) /\ IsFiniteSet(Uploads)
  BY UploadsAssumption
<1>3. {p \in Paths : F[p] = 1} = {p \in Paths : file[p] # NoFile}
  BY DEF Count
<1>4. {u \in Uploads : T[u] = 1} = {u \in Uploads : temp[u] # NoFile}
  BY DEF Count
<1>5. Sum(F) = Cardinality({p \in Paths : F[p] = 1}) /\ Sum(T) = Cardinality({u \in Uploads : T[u] = 1})
  <2> HIDE DEF F, T
  <2> QED BY <1>1, <1>2, SumOfOnes
<1>6. StoredFiles = Sum(F) + Sum(T)
  <2> HIDE DEF F, T
  <2> QED BY <1>3, <1>4, <1>5 DEF StoredFiles
<1>7. StoredSize = FileSize + Sum([u \in Uploads |-> SizeOf(temp[u])])
  BY DEF StoredSize, FileSize, Sum
<1> QED BY <1>6, <1>7 DEF FileCount

LEMMA BalancedExact == UInv /\ HistoryTyped /\ Balanced => QuotaExact
<1> SUFFICES ASSUME UInv, HistoryTyped, Balanced,
                    \A u \in Uploads : up[u].pc \in {"idle", "checking", "admitted"}
             PROVE  /\ usedFiles = StoredFiles - uncharged.files
                    /\ usedSize = StoredSize - uncharged.size
  BY DEF QuotaExact
<1>1. \A u \in Uploads : Plus(u) = 0 /\ Minus(u) = 0 /\ PlusFiles(u) = 0 /\ MinusFiles(u) = 0
  BY DEF Plus, Minus, PlusFiles, MinusFiles
<1>2. /\ Sum([u \in Uploads |-> Plus(u)]) = 0 /\ Sum([u \in Uploads |-> Minus(u)]) = 0
      /\ Sum([u \in Uploads |-> PlusFiles(u)]) = 0 /\ Sum([u \in Uploads |-> MinusFiles(u)]) = 0
  <2>1. ASSUME NEW f \in [Uploads -> Nat], \A u \in Uploads : f[u] = 0 PROVE Sum(f) = 0
    BY <2>1, SumOfNone
  <2>2. /\ [u \in Uploads |-> Plus(u)] \in [Uploads -> Nat]
        /\ [u \in Uploads |-> Minus(u)] \in [Uploads -> Nat]
        /\ [u \in Uploads |-> PlusFiles(u)] \in [Uploads -> Nat]
        /\ [u \in Uploads |-> MinusFiles(u)] \in [Uploads -> Nat]
    BY <1>1
  <2> QED BY <1>1, <2>1, <2>2
<1>3. Typed
  BY DEF UInv, Base
<1>4. /\ usedSize \in Int /\ usedFiles \in Int /\ FileSize \in Int /\ FileCount \in Int
      /\ Sum([u \in Uploads |-> SizeOf(temp[u])]) \in Int
      /\ Sum([u \in Uploads |-> Count(temp[u])]) \in Int
  <2>1. FileSize \in Int /\ FileCount \in Int /\ usedSize \in Int /\ usedFiles \in Int
    BY <1>3, FilesTyped DEF Typed, FileSize, FileCount
  <2>2. ASSUME NEW f \in [Uploads -> Nat] PROVE Sum(f) \in Int
    <3>1. CASE Uploads = {}
      <4>1. \A v \in Uploads : f[v] = 0
        BY <3>1
      <4> QED BY <4>1, SumOfNone
    <3>2. ASSUME NEW v \in Uploads PROVE Sum(f) \in Int
      BY ChangeOfUpload
    <3> QED BY <3>1, <3>2
  <2>3. /\ [v \in Uploads |-> SizeOf(temp[v])] \in [Uploads -> Nat]
        /\ [v \in Uploads |-> Count(temp[v])] \in [Uploads -> Nat]
    BY SumParts
  <2> QED BY <2>1, <2>2, <2>3
<1>5. uncharged.size \in Int /\ uncharged.files \in Int
  BY DEF HistoryTyped
<1> QED BY <1>2, <1>3, <1>4, <1>5, StoredIsSum DEF Balanced

(* When no upload is under way the used quota is what is stored, whatever   *)
(* the uploads, the truncations, the removals and their failures were: it   *)
(* misses exactly the temporary files that Close could neither rename nor   *)
(* remove.  A failing hook of a cloud upload is left out.                   *)
THEOREM QuotaIsExact == ~Overlap /\ HooksHold => (UploadsSpec => []QuotaExact)
<1> SUFFICES ASSUME ~Overlap, HooksHold PROVE UploadsSpec => []QuotaExact
  OBVIOUS
<1>1. UploadsInit => UInv /\ HistoryTyped /\ Balanced
  BY UInvInit, HistoryInit, BalancedInit
<1>2. UInv /\ HistoryTyped /\ Balanced /\ [UploadsNext]_uploadsVars =>
        UInv' /\ HistoryTyped' /\ Balanced'
  BY UInvStep, HistoryStep, BalancedStep DEF UInv
<1>3. UInv /\ HistoryTyped /\ Balanced => QuotaExact
  BY BalancedExact
<1> QED BY <1>1, <1>2, <1>3, PTL DEF UploadsSpec

-----------------------------------------------------------------------------
(* One upload at a time stays in the quota                                  *)

(* With another upload under way both may use the same space, and what is   *)
(* truncated to a larger size is not checked.                               *)
OnlyOne ==
  /\ ~Overlap /\ TruncateSizes \subseteq {0}
  /\ \A u, v \in Uploads : u = v

FilesLeft(u) ==
  QuotaFiles > 0 =>
    /\ usedFiles <= QuotaFiles
    /\ (up[u].isNewFile /\ up[u].pc \notin {"idle", "checking"}) => usedFiles < QuotaFiles
    /\ up[u].pc \in {"hook", "ended"} => up[u].numFiles <= 1 - Before(u)

(* The size that Close still takes off: a local file gives it back at once. *)
Returned(u) == IF Kind(u) = "local" THEN 0 ELSE up[u].InitialSize

SpaceAt(u) ==
  /\ up[u].pc = "admitted" =>
       /\ 0 < up[u].MaxWriteSize
       /\ usedSize + up[u].MaxWriteSize <=
            QuotaSize + (IF IsResume(u) THEN 0 ELSE up[u].fileSize)
       /\ IsResume(u) => Kind(u) = "local"
  /\ up[u].pc = "open" =>
       /\ 0 < up[u].MaxWriteSize /\ usedSize + up[u].MaxWriteSize <= QuotaSize + Returned(u)
       /\ up[u].ErrTransfer = "none" =>
            /\ up[u].BytesReceived <= up[u].MaxWriteSize
            /\ Written(u).size <= up[u].BytesReceived + Start(u)
  /\ (up[u].pc = "settled" /\ up[u].ErrTransfer = "none") =>
       usedSize + SizeOf(Current(u)) <= QuotaSize + up[u].InitialSize
  /\ (up[u].pc \in {"hook", "ended"} /\ up[u].ErrTransfer = "none") =>
       usedSize + up[u].fileSize <= QuotaSize + up[u].InitialSize

SpaceLeft(u) == (QuotaSize > 0 /\ ~RenamesFirst(up[u].protocol)) => SpaceAt(u)

InQuota == UInv /\ \A u \in Uploads : FilesLeft(u) /\ SpaceLeft(u)

LEMMA AllowedSpace ==
  ASSUME Base, NEW u \in Uploads, QuotaSize > 0,
         HasSpace(up[u].isNewFile), ResumeAllowed(u)
  PROVE  /\ 0 < GetMaxWriteSize(u)
         /\ usedSize + GetMaxWriteSize(u) <=
              QuotaSize + (IF IsResume(u) THEN 0 ELSE up[u].fileSize)
         /\ IsResume(u) => Kind(u) = "local"
<1> DEFINE f == up[u].fileSize
           remaining == QuotaSize - usedSize
<1>1. /\ f \in Nat /\ usedSize \in Int /\ QuotaSize \in Nat /\ MaxUploadFileSize \in Nat
  <2>1. up[u] \in AnyTransfer /\ Typed /\ QuotaSize \in Nat /\ MaxUploadFileSize \in Nat
    BY AboutUpload
  <2> QED BY <2>1 DEF AnyTransfer, Typed
<1>2. remaining \in Nat /\ remaining > 0 /\ usedSize + remaining = QuotaSize
  BY <1>1 DEF HasSpace
<1>3. IsResume(u) => Kind(u) = "local" /\ (MaxUploadFileSize > 0 => f < MaxUploadFileSize)
  BY DEF ResumeAllowed
<1>4. GetMaxWriteSize(u) =
        IF IsResume(u)
        THEN IF MaxUploadFileSize > 0 THEN AtMost(MaxUploadFileSize - f, remaining)
             ELSE remaining
        ELSE AtMost(MaxUploadFileSize, remaining + f)
  BY <1>1, <1>2 DEF GetMaxWriteSize
<1> HIDE DEF f, remaining
<1>5. ASSUME NEW limit \in Int, NEW size \in Int, size > 0
      PROVE  0 < AtMost(limit, size) /\ AtMost(limit, size) <= size /\ AtMost(limit, size) \in Int
  BY <1>5 DEF AtMost
<1>6. CASE IsResume(u)
  <2>1. 0 < GetMaxWriteSize(u) /\ GetMaxWriteSize(u) <= remaining /\ GetMaxWriteSize(u) \in Int
    <3>1. MaxUploadFileSize - f \in Int
      BY <1>1
    <3> QED BY <1>2, <1>4, <1>5, <1>6, <3>1
  <2> QED BY <1>1, <1>2, <1>3, <1>6, <2>1
<1>7. CASE ~IsResume(u)
  <2> DEFINE size == remaining + f
  <2>1. size \in Int /\ size > 0 /\ usedSize + size = QuotaSize + f /\ MaxUploadFileSize \in Int
    BY <1>1, <1>2
  <2>2. GetMaxWriteSize(u) = AtMost(MaxUploadFileSize, size)
    BY <1>4, <1>7
  <2> HIDE DEF size
  <2>3. 0 < GetMaxWriteSize(u) /\ GetMaxWriteSize(u) <= size /\ GetMaxWriteSize(u) \in Int
    BY <1>5, <2>1, <2>2
  <2>4. usedSize + GetMaxWriteSize(u) <= QuotaSize + f
    BY <1>1, <2>1, <2>3
  <2> QED BY <1>7, <2>3, <2>4 DEF f
<1> QED BY <1>6, <1>7

(* The step of an upload, as far as the number of files is concerned.       *)
LEMMA FilesLeftUpload ==
  ASSUME UInv, NEW u \in Uploads, FilesLeft(u), Upload(u)
  PROVE  FilesLeft(u)'
<1> SUFFICES ASSUME QuotaFiles > 0 PROVE FilesLeft(u)'
  BY DEF FilesLeft
<1>0. /\ Base /\ usedFiles \in Int /\ QuotaFiles \in Int /\ up[u].numFiles \in Int
      /\ usedFiles <= QuotaFiles
      /\ (up[u].isNewFile /\ up[u].pc \notin {"idle", "checking"}) => usedFiles < QuotaFiles
      /\ up[u].pc \in {"hook", "ended"} => up[u].numFiles <= 1 - Before(u)
  BY UploadInts, AboutUpload DEF FilesLeft
<1>1. ASSUME usedFiles' = usedFiles, up'[u].pc \in {"idle", "checking"}
      PROVE  FilesLeft(u)'
  BY <1>0, <1>1 DEF FilesLeft
<1>2. ASSUME usedFiles' = usedFiles, Goes(u), up[u].pc \notin {"idle", "checking"},
             up'[u].pc \notin {"hook", "ended"}
      PROVE  FilesLeft(u)'
  BY <1>0, <1>2 DEF FilesLeft, Goes
<1>3. ASSUME usedFiles' = usedFiles, Goes(u), uploadMode' = uploadMode,
             up[u].pc \notin {"idle", "checking"}, up'[u].numFiles <= 1 - Before(u)
      PROVE  FilesLeft(u)'
  <2>1. Before(u)' = Before(u)
    BY <1>3, Same
  <2> QED BY <1>0, <1>3, <2>1 DEF FilesLeft, Goes
<1>4. ASSUME NEW p \in Paths, NEW protocol \in Protocols, NEW flag \in Flags(protocol),
             Lstat(u, p, protocol, flag)
      PROVE  FilesLeft(u)'
  BY <1>0, <1>1, <1>4, LstatDoes
<1>5. CASE Deny(u) \/ CreateFails(u)
  BY <1>0, <1>1, <1>5, DenyDoes, CreateFailsDoes
<1>6. CASE Admit(u)
  <2>1. /\ Goes(u) /\ HasSpace(up[u].isNewFile) /\ up'[u].pc = "admitted"
        /\ usedFiles' = usedFiles
    BY <1>0, <1>6, AdmitDoes
  <2>2. up[u].isNewFile => usedFiles < QuotaFiles
    BY <2>1 DEF HasSpace
  <2> QED BY <1>0, <2>1, <2>2 DEF FilesLeft, Goes
<1>7. CASE Create(u)
  BY <1>0, <1>2, <1>7, CreateDoes
<1>8. ASSUME NEW off \in Offsets(u), WriteAt(u, off)
      PROVE  FilesLeft(u)'
  BY <1>0, <1>2, <1>8, WriteAtDoes
<1>9. CASE WriteFails(u)
  BY <1>0, <1>2, <1>9, WriteFailsDoes
<1>10. ASSUME NEW size \in TruncateSizes, TruncateHandle(u, size)
       PROVE  FilesLeft(u)'
  BY <1>0, <1>2, <1>10, TruncateHandleDoes
<1>11. CASE Close(u) \/ Abort(u)
  BY <1>0, <1>2, <1>11, EndDoes DEF Settles
<1>12. CASE StatUpload(u)
  <2>1. /\ Goes(u) /\ up[u].pc = "settled" /\ uploadMode' = uploadMode /\ usedFiles' = usedFiles
        /\ up'[u].numFiles = Count(file'[up[u].path]) - Before(u)
    BY <1>0, <1>12, StatUploadDoes
  <2>2. Count(file'[up[u].path]) \in {0, 1} /\ Before(u) \in {0, 1}
    BY DEF Count, Before
  <2>3. up'[u].numFiles <= 1 - Before(u)
    BY <2>1, <2>2
  <2> QED BY <1>3, <2>1, <2>3
<1>13. CASE HookEnds(u)
  BY <1>0, <1>3, <1>13, HookEndsDoes
<1>14. CASE HookFails(u)
  <2>1. /\ Goes(u) /\ up[u].pc = "hook" /\ uploadMode' = uploadMode /\ usedFiles' = usedFiles
        /\ \/ up'[u].numFiles = up[u].numFiles
           \/ up'[u].numFiles = up[u].numFiles - 1
    BY <1>0, <1>14, HookFailsDoes
  <2>2. Before(u) \in {0, 1}
    BY DEF Before
  <2>3. up'[u].numFiles <= 1 - Before(u)
    BY <1>0, <2>1, <2>2
  <2> QED BY <1>3, <2>1, <2>3
<1>15. CASE UpdateQuota(u)
  <2>1. /\ up[u].pc = "ended" /\ up'[u].pc = "idle"
        /\ usedFiles' = usedFiles \/ usedFiles' = usedFiles + up[u].numFiles
    BY <1>0, <1>15, UpdateQuotaDoes
  <2>2. usedFiles' <= QuotaFiles
    BY <1>0, <2>1 DEF Before
  <2> QED BY <2>1, <2>2 DEF FilesLeft
<1> QED BY <1>4, <1>5, <1>6, <1>7, <1>8, <1>9, <1>10, <1>11, <1>12, <1>13, <1>14, <1>15
        DEF Upload

(* The step of an upload, as far as the size is concerned.                  *)
LEMMA SpaceAtUpload ==
  ASSUME OnlyOne, UInv, NEW u \in Uploads, QuotaSize > 0, ~RenamesFirst(up'[u].protocol),
         up[u].pc # "idle" => SpaceAt(u), Upload(u)
  PROVE  up'[u].pc # "idle" => SpaceAt(u)'
<1> SUFFICES ASSUME up'[u].pc # "idle" PROVE SpaceAt(u)'
  OBVIOUS
<1>0. Base
  BY DEF UInv
<1>1. /\ up[u] \in AnyTransfer /\ QuotaSize \in Int /\ usedSize \in Int
      /\ up[u].fileSize \in Int /\ up[u].MaxWriteSize \in Int /\ up[u].InitialSize \in Int
      /\ up[u].InitialSize >= 0 /\ up[u].fileSize >= 0
      /\ up[u].BytesReceived \in Int
  BY <1>0, AboutUpload DEF AnyTransfer, Typed
<1>3. ASSUME NEW p \in Paths, NEW protocol \in Protocols, NEW flag \in Flags(protocol),
             Lstat(u, p, protocol, flag)
      PROVE  SpaceAt(u)'
  <2>1. up'[u].pc = "checking"
    BY <1>0, <1>3, LstatDoes
  <2> QED BY <2>1 DEF SpaceAt
<1>4. CASE Deny(u) \/ CreateFails(u) \/ UpdateQuota(u)
  BY <1>0, <1>4, DenyDoes, CreateFailsDoes, UpdateQuotaDoes
<1>5. CASE Admit(u)
  <2>1. /\ Goes(u) /\ HasSpace(up[u].isNewFile) /\ ResumeAllowed(u)
        /\ up'[u].pc = "admitted" /\ up'[u].MaxWriteSize = GetMaxWriteSize(u)
        /\ up'[u].fileSize = up[u].fileSize /\ uploadMode' = uploadMode
        /\ usedSize' = usedSize
    BY <1>0, <1>5, AdmitDoes
  <2>2. IsResume(u)' = IsResume(u) /\ Kind(u)' = Kind(u)
    BY <2>1, Same DEF IsResume
  <2> QED BY <1>0, <2>1, <2>2, AllowedSpace DEF SpaceAt
<1>6. CASE Create(u)
  <2>1. /\ Goes(u) /\ uploadMode' = uploadMode
        /\ up[u].pc = "admitted" /\ up'[u].pc = "open"
        /\ up'[u].InitialSize = IF TruncatesNow(u) THEN 0 ELSE up[u].fileSize
        /\ up'[u].MaxWriteSize =
             IF ~up[u].isNewFile /\ up[u].MaxWriteSize > 0 /\ RenamesFirst(up[u].protocol)
             THEN up[u].MaxWriteSize + up[u].fileSize ELSE up[u].MaxWriteSize
        /\ up'[u].BytesReceived = up[u].BytesReceived
        /\ usedSize' = usedSize - (IF TruncatesNow(u) THEN up[u].fileSize ELSE 0)
    BY <1>0, <1>6, CreateDoes DEF Create
  <2>2. up'[u].MaxWriteSize = up[u].MaxWriteSize
    BY <2>1 DEF Goes
  <2>3. /\ OpenedSize(u) = IF up[u].flag = "trunc" \/ Kind(u) # "local" THEN 0
                           ELSE up[u].fileSize
        /\ up[u].isNewFile => up[u].fileSize = 0
    BY <2>1, OpenedIs
  <2>4. Kind(u)' = Kind(u)
    BY <2>1, Same
  <2>5. Start(u)' = OpenedSize(u)
    BY <2>1, <2>3, <2>4 DEF Start, TruncatesNow
  <2>6. Written(u)'.size = OpenedSize(u) /\ up[u].BytesReceived = 0
    BY <1>0, <1>6, <2>1, CreatedWritten DEF Base
  <2>7. /\ 0 < up[u].MaxWriteSize
        /\ usedSize + up[u].MaxWriteSize <=
             QuotaSize + (IF IsResume(u) THEN 0 ELSE up[u].fileSize)
        /\ IsResume(u) => Kind(u) = "local"
    BY <2>1 DEF SpaceAt
  <2>8. OpenedSize(u) \in Int
    BY <1>1, <2>3
  <2>9. usedSize' + up[u].MaxWriteSize <= QuotaSize + Returned(u)'
    <3>1. Returned(u)' = IF Kind(u) = "local" THEN 0 ELSE up'[u].InitialSize
      BY <2>4 DEF Returned
    <3>2. CASE TruncatesNow(u)
      <4>1. usedSize' = usedSize - up[u].fileSize /\ Returned(u)' = 0
        BY <2>1, <3>1, <3>2 DEF TruncatesNow
      <4>2. usedSize + up[u].MaxWriteSize <= QuotaSize + up[u].fileSize
        BY <2>7, <3>2 DEF TruncatesNow, IsResume
      <4> QED BY <1>1, <4>1, <4>2
    <3>3. CASE ~TruncatesNow(u)
      <4>1. usedSize' = usedSize /\ up'[u].InitialSize = up[u].fileSize
        BY <1>1, <2>1, <3>3
      <4>2. CASE Kind(u) = "local"
        <5>1. IsResume(u) \/ up[u].fileSize = 0
          BY <2>3, <3>3, <4>2 DEF TruncatesNow, IsResume
        <5>2. usedSize + up[u].MaxWriteSize <= QuotaSize + 0
          BY <2>7, <5>1
        <5> QED BY <3>1, <4>1, <4>2, <5>2
      <4>3. CASE Kind(u) # "local"
        <5>1. usedSize + up[u].MaxWriteSize <= QuotaSize + up[u].fileSize
          BY <2>7, <4>3
        <5> QED BY <3>1, <4>1, <4>3, <5>1
      <4> QED BY <4>2, <4>3
    <3> QED BY <3>2, <3>3
  <2>10. up'[u].BytesReceived = 0 /\ 0 <= up[u].MaxWriteSize
    BY <1>1, <2>1, <2>6, <2>7
  <2>11. Written(u)'.size <= 0 + Start(u)'
    BY <2>5, <2>6, <2>8
  <2> QED BY <2>1, <2>2, <2>7, <2>9, <2>10, <2>11 DEF SpaceAt
<1>7. ASSUME NEW off \in Offsets(u), WriteAt(u, off)
      PROVE  SpaceAt(u)'
  <2>1. /\ Goes(u) /\ up[u].pc = "open" /\ up'[u].pc = "open" /\ uploadMode' = uploadMode
        /\ up'[u].InitialSize = up[u].InitialSize /\ up'[u].MaxWriteSize = up[u].MaxWriteSize
        /\ up'[u].BytesReceived = up[u].BytesReceived + 1
        /\ up'[u].ErrTransfer =
             IF up[u].ErrTransfer = "none" /\ Exceeded(u, up[u].BytesReceived + 1)
             THEN "quota" ELSE up[u].ErrTransfer
        /\ usedSize' = usedSize
    BY <1>0, <1>7, WriteAtDoes
  <2>2. PICK n \in 0 .. MaxSize :
          Written(u).size <= n /\ n <= Written(u).size + 1 /\ Writes(u, n)
    BY <1>0, <1>7, WriteAtDoes
  <2>3. Written(u)'.size = n
    BY <2>1, <2>2, WritesWritten
  <2>4. /\ Start(u)' = Start(u) /\ Start(u) \in Int /\ Written(u).size \in Int
        /\ Returned(u)' = Returned(u)
    BY <1>0, <1>1, <2>1, Same, AboutUpload DEF Start, Returned
  <2>5. /\ 0 < up[u].MaxWriteSize /\ usedSize + up[u].MaxWriteSize <= QuotaSize + Returned(u)
        /\ up[u].ErrTransfer = "none" => Written(u).size <= up[u].BytesReceived + Start(u)
    BY <2>1 DEF SpaceAt
  <2>6. ASSUME up'[u].ErrTransfer = "none"
        PROVE  /\ up[u].BytesReceived + 1 <= up[u].MaxWriteSize
               /\ n <= up[u].BytesReceived + 1 + Start(u)
    <3>1. up[u].ErrTransfer = "none" /\ ~Exceeded(u, up[u].BytesReceived + 1)
      BY <2>1, <2>6
    <3>2. up[u].BytesReceived + 1 <= up[u].MaxWriteSize
      BY <1>1, <2>5, <3>1 DEF Exceeded
    <3>3. n \in Int /\ n <= Written(u).size + 1
      BY <2>2
    <3> QED BY <1>1, <2>4, <2>5, <3>1, <3>2, <3>3
  <2> QED BY <2>1, <2>3, <2>4, <2>5, <2>6 DEF SpaceAt
<1>8. CASE WriteFails(u)
  <2>1. /\ Goes(u) /\ up[u].pc = "open" /\ up'[u].pc = "open" /\ uploadMode' = uploadMode
        /\ up'[u].InitialSize = up[u].InitialSize /\ up'[u].MaxWriteSize = up[u].MaxWriteSize
        /\ up'[u].ErrTransfer # "none" /\ usedSize' = usedSize
    BY <1>0, <1>8, WriteFailsDoes
  <2>2. Returned(u)' = Returned(u)
    BY <2>1, Same DEF Returned
  <2> QED BY <2>1, <2>2 DEF SpaceAt
<1>9. ASSUME NEW size \in TruncateSizes, TruncateHandle(u, size)
      PROVE  SpaceAt(u)'
  <2>1. /\ Goes(u) /\ up[u].pc = "open" /\ up'[u].pc = "open" /\ uploadMode' = uploadMode
        /\ Kind(u) = "local" /\ size \in 0 .. MaxSize /\ Writes(u, size)
        /\ up'[u].InitialSize = size
        /\ up'[u].MaxWriteSize =
             IF up[u].MaxWriteSize > 0 THEN up[u].MaxWriteSize + up[u].InitialSize - size ELSE 0
        /\ up'[u].BytesReceived = IF up[u].MaxWriteSize > 0 THEN 0 ELSE up[u].BytesReceived
        /\ usedSize' = usedSize + size - up[u].InitialSize
    BY <1>0, <1>9, TruncateHandleDoes
  <2>2. size = 0
    BY DEF OnlyOne
  <2>3. /\ 0 < up[u].MaxWriteSize /\ usedSize + up[u].MaxWriteSize <= QuotaSize + 0
    BY <2>1 DEF SpaceAt, Returned
  <2>4. /\ up'[u].MaxWriteSize = up[u].MaxWriteSize + up[u].InitialSize
        /\ up'[u].BytesReceived = 0 /\ usedSize' = usedSize - up[u].InitialSize
    BY <1>1, <2>1, <2>2, <2>3
  <2>5. Start(u)' = 0 /\ Written(u)'.size = 0 /\ Returned(u)' = 0
    BY <2>1, <2>2, Same, WritesWritten DEF Start, Returned
  <2>6. /\ 0 < up'[u].MaxWriteSize /\ 0 <= up'[u].MaxWriteSize
        /\ usedSize' + up'[u].MaxWriteSize <= QuotaSize + 0 /\ 0 <= 0 + 0
    BY <1>1, <2>3, <2>4
  <2> QED BY <2>1, <2>4, <2>5, <2>6 DEF SpaceAt
<1>10. CASE Close(u) \/ Abort(u)
  <2>1. PICK err \in {"none", "quota", "other"}, aborted \in BOOLEAN : Settles(u, err, aborted)
    BY <1>0, <1>10, EndDoes
  <2>2. /\ Goes(u) /\ up[u].pc = "open" /\ up'[u].pc = "settled" /\ uploadMode' = uploadMode
        /\ up'[u].InitialSize = up[u].InitialSize /\ usedSize' = usedSize
        /\ err = "none" => up[u].ErrTransfer = "none"
        /\ up'[u].ErrTransfer = "none" =>
             /\ err = "none"
             /\ file'[up[u].path] = Content(Written(u).size, err = "none" /\ ~aborted)
    BY <2>1 DEF Settles, Closed
  <2>3. ASSUME up'[u].ErrTransfer = "none"
        PROVE  usedSize + SizeOf(Current(u)') <= QuotaSize + up[u].InitialSize
    <3>2. Written(u).size \in 0 .. MaxSize
      BY <1>0, <2>2, AboutUpload
    <3>3. SizeOf(Current(u)') = Written(u).size
      <4>1. Current(u)' = file'[up[u].path]
        BY <2>2, Same
      <4> DEFINE whole == err = "none" /\ ~aborted
      <4>2. whole \in BOOLEAN /\ Current(u)' = Content(Written(u).size, whole)
        BY <2>2, <2>3, <4>1
      <4> HIDE DEF whole
      <4> QED BY <3>2, <4>2, ContentTyped
    <3>4. /\ usedSize + up[u].MaxWriteSize <= QuotaSize + Returned(u)
          /\ up[u].BytesReceived <= up[u].MaxWriteSize
          /\ Written(u).size <= up[u].BytesReceived + Start(u)
      BY <2>2, <2>3 DEF SpaceAt
    <3>5. /\ Returned(u) \in Int /\ Start(u) \in Int
          /\ Returned(u) + Start(u) = up[u].InitialSize
      BY <1>1 DEF Returned, Start
    <3> QED BY <1>1, <3>2, <3>3, <3>4, <3>5
  <2> QED BY <2>2, <2>3 DEF SpaceAt
<1>11. CASE StatUpload(u)
  <2>1. /\ Goes(u) /\ up[u].pc = "settled" /\ up'[u].pc = "hook" /\ usedSize' = usedSize
        /\ up'[u].InitialSize = up[u].InitialSize /\ up'[u].ErrTransfer = up[u].ErrTransfer
        /\ file'[up[u].path] = Current(u) \/ Dropped(u)
        /\ up'[u].fileSize = SizeOf(file'[up[u].path])
    BY <1>0, <1>11, StatUploadDoes
  <2>2. ASSUME up[u].ErrTransfer = "none"
        PROVE  usedSize + up'[u].fileSize <= QuotaSize + up[u].InitialSize
    <3>1. up'[u].fileSize = SizeOf(Current(u))
      BY <2>1, <2>2 DEF Dropped
    <3> QED BY <2>1, <2>2, <3>1 DEF SpaceAt
  <2> QED BY <2>1, <2>2 DEF SpaceAt
<1>12. CASE HookEnds(u)
  <2>1. /\ up[u].pc = "hook" /\ up'[u].pc = "ended" /\ usedSize' = usedSize
        /\ up'[u].InitialSize = up[u].InitialSize /\ up'[u].ErrTransfer = up[u].ErrTransfer
        /\ up'[u].fileSize = up[u].fileSize
    BY <1>0, <1>12, HookEndsDoes
  <2> QED BY <2>1 DEF SpaceAt
<1>13. CASE HookFails(u)
  <2>1. up'[u].pc = "ended" /\ up'[u].ErrTransfer # "none"
    BY <1>0, <1>13, HookFailsDoes
  <2> QED BY <2>1 DEF SpaceAt
<1> QED BY <1>3, <1>4, <1>5, <1>6, <1>7, <1>8, <1>9, <1>10, <1>11, <1>12, <1>13 DEF Upload

(* The other requests only give something back.                             *)
LEMMA InQuotaGivenBack ==
  ASSUME UInv, NEW u \in Uploads, FilesLeft(u), SpaceLeft(u),
         up' = up, uploadMode' = uploadMode,
         usedFiles' \in Int, usedSize' \in Int, usedFiles' <= usedFiles, usedSize' <= usedSize,
         Active(u) => Current(u)' = Current(u) /\ temp'[u] = temp[u]
  PROVE  FilesLeft(u)' /\ SpaceLeft(u)'
<1>0. /\ Base /\ usedFiles \in Int /\ usedSize \in Int
      /\ QuotaFiles \in Int /\ QuotaSize \in Int
      /\ up[u].fileSize \in Int /\ up[u].InitialSize \in Int /\ up[u].MaxWriteSize \in Int
      /\ up[u].pc # "idle" => SizeOf(Current(u)) \in Int
  BY UploadInts, AboutUpload DEF AnyTransfer
<1>1. /\ Before(u)' = Before(u) /\ IsResume(u)' = IsResume(u) /\ Kind(u)' = Kind(u)
      /\ Start(u)' = Start(u) /\ Returned(u)' = Returned(u)
      /\ Direct(up[u].path)' = Direct(up[u].path)
  BY DEF Before, IsResume, Kind, Start, Returned, Direct
<1>2. up[u].pc = "open" => Written(u)' = Written(u)
  BY <1>1 DEF Written, Active
<1>3. FilesLeft(u)'
  BY <1>0, <1>1 DEF FilesLeft
<1>4. ASSUME SpaceAt(u) PROVE SpaceAt(u)'
  <2>1. ASSUME NEW a \in Int, NEW b \in Int, usedSize + a <= QuotaSize + b
        PROVE  usedSize' + a <= QuotaSize + b
    BY <1>0, <2>1
  <2>2. ASSUME up[u].pc = "admitted"
        PROVE  usedSize' + up[u].MaxWriteSize <=
                 QuotaSize + (IF IsResume(u) THEN 0 ELSE up[u].fileSize)
    <3>1. (IF IsResume(u) THEN 0 ELSE up[u].fileSize) \in Int
      BY <1>0
    <3> QED BY <1>0, <1>4, <2>1, <2>2, <3>1 DEF SpaceAt
  <2>3. ASSUME up[u].pc = "open"
        PROVE  usedSize' + up[u].MaxWriteSize <= QuotaSize + Returned(u)
    <3>1. Returned(u) \in Int
      BY <1>0 DEF Returned
    <3> QED BY <1>0, <1>4, <2>1, <2>3, <3>1 DEF SpaceAt
  <2>4. ASSUME up[u].pc = "settled", up[u].ErrTransfer = "none"
        PROVE  usedSize' + SizeOf(Current(u)) <= QuotaSize + up[u].InitialSize
    BY <1>0, <1>4, <2>1, <2>4 DEF SpaceAt
  <2>5. ASSUME up[u].pc \in {"hook", "ended"}, up[u].ErrTransfer = "none"
        PROVE  usedSize' + up[u].fileSize <= QuotaSize + up[u].InitialSize
    BY <1>0, <1>4, <2>1, <2>5 DEF SpaceAt
  <2>6. up[u].pc = "settled" => SizeOf(Current(u)') = SizeOf(Current(u))
    BY DEF Active
  <2> QED BY <1>1, <1>2, <1>4, <2>2, <2>3, <2>4, <2>5, <2>6 DEF SpaceAt
<1> QED BY <1>3, <1>4 DEF SpaceLeft

(* An upload stays what it is from its start to its end.                    *)
LEMMA UploadGoes ==
  ASSUME Base, NEW u \in Uploads, Upload(u)
  PROVE  up[u].pc = "idle" \/ up'[u].pc = "idle" \/ Goes(u)
<1>1. ASSUME NEW p \in Paths, NEW protocol \in Protocols, NEW flag \in Flags(protocol),
             Lstat(u, p, protocol, flag)
      PROVE  up[u].pc = "idle"
  BY <1>1, LstatDoes
<1>2. CASE Deny(u) \/ CreateFails(u) \/ UpdateQuota(u)
  BY <1>2, DenyDoes, CreateFailsDoes, UpdateQuotaDoes
<1>3. CASE Admit(u) \/ Create(u) \/ WriteFails(u)
  BY <1>3, AdmitDoes, CreateDoes, WriteFailsDoes
<1>4. ASSUME NEW off \in Offsets(u), WriteAt(u, off)
      PROVE  Goes(u)
  BY <1>4, WriteAtDoes
<1>5. ASSUME NEW size \in TruncateSizes, TruncateHandle(u, size)
      PROVE  Goes(u)
  BY <1>5, TruncateHandleDoes
<1>6. CASE Close(u) \/ Abort(u)
  BY <1>6, EndDoes DEF Settles
<1>7. CASE StatUpload(u)
  BY <1>7, StatUploadDoes
<1>8. CASE HookEnds(u) \/ HookFails(u)
  BY <1>8, HookEndsDoes, HookFailsDoes
<1> QED BY <1>1, <1>2, <1>3, <1>4, <1>5, <1>6, <1>7, <1>8 DEF Upload

LEMMA InQuotaStep == OnlyOne /\ InQuota /\ [UploadsNext]_uploadsVars => InQuota'
<1> SUFFICES ASSUME OnlyOne, InQuota, [UploadsNext]_uploadsVars PROVE InQuota'
  OBVIOUS
<1>0. Base /\ UInv /\ ~Overlap /\ usedFiles \in Int /\ usedSize \in Int
  BY DEF InQuota, UInv, OnlyOne, Base, Typed
<1>1. UInv'
  BY <1>0, UInvStep
<1>2. usedFiles' \in Int /\ usedSize' \in Int
  BY <1>1 DEF UInv, Base, Typed
<1>3. ASSUME NEW u \in Uploads
      PROVE  FilesLeft(u) /\ SpaceLeft(u) /\ \A v \in Uploads : v = u
  BY <1>3 DEF InQuota, OnlyOne
<1>4. ASSUME NEW u \in Uploads, Upload(u), NEW v \in Uploads
      PROVE  FilesLeft(v)' /\ SpaceLeft(v)'
  <2>1. v = u
    BY <1>3
  <2>2. FilesLeft(u)'
    BY <1>0, <1>3, <1>4, FilesLeftUpload
  <2>3. ASSUME QuotaSize > 0, ~RenamesFirst(up'[u].protocol) PROVE SpaceAt(u)'
    <3>1. CASE up'[u].pc = "idle"
      BY <3>1 DEF SpaceAt
    <3>2. CASE up'[u].pc # "idle"
      <4>1. up[u].pc # "idle" => SpaceAt(u)
        BY <1>0, <1>3, <1>4, <2>3, <3>2, UploadGoes DEF SpaceLeft, Goes
      <4> QED BY <1>0, <1>4, <2>3, <3>2, <4>1, SpaceAtUpload
    <3> QED BY <3>1, <3>2
  <2> QED BY <2>1, <2>2, <2>3 DEF SpaceLeft
<1>5. ASSUME up' = up, uploadMode' = uploadMode, usedFiles' <= usedFiles, usedSize' <= usedSize,
             NEW v \in Uploads, Active(v) => Current(v)' = Current(v) /\ temp'[v] = temp[v]
      PROVE  FilesLeft(v)' /\ SpaceLeft(v)'
  BY <1>0, <1>2, <1>3, <1>5, InQuotaGivenBack
<1>6. ASSUME up' = up, temp' = temp, uploadMode' = uploadMode,
             \A p \in Paths : file'[p] # file[p] => Free(p),
             NEW v \in Uploads
      PROVE  Active(v) => Current(v)' = Current(v) /\ temp'[v] = temp[v]
  BY <1>0, <1>6, OthersKept
<1>7. ASSUME NEW u \in Uploads, RemoveLeftover(u), NEW v \in Uploads
      PROVE  FilesLeft(v)' /\ SpaceLeft(v)'
  <2>1. /\ file' = file /\ up' = up /\ up[u] = Idle /\ uploadMode' = uploadMode
        /\ usedFiles' = usedFiles - 1 /\ usedSize' = usedSize - SizeOf(temp[u])
        /\ temp[u] \in Contents
    BY <1>0, <1>7, RemoveLeftoverDoes, AboutUpload
  <2>2. ~Active(v)
    BY <1>3, <2>1, IdleTyped DEF Active
  <2>3. usedFiles' <= usedFiles /\ usedSize' <= usedSize
    BY <1>0, <2>1, ContentTyped
  <2> QED BY <1>5, <2>1, <2>2, <2>3
<1>8. ASSUME NEW p \in Paths, RemoveFile(p), NEW v \in Uploads
      PROVE  FilesLeft(v)' /\ SpaceLeft(v)'
  <2>1. /\ up' = up /\ temp' = temp /\ Elsewhere(p) /\ Free(p) /\ uploadMode' = uploadMode
        /\ usedFiles' = usedFiles - 1 /\ usedSize' = usedSize - SizeOf(file[p])
        /\ file[p] \in Contents
    BY <1>0, <1>8, RemoveFileDoes DEF Base, Typed
  <2>2. usedFiles' <= usedFiles /\ usedSize' <= usedSize
    BY <1>0, <2>1, ContentTyped
  <2> QED BY <1>5, <1>6, <2>1, <2>2 DEF Elsewhere
<1>9. ASSUME NEW p \in Paths, NEW q \in Paths, Rename(p, q), NEW v \in Uploads
      PROVE  FilesLeft(v)' /\ SpaceLeft(v)'
  <2>1. /\ up' = up /\ temp' = temp /\ Free(p) /\ Free(q) /\ uploadMode' = uploadMode
        /\ \A x \in Paths \ {p, q} : file'[x] = file[x]
        /\ usedFiles' = usedFiles - Count(file[q]) /\ usedSize' = usedSize - SizeOf(file[q])
        /\ file[q] \in Contents
    BY <1>0, <1>9, RenameDoes DEF Base, Typed
  <2>2. \A x \in Paths : file'[x] # file[x] => Free(x)
    BY <2>1
  <2>3. usedFiles' <= usedFiles /\ usedSize' <= usedSize
    BY <1>0, <2>1, ContentTyped, CountBounds
  <2> QED BY <1>5, <1>6, <2>1, <2>2, <2>3
<1>10. ASSUME NEW p \in Paths, NEW size \in TruncateSizes, Truncate(p, size), NEW v \in Uploads
       PROVE  FilesLeft(v)' /\ SpaceLeft(v)'
  <2>1. /\ up' = up /\ temp' = temp /\ Elsewhere(p) /\ Free(p) /\ uploadMode' = uploadMode
        /\ usedFiles' = usedFiles /\ usedSize' = usedSize + size - SizeOf(file[p])
        /\ file[p] \in Contents
    BY <1>0, <1>10, TruncateDoes DEF Base, Typed
  <2>2. size = 0
    BY DEF OnlyOne
  <2>3. usedFiles' <= usedFiles /\ usedSize' <= usedSize
    BY <1>0, <2>1, <2>2, ContentTyped
  <2> QED BY <1>5, <1>6, <2>1, <2>3 DEF Elsewhere
<1>11. CASE UNCHANGED uploadsVars
  <2>1. /\ up' = up /\ temp' = temp /\ file' = file /\ uploadMode' = uploadMode
        /\ usedFiles' <= usedFiles /\ usedSize' <= usedSize
    BY <1>0, <1>11 DEF uploadsVars
  <2> QED BY <1>1, <1>5, <1>6, <2>1 DEF InQuota
<1> QED BY <1>1, <1>4, <1>7, <1>8, <1>9, <1>10, <1>11 DEF UploadsNext, InQuota

(* What an upload without an error leaves is in the quota.                  *)
LEMMA QuotaKeptStep ==
  ASSUME OnlyOne, InQuota, InQuota', [UploadsNext]_uploadsVars, NEW u \in Uploads,
         up[u].pc = "ended", up'[u].pc = "idle",
         up[u].ErrTransfer = "none", ~RenamesFirst(up[u].protocol)
  PROVE  /\ QuotaSize > 0 => usedSize' <= QuotaSize
         /\ QuotaFiles > 0 => usedFiles' <= QuotaFiles
<1>0. /\ Base /\ UInv /\ usedSize \in Int /\ QuotaSize \in Int
      /\ up[u].fileSize \in Int /\ up[u].InitialSize \in Int
  BY UploadInts, AboutUpload DEF InQuota, UInv
<1>1. QuotaFiles > 0 => usedFiles' <= QuotaFiles
  BY DEF InQuota, FilesLeft
<1>2. UpdateQuota(u)
  <2>1. up' # up
    BY DEF InQuota
  <2>2. PICK v \in Uploads : Upload(v)
    <3>1. ASSUME NEW v \in Uploads, RemoveLeftover(v) PROVE up' = up
      BY <3>1 DEF RemoveLeftover
    <3>2. ASSUME NEW p \in Paths, RemoveFile(p) PROVE up' = up
      BY <3>2 DEF RemoveFile
    <3>3. ASSUME NEW p \in Paths, NEW q \in Paths, Rename(p, q) PROVE up' = up
      BY <3>3 DEF Rename
    <3>4. ASSUME NEW p \in Paths, NEW size \in TruncateSizes, Truncate(p, size) PROVE up' = up
      BY <3>4 DEF Truncate
    <3> QED BY <2>1, <3>1, <3>2, <3>3, <3>4 DEF UploadsNext, uploadsVars
  <2>3. v = u
    BY DEF OnlyOne
  <2> QED BY <1>0, <2>2, <2>3, IdleTyped DEF Upload, Lstat, Deny, Admit, Create, CreateFails,
          WriteAt, WriteFails, TruncateHandle, Close, Abort, StatUpload, HookEnds, HookFails
<1>3. QuotaSize > 0 => usedSize + up[u].fileSize <= QuotaSize + up[u].InitialSize
  BY DEF InQuota, SpaceLeft, SpaceAt
<1>4. usedSize' = usedSize + up[u].fileSize - up[u].InitialSize
  BY <1>0, <1>2, UpdateQuotaDoes
<1>5. QuotaSize > 0 => usedSize' <= QuotaSize
  BY <1>0, <1>3, <1>4
<1> QED BY <1>1, <1>5

(* A single SFTP or FTP upload at a time that ends without an error keeps   *)
(* the user in the quota, whatever it overwrites, resumes or truncates, and *)
(* whatever other requests remove next to it.                               *)
THEOREM UploadsStayInQuota == OnlyOne => (UploadsSpec => QuotaKept)
<1> SUFFICES ASSUME OnlyOne PROVE UploadsSpec => QuotaKept
  OBVIOUS
<1>1. UploadsInit => InQuota
  <2> SUFFICES ASSUME UploadsInit PROVE InQuota
    OBVIOUS
  <2>1. UInv
    BY UInvInit DEF OnlyOne
  <2>2. /\ \A u \in Uploads : up[u].pc = "idle"
        /\ usedFiles = 0 /\ QuotaFiles \in Nat
    BY IdleTyped, UploadsAssumption DEF UploadsInit
  <2> QED BY <2>1, <2>2 DEF InQuota, FilesLeft, SpaceLeft, SpaceAt
<1>2. InQuota /\ [UploadsNext]_uploadsVars => InQuota'
  BY InQuotaStep
<1> DEFINE Step == \A u \in Uploads :
       (/\ up[u].pc = "ended" /\ up'[u].pc = "idle"
        /\ up[u].ErrTransfer = "none" /\ ~RenamesFirst(up[u].protocol)) =>
         /\ QuotaSize > 0 => usedSize' <= QuotaSize
         /\ QuotaFiles > 0 => usedFiles' <= QuotaFiles
<1>3. InQuota /\ InQuota' /\ [UploadsNext]_uploadsVars => [Step]_uploadsVars
  BY QuotaKeptStep
<1>4. QuotaKept <=> [][Step]_uploadsVars
  BY DEF QuotaKept
<1> HIDE DEF Step
<1> QED BY <1>1, <1>2, <1>3, <1>4, PTL DEF UploadsSpec
=============================================================================

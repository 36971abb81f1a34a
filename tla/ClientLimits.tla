---------------------------- MODULE ClientLimits ----------------------------
(***************************************************************************)
(* The admission of client connections.  Every server counts a client in   *)
(* common.Connections.clients (a total and a count per source), asks       *)
(* IsNewConnectionAllowed, and takes the client out again when it leaves.  *)
(* The total is an atomic integer changed outside the lock of the counts,  *)
(* and IsNewConnectionAllowed reads what it compares one value at a time.  *)
(***************************************************************************)
EXTENDS Integers, FiniteSets, Functions

CONSTANTS
  Clients,               \* network connections; requests for HTTP and WebDAV
  IPs,                   \* client addresses
  IPOf,                  \* client -> its address
  SafeIPs,               \* addresses in the defender's safe list
  MaxTotalConnections,   \* Configuration.MaxTotalConnections, 0 for no limit
  MaxPerHostConnections, \* Configuration.MaxPerHostConnections, 0 for no limit
  MaxPerClient           \* bound: sessions, and transfers, of one client

ASSUME ClientLimitsAssumption ==
  /\ IsFiniteSet(Clients)
  /\ IPOf \in [Clients -> IPs]
  /\ SafeIPs \subseteq IPs
  /\ MaxTotalConnections \in Nat
  /\ MaxPerHostConnections \in Nat
  /\ MaxPerClient \in Nat

VARIABLES
  totalConnections, \* clientsMap.totalConnections of clients
  clients,          \* clientsMap.clients: source -> count, 0 without a key
  pc,               \* client -> where its goroutine is
  sessions,         \* client -> its connections in ActiveConnections
  transfers,        \* client -> its running transfers
  isShuttingDown

counters == <<totalConnections, clients>>
work     == <<sessions, transfers>>
vars     == <<counters, pc, work, isShuttingDown>>

(* A client is "adding" between the two halves of clientsMap.add; the next *)
(* five are the comparisons of IsNewConnectionAllowed still to be made.    *)
PCs == {"idle", "adding", "closing", "host", "total", "transfers", "sessions",
        "accepted", "refused"}

-----------------------------------------------------------------------------
(* clientsMap                                                              *)

(* add, before it takes the lock. *)
AddTotal(c) ==
  /\ pc[c] = "idle"
  /\ totalConnections' = totalConnections + 1
  /\ pc' = [pc EXCEPT ![c] = "adding"]
  /\ UNCHANGED <<clients, work, isShuttingDown>>

(* add, under the lock. *)
AddSource(c) ==
  /\ pc[c] = "adding"
  /\ clients' = [clients EXCEPT ![IPOf[c]] = @ + 1]
  /\ pc' = [pc EXCEPT ![c] = "closing"]
  /\ UNCHANGED <<totalConnections, work, isShuttingDown>>

(* Mutant: the key goes with its first client. *)
RemoveSourceKey(ip) ==
  /\ totalConnections' = totalConnections - 1
  /\ clients' = [clients EXCEPT ![ip] = 0]

(* Mutant: a refused client is removed at once and by the deferred call.   *)
removeTwice(ip) ==
  /\ totalConnections' = totalConnections - 2
  /\ clients' = [clients EXCEPT ![ip] = @ - 1]

(* remove: a source without a key is only logged. *)
remove(ip) ==
  IF clients[ip] > 0
  THEN /\ totalConnections' = totalConnections - 1
       /\ clients' = [clients EXCEPT ![ip] = @ - 1]
  ELSE UNCHANGED counters

-----------------------------------------------------------------------------
(* IsNewConnectionAllowed                                                  *)

(* One comparison: the client is refused or goes on to "next".             *)
Check(c, at, refuse, next) ==
  /\ pc[c] = at
  /\ pc' = [pc EXCEPT ![c] = IF refuse THEN "refused" ELSE next]
  /\ UNCHANGED <<counters, work, isShuttingDown>>

CheckClosing(c) ==
  Check(c, "closing", isShuttingDown,
        IF MaxTotalConnections = 0 /\ MaxPerHostConnections = 0
        THEN "accepted" ELSE "host")

(* Mutant: compares as if the client had not been counted yet. *)
CheckHostNotCounted(c) ==
  Check(c, "host",
        /\ MaxPerHostConnections > 0
        /\ clients[IPOf[c]] > MaxPerHostConnections + 1
        /\ IPOf[c] \notin SafeIPs,
        IF MaxTotalConnections > 0 THEN "total" ELSE "accepted")

CheckHost(c) ==
  Check(c, "host",
        /\ MaxPerHostConnections > 0
        /\ clients[IPOf[c]] > MaxPerHostConnections
        /\ IPOf[c] \notin SafeIPs,
        IF MaxTotalConnections > 0 THEN "total" ELSE "accepted")

(* Mutant: safe hosts skip the total too. *)
CheckTotalUnlessSafe(c) ==
  Check(c, "total",
        totalConnections > MaxTotalConnections /\ IPOf[c] \notin SafeIPs,
        "transfers")

CheckTotal(c) ==
  Check(c, "total", totalConnections > MaxTotalConnections, "transfers")

CheckTransfers(c) ==
  Check(c, "transfers", SumFunction(transfers) >= MaxTotalConnections, "sessions")

CheckSessions(c) ==
  Check(c, "sessions", SumFunction(sessions) >= MaxTotalConnections, "accepted")

(* The allow list, a ban, the rate limit or the post connect hook refuse.  *)
Refuse(c) ==
  /\ pc[c] \in {"closing", "accepted"}
  /\ pc' = [pc EXCEPT ![c] = "refused"]
  /\ UNCHANGED <<counters, work, isShuttingDown>>

-----------------------------------------------------------------------------
(* The servers                                                             *)

(* The connection is closed or the request answered.  The goroutines of an *)
(* SSH connection's channels may still run: sessions are not waited for.   *)
ClientDisconnected(c) ==
  /\ pc[c] \in {"accepted", "refused"}
  /\ remove(IPOf[c])
  /\ pc' = [pc EXCEPT ![c] = "idle"]
  /\ UNCHANGED <<work, isShuttingDown>>

AddSession(c) ==
  /\ pc[c] = "accepted" /\ sessions[c] < MaxPerClient
  /\ sessions' = [sessions EXCEPT ![c] = @ + 1]
  /\ UNCHANGED <<counters, pc, transfers, isShuttingDown>>

EndSession(c) ==
  /\ sessions[c] > 0
  /\ sessions[c] = 1 => transfers[c] = 0
  /\ sessions' = [sessions EXCEPT ![c] = @ - 1]
  /\ UNCHANGED <<counters, pc, transfers, isShuttingDown>>

StartTransfer(c) ==
  /\ sessions[c] > 0 /\ transfers[c] < MaxPerClient
  /\ transfers' = [transfers EXCEPT ![c] = @ + 1]
  /\ UNCHANGED <<counters, pc, sessions, isShuttingDown>>

EndTransfer(c) ==
  /\ transfers[c] > 0
  /\ transfers' = [transfers EXCEPT ![c] = @ - 1]
  /\ UNCHANGED <<counters, pc, sessions, isShuttingDown>>

Shutdown ==
  /\ ~isShuttingDown
  /\ isShuttingDown' = TRUE
  /\ UNCHANGED <<counters, pc, work>>

Init ==
  /\ totalConnections = 0
  /\ clients = [ip \in IPs |-> 0]
  /\ pc = [c \in Clients |-> "idle"]
  /\ sessions = [c \in Clients |-> 0]
  /\ transfers = [c \in Clients |-> 0]
  /\ isShuttingDown = FALSE

Admission(c) ==
  \/ AddTotal(c) \/ AddSource(c)
  \/ CheckClosing(c) \/ CheckHost(c) \/ CheckTotal(c)
  \/ CheckTransfers(c) \/ CheckSessions(c) \/ Refuse(c)
  \/ ClientDisconnected(c)

Work(c) ==
  AddSession(c) \/ EndSession(c) \/ StartTransfer(c) \/ EndTransfer(c)

Next == Shutdown \/ \E c \in Clients : Admission(c) \/ Work(c)

Spec == Init /\ [][Next]_vars

-----------------------------------------------------------------------------
(* Properties                                                              *)

(* Clients that were counted in the total, and for their source.           *)
InTotal  == {c \in Clients : pc[c] # "idle"}
InSource(ip) == {c \in Clients : IPOf[c] = ip /\ pc[c] \notin {"idle", "adding"}}
Accepted == {c \in Clients : pc[c] = "accepted"}

(* Types; clients that are not there are not counted below zero.           *)
TypeOK ==
  /\ totalConnections \in Nat
  /\ clients \in [IPs -> Nat]
  /\ pc \in [Clients -> PCs]
  /\ sessions \in [Clients -> 0..MaxPerClient]
  /\ transfers \in [Clients -> 0..MaxPerClient]
  /\ isShuttingDown \in BOOLEAN

(* The atomic total and the counts under the lock are those of the clients *)
(* that are there, although clientsMap.add changes them at different times *)
(* and clientsMap.remove only takes out sources that have a key.           *)
ClientsExact ==
  /\ totalConnections = Cardinality(InTotal)
  /\ \A ip \in IPs : clients[ip] = Cardinality(InSource(ip))

(* Clients are counted before IsNewConnectionAllowed compares, so racing   *)
(* clients never exceed MaxTotalConnections: no lock is held over both.    *)
TotalLimit ==
  MaxTotalConnections > 0 => Cardinality(Accepted) <= MaxTotalConnections

(* The same for the clients of one address that is not in the safe list.   *)
HostLimit ==
  MaxPerHostConnections > 0 =>
    \A ip \in IPs \ SafeIPs :
      Cardinality({c \in Accepted : IPOf[c] = ip}) <= MaxPerHostConnections

(* No more clients are accepted than the configuration says, in total and  *)
(* from one address, however they race.                                    *)
LimitsKept == TotalLimit /\ HostLimit
=============================================================================

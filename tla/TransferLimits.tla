--------------------------- MODULE TransferLimits ---------------------------
(***************************************************************************)
(* The admission of transfers and the graceful shutdown.  A request for a  *)
(* transfer asks IsNewTransferAllowed, opens its file and is then added to *)
(* the transfers of its user, of its address and of its connection; when   *)
(* it ends it may start a hook in a goroutine of its own and is taken out  *)
(* of all three.  WaitForTransfers lets no new transfer in and polls the   *)
(* active hooks and the connections until nothing is left or the grace     *)
(* time is over; then the process exits.                                   *)
(***************************************************************************)
EXTENDS Integers, FiniteSets

CONSTANTS
  Requests,              \* goroutines that serve requests of connections
  Conns,                 \* connections in common.Connections
  ConnOf,                \* request -> its connection
  Users,
  UserOf,                \* connection -> its user
  IPs,
  IPOf,                  \* connection -> its remote address
  MaxSessions,           \* user -> User.MaxSessions, 0 for no limit
  MaxPerHostConnections, \* 0 for no limit
  MaxTotalConnections,   \* 0 for no limit
  Hooks                  \* goroutines of asynchronous hooks; bounds their number

ASSUME TransferLimitsAssumption ==
  /\ IsFiniteSet(Requests) /\ IsFiniteSet(Hooks)
  /\ ConnOf \in [Requests -> Conns]
  /\ UserOf \in [Conns -> Users]
  /\ IPOf \in [Conns -> IPs]
  /\ MaxSessions \in [Users -> Nat]
  /\ MaxPerHostConnections \in Nat /\ MaxTotalConnections \in Nat

VARIABLES
  totalTransfers,  \* transfers.totalConnections
  transfers,       \* transfers.clients: user -> count
  transfersPerIP,  \* transfersPerIP.clients: address -> count
  activeTransfers, \* connection -> its transfers
  pc,              \* request -> where its goroutine is
  hook,            \* hook -> none, spawned, running, ended
  activeHooks,
  isShuttingDown,
  wait,            \* where WaitForTransfers is
  toScan,          \* connections getActiveConnections has still to look at
  found,           \* it has found one with transfers
  existing,        \* auxiliary: transfers and running hooks when it was called
  existingHooks

counters == <<totalTransfers, transfers, transfersPerIP>>
hookVars == <<hook, activeHooks>>
waitVars == <<isShuttingDown, wait, toScan, found, existing, existingHooks>>
vars == <<counters, activeTransfers, pc, hookVars, waitVars>>

PCs == {"idle", "user", "ip", "total", "allowed", "counting", "counted",
        "listing", "open", "closing", "uncounted", "unlisting"}

User(r) == UserOf[ConnOf[r]]
IP(r)   == IPOf[ConnOf[r]]

(* os.Exit has not been called. *)
Running == wait \notin {"graceful", "hard"}

-----------------------------------------------------------------------------
(* IsNewTransferAllowed: each value is compared when it is read.           *)

Move(r, from, to) == pc[r] = from /\ pc' = [pc EXCEPT ![r] = to]

Unlimited(u) ==
  MaxTotalConnections = 0 /\ MaxPerHostConnections = 0 /\ MaxSessions[u] = 0

(* A request that finds the service closing is denied at once. *)
BeginTransfer(r) ==
  /\ ~isShuttingDown
  /\ Move(r, "idle", IF Unlimited(User(r)) THEN "allowed" ELSE "user")
  /\ UNCHANGED <<counters, activeTransfers, hookVars, waitVars>>

Compare(r, from, reached, to) ==
  /\ Move(r, from, IF reached THEN "idle" ELSE to)
  /\ UNCHANGED <<counters, activeTransfers, hookVars, waitVars>>

CompareUser(r) ==
  Compare(r, "user",
          MaxSessions[User(r)] > 0 /\ transfers[User(r)] >= MaxSessions[User(r)],
          "ip")

CompareIP(r) ==
  Compare(r, "ip",
          /\ MaxPerHostConnections > 0
          /\ transfersPerIP[IP(r)] >= MaxPerHostConnections,
          "total")

CompareTotal(r) ==
  Compare(r, "total",
          MaxTotalConnections > 0 /\ totalTransfers >= MaxTotalConnections,
          "allowed")

-----------------------------------------------------------------------------
(* NewBaseTransfer and AddTransfer                                         *)

(* The handler gives up: permission, quota, pre-action or file system.     *)
OpenFails(r) ==
  /\ Move(r, "allowed", "idle")
  /\ UNCHANGED <<counters, activeTransfers, hookVars, waitVars>>

(* The file is open; transfers.add has changed the total. *)
CountTotal(r) ==
  /\ Move(r, "allowed", "counting")
  /\ totalTransfers' = totalTransfers + 1
  /\ UNCHANGED <<transfers, transfersPerIP, activeTransfers, hookVars, waitVars>>

CountUser(r) ==
  /\ Move(r, "counting", "counted")
  /\ transfers' = [transfers EXCEPT ![User(r)] = @ + 1]
  /\ UNCHANGED <<totalTransfers, transfersPerIP, activeTransfers, hookVars, waitVars>>

CountIP(r) ==
  /\ Move(r, "counted", "listing")
  /\ transfersPerIP' = [transfersPerIP EXCEPT ![IP(r)] = @ + 1]
  /\ UNCHANGED <<totalTransfers, transfers, activeTransfers, hookVars, waitVars>>

List(r) ==
  /\ Move(r, "listing", "open")
  /\ activeTransfers' = [activeTransfers EXCEPT ![ConnOf[r]] = @ \cup {r}]
  /\ UNCHANGED <<counters, hookVars, waitVars>>

-----------------------------------------------------------------------------
(* BaseTransfer.Close, RemoveTransfer and the hook                         *)

(* The operation has a hook that is not executed synchronously, or not.    *)
Close(r) ==
  /\ Move(r, "open", "closing")
  /\ \/ UNCHANGED hook
     \/ \E h \in Hooks : hook[h] = "none" /\ hook' = [hook EXCEPT ![h] = "spawned"]
  /\ UNCHANGED <<counters, activeTransfers, activeHooks, waitVars>>

(* clientsMap.remove changes the count and the total under its lock. *)
UncountUser(r) ==
  /\ Move(r, "closing", "uncounted")
  /\ IF transfers[User(r)] > 0
     THEN /\ transfers' = [transfers EXCEPT ![User(r)] = @ - 1]
          /\ totalTransfers' = totalTransfers - 1
     ELSE UNCHANGED <<transfers, totalTransfers>>
  /\ UNCHANGED <<transfersPerIP, activeTransfers, hookVars, waitVars>>

(* Mutant: the address keeps its transfers.                                *)
UncountIPSkipped(r) ==
  /\ Move(r, "uncounted", "unlisting")
  /\ UNCHANGED <<counters, activeTransfers, hookVars, waitVars>>

UncountIP(r) ==
  /\ Move(r, "uncounted", "unlisting")
  /\ transfersPerIP' = IF transfersPerIP[IP(r)] > 0
                       THEN [transfersPerIP EXCEPT ![IP(r)] = @ - 1]
                       ELSE transfersPerIP
  /\ UNCHANGED <<totalTransfers, transfers, activeTransfers, hookVars, waitVars>>

Unlist(r) ==
  /\ Move(r, "unlisting", "idle")
  /\ activeTransfers' = [activeTransfers EXCEPT ![ConnOf[r]] = @ \ {r}]
  /\ UNCHANGED <<counters, hookVars, waitVars>>

(* Mutant: a hook that starts is not counted.                              *)
HookStartsUncounted(h) ==
  /\ hook[h] = "spawned" /\ hook' = [hook EXCEPT ![h] = "running"]
  /\ UNCHANGED <<activeHooks, counters, activeTransfers, pc, waitVars>>

(* startNewHook, in the goroutine of the hook. *)
HookStarts(h) ==
  /\ hook[h] = "spawned" /\ hook' = [hook EXCEPT ![h] = "running"]
  /\ activeHooks' = activeHooks + 1
  /\ UNCHANGED <<counters, activeTransfers, pc, waitVars>>

HookEnds(h) ==
  /\ hook[h] = "running" /\ hook' = [hook EXCEPT ![h] = "ended"]
  /\ activeHooks' = activeHooks - 1
  /\ UNCHANGED <<counters, activeTransfers, pc, waitVars>>

-----------------------------------------------------------------------------
(* WaitForTransfers                                                        *)

serving == <<counters, activeTransfers, pc, hookVars>>

(* The interrupt; a second call finds the flag set and returns. *)
Interrupt ==
  /\ ~isShuttingDown /\ isShuttingDown' = TRUE
  /\ wait' = "hooks"
  /\ existing' = UNION {activeTransfers[c] : c \in Conns}
  /\ existingHooks' = {h \in Hooks : hook[h] = "running"}
  /\ UNCHANGED <<toScan, found, serving>>

(* The connections are only looked at when no hook is active. *)
ReadHooks ==
  /\ wait = "hooks"
  /\ IF activeHooks = 0
     THEN wait' = "scan" /\ toScan' = Conns /\ found' = FALSE
     ELSE wait' = "waiting" /\ UNCHANGED <<toScan, found>>
  /\ UNCHANGED <<isShuttingDown, existing, existingHooks, serving>>

(* Mutant: the last connection decides.                                    *)
ScanConnectionLast(c) ==
  /\ wait = "scan" /\ c \in toScan
  /\ toScan' = toScan \ {c}
  /\ found' = (activeTransfers[c] # {})
  /\ UNCHANGED <<isShuttingDown, wait, existing, existingHooks, serving>>

(* getActiveConnections takes the lock of each connection in turn. *)
ScanConnection(c) ==
  /\ wait = "scan" /\ c \in toScan
  /\ toScan' = toScan \ {c}
  /\ found' = (found \/ activeTransfers[c] # {})
  /\ UNCHANGED <<isShuttingDown, wait, existing, existingHooks, serving>>

Scanned ==
  /\ wait = "scan" /\ toScan = {}
  /\ wait' = IF found THEN "waiting" ELSE "graceful"
  /\ UNCHANGED <<isShuttingDown, toScan, found, existing, existingHooks, serving>>

Tick ==
  /\ wait = "waiting" /\ wait' = "hooks"
  /\ UNCHANGED <<isShuttingDown, toScan, found, existing, existingHooks, serving>>

(* Mutant: the grace time does not end while there are transfers.          *)
GraceExpiresUnused ==
  /\ wait = "waiting" /\ ~found /\ wait' = "hard"
  /\ UNCHANGED <<isShuttingDown, toScan, found, existing, existingHooks, serving>>

GraceExpires ==
  /\ wait = "waiting" /\ wait' = "hard"
  /\ UNCHANGED <<isShuttingDown, toScan, found, existing, existingHooks, serving>>

-----------------------------------------------------------------------------
Init ==
  /\ totalTransfers = 0
  /\ transfers = [u \in Users |-> 0]
  /\ transfersPerIP = [ip \in IPs |-> 0]
  /\ activeTransfers = [c \in Conns |-> {}]
  /\ pc = [r \in Requests |-> "idle"]
  /\ hook = [h \in Hooks |-> "none"]
  /\ activeHooks = 0
  /\ isShuttingDown = FALSE
  /\ wait = "none"
  /\ toScan = {} /\ found = FALSE
  /\ existing = {} /\ existingHooks = {}

Transfer(r) ==
  \/ BeginTransfer(r) \/ CompareUser(r) \/ CompareIP(r) \/ CompareTotal(r)
  \/ OpenFails(r)
  \/ CountTotal(r) \/ CountUser(r) \/ CountIP(r) \/ List(r)
  \/ Close(r) \/ UncountUser(r) \/ UncountIP(r) \/ Unlist(r)

WaitForTransfers ==
  \/ Interrupt \/ ReadHooks
  \/ \E c \in Conns : ScanConnection(c)
  \/ Scanned \/ Tick \/ GraceExpires

Next ==
  /\ Running
  /\ \/ \E r \in Requests : Transfer(r)
     \/ \E h \in Hooks : HookStarts(h) \/ HookEnds(h)
     \/ WaitForTransfers

Spec == Init /\ [][Next]_vars

(* WaitForTransfers does not block but in its select, which picks any of   *)
(* the ready cases; nothing is assumed of the clients and the hooks.       *)
FairSpec ==
  /\ Spec
  /\ WF_vars(Running /\ (ReadHooks \/ Scanned \/ Tick \/ \E c \in Conns : ScanConnection(c)))
  /\ SF_vars(Running /\ GraceExpires)

-----------------------------------------------------------------------------
(* Properties                                                              *)

(* Requests whose transfer is counted: in all, for its user, its address.  *)
InTotal == {r \in Requests : pc[r] \in {"counting", "counted", "listing", "open", "closing"}}
OfUser(u) == {r \in Requests : User(r) = u
                /\ pc[r] \in {"counted", "listing", "open", "closing"}}
OfIP(ip)  == {r \in Requests : IP(r) = ip
                /\ pc[r] \in {"listing", "open", "closing", "uncounted"}}

TypeOK ==
  /\ totalTransfers \in Nat
  /\ transfers \in [Users -> Nat]
  /\ transfersPerIP \in [IPs -> Nat]
  /\ activeTransfers \in [Conns -> SUBSET Requests]
  /\ pc \in [Requests -> PCs]
  /\ hook \in [Hooks -> {"none", "spawned", "running", "ended"}]
  /\ activeHooks \in Nat
  /\ isShuttingDown \in BOOLEAN
  /\ wait \in {"none", "hooks", "scan", "waiting", "graceful", "hard"}
  /\ toScan \subseteq Conns /\ found \in BOOLEAN
  /\ existing \subseteq Requests /\ existingHooks \subseteq Hooks

(* Total, users, addresses and connections agree on the transfers although *)
(* AddTransfer and RemoveTransfer change them one after the other under    *)
(* different locks, and hooks are counted by goroutines of their own.      *)
TransfersExact ==
  /\ totalTransfers = Cardinality(InTotal)
  /\ \A u \in Users : transfers[u] = Cardinality(OfUser(u))
  /\ \A ip \in IPs : transfersPerIP[ip] = Cardinality(OfIP(ip))
  /\ \A c \in Conns :
       activeTransfers[c] = {r \in Requests : ConnOf[r] = c
          /\ pc[r] \in {"open", "closing", "uncounted", "unlisting"}}
  /\ activeHooks = Cardinality({h \in Hooks : hook[h] = "running"})

(* When WaitForTransfers returns before the grace time is over, the        *)
(* transfers and the hooks that ran when it was called have ended: no      *)
(* transfer is cut although the connections are looked at one at a time    *)
(* while others are still being added.                                     *)
GracefulExit ==
  wait = "graceful" =>
    /\ \A c \in Conns : existing \cap activeTransfers[c] = {}
    /\ \A h \in existingHooks : hook[h] = "ended"

(* WaitForTransfers returns, whatever clients and hooks do.                *)
ShutdownEnds == isShuttingDown ~> wait \in {"graceful", "hard"}

(* Transfers are limited by MaxPerHostConnections.                         *)
HostTransferLimit ==
  MaxPerHostConnections > 0 =>
    \A ip \in IPs : Cardinality(OfIP(ip)) <= MaxPerHostConnections
=============================================================================

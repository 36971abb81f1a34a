----------------------------- MODULE Connections -----------------------------
(***************************************************************************)
(* common.ActiveConnections and the protocol handlers that register their  *)
(* sessions in it.  The registry keeps its connections in a slice, a map   *)
(* from connection ids to slice positions, and a counter of sessions per   *)
(* user; removal moves the last element into the hole.  The handlers are   *)
(* goroutines: FTP clients (registered before they log in, swapped when    *)
(* they do), SSH connections with their SFTP channels and exec commands,   *)
(* and HTTP or WebDAV requests.                                            *)
(***************************************************************************)
EXTENDS Integers, Sequences, FiniteSets

CONSTANTS
  Users,         \* authenticated users
  NoUser,        \* the empty username
  NotRegistered, \* a value that is no user: the handler has no session
  MaxSessions,   \* user -> User.MaxSessions, 0 for no limit
  DeniedProtocols, \* user -> User.Filters.DeniedProtocols
  FTPHandlers,   \* FTP control connections
  WebHandlers,   \* HTTP and WebDAV requests
  SFTPHandlers,  \* SFTP subsystems and exec commands of SSH channels
  SSHConns,      \* SSH connections
  SSHOf,         \* SFTP handler -> its SSH connection
  Ids,           \* connection ids
  ConnID         \* handler -> id under which it registers

Handlers == FTPHandlers \cup WebHandlers \cup SFTPHandlers

ASSUME ConnectionsAssumption ==
  /\ NoUser \notin Users /\ NotRegistered \notin Users \cup {NoUser}
  /\ MaxSessions \in [Users -> Nat]
  /\ DeniedProtocols \in [Users -> SUBSET {"FTP", "SSH", "Web"}]
  /\ FTPHandlers \cap (WebHandlers \cup SFTPHandlers) = {}
  /\ WebHandlers \cap SFTPHandlers = {}
  /\ SSHConns \cap Handlers = {}
  /\ SSHOf \in [SFTPHandlers -> SSHConns]
  /\ ConnID \in [Handlers -> Ids]
  /\ IsFiniteSet(Handlers)

(* Every handler has an id of its own: what xid, cc.ID() and the channel   *)
(* counter give as long as a channel carries one request.                  *)
UniqueConnIDs == \A h, g \in Handlers : ConnID[h] = ConnID[g] => h = g

VARIABLES
  connections,    \* slice of [conn |-> handler, user |-> its username]
  mapping,        \* id -> position in connections, 0 when it has no key
  perUserConns,   \* user -> number of sessions, 0 when it has no key
  sshConnections, \* slice of SSH connections
  sshMapping,     \* SSH connection -> position, 0 when it has no key
  pc,             \* handler -> where its goroutine is
  login,          \* handler -> user it authenticated as
  closing,        \* handlers on which Disconnect was called
  sshState,       \* SSH connection -> idle, auth (handshake done), open
  sshUser,        \* SSH connection -> its authenticated user
  idleCheck       \* the goroutine in checkIdles

registry    == <<connections, mapping, perUserConns>>
sshRegistry == <<sshConnections, sshMapping>>
sshVars     == <<sshState, sshUser, idleCheck>>
vars == <<registry, sshRegistry, pc, login, closing, sshVars>>

(* The idle check holds the read lock (locked) while it reads activity     *)
(* times: toRead are the SSH connections and sessions its first loop has   *)
(* still to look at, toClose the SSH connections it found idle so far.     *)
(* The Close calls are deferred until the lock is gone.  steady is not in  *)
(* the code: sessions that will be active through all of this check.       *)
NoCheck == [locked |-> FALSE, toRead |-> {}, toClose |-> {}, steady |-> {}]

-----------------------------------------------------------------------------
(* The registry's own operations: each runs under the registry's lock, so  *)
(* none that writes runs while the idle check reads.                       *)

Unlocked == ~idleCheck.locked

addUserConnection(count, u) ==
  IF u = NoUser THEN count ELSE [count EXCEPT ![u] = @ + 1]

removeUserConnection(count, u) ==
  IF u = NoUser \/ count[u] = 0 THEN count ELSE [count EXCEPT ![u] = @ - 1]

(* Mutant: one session too many. *)
TooManySessionsByOne(count, u) ==
  u # NoUser /\ MaxSessions[u] > 0 /\ count[u] > MaxSessions[u]

TooManySessions(count, u) ==
  u # NoUser /\ MaxSessions[u] > 0 /\ count[u] >= MaxSessions[u]

(* Remove position idx of a slice by moving the last element into it. *)
Unordered(s, idx) ==
  [i \in 1..(Len(s) - 1) |-> IF i = idx THEN s[Len(s)] ELSE s[i]]

(* Mutant: the limit is only checked at login. *)
AddUnchecked(h, u) ==
  /\ perUserConns' = addUserConnection(perUserConns, u)
  /\ mapping' = [mapping EXCEPT ![ConnID[h]] = Len(connections) + 1]
  /\ connections' = Append(connections, [conn |-> h, user |-> u])

Add(h, u) ==
  /\ ~TooManySessions(perUserConns, u)
  /\ perUserConns' = addUserConnection(perUserConns, u)
  /\ mapping' = [mapping EXCEPT ![ConnID[h]] = Len(connections) + 1]
  /\ connections' = Append(connections, [conn |-> h, user |-> u])

SwapFound(h) == mapping[ConnID[h]] # 0

(* The counters once the swapped-out connection no longer counts. *)
WithoutOld(h) ==
  removeUserConnection(perUserConns, connections[mapping[ConnID[h]]].user)

Swap(h, u) ==
  /\ SwapFound(h)
  /\ ~TooManySessions(WithoutOld(h), u)
  /\ perUserConns' = addUserConnection(WithoutOld(h), u)
  /\ connections' =
       [connections EXCEPT ![mapping[ConnID[h]]] = [conn |-> h, user |-> u]]
  /\ UNCHANGED mapping

(* Mutant: a refused swap does not count the old connection again. *)
SwapRefusedUncounted(h, u) ==
  /\ SwapFound(h) => TooManySessions(WithoutOld(h), u)
  /\ perUserConns' = IF SwapFound(h) THEN WithoutOld(h) ELSE perUserConns
  /\ UNCHANGED <<connections, mapping>>

SwapRefused(h, u) ==
  /\ SwapFound(h) => TooManySessions(WithoutOld(h), u)
  /\ perUserConns' =
       IF SwapFound(h)
       THEN addUserConnection(WithoutOld(h),
                              connections[mapping[ConnID[h]]].user)
       ELSE perUserConns
  /\ UNCHANGED <<connections, mapping>>

(* Mutant: the moved connection keeps its old position in the map. *)
RemoveNotRemapped(id) ==
  IF mapping[id] = 0
  THEN UNCHANGED registry
  ELSE /\ connections' = Unordered(connections, mapping[id])
       /\ mapping' = [mapping EXCEPT ![id] = 0]
       /\ perUserConns' =
            removeUserConnection(perUserConns, connections[mapping[id]].user)

Remove(id) ==
  LET idx == mapping[id]
      lst == Len(connections)
      unmapped == [mapping EXCEPT ![id] = 0]
  IN  IF idx = 0
      THEN UNCHANGED registry
      ELSE /\ connections' = Unordered(connections, idx)
           /\ mapping' = IF idx = lst THEN unmapped
                         ELSE [unmapped EXCEPT ![ConnID[connections[lst].conn]] = idx]
           /\ perUserConns' =
                removeUserConnection(perUserConns, connections[idx].user)

AddSSHConnection(s) ==
  /\ sshMapping' = [sshMapping EXCEPT ![s] = Len(sshConnections) + 1]
  /\ sshConnections' = Append(sshConnections, s)

(* Mutant: the moved SSH connection keeps its old position in the map. *)
RemoveSSHNotRemapped(s) ==
  IF sshMapping[s] = 0
  THEN UNCHANGED sshRegistry
  ELSE /\ sshConnections' = Unordered(sshConnections, sshMapping[s])
       /\ sshMapping' = [sshMapping EXCEPT ![s] = 0]

RemoveSSHConnection(s) ==
  LET idx == sshMapping[s]
      lst == Len(sshConnections)
      unmapped == [sshMapping EXCEPT ![s] = 0]
  IN  IF idx = 0
      THEN UNCHANGED sshRegistry
      ELSE /\ sshConnections' = Unordered(sshConnections, idx)
           /\ sshMapping' = IF idx = lst THEN unmapped
                            ELSE [unmapped EXCEPT ![sshConnections[lst]] = idx]

-----------------------------------------------------------------------------
Registered == {connections[i].conn : i \in DOMAIN connections}
ChannelsOf(s) == {h \in SFTPHandlers : SSHOf[h] = s}

(* The check without its deferred call for s: it was made, or s is gone.   *)
Closed(s) ==
  IF idleCheck.toClose \subseteq {s} THEN NoCheck
  ELSE [idleCheck EXCEPT !.toClose = @ \ {s}]

Init ==
  /\ connections = <<>>
  /\ mapping = [id \in Ids |-> 0]
  /\ perUserConns = [u \in Users |-> 0]
  /\ sshConnections = <<>>
  /\ sshMapping = [s \in SSHConns |-> 0]
  /\ pc = [h \in Handlers |-> "idle"]
  /\ login = [h \in Handlers |-> NoUser]
  /\ closing = {}
  /\ sshState = [s \in SSHConns |-> "idle"]
  /\ sshUser = [s \in SSHConns |-> NoUser]
  /\ idleCheck = NoCheck

-----------------------------------------------------------------------------
(* FTP: a client registers when it connects, with no user.                 *)
FTPClientConnected(h) ==
  /\ pc[h] = "idle" /\ Unlocked
  /\ Add(h, NoUser)
  /\ pc' = [pc EXCEPT ![h] = "open"]
  /\ UNCHANGED <<sshRegistry, login, closing, sshVars>>

(* validateUser reads the session count before the swap takes the lock.    *)
(* An FTP client may authenticate again as another user.                   *)
FTPValidateUser(h, u) ==
  /\ pc[h] = "open"
  /\ IF "FTP" \in DeniedProtocols[u] \/ TooManySessions(perUserConns, u)
     THEN pc' = [pc EXCEPT ![h] = "ending"] /\ UNCHANGED login
     ELSE pc' = [pc EXCEPT ![h] = "checked"] /\ login' = [login EXCEPT ![h] = u]
  /\ UNCHANGED <<registry, sshRegistry, closing, sshVars>>

(* Mutant: the error of the swap is ignored. *)
FTPSwapIgnored(h) ==
  /\ pc[h] = "checked" /\ Unlocked
  /\ Swap(h, login[h]) \/ SwapRefused(h, login[h])
  /\ pc' = [pc EXCEPT ![h] = "open"]
  /\ UNCHANGED <<sshRegistry, login, closing, sshVars>>

FTPSwap(h) ==
  /\ pc[h] = "checked" /\ Unlocked
  /\ \/ Swap(h, login[h]) /\ pc' = [pc EXCEPT ![h] = "open"]
     \/ SwapRefused(h, login[h]) /\ pc' = [pc EXCEPT ![h] = "ending"]
  /\ UNCHANGED <<sshRegistry, login, closing, sshVars>>

(* HTTP and WebDAV: each request authenticates and registers a session;    *)
(* only Add looks at the session limit.                                    *)
WebRequest(h, u) ==
  /\ pc[h] = "idle" /\ "Web" \notin DeniedProtocols[u]
  /\ pc' = [pc EXCEPT ![h] = "checked"]
  /\ login' = [login EXCEPT ![h] = u]
  /\ UNCHANGED <<registry, sshRegistry, closing, sshVars>>

(* SSH: loginUser reads the session count during the handshake.  The id of *)
(* an SSH connection is never reused, so its slot is only once its         *)
(* channels are gone.                                                      *)
SSHLogin(s, u) ==
  /\ sshState[s] = "idle"
  /\ \A h \in ChannelsOf(s) : pc[h] = "idle"
  /\ "SSH" \notin DeniedProtocols[u] /\ ~TooManySessions(perUserConns, u)
  /\ sshState' = [sshState EXCEPT ![s] = "auth"]
  /\ sshUser' = [sshUser EXCEPT ![s] = u]
  /\ UNCHANGED <<registry, sshRegistry, pc, login, closing, idleCheck>>

(* After the handshake the root of the user is checked: the connection is  *)
(* registered, or dropped.                                                 *)
SSHHandshakeDone(s) ==
  /\ sshState[s] = "auth"
  /\ \/ Unlocked /\ AddSSHConnection(s) /\ sshState' = [sshState EXCEPT ![s] = "open"]
     \/ UNCHANGED sshRegistry /\ sshState' = [sshState EXCEPT ![s] = "idle"]
  /\ UNCHANGED <<registry, pc, login, closing, sshUser, idleCheck>>

(* A channel request of an open SSH connection starts a handler that works *)
(* for the user that authenticated it.                                     *)
ChannelRequest(h) ==
  /\ pc[h] = "idle"
  /\ sshState[SSHOf[h]] = "open"
  /\ pc' = [pc EXCEPT ![h] = "checked"]
  /\ login' = [login EXCEPT ![h] = sshUser[SSHOf[h]]]
  /\ UNCHANGED <<registry, sshRegistry, closing, sshVars>>

(* Mutant: the error of Add is ignored. *)
AddSessionIgnored(h) ==
  /\ pc[h] = "checked" /\ Unlocked
  /\ Add(h, login[h]) \/ (TooManySessions(perUserConns, login[h]) /\ UNCHANGED registry)
  /\ pc' = [pc EXCEPT ![h] = "open"]
  /\ UNCHANGED <<sshRegistry, login, closing, sshVars>>

AddSession(h) ==
  /\ pc[h] = "checked" /\ Unlocked
  /\ \/ Add(h, login[h]) /\ pc' = [pc EXCEPT ![h] = "open"] /\ UNCHANGED login
     \/ /\ TooManySessions(perUserConns, login[h])
        /\ pc' = [pc EXCEPT ![h] = "idle"]
        /\ login' = [login EXCEPT ![h] = NoUser]
        /\ UNCHANGED registry
  /\ closing' = IF pc'[h] = "idle" THEN closing \ {h} ELSE closing
  /\ UNCHANGED <<sshRegistry, sshVars>>

(* Mutant: a handler that was disconnected returns without Remove. *)
EndSessionNotRemoved(h) ==
  /\ pc[h] \in {"open", "ending"} /\ Unlocked
  /\ IF h \in closing THEN UNCHANGED registry ELSE Remove(ConnID[h])
  /\ pc' = [pc EXCEPT ![h] = "idle"]
  /\ login' = [login EXCEPT ![h] = NoUser]
  /\ closing' = closing \ {h}
  /\ idleCheck' = [idleCheck EXCEPT !.steady = @ \ {h}]
  /\ UNCHANGED <<sshRegistry, sshState, sshUser>>

(* The deferred Remove of every handler, and FTP's ClientDisconnected. *)
EndSession(h) ==
  /\ pc[h] \in {"open", "ending"} /\ Unlocked
  /\ Remove(ConnID[h])
  /\ pc' = [pc EXCEPT ![h] = "idle"]
  /\ login' = [login EXCEPT ![h] = NoUser]
  /\ closing' = closing \ {h}
  /\ idleCheck' = [idleCheck EXCEPT !.steady = @ \ {h}]
  /\ UNCHANGED <<sshRegistry, sshState, sshUser>>

(* The client closes the SSH connection, or Close was called on it: the    *)
(* channels it carries fail, their handlers end on their own.              *)
SSHEnd(s) ==
  /\ sshState[s] = "open" /\ Unlocked
  /\ RemoveSSHConnection(s)
  /\ sshState' = [sshState EXCEPT ![s] = "idle"]
  /\ sshUser' = [sshUser EXCEPT ![s] = NoUser]
  /\ closing' = closing \cup {h \in ChannelsOf(s) : pc[h] # "idle"}
  /\ idleCheck' = Closed(s)
  /\ UNCHANGED <<registry, pc, login>>

-----------------------------------------------------------------------------
(* An administrator closes a connection.  Close looks it up under the read *)
(* lock and calls Disconnect after unlocking: doing so late only matters   *)
(* while the handler still runs, and is then this same step.  So are the   *)
(* Disconnect calls of the idle check's second loop, which looks at each   *)
(* session on its own: idle, not logged in for long, or without access.    *)
Close(id) ==
  /\ mapping[id] # 0
  /\ closing' = closing \cup {connections[mapping[id]].conn}
  /\ UNCHANGED <<registry, sshRegistry, pc, login, sshVars>>

-----------------------------------------------------------------------------
(* The idle check, checkIdles.  Activity times are set without the lock    *)
(* (UpdateLastActivity), so a session may become active, or idle, between  *)
(* any two reads: each read finds either, unless the session is steady.    *)

(* It takes the read lock, until all is read: nobody writes the registry.  *)
CheckBegins(steady) ==
  /\ idleCheck = NoCheck /\ sshConnections # <<>>
  /\ idleCheck' = [locked |-> TRUE, toClose |-> {}, steady |-> steady,
                   toRead |-> {sshConnections[i] : i \in DOMAIN sshConnections}]
  /\ UNCHANGED <<registry, sshRegistry, pc, login, closing, sshState, sshUser>>

(* Mutant: only the activity of the SSH connection itself is looked at. *)
ReadSSHOnly(s, idle) ==
  /\ s \in idleCheck.toRead
  /\ idleCheck' = [idleCheck EXCEPT
       !.toRead = @ \ {s},
       !.toClose = IF idle THEN @ \cup {s} ELSE @]
  /\ UNCHANGED <<registry, sshRegistry, pc, login, closing, sshState, sshUser>>

(* One SSH connection after the other, with its sessions.                  *)
First(s) ==
  /\ s \in idleCheck.toRead /\ idleCheck.toRead \subseteq SSHConns
  /\ \A t \in idleCheck.toRead : sshMapping[s] <= sshMapping[t]

(* An SSH connection that is not idle stays.  Otherwise the sessions it    *)
(* has in the registry are looked at.                                      *)
ReadSSH(s, idle) ==
  /\ First(s)
  /\ idleCheck' =
       IF idle
       THEN [idleCheck EXCEPT
               !.toRead = (@ \ {s}) \cup (ChannelsOf(s) \cap Registered),
               !.toClose = @ \cup {s}]
       ELSE [idleCheck EXCEPT !.toRead = @ \ {s}]
  /\ UNCHANGED <<registry, sshRegistry, pc, login, closing, sshState, sshUser>>

(* The first session that is active keeps its SSH connection. *)
ReadSession(h, idle) ==
  LET s == SSHOf[h]
  IN /\ h \in idleCheck.toRead
     /\ h \in idleCheck.steady => ~idle
     /\ idleCheck' =
          IF idle
          THEN [idleCheck EXCEPT !.toRead = @ \ {h}]
          ELSE [idleCheck EXCEPT !.toRead = @ \ ChannelsOf(s), !.toClose = @ \ {s}]
     /\ UNCHANGED <<registry, sshRegistry, pc, login, closing, sshState, sshUser>>

(* The lock is given up. *)
CheckUnlocks ==
  /\ idleCheck.locked /\ idleCheck.toRead = {}
  /\ idleCheck' = IF idleCheck.toClose = {} THEN NoCheck
                  ELSE [idleCheck EXCEPT !.locked = FALSE, !.steady = @ \cap Registered]
  /\ UNCHANGED <<registry, sshRegistry, pc, login, closing, sshState, sshUser>>

(* The deferred Close calls: they look at no activity time any more. *)
CloseIdleSSH(s) ==
  /\ s \in idleCheck.toClose /\ Unlocked
  /\ closing' = closing \cup {h \in ChannelsOf(s) : pc[h] # "idle"}
  /\ idleCheck' = Closed(s)
  /\ UNCHANGED <<registry, sshRegistry, pc, login, sshState, sshUser>>

checkIdles ==
  \/ \E steady \in SUBSET SFTPHandlers : CheckBegins(steady)
  \/ \E idle \in BOOLEAN :
       \/ \E s \in SSHConns : ReadSSH(s, idle)
       \/ \E h \in SFTPHandlers : ReadSession(h, idle)
  \/ CheckUnlocks
  \/ \E s \in SSHConns : CloseIdleSSH(s)

-----------------------------------------------------------------------------
FTPNext(h) ==
  \/ FTPClientConnected(h)
  \/ \E u \in Users : FTPValidateUser(h, u)
  \/ FTPSwap(h)

Next ==
  \/ \E h \in FTPHandlers : FTPNext(h)
  \/ \E h \in WebHandlers, u \in Users : WebRequest(h, u)
  \/ \E h \in SFTPHandlers : ChannelRequest(h)
  \/ \E h \in WebHandlers \cup SFTPHandlers : AddSession(h)
  \/ \E h \in Handlers : EndSession(h)
  \/ \E s \in SSHConns : \E u \in Users : SSHLogin(s, u)
  \/ \E s \in SSHConns : SSHHandshakeDone(s)
  \/ \E s \in SSHConns : SSHEnd(s)
  \/ \E id \in Ids : Close(id)
  \/ checkIdles

Spec == Init /\ [][Next]_vars

(* A goroutine that can run does: the swap and the add block on nothing    *)
(* but the lock.  A session whose connection was closed ends: its server   *)
(* loop sees the error, at the latest when the commands it has read ahead  *)
(* (more logins, for FTP) are used up.  A client that is not disconnected  *)
(* may stay.                                                               *)
Fairness ==
  /\ \A h \in FTPHandlers : SF_vars(FTPSwap(h))
  /\ \A h \in Handlers :
       SF_vars((h \in closing \/ pc[h] = "ending") /\ EndSession(h))
  /\ WF_vars(checkIdles /\ idleCheck.locked)

FairSpec == Spec /\ Fairness

-----------------------------------------------------------------------------
TypeOK ==
  /\ connections \in Seq([conn : Handlers, user : Users \cup {NoUser}])
  /\ mapping \in [Ids -> Nat]
  /\ perUserConns \in [Users -> Nat]
  /\ sshConnections \in Seq(SSHConns)
  /\ sshMapping \in [SSHConns -> Nat]
  /\ pc \in [Handlers -> {"idle", "checked", "open", "ending"}]
  /\ login \in [Handlers -> Users \cup {NoUser}]
  /\ closing \subseteq Handlers
  /\ sshState \in [SSHConns -> {"idle", "auth", "open"}]
  /\ sshUser \in [SSHConns -> Users \cup {NoUser}]
  /\ idleCheck \in [locked : BOOLEAN, toRead : SUBSET (SSHConns \cup SFTPHandlers),
                    toClose : SUBSET SSHConns, steady : SUBSET SFTPHandlers]

(* The map and the slice describe the same connections, whatever the order *)
(* of adds, swaps and removals: each slice position is the one its id is   *)
(* mapped to, and each mapped position holds the connection with that id.  *)
MappingExact ==
  /\ \A i \in DOMAIN connections : mapping[ConnID[connections[i].conn]] = i
  /\ \A id \in Ids : mapping[id] # 0 =>
       /\ mapping[id] \in DOMAIN connections
       /\ ConnID[connections[mapping[id]].conn] = id

(* The same for the SSH connections' slice and map. *)
SSHMappingExact ==
  /\ \A i \in DOMAIN sshConnections : sshMapping[sshConnections[i]] = i
  /\ \A s \in SSHConns : sshMapping[s] # 0 =>
       /\ sshMapping[s] \in DOMAIN sshConnections
       /\ sshConnections[sshMapping[s]] = s

SessionsOf(u) ==
  {h \in Handlers : \E i \in DOMAIN connections : connections[i] = [conn |-> h, user |-> u]}

(* The per-user counter is the number of the user's registered             *)
(* connections: no refused swap, login as another user or late removal     *)
(* lets it drift.                                                          *)
UserCountExact == \A u \in Users : perUserConns[u] = Cardinality(SessionsOf(u))

(* A user never holds more sessions than MaxSessions, over all protocols,  *)
(* although logins check the count long before they register.              *)
SessionLimit ==
  \A u \in Users : MaxSessions[u] > 0 => Cardinality(SessionsOf(u)) <= MaxSessions[u]

(* A connection is in the registry exactly while its handler serves it:    *)
(* nothing is left behind by a handler that ran Remove.                    *)
NoGhostSessions ==
  \A h \in Handlers :
    h \in Registered <=>
      (pc[h] \in {"open", "ending"} \/ (h \in FTPHandlers /\ pc[h] = "checked"))

(* Once every handler is done the registry is empty again and no user is   *)
(* charged for a session.                                                  *)
AllReleased ==
  (\A h \in Handlers : pc[h] = "idle") =>
    connections = <<>> /\ \A u \in Users : perUserConns[u] = 0

(* A session of an authenticated user is registered under the user that    *)
(* the handler authenticated as, also after a login that was refused.      *)
SessionUser ==
  \A h \in Handlers : (pc[h] = "open" /\ h \in Registered) =>
    [conn |-> h, user |-> login[h]] \in {connections[i] : i \in DOMAIN connections}

(* The idle check never takes the SSH connection from a session that is    *)
(* active whenever it looks: however its reads interleave with sessions    *)
(* that start, end or go idle, with other closes, and with the calls that  *)
(* wait for the lock to be given up.                                       *)
NoActiveSessionCut ==
  [][\A s \in SSHConns : CloseIdleSSH(s) =>
       ChannelsOf(s) \cap idleCheck.steady = {}]_vars

(* A connection that was told to disconnect leaves the registry: none is   *)
(* for ever both.                                                          *)
DisconnectEnds == \A h \in Handlers : []<>(h \notin closing \cap Registered)

(* The registry implements the abstract session table. *)
Table == INSTANCE SessionRegistry WITH
  session <- [h \in Handlers |->
                IF mapping[ConnID[h]] = 0 THEN NotRegistered
                ELSE connections[mapping[ConnID[h]]].user]

(* Every step of the code is a session opened, changed or closed within    *)
(* the limits, or no change of the session table.                          *)
TableSpec == Table!Spec
=============================================================================

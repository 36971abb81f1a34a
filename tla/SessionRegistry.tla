--------------------------- MODULE SessionRegistry ---------------------------
(***************************************************************************)
(* What the registry of active connections promises, without its slice,    *)
(* its map and its counters: a table that gives each connection handler    *)
(* the user it works for, in which a user with a limit never holds more    *)
(* sessions than that limit.  Connections.tla implements it.               *)
(***************************************************************************)
EXTENDS Integers, FiniteSets

CONSTANTS
  Handlers,      \* the goroutines that serve a session
  Users,         \* authenticated users
  NoUser,        \* the empty username of an FTP client that has not logged in
  NotRegistered, \* the handler is not in the registry
  MaxSessions    \* user -> maximum number of sessions, 0 for no limit

VARIABLE session \* handler -> the user of its registered connection

SessionsOf(u) == {h \in Handlers : session[h] = u}

(* The user may hold a session on h besides the ones of the other handlers. *)
MayHold(h, u) ==
  (u \in Users /\ MaxSessions[u] > 0)
    => Cardinality(SessionsOf(u) \ {h}) < MaxSessions[u]

Init == session = [h \in Handlers |-> NotRegistered]

Open(h, u) ==
  /\ session[h] = NotRegistered
  /\ MayHold(h, u)
  /\ session' = [session EXCEPT ![h] = u]

Login(h, u) ==
  /\ session[h] # NotRegistered
  /\ MayHold(h, u)
  /\ session' = [session EXCEPT ![h] = u]

Close(h) ==
  /\ session[h] # NotRegistered
  /\ session' = [session EXCEPT ![h] = NotRegistered]

Next ==
  \E h \in Handlers :
    \/ \E u \in Users \cup {NoUser} : Open(h, u)
    \/ \E u \in Users : Login(h, u)
    \/ Close(h)

Spec == Init /\ [][Next]_session

=============================================================================

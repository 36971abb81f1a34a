---------------------------- MODULE SFTPConnections ----------------------------
(***************************************************************************)
(* The connections of the SFTP storage backend to one server.  File        *)
(* systems (SFTPFs) of that server share connections through a cache, up   *)
(* to maxSessionsPerConnection sessions each; a connection dials its       *)
(* client when it is needed, a goroutine waits for the end of each client, *)
(* and a periodic cleanup evicts connections without sessions.  A file     *)
(* system is used by one or more of a user's connections (the channels of  *)
(* an SSH connection share them), and all file systems of a user's         *)
(* connection have the same session id.                                    *)
(***************************************************************************)
EXTENDS Integers, FiniteSets

CONSTANTS
  Fss,        \* file systems, each opened once
  Users,      \* connections of users, which open and close file systems
  UsedBy,     \* file system -> the users it is shared by
  Sessions, SessionOf, \* file system -> its session id
  MaxClients, \* bounds the clients ever dialed
  maxSessionsPerConnection

ASSUME PoolAssumption ==
  /\ IsFiniteSet(Fss) /\ "none" \notin Fss
  /\ UsedBy \in [Fss -> SUBSET Users] /\ \A f \in Fss : UsedBy[f] # {}
  /\ SessionOf \in [Fss -> Sessions]
  /\ MaxClients \in Nat /\ maxSessionsPerConnection \in Nat \ {0}

VARIABLES
  fs,       \* file system -> its state, connection and users
  conn,     \* sftpConnection, named after the file system it is made for
  items,    \* partition -> the cached connection
  closing,  \* connectionsToClose
  client    \* client -> its connection, link, and the goroutine that waits;
            \* late is what NoLeak tells apart, and not in the code

vars == <<fs, conn, items, closing, client>>

Clients    == 1..MaxClients
Partitions == 1..Cardinality(Fss)
None       == "none"

(* "cut": the channel is over and the SSH connection is not. *)
Links   == {"none", "up", "hung", "cut", "closed"}
Open(k) == client[k].link \in {"up", "hung", "cut"}

InUse(f)    == fs[f].state = "open"
Cached(c)   == \E p \in Partitions : items[p] = c
Unused      == {k \in Clients : client[k].link = "none"}
Current(c)  == conn[c].client
Known(k)    == \E c \in Fss : conn[c].isConnected /\ Current(c) = k

-----------------------------------------------------------------------------
(* sftpConnection: every operation holds its lock                          *)

newSFTPConnection(session) ==
  [isConnected |-> FALSE, client |-> 0, sessions |-> {session}, old |-> FALSE]

RemoveSession(c, session) ==
  LET left == conn[c].sessions \ {session}
  IN [conn[c] EXCEPT !.sessions = left, !.old = @ /\ left # {}]

(* The connection was evicted and closed, without the session of f. *)
Late(f) ==
  LET c == fs[f].conn
  IN ~Cached(c) /\ c \notin closing /\ SessionOf[f] \notin conn[c].sessions

(* A client is dialed and its goroutine started. *)
Dial(f) ==
  LET c == fs[f].conn IN
  \E k \in Unused :
    /\ \A l \in Unused : k <= l
    /\ conn' = [conn EXCEPT ![c].isConnected = TRUE, ![c].client = k]
    /\ client' = [client EXCEPT ![k] =
         [conn |-> c, link |-> "up", wait |-> "starting", waits |-> 0, late |-> Late(f)]]

(* openConnNoLock: a client that is there is taken as it is. *)
openConnNoLock(f) ==
  IF conn[fs[f].conn].isConnected THEN UNCHANGED <<conn, client>> ELSE Dial(f)

CloseClient(k) ==
  IF k # 0 /\ Open(k) THEN [client EXCEPT ![k].link = "closed"] ELSE client

-----------------------------------------------------------------------------
(* File systems                                                            *)

HasRoom(p) ==
  \/ items[p] = None
  \/ items[p] # None /\ Cardinality(conn[items[p]].sessions) < maxSessionsPerConnection

(* Mutant: the session is only registered with a new connection. *)
GetWithoutSession(f) ==
  /\ fs[f].state = "none"
  /\ \E p \in Partitions :
       /\ HasRoom(p) /\ \A q \in 1..(p - 1) : ~HasRoom(q)
       /\ LET c == IF items[p] = None THEN f ELSE items[p] IN
          /\ fs' = [fs EXCEPT ![f] =
               [state |-> "got", conn |-> c, users |-> UsedBy[f]]]
          /\ items' = [items EXCEPT ![p] = c]
          /\ conn' = IF items[p] = None
                     THEN [conn EXCEPT ![c] = newSFTPConnection(SessionOf[f])]
                     ELSE conn
  /\ UNCHANGED <<closing, client>>

(* The connection of the first partition with room, or a new one. *)
Get(f) ==
  /\ fs[f].state = "none"
  /\ \E p \in Partitions :
       /\ HasRoom(p) /\ \A q \in 1..(p - 1) : ~HasRoom(q)
       /\ LET c == IF items[p] = None THEN f ELSE items[p] IN
          /\ fs' = [fs EXCEPT ![f] =
               [state |-> "got", conn |-> c, users |-> UsedBy[f]]]
          /\ items' = [items EXCEPT ![p] = c]
          /\ conn' = IF items[p] = None
                     THEN [conn EXCEPT ![c] = newSFTPConnection(SessionOf[f])]
                     ELSE [conn EXCEPT ![c].sessions = @ \union {SessionOf[f]}]
  /\ UNCHANGED <<closing, client>>

OpenConnection(f) ==
  /\ fs[f].state = "got"
  /\ fs' = [fs EXCEPT ![f].state = "open"]
  /\ openConnNoLock(f)
  /\ UNCHANGED <<items, closing>>

OpenConnectionFails(f) ==
  /\ fs[f].state = "got" /\ ~conn[fs[f].conn].isConnected
  /\ fs' = [fs EXCEPT ![f].state = "failed"]
  /\ UNCHANGED <<conn, items, closing, client>>

(* Mutant: what NewSFTPFs returns with an error is not closed. *)
FailedStays(f) ==
  /\ fs[f].state = "failed"
  /\ fs' = [fs EXCEPT ![f].state = "closed", ![f].users = {}]
  /\ UNCHANGED <<conn, items, closing, client>>

(* NewSFTPFs closes it. *)
CloseFailed(f) ==
  /\ fs[f].state = "failed"
  /\ fs' = [fs EXCEPT ![f].state = "closed", ![f].users = {}]
  /\ conn' = [conn EXCEPT ![fs[f].conn] = RemoveSession(fs[f].conn, SessionOf[f])]
  /\ UNCHANGED <<items, closing, client>>

(* An operation finds the client gone and dials, or fails. *)
getClient(f) ==
  /\ InUse(f) /\ openConnNoLock(f)
  /\ UNCHANGED <<fs, items, closing>>

(* CloseFs of a user's connection: every file system it knows is closed,   *)
(* whoever else uses it.  The file systems are closed one after another.   *)
CloseFs(u) ==
  LET mine == {f \in Fss : u \in fs[f].users} IN
  /\ mine # {} /\ \A f \in mine : InUse(f)
  /\ fs' = [f \in Fss |->
       IF f \notin mine THEN fs[f]
       ELSE [fs[f] EXCEPT !.users = @ \ {u},
                          !.state = IF fs[f].users = {u} THEN "closed" ELSE @]]
  /\ conn' = [c \in Fss |->
       LET left == conn[c].sessions \ {SessionOf[f] : f \in {g \in mine : fs[g].conn = c}}
       IN IF \E f \in mine : fs[f].conn = c
          THEN [conn[c] EXCEPT !.sessions = left, !.old = @ /\ left # {}]
          ELSE conn[c]]
  /\ UNCHANGED <<items, closing, client>>

-----------------------------------------------------------------------------
(* The goroutine of each client                                            *)

(* Which client it waits for is read when the goroutine starts. *)
WaitBegins(k) ==
  /\ client[k].wait = "starting"
  /\ client' = [client EXCEPT ![k].wait = "waiting", ![k].waits = Current(client[k].conn)]
  /\ UNCHANGED <<fs, conn, items, closing>>

(* The watchdog gets no answer and closes the SSH connection. *)
Watchdog(k) ==
  LET now == Current(client[k].conn) IN
  /\ client[k].wait = "waiting" /\ client[now].link = "hung"
  /\ client' = [client EXCEPT ![now].link = "closed"]
  /\ UNCHANGED <<fs, conn, items, closing>>

(* Mutant: the connection is not marked. *)
WaitForgets(k) ==
  /\ client[k].wait = "waiting" /\ client[client[k].waits].link \in {"cut", "closed"}
  /\ client' = [CloseClient(Current(client[k].conn)) EXCEPT ![k].wait = "over", ![k].waits = 0]
  /\ UNCHANGED <<fs, conn, items, closing>>

(* It closes the connection's client, which may be another by now. *)
WaitEnds(k) ==
  /\ client[k].wait = "waiting" /\ client[client[k].waits].link \in {"cut", "closed"}
  /\ conn' = [conn EXCEPT ![client[k].conn].isConnected = FALSE]
  /\ client' = [CloseClient(Current(client[k].conn)) EXCEPT ![k].wait = "over", ![k].waits = 0]
  /\ UNCHANGED <<fs, items, closing>>

-----------------------------------------------------------------------------
(* The cleanup                                                             *)

Cleanup ==
  LET evicted == {c \in Fss : Cached(c) /\ conn[c].sessions = {} /\ conn[c].old} IN
  /\ evicted # {}
  /\ items' = [p \in Partitions |-> IF items[p] \in evicted THEN None ELSE items[p]]
  /\ closing' = closing \union evicted
  /\ UNCHANGED <<fs, conn, client>>

(* Mutant: what the cleanup evicts is not closed. *)
CloseForgets(c, sftpErr) ==
  /\ c \in closing /\ closing' = closing \ {c}
  /\ Current(c) = 0 => ~sftpErr
  /\ UNCHANGED <<fs, conn, items, client>>

(* Close: the connection stays marked when closing the channel fails. *)
CloseConn(c, sftpErr) ==
  /\ c \in closing /\ closing' = closing \ {c}
  /\ Current(c) = 0 => ~sftpErr
  /\ conn' = IF sftpErr THEN conn ELSE [conn EXCEPT ![c].isConnected = FALSE]
  /\ client' = CloseClient(Current(c))
  /\ UNCHANGED <<fs, items>>

-----------------------------------------------------------------------------
(* The environment                                                         *)

(* 30 seconds without activity. *)
Ages(c) ==
  /\ Cached(c) /\ conn[c].sessions = {} /\ ~conn[c].old
  /\ conn' = [conn EXCEPT ![c].old = TRUE]
  /\ UNCHANGED <<fs, items, closing, client>>

(* The server stops answering, closes the channel, or goes away: then too  *)
(* the SSH client is still to be closed.                                   *)
Breaks(k, link) ==
  /\ client[k].link = "up"
  /\ client' = [client EXCEPT ![k].link = link]
  /\ UNCHANGED <<fs, conn, items, closing>>

-----------------------------------------------------------------------------
Init ==
  /\ fs = [f \in Fss |-> [state |-> "none", conn |-> None, users |-> {}]]
  /\ conn = [c \in Fss |->
       [isConnected |-> FALSE, client |-> 0, sessions |-> {}, old |-> FALSE]]
  /\ items = [p \in Partitions |-> None]
  /\ closing = {}
  /\ client = [k \in Clients |->
       [conn |-> None, link |-> "none", wait |-> "over", waits |-> 0,
        late |-> FALSE]]

Next ==
  \/ \E f \in Fss :
       Get(f) \/ OpenConnection(f) \/ OpenConnectionFails(f) \/ CloseFailed(f) \/ getClient(f)
  \/ \E u \in Users : CloseFs(u)
  \/ \E k \in Clients : WaitBegins(k) \/ Watchdog(k) \/ WaitEnds(k)
  \/ Cleanup
  \/ \E c \in Fss : Ages(c) \/ \E sftpErr \in BOOLEAN : CloseConn(c, sftpErr)
  \/ \E k \in Clients, link \in {"hung", "cut"} : Breaks(k, link)

Spec == Init /\ [][Next]_vars

(* What goes on by itself: NewSFTPFs, the goroutines of a client, time.    *)
Opens(f) == OpenConnection(f) \/ OpenConnectionFails(f) \/ CloseFailed(f)
Waits(k) == WaitBegins(k) \/ Watchdog(k) \/ WaitEnds(k)
Goes(c)  == Ages(c) \/ \E sftpErr \in BOOLEAN : CloseConn(c, sftpErr)

(* The cleanup is periodic; users and servers do as they like. *)
Fairness ==
  /\ \A f \in Fss : WF_vars(Opens(f)) /\ WF_vars(Goes(f))
  /\ \A k \in Clients : WF_vars(Waits(k))
  /\ WF_vars(Cleanup)

FairSpec == Spec /\ Fairness

-----------------------------------------------------------------------------
(* Properties                                                              *)

TypeOK ==
  /\ fs \in [Fss -> [state : {"none", "got", "open", "failed", "closed"},
                     conn : Fss \union {None}, users : SUBSET Users]]
  /\ conn \in [Fss -> [isConnected : BOOLEAN, client : Clients \union {0},
                       sessions : SUBSET Sessions, old : BOOLEAN]]
  /\ items \in [Partitions -> Fss \union {None}]
  /\ closing \in SUBSET Fss
  /\ client \in [Clients -> [conn : Fss \union {None}, link : Links,
                             wait : {"starting", "waiting", "over"},
                             waits : Clients \union {0}, late : BOOLEAN]]

(* A file system's session has been removed by a user that shares it, or   *)
(* with another file system of the same session id.                        *)
Dropped(f) ==
  \E g \in Fss :
    /\ fs[g].conn = fs[f].conn /\ SessionOf[g] = SessionOf[f]
    /\ fs[g].users # UsedBy[g]

(* The connection of a file system in use is never evicted, however many   *)
(* others open, fail and close next to it (Get, RemoveSession, Cleanup),   *)
(* as long as no one has dropped its session.                              *)
InUseKept ==
  \A f \in Fss :
    (fs[f].state \in {"got", "open"} /\ ~Dropped(f)) =>
      Cached(fs[f].conn) /\ SessionOf[f] \in conn[fs[f].conn].sessions

(* No SSH connection to the server is left behind: one that is open is the *)
(* one its sftpConnection knows, and cached or about to be closed, except  *)
(* one that a file system dials whose session was dropped (getClient),     *)
(* after the cleanup has evicted and closed the connection.                *)
NoLeak ==
  \A k \in Clients : Open(k) =>
    LET c == client[k].conn
    IN Known(k) /\ (Cached(c) \/ c \in closing \/ client[k].late)

(* A connection that no file system uses any more is closed, if nothing    *)
(* uses it again, after whatever failed.                                   *)
Reclaimed ==
  \A k \in Clients :
    (Open(k) /\ Cached(client[k].conn)
     /\ \A f \in Fss : fs[f].conn = client[k].conn => fs[f].state = "closed")
    ~> \/ ~Open(k)
       \/ \E f \in Fss : fs[f].conn = client[k].conn /\ fs[f].state # "closed"

(* A client that is over, or does not answer, is noticed: the next         *)
(* operation on the connection dials again.                                *)
LossNoticed ==
  \A k \in Clients :
    (Known(k) /\ client[k].link # "up") ~> ~Known(k)
=============================================================================

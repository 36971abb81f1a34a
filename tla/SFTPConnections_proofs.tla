------------------------ MODULE SFTPConnections_proofs ------------------------
(* Proofs about SFTPConnections, for any file systems, users and sessions,   *)
(* shared in any way, and any number of clients.                             *)
EXTENDS SFTPConnections, TLAPS

File == [state : {"none", "got", "open", "failed", "closed"},
         conn : Fss \union {None}, users : SUBSET Users]
Conn == [isConnected : BOOLEAN, client : Clients \union {0},
         sessions : SUBSET Sessions, old : BOOLEAN]
Client == [conn : Fss \union {None}, link : Links,
           wait : {"starting", "waiting", "over"}, waits : Clients \union {0},
           late : BOOLEAN]

(* A file system has a connection from Get on, and loses users, ...        *)
Files ==
  \A f \in Fss : /\ fs[f].users \subseteq UsedBy[f]
                 /\ fs[f].state = "none" => fs[f].conn = None
                 /\ fs[f].state # "none" => fs[f].conn \in Fss

(* ... a connection is made once, by the file system it is named after, ...*)
Made ==
  \A c \in Fss : fs[c].state = "none" =>
    /\ \A g \in Fss : fs[g].conn # c
    /\ \A p \in Partitions : items[p] # c
    /\ \A k \in Clients : client[k].conn # c

(* ... and of its clients only the current one is open.                    *)
OpenKnown ==
  \A k \in Clients : Open(k) =>
    /\ client[k].conn \in Fss
    /\ conn[client[k].conn].isConnected /\ conn[client[k].conn].client = k

(* The goroutines wait for clients of connections. *)
Waiting == \A k \in Clients : client[k].wait # "over" => client[k].conn \in Fss

(* A connection has sessions only while it is cached: they come with Get.  *)
SessionsCached == \A c \in Fss : conn[c].sessions # {} => Cached(c)

Reachable ==
  \A k \in Clients : Open(k) =>
    Cached(client[k].conn) \/ client[k].conn \in closing \/ client[k].late

IInv == /\ TypeOK /\ Files /\ Made /\ InUseKept /\ OpenKnown /\ Waiting
        /\ SessionsCached /\ Reachable

LEMMA Pool ==
  /\ None \notin Fss /\ \A f \in Fss : UsedBy[f] # {} /\ UsedBy[f] \subseteq Users
  /\ \A f \in Fss : SessionOf[f] \in Sessions
  /\ Clients \subseteq Nat \ {0}
BY PoolAssumption DEF None, Clients

LEMMA TypeParts ==
  TypeOK <=> /\ fs \in [Fss -> File] /\ conn \in [Fss -> Conn]
             /\ items \in [Partitions -> Fss \union {None}]
             /\ closing \in SUBSET Fss /\ client \in [Clients -> Client]
BY DEF TypeOK, File, Conn, Client

LEMMA Initially == Init => IInv
<1> SUFFICES ASSUME Init PROVE IInv
  OBVIOUS
<1>1. TypeOK
  <2>1. [state |-> "none", conn |-> None, users |-> {}] \in File
    BY DEF File
  <2>2. [isConnected |-> FALSE, client |-> 0, sessions |-> {}, old |-> FALSE] \in Conn
    BY DEF Conn
  <2>3. [conn |-> None, link |-> "none", wait |-> "over", waits |-> 0,
         late |-> FALSE] \in Client
    BY DEF Client, Links
  <2>4. QED
    BY <2>1, <2>2, <2>3, TypeParts DEF Init
<1>2. Files /\ Made
  BY Pool DEF Init, Files, Made
<1>3. InUseKept
  BY DEF Init, InUseKept
<1>4. OpenKnown /\ Waiting /\ SessionsCached /\ Reachable
  BY DEF Init, OpenKnown, Waiting, SessionsCached, Reachable, Open
<1>5. QED
  BY <1>1, <1>2, <1>3, <1>4 DEF IInv

(* Closing a client changes its link and nothing else. *)
LEMMA Closes ==
  ASSUME TypeOK, NEW k \in Clients \union {0}
  PROVE /\ CloseClient(k) \in [Clients -> Client]
        /\ \A l \in Clients :
             /\ CloseClient(k)[l].conn = client[l].conn
             /\ CloseClient(k)[l].wait = client[l].wait
             /\ CloseClient(k)[l].late = client[l].late
             /\ CloseClient(k)[l].link = client[l].link
                \/ (l = k /\ CloseClient(k)[l].link = "closed")
             /\ l = k => CloseClient(k)[l].link \notin {"up", "hung", "cut"}
<1>1. client \in [Clients -> Client] /\ 0 \notin Clients
  BY TypeParts, Pool
<1>2. CASE k # 0 /\ Open(k)
  <2>1. CloseClient(k) = [client EXCEPT ![k].link = "closed"] /\ k \in Clients
    BY <1>2 DEF CloseClient
  <2>2. QED
    BY <1>1, <2>1 DEF Client, Links
<1>3. CASE ~(k # 0 /\ Open(k))
  <2>1. CloseClient(k) = client
    BY <1>3 DEF CloseClient
  <2>2. QED
    BY <1>1, <1>3, <2>1 DEF Client, Open
<1>4. QED
  BY <1>2, <1>3

(* What dialing changes: a client that was not there is now the open one   *)
(* of its connection.                                                      *)
LEMMA Dials ==
  ASSUME TypeOK, NEW f \in Fss, NEW c \in Fss, c = fs[f].conn, Dial(f)
  PROVE \E k \in Clients :
    /\ client[k].link = "none"
    /\ conn' \in [Fss -> Conn] /\ client' \in [Clients -> Client]
    /\ client'[k].conn = c /\ client'[k].link = "up" /\ client'[k].late = Late(f)
    /\ conn'[c].isConnected /\ conn'[c].client = k
    /\ \A l \in Clients \ {k} : client'[l] = client[l]
    /\ \A d \in Fss \ {c} : conn'[d] = conn[d]
    /\ conn'[c].sessions = conn[c].sessions
<1>1. PICK k \in Unused :
        /\ conn' = [conn EXCEPT ![c].isConnected = TRUE, ![c].client = k]
        /\ client' = [client EXCEPT ![k] =
             [conn |-> c, link |-> "up", wait |-> "starting", waits |-> 0,
              late |-> Late(f)]]
  BY DEF Dial
<1>2. k \in Clients /\ client[k].link = "none"
  BY DEF Unused
<1>3. conn \in [Fss -> Conn] /\ client \in [Clients -> Client]
  BY TypeParts
<1>4. [conn |-> c, link |-> "up", wait |-> "starting", waits |-> 0, late |-> Late(f)] \in Client
  <2>1. Late(f) \in BOOLEAN
    BY DEF Late
  <2> QED BY <2>1 DEF Client, Links
<1>5. /\ client' \in [Clients -> Client]
      /\ client'[k].conn = c /\ client'[k].link = "up" /\ client'[k].late = Late(f)
  BY <1>1, <1>2, <1>3, <1>4
<1>6. conn' \in [Fss -> Conn] /\ conn'[c].isConnected /\ conn'[c].client = k
      /\ conn'[c].sessions = conn[c].sessions
  BY <1>1, <1>2, <1>3 DEF Conn
<1>7. /\ \A l \in Clients \ {k} : client'[l] = client[l]
      /\ \A d \in Fss \ {c} : conn'[d] = conn[d]
  BY <1>1, <1>2, <1>3
<1>8. QED
  BY <1>2, <1>5, <1>6, <1>7

-----------------------------------------------------------------------------
(* Steps that change clients, the marks of connections and nothing of what *)
(* file systems and the cache hold: the goroutines, Close, the environment.*)
LEMMA Losing ==
  ASSUME IInv, UNCHANGED <<fs, items>>,
         conn' \in [Fss -> Conn], client' \in [Clients -> Client], closing' \in SUBSET Fss,
         \A c \in Fss : conn'[c].client = conn[c].client /\ conn'[c].sessions = conn[c].sessions,
         \A k \in Clients : /\ client'[k].conn = client[k].conn
                            /\ client'[k].late = client[k].late
                            /\ client'[k].wait # "over" => client[k].wait # "over",
         \A k \in Clients : Open(k)' =>
           /\ Open(k)
           /\ conn'[client[k].conn].isConnected = conn[client[k].conn].isConnected
           /\ client[k].conn \in closing => client[k].conn \in closing'
  PROVE  IInv'
<1>1. TypeOK'
  BY DEF IInv, TypeOK, Conn, Client
<1>2. Files' /\ Made'
  BY DEF IInv, Files, Made
<1>3. InUseKept'
  BY TypeParts, Pool DEF IInv, InUseKept, Dropped, Cached, Files
<1>4. OpenKnown' /\ Waiting'
  BY DEF IInv, OpenKnown, Waiting
<1>5. SessionsCached' /\ Reachable'
  BY DEF IInv, SessionsCached, Reachable, Cached
<1>6. QED
  BY <1>1, <1>2, <1>3, <1>4, <1>5 DEF IInv

(* Steps of a file system that opens or is used: it keeps its connection,  *)
(* and that connection may dial.                                           *)
LEMMA Opening ==
  ASSUME IInv, NEW f \in Fss, fs[f].state \in {"got", "open"},
         UNCHANGED <<items, closing>>, fs' \in [Fss -> File],
         \A g \in Fss : /\ fs'[g].conn = fs[g].conn /\ fs'[g].users = fs[g].users
                        /\ \/ fs'[g].state = fs[g].state
                           \/ fs[g].state = "got" /\ fs'[g].state \in {"open", "failed"},
         UNCHANGED <<conn, client>> \/ (~conn[fs[f].conn].isConnected /\ Dial(f))
  PROVE  IInv'
<1>1. fs[f].conn \in Fss
  BY DEF IInv, Files
<1>2. Files'
  BY DEF IInv, Files
<1>3. CASE UNCHANGED <<conn, client>>
  <2>1. TypeOK' /\ Made'
    BY <1>3 DEF IInv, TypeOK, File, Made
  <2>2. InUseKept'
    BY <1>3 DEF IInv, InUseKept, Dropped, Cached
  <2>3. OpenKnown' /\ Waiting' /\ SessionsCached' /\ Reachable'
    BY <1>3 DEF IInv, OpenKnown, Waiting, SessionsCached, Reachable, Open, Cached
  <2>4. QED
    BY <1>2, <2>1, <2>2, <2>3 DEF IInv
<1>4. CASE ~conn[fs[f].conn].isConnected /\ Dial(f)
  <2> DEFINE c == fs[f].conn
  <2>1. PICK k \in Clients :
          /\ client[k].link = "none"
          /\ conn' \in [Fss -> Conn] /\ client' \in [Clients -> Client]
          /\ client'[k].conn = c /\ client'[k].link = "up" /\ client'[k].late = Late(f)
          /\ conn'[c].isConnected /\ conn'[c].client = k
          /\ \A l \in Clients \ {k} : client'[l] = client[l]
          /\ \A d \in Fss \ {c} : conn'[d] = conn[d]
          /\ conn'[c].sessions = conn[c].sessions
    BY <1>1, <1>4, Dials DEF IInv
  <2>2. TypeOK'
    BY <2>1 DEF IInv, TypeOK, File, Conn, Client
  <2>3. Made'
    <3>1. fs[c].state # "none"
      BY <1>1 DEF IInv, Made
    <3>2. QED
      BY <2>1, <3>1 DEF IInv, Made
  <2>4. InUseKept'
    BY <1>1, <2>1 DEF IInv, InUseKept, Dropped, Cached, Files
  <2>5. \A l \in Clients \ {k} : Open(l)' => Open(l) /\ client[l].conn # c
    BY <1>4, <2>1 DEF IInv, OpenKnown, Open
  <2>6. OpenKnown' /\ Waiting'
    BY <1>1, <2>1, <2>5 DEF IInv, OpenKnown, Waiting
  <2>7. \A d \in Fss : (Cached(d)' <=> Cached(d)) /\ (d \in closing' <=> d \in closing)
    BY DEF Cached
  <2>8. SessionsCached'
    <3>1. \A d \in Fss : conn'[d].sessions = conn[d].sessions
      BY <2>1
    <3>2. QED
      BY <2>7, <3>1 DEF IInv, SessionsCached
  <2>9. Reachable'
    <3> SUFFICES ASSUME NEW l \in Clients, Open(l)'
                 PROVE  (Cached(client[l].conn) \/ client[l].conn \in closing \/ client[l].late)'
      BY DEF Reachable
    <3>1. CASE l = k
      <4>1. Cached(c) \/ c \in closing \/ Late(f)
        BY <1>1 DEF IInv, SessionsCached, Late
      <4>2. QED
        BY <1>1, <2>1, <2>7, <3>1, <4>1
    <3>2. CASE l # k
      <4>1. /\ client'[l] = client[l] /\ client[l].conn \in Fss
            /\ Cached(client[l].conn) \/ client[l].conn \in closing \/ client[l].late
        BY <2>1, <2>5, <3>2 DEF IInv, Reachable, OpenKnown
      <4>2. QED
        BY <2>7, <4>1
    <3>3. QED
      BY <3>1, <3>2
  <2>10. QED
    BY <1>2, <2>2, <2>3, <2>4, <2>6, <2>8, <2>9 DEF IInv
<1>5. QED
  BY <1>3, <1>4

-----------------------------------------------------------------------------
LEMMA GetStep == ASSUME IInv, NEW f \in Fss, Get(f) PROVE IInv'
<1>1. fs[f].state = "none" /\ UNCHANGED <<closing, client>>
  BY DEF Get
<1>2. PICK p \in Partitions :
        LET c == IF items[p] = None THEN f ELSE items[p] IN
        /\ fs' = [fs EXCEPT ![f] = [state |-> "got", conn |-> c, users |-> UsedBy[f]]]
        /\ items' = [items EXCEPT ![p] = c]
        /\ conn' = IF items[p] = None
                   THEN [conn EXCEPT ![c] = newSFTPConnection(SessionOf[f])]
                   ELSE [conn EXCEPT ![c].sessions = @ \union {SessionOf[f]}]
  BY DEF Get
<1> DEFINE c == IF items[p] = None THEN f ELSE items[p]
<1>3. /\ fs \in [Fss -> File] /\ conn \in [Fss -> Conn]
      /\ items \in [Partitions -> Fss \union {None}]
  BY TypeParts DEF IInv
<1>4. c \in Fss /\ c # None
  BY <1>3, Pool
<1>5. [state |-> "got", conn |-> c, users |-> UsedBy[f]] \in File
  BY <1>4, Pool DEF File
<1>6. fs' \in [Fss -> File] /\ items' \in [Partitions -> Fss \union {None}]
  BY <1>2, <1>3, <1>4, <1>5
<1>7. /\ fs'[f].state = "got" /\ fs'[f].conn = c /\ fs'[f].users = UsedBy[f]
      /\ \A g \in Fss \ {f} : fs'[g] = fs[g]
  BY <1>2, <1>3
<1>8. items'[p] = c /\ \A q \in Partitions \ {p} : items'[q] = items[q]
  BY <1>2, <1>3
<1>9. \A q \in Partitions : items[q] \in Fss => fs[items[q]].state # "none"
  BY DEF IInv, Made
(* A new connection, or a session more on one that is cached. *)
<1>10. /\ conn' \in [Fss -> Conn] /\ \A d \in Fss \ {c} : conn'[d] = conn[d]
       /\ SessionOf[f] \in conn'[c].sessions
       /\ items[p] # None => /\ c # f /\ conn[c].sessions \subseteq conn'[c].sessions
                             /\ conn'[c].isConnected = conn[c].isConnected
                             /\ conn'[c].client = conn[c].client
  <2>1. CASE items[p] = None
    <3>1. newSFTPConnection(SessionOf[f]) \in Conn
          /\ newSFTPConnection(SessionOf[f]).sessions = {SessionOf[f]}
      BY Pool DEF newSFTPConnection, Conn
    <3>2. QED
      BY <1>2, <1>3, <1>4, <2>1, <3>1
  <2>2. CASE items[p] # None
    <3>1. c # f
      BY <1>1, <1>3, <1>9, <2>2
    <3>2. conn' = [conn EXCEPT ![c].sessions = @ \union {SessionOf[f]}]
      BY <1>2, <2>2
    <3>3. QED
      BY <1>3, <1>4, <3>1, <3>2, Pool DEF Conn
  <2>3. QED
    BY <2>1, <2>2
<1>11. \A d \in Fss : fs[d].state = "none" /\ d = c => d = f /\ items[p] = None
  BY <1>3, <1>9
<1>12. /\ \A g \in Fss : fs[g].conn # f
       /\ \A q \in Partitions : items[q] # f
       /\ \A k \in Clients : client[k].conn # f
  BY <1>1 DEF IInv, Made
<1>13. TypeOK'
  BY <1>1, <1>6, <1>10 DEF IInv, TypeOK, File, Conn
<1>14. Files'
  BY <1>4, <1>7 DEF IInv, Files
<1>15. Made'
  <2> SUFFICES ASSUME NEW d \in Fss, fs'[d].state = "none"
               PROVE  /\ \A g \in Fss : fs'[g].conn # d
                      /\ \A q \in Partitions : items'[q] # d
                      /\ \A k \in Clients : client'[k].conn # d
    BY DEF Made
  <2>1. d # f /\ fs[d].state = "none"
    BY <1>7
  <2>2. d # c
    BY <1>11, <2>1
  <2>3. QED
    BY <1>1, <1>7, <1>8, <2>1, <2>2 DEF IInv, Made
<1>16. \A g \in Fss \ {f} : fs[g].state # "none" => conn[fs[g].conn].sessions \subseteq conn'[fs[g].conn].sessions
  BY <1>10, <1>12 DEF IInv, Files
<1>17. \A d \in Fss : Cached(d) => Cached(d)'
  BY <1>4, <1>8, Pool DEF Cached
<1>18. InUseKept'
  <2> SUFFICES ASSUME NEW g \in Fss, fs'[g].state \in {"got", "open"}, ~Dropped(g)'
               PROVE  (Cached(fs[g].conn) /\ SessionOf[g] \in conn[fs[g].conn].sessions)'
    BY DEF InUseKept
  <2>1. CASE g = f
    BY <1>7, <1>8, <1>10, <2>1 DEF Cached
  <2>2. CASE g # f
    <3>1. ~Dropped(g)
      <4> SUFFICES ASSUME NEW h \in Fss, fs[h].conn = fs[g].conn, SessionOf[h] = SessionOf[g]
                   PROVE  fs[h].users = UsedBy[h]
        BY DEF Dropped
      <4>1. fs[g].conn \in Fss
        BY <1>7, <2>2 DEF IInv, Files
      <4>2. h # f
        BY <1>1, <4>1, Pool DEF IInv, Files
      <4>3. QED
        BY <1>7, <2>2, <4>2 DEF Dropped
    <3>2. Cached(fs[g].conn) /\ SessionOf[g] \in conn[fs[g].conn].sessions
      BY <1>7, <2>2, <3>1 DEF IInv, InUseKept
    <3>3. fs[g].conn \in Fss /\ fs[g].state # "none"
      BY <1>7, <2>2 DEF IInv, Files
    <3>4. QED
      BY <1>7, <1>16, <1>17, <2>2, <3>2, <3>3
  <2>3. QED
    BY <2>1, <2>2
<1>19. \A k \in Clients : (Open(k))' <=> Open(k)
  BY <1>1 DEF Open
<1>20. OpenKnown' /\ Waiting'
  BY <1>1, <1>10, <1>12, <1>19 DEF IInv, OpenKnown, Waiting
<1>21. SessionsCached'
  <2> SUFFICES ASSUME NEW d \in Fss, conn'[d].sessions # {} PROVE Cached(d)'
    BY DEF SessionsCached
  <2>1. CASE d = c
    <3>1. items'[p] = d
      BY <1>8, <2>1
    <3>2. QED
      BY <3>1 DEF Cached
  <2>2. CASE d # c
    <3>1. conn'[d] = conn[d]
      BY <1>10, <2>2
    <3>2. QED
      BY <1>17, <3>1 DEF IInv, SessionsCached
  <2>3. QED
    BY <2>1, <2>2
<1>22. Reachable'
  BY <1>1, <1>17, <1>19 DEF IInv, Reachable, OpenKnown
<1>23. QED
  BY <1>13, <1>14, <1>15, <1>18, <1>20, <1>21, <1>22 DEF IInv

LEMMA CloseFailedStep == ASSUME IInv, NEW f \in Fss, CloseFailed(f) PROVE IInv'
<1> DEFINE c == fs[f].conn
<1>1. /\ fs[f].state = "failed" /\ UNCHANGED <<items, closing, client>>
      /\ fs' = [fs EXCEPT ![f].state = "closed", ![f].users = {}]
      /\ conn' = [conn EXCEPT ![c] = RemoveSession(c, SessionOf[f])]
  BY DEF CloseFailed
<1>2. c \in Fss /\ fs \in [Fss -> File] /\ conn \in [Fss -> Conn]
  BY <1>1, TypeParts DEF IInv, Files
<1>3. /\ fs' \in [Fss -> File] /\ \A g \in Fss : fs'[g].conn = fs[g].conn
      /\ fs'[f].state = "closed" /\ fs'[f].users = {}
      /\ \A g \in Fss \ {f} : fs'[g] = fs[g]
  BY <1>1, <1>2 DEF File
<1>4. /\ conn' \in [Fss -> Conn]
      /\ conn'[c].sessions = conn[c].sessions \ {SessionOf[f]}
      /\ conn'[c].isConnected = conn[c].isConnected /\ conn'[c].client = conn[c].client
      /\ \A d \in Fss \ {c} : conn'[d] = conn[d]
  <2> DEFINE r == RemoveSession(c, SessionOf[f])
  <2>1. conn[c] \in Conn
    BY <1>2
  <2>2. /\ r \in Conn /\ r.sessions = conn[c].sessions \ {SessionOf[f]}
        /\ r.isConnected = conn[c].isConnected /\ r.client = conn[c].client
    BY <2>1 DEF RemoveSession, Conn
  <2> HIDE DEF r
  <2>3. conn' = [conn EXCEPT ![c] = r]
    BY <1>1 DEF r
  <2>4. conn' \in [Fss -> Conn] /\ conn'[c] = r
    BY <1>2, <2>2, <2>3
  <2>5. \A d \in Fss \ {c} : conn'[d] = conn[d]
    BY <1>2, <2>3
  <2>6. QED
    BY <2>2, <2>4, <2>5
<1>5. TypeOK'
  BY <1>1, <1>3, <1>4 DEF IInv, TypeOK, File, Conn
<1>6. Files' /\ Made'
  BY <1>1, <1>3 DEF IInv, Files, Made
<1>7. \A g \in Fss : Dropped(g) => Dropped(g)'
  BY <1>3, Pool DEF Dropped
<1>8. \A g \in Fss : (fs[g].conn = c /\ SessionOf[g] = SessionOf[f]) => Dropped(g)'
  BY <1>3, Pool DEF Dropped
<1>9. InUseKept'
  <2> SUFFICES ASSUME NEW g \in Fss, fs'[g].state \in {"got", "open"}, ~Dropped(g)'
               PROVE  (Cached(fs[g].conn) /\ SessionOf[g] \in conn[fs[g].conn].sessions)'
    BY DEF InUseKept
  <2>1. fs'[g] = fs[g] /\ ~Dropped(g)
    BY <1>3, <1>7
  <2>2. Cached(fs[g].conn) /\ SessionOf[g] \in conn[fs[g].conn].sessions /\ fs[g].conn \in Fss
    BY <2>1 DEF IInv, InUseKept, Files
  <2>3. fs[g].conn # c \/ SessionOf[g] # SessionOf[f]
    BY <1>8
  <2>4. QED
    BY <1>1, <1>4, <2>1, <2>2, <2>3 DEF Cached
<1>10. OpenKnown' /\ Waiting'
  BY <1>1, <1>4 DEF IInv, OpenKnown, Waiting, Open
<1>11. SessionsCached' /\ Reachable'
  <2>1. \A d \in Fss : conn'[d].sessions \subseteq conn[d].sessions
    BY <1>4
  <2>2. QED
    BY <1>1, <2>1 DEF IInv, SessionsCached, Reachable, Open, Cached
<1>12. QED
  BY <1>5, <1>6, <1>9, <1>10, <1>11 DEF IInv

LEMMA CloseFsStep == ASSUME IInv, NEW u \in Users, CloseFs(u) PROVE IInv'
<1> DEFINE mine == {f \in Fss : u \in fs[f].users}
           left(c) == conn[c].sessions \ {SessionOf[f] : f \in {g \in mine : fs[g].conn = c}}
<1>1. /\ \A f \in mine : fs[f].state = "open"
      /\ fs' = [f \in Fss |->
           IF f \notin mine THEN fs[f]
           ELSE [fs[f] EXCEPT !.users = @ \ {u},
                              !.state = IF fs[f].users = {u} THEN "closed" ELSE @]]
      /\ conn' = [c \in Fss |->
           IF \E f \in mine : fs[f].conn = c
           THEN [conn[c] EXCEPT !.sessions = left(c), !.old = @ /\ left(c) # {}]
           ELSE conn[c]]
      /\ UNCHANGED <<items, closing, client>>
  BY DEF CloseFs, InUse
<1>same. items' = items /\ closing' = closing /\ client' = client
  BY <1>1
<1>2. fs \in [Fss -> File] /\ conn \in [Fss -> Conn]
  BY TypeParts DEF IInv
<1>3. /\ fs' \in [Fss -> File]
      /\ \A g \in Fss \ mine : fs'[g] = fs[g]
      /\ \A g \in mine : /\ fs'[g].conn = fs[g].conn /\ fs'[g].users = fs[g].users \ {u}
                         /\ fs'[g].state \in {"open", "closed"}
  BY <1>1, <1>2 DEF File
<1>4. \A g \in mine : fs'[g].users # UsedBy[g] /\ fs[g].users \subseteq UsedBy[g]
  BY <1>3 DEF IInv, Files
<1>5. \A c \in Fss : /\ conn'[c] \in Conn /\ conn'[c].client = conn[c].client
                    /\ conn'[c].isConnected = conn[c].isConnected
                    /\ left(c) \subseteq conn'[c].sessions
                    /\ conn'[c].sessions \subseteq conn[c].sessions
  <2> SUFFICES ASSUME NEW c \in Fss
               PROVE  /\ conn'[c] \in Conn /\ conn'[c].client = conn[c].client
                      /\ conn'[c].isConnected = conn[c].isConnected
                      /\ left(c) \subseteq conn'[c].sessions
                      /\ conn'[c].sessions \subseteq conn[c].sessions
    OBVIOUS
  <2>1. left(c) \subseteq conn[c].sessions
    OBVIOUS
  <2> HIDE DEF left, mine
  <2>2. conn[c] \in Conn
    BY <1>2
  <2>3. CASE \E f \in mine : fs[f].conn = c
    <3>1. conn'[c] = [conn[c] EXCEPT !.sessions = left(c), !.old = @ /\ left(c) # {}]
      BY <1>1, <2>3
    <3>2. QED
      BY <2>1, <2>2, <3>1 DEF Conn
  <2>4. CASE ~\E f \in mine : fs[f].conn = c
    <3>1. conn'[c] = conn[c]
      BY <1>1, <2>4
    <3>2. QED
      BY <2>1, <2>2, <3>1
  <2>5. QED
    BY <2>3, <2>4
<1>6. conn' \in [Fss -> Conn]
  <2> HIDE DEF left, mine
  <2>1. QED
    BY <1>1, <1>5
<1>7. TypeOK'
  BY <1>same, <1>3, <1>6 DEF IInv, TypeOK, File, Conn
<1>8. Files' /\ Made'
  <2>1. Files'
    <3>1. \A f \in mine : fs[f].state = "open"
      BY <1>1
    <3> HIDE DEF mine
    <3>2. QED
      BY <1>3, <1>4, <3>1 DEF IInv, Files
  <2>2. \A g \in Fss : fs'[g].conn = fs[g].conn /\ (fs'[g].state = "none" => fs[g].state = "none")
    BY <1>3
  <2>3. Made'
    BY <1>same, <2>2 DEF IInv, Made
  <2>4. QED
    BY <2>1, <2>3
<1>9. \A g \in Fss : Dropped(g) => Dropped(g)'
  BY <1>3, <1>4 DEF Dropped
<1>10. \A g \in Fss, f \in mine :
         (fs[f].conn = fs[g].conn /\ SessionOf[f] = SessionOf[g]) => Dropped(g)'
  BY <1>3, <1>4 DEF Dropped
<1>11. InUseKept'
  <2> SUFFICES ASSUME NEW g \in Fss, fs'[g].state \in {"got", "open"}, ~Dropped(g)'
               PROVE  (Cached(fs[g].conn) /\ SessionOf[g] \in conn[fs[g].conn].sessions)'
    BY DEF InUseKept
  <2>1. g \notin mine
    BY <1>10
  <2>2. fs'[g] = fs[g] /\ ~Dropped(g)
    BY <1>3, <1>9, <2>1
  <2>3. Cached(fs[g].conn) /\ SessionOf[g] \in conn[fs[g].conn].sessions /\ fs[g].conn \in Fss
    BY <2>2 DEF IInv, InUseKept, Files
  <2>4. SessionOf[g] \in left(fs[g].conn)
    BY <1>10, <2>3
  <2>5. SessionOf[g] \in conn'[fs[g].conn].sessions
    BY <1>5, <2>3, <2>4
  <2>6. QED
    BY <1>same, <2>2, <2>3, <2>5 DEF Cached
<1>12. OpenKnown' /\ Waiting'
  BY <1>same, <1>5 DEF IInv, OpenKnown, Waiting, Open
<1>13. SessionsCached'
  <2>1. \A c \in Fss : conn'[c].sessions \subseteq conn[c].sessions
    BY <1>5
  <2>2. QED
    BY <1>same, <2>1 DEF IInv, SessionsCached, Cached
<1>14. Reachable'
  BY <1>same DEF IInv, Reachable, OpenKnown, Open, Cached
<1>15. QED
  BY <1>7, <1>8, <1>11, <1>12, <1>13, <1>14 DEF IInv

LEMMA CleanupStep == ASSUME IInv, Cleanup PROVE IInv'
<1> DEFINE evicted == {c \in Fss : Cached(c) /\ conn[c].sessions = {} /\ conn[c].old}
<1>1. /\ items' = [p \in Partitions |-> IF items[p] \in evicted THEN None ELSE items[p]]
      /\ closing' = closing \union evicted /\ UNCHANGED <<fs, conn, client>>
  BY DEF Cleanup
<1>2. items \in [Partitions -> Fss \union {None}]
  BY TypeParts DEF IInv
<1>3. evicted \subseteq Fss
  OBVIOUS
<1>4. \A p \in Partitions : items'[p] = items[p] \/ (items[p] \in evicted /\ items'[p] = None)
  BY <1>1
<1>5. \A c \in Fss \ evicted : Cached(c) => Cached(c)'
  BY <1>1 DEF Cached
<1>6. TypeOK'
  BY <1>1, <1>2, <1>3 DEF IInv, TypeOK, Conn, File, Client
<1>7. Files' /\ Made'
  BY <1>1, <1>4, Pool DEF IInv, Files, Made
<1>8. InUseKept'
  <2> SUFFICES ASSUME NEW g \in Fss, fs[g].state \in {"got", "open"}, ~Dropped(g)
               PROVE  Cached(fs[g].conn)' /\ SessionOf[g] \in conn[fs[g].conn].sessions
    BY <1>1 DEF InUseKept, Dropped, Cached
  <2>1. Cached(fs[g].conn) /\ SessionOf[g] \in conn[fs[g].conn].sessions /\ fs[g].conn \in Fss
    BY DEF IInv, InUseKept, Files
  <2>2. fs[g].conn \notin evicted
    BY <2>1
  <2>3. QED
    BY <1>1, <1>5, <2>1, <2>2 DEF Cached
<1>9. OpenKnown' /\ Waiting'
  BY <1>1 DEF IInv, OpenKnown, Waiting, Open
<1>10. SessionsCached' /\ Reachable'
  <2>1. SessionsCached'
    BY <1>1, <1>5 DEF IInv, SessionsCached
  <2>2. Reachable'
    BY <1>1, <1>5 DEF IInv, Reachable, OpenKnown, Open
  <2>3. QED
    BY <2>1, <2>2
<1>11. QED
  BY <1>6, <1>7, <1>8, <1>9, <1>10 DEF IInv

LEMMA FileSteps ==
  ASSUME IInv, NEW f \in Fss,
         OpenConnection(f) \/ OpenConnectionFails(f) \/ getClient(f)
  PROVE  IInv'
<1>1. fs \in [Fss -> File]
  BY TypeParts DEF IInv
<1>2. CASE OpenConnection(f)
  <2>1. /\ fs[f].state = "got" /\ fs' = [fs EXCEPT ![f].state = "open"]
        /\ UNCHANGED <<items, closing>>
        /\ UNCHANGED <<conn, client>> \/ (~conn[fs[f].conn].isConnected /\ Dial(f))
    BY <1>2 DEF OpenConnection, openConnNoLock
  <2>2. /\ fs' \in [Fss -> File]
        /\ \A g \in Fss : /\ fs'[g].conn = fs[g].conn /\ fs'[g].users = fs[g].users
                          /\ \/ fs'[g].state = fs[g].state
                             \/ fs[g].state = "got" /\ fs'[g].state \in {"open", "failed"}
    BY <1>1, <2>1 DEF File
  <2>3. QED
    BY <2>1, <2>2, Opening
<1>3. CASE OpenConnectionFails(f)
  <2>1. /\ fs[f].state = "got" /\ fs' = [fs EXCEPT ![f].state = "failed"]
        /\ UNCHANGED <<items, closing>> /\ UNCHANGED <<conn, client>>
    BY <1>3 DEF OpenConnectionFails
  <2>2. /\ fs' \in [Fss -> File]
        /\ \A g \in Fss : /\ fs'[g].conn = fs[g].conn /\ fs'[g].users = fs[g].users
                          /\ \/ fs'[g].state = fs[g].state
                             \/ fs[g].state = "got" /\ fs'[g].state \in {"open", "failed"}
    BY <1>1, <2>1 DEF File
  <2>3. QED
    BY <2>1, <2>2, Opening
<1>4. CASE getClient(f)
  <2>1. /\ fs[f].state = "open" /\ UNCHANGED fs /\ UNCHANGED <<items, closing>>
        /\ UNCHANGED <<conn, client>> \/ (~conn[fs[f].conn].isConnected /\ Dial(f))
    BY <1>4 DEF getClient, InUse, openConnNoLock
  <2>2. QED
    BY <1>1, <2>1, Opening
<1>5. QED
  BY <1>2, <1>3, <1>4

LEMMA ClientSteps ==
  ASSUME IInv, NEW k \in Clients,
         \/ WaitBegins(k) \/ Watchdog(k) \/ WaitEnds(k)
         \/ \E link \in {"hung", "cut"} : Breaks(k, link)
  PROVE  IInv'
<1>1. /\ client \in [Clients -> Client] /\ conn \in [Fss -> Conn] /\ closing \in SUBSET Fss
      /\ TypeOK /\ 0 \notin Clients
      /\ client[k].wait # "over" => client[k].conn \in Fss
  BY TypeParts, Pool DEF IInv, Waiting
<1>2. CASE WaitBegins(k)
  <2>1. /\ client[k].wait = "starting" /\ UNCHANGED <<fs, conn, items, closing>>
        /\ client' = [client EXCEPT ![k].wait = "waiting", ![k].waits = Current(client[k].conn)]
    BY <1>2 DEF WaitBegins
  <2>2. Current(client[k].conn) \in Clients \union {0}
    BY <1>1, <2>1 DEF Current, Conn
  <2>3. QED
    BY <1>1, <2>1, <2>2, Losing DEF Client, Open
<1>3. CASE Watchdog(k)
  <2> DEFINE now == Current(client[k].conn)
  <2>1. /\ UNCHANGED <<fs, conn, items, closing>>
        /\ client' = [client EXCEPT ![now].link = "closed"]
    BY <1>3 DEF Watchdog
  <2>2. client' \in [Clients -> Client]
    BY <1>1, <2>1 DEF Client, Links
  <2>3. \A l \in Clients : /\ client'[l].conn = client[l].conn /\ client'[l].wait = client[l].wait
                         /\ client'[l].late = client[l].late
                         /\ Open(l)' => Open(l)
    BY <1>1, <2>1 DEF Client, Open
  <2>4. QED
    BY <1>1, <2>1, <2>2, <2>3, Losing
<1>4. CASE WaitEnds(k)
  <2> DEFINE c == client[k].conn
             cc == CloseClient(Current(c))
  <2>1. /\ UNCHANGED <<fs, items, closing>>
        /\ conn' = [conn EXCEPT ![c].isConnected = FALSE]
        /\ client' = [cc EXCEPT ![k].wait = "over", ![k].waits = 0]
    BY <1>4 DEF WaitEnds
  <2>2. conn' \in [Fss -> Conn]
        /\ \A d \in Fss : /\ conn'[d].client = conn[d].client /\ conn'[d].sessions = conn[d].sessions
                          /\ d # c => conn'[d] = conn[d]
    BY <1>1, <2>1 DEF Conn
  <2>3. c \in Fss
    BY <1>1, <1>4 DEF WaitEnds
  <2>4. Current(c) \in Clients \union {0}
    BY <1>1, <2>3 DEF Current, Conn
  <2>5. /\ cc \in [Clients -> Client]
        /\ \A l \in Clients :
             /\ cc[l].conn = client[l].conn /\ cc[l].wait = client[l].wait
             /\ cc[l].late = client[l].late
             /\ cc[l].link = client[l].link \/ (l = Current(c) /\ cc[l].link = "closed")
             /\ l = Current(c) => cc[l].link \notin {"up", "hung", "cut"}
    BY <1>1, <2>4, Closes
  <2> HIDE DEF cc
  <2>6. /\ client' \in [Clients -> Client]
        /\ \A l \in Clients : /\ client'[l].conn = cc[l].conn /\ client'[l].link = cc[l].link
                             /\ client'[l].late = cc[l].late
                             /\ client'[l].wait \in {cc[l].wait, "over"}
    <3>1. \A l \in Clients : cc[l] \in Client
      BY <2>5
    <3>2. \A l \in Clients : l # k => client'[l] = cc[l]
      BY <2>1, <2>5
    <3>3. client'[k] = [cc[k] EXCEPT !.wait = "over", !.waits = 0]
      BY <1>1, <2>1, <2>5
    <3>4. /\ client'[k] \in Client /\ client'[k].wait = "over"
          /\ client'[k].conn = cc[k].conn /\ client'[k].link = cc[k].link
          /\ client'[k].late = cc[k].late
      BY <1>1, <3>1, <3>3 DEF Client
    <3>5. client' = [l \in Clients |-> client'[l]]
      BY <2>1, <2>5
    <3>6. client' \in [Clients -> Client]
      <4>1. \A l \in Clients : client'[l] \in Client
        BY <3>1, <3>2, <3>4
      <4>2. QED
        BY <3>5, <4>1
    <3>7. QED
      BY <3>2, <3>4, <3>6
  <2>7. \A l \in Clients : Open(l)' => Open(l) /\ l # Current(c)
    BY <2>5, <2>6 DEF Open
  <2>8. \A l \in Clients : Open(l)' => client[l].conn # c /\ client[l].conn \in Fss
    BY <2>7 DEF IInv, OpenKnown, Current
  <2>9. \A l \in Clients : /\ client'[l].conn = client[l].conn
                           /\ client'[l].late = client[l].late
                           /\ client'[l].wait # "over" => client[l].wait # "over"
    BY <2>5, <2>6
  <2>10. \A l \in Clients : Open(l)' =>
          /\ Open(l)
          /\ conn'[client[l].conn].isConnected = conn[client[l].conn].isConnected
          /\ client[l].conn \in closing => client[l].conn \in closing'
    BY <2>1, <2>2, <2>7, <2>8
  <2>11. closing' \in SUBSET Fss /\ UNCHANGED <<fs, items>>
    BY <1>1, <2>1
  <2>12. conn' \in [Fss -> Conn] /\ client' \in [Clients -> Client]
         /\ \A d \in Fss : conn'[d].client = conn[d].client /\ conn'[d].sessions = conn[d].sessions
    BY <2>2, <2>6
  <2>13. QED
    BY <2>9, <2>10, <2>11, <2>12, Losing
<1>5. ASSUME NEW link \in {"hung", "cut"}, Breaks(k, link) PROVE IInv'
  <2>1. /\ client[k].link = "up" /\ UNCHANGED <<fs, conn, items, closing>>
        /\ client' = [client EXCEPT ![k].link = link]
    BY <1>5 DEF Breaks
  <2>2. client' \in [Clients -> Client]
        /\ \A l \in Clients : /\ client'[l].conn = client[l].conn /\ client'[l].wait = client[l].wait
                            /\ client'[l].late = client[l].late
                            /\ Open(l)' => Open(l)
    BY <1>1, <2>1 DEF Client, Links, Open
  <2>3. QED
    BY <1>1, <2>1, <2>2, Losing
<1>6. QED
  BY <1>2, <1>3, <1>4, <1>5

LEMMA ConnSteps ==
  ASSUME IInv, NEW c \in Fss, Ages(c) \/ \E sftpErr \in BOOLEAN : CloseConn(c, sftpErr)
  PROVE  IInv'
<1>1. /\ client \in [Clients -> Client] /\ conn \in [Fss -> Conn] /\ closing \in SUBSET Fss
      /\ TypeOK
  BY TypeParts DEF IInv
<1>2. CASE Ages(c)
  <2>1. conn' = [conn EXCEPT ![c].old = TRUE] /\ UNCHANGED <<fs, items, closing, client>>
    BY <1>2 DEF Ages
  <2>2. conn' \in [Fss -> Conn]
        /\ \A d \in Fss : /\ conn'[d].client = conn[d].client /\ conn'[d].sessions = conn[d].sessions
                          /\ conn'[d].isConnected = conn[d].isConnected
    BY <1>1, <2>1 DEF Conn
  <2>3. \A l \in Clients : Open(l)' => Open(l) /\ client[l].conn \in Fss
    BY <2>1 DEF IInv, OpenKnown, Open
  <2>4. QED
    BY <1>1, <2>1, <2>2, <2>3, Losing
<1>3. ASSUME NEW sftpErr \in BOOLEAN, CloseConn(c, sftpErr) PROVE IInv'
  <2>1. /\ closing' = closing \ {c} /\ UNCHANGED <<fs, items>>
        /\ conn' = IF sftpErr THEN conn ELSE [conn EXCEPT ![c].isConnected = FALSE]
        /\ client' = CloseClient(Current(c))
    BY <1>3 DEF CloseConn
  <2>2. conn' \in [Fss -> Conn]
        /\ \A d \in Fss : /\ conn'[d].client = conn[d].client /\ conn'[d].sessions = conn[d].sessions
                          /\ d # c => conn'[d] = conn[d]
    BY <1>1, <2>1 DEF Conn
  <2>3. Current(c) \in Clients \union {0}
    BY <1>1 DEF Current, Conn
  <2>4. /\ client' \in [Clients -> Client]
        /\ \A l \in Clients :
             /\ client'[l].conn = client[l].conn /\ client'[l].wait = client[l].wait
             /\ client'[l].late = client[l].late
             /\ client'[l].link = client[l].link \/ (l = Current(c) /\ client'[l].link = "closed")
             /\ l = Current(c) => client'[l].link \notin {"up", "hung", "cut"}
    BY <1>1, <2>1, <2>3, Closes
  <2>5. \A l \in Clients : Open(l)' => Open(l) /\ l # Current(c)
    BY <2>4 DEF Open
  <2>6. \A l \in Clients : Open(l)' => client[l].conn # c /\ client[l].conn \in Fss
    BY <2>5 DEF IInv, OpenKnown, Current
  <2>7. QED
    BY <1>1, <2>1, <2>2, <2>4, <2>5, <2>6, Losing
<1>4. QED
  BY <1>2, <1>3

(* What the steps of a connection keep, whoever shares it: types, one      *)
(* current client, the sessions of those in use.                           *)
THEOREM Invariance == Spec => []IInv
<1>1. ASSUME IInv, [Next]_vars PROVE IInv'
  <2>1. CASE UNCHANGED vars
    BY <1>1, <2>1 DEF vars, IInv, TypeOK, Files, Made, InUseKept, OpenKnown, Waiting,
                      SessionsCached, Reachable, Dropped, Cached, Open
  <2>2. ASSUME NEW f \in Fss,
               Get(f) \/ OpenConnection(f) \/ OpenConnectionFails(f) \/ CloseFailed(f) \/ getClient(f)
        PROVE  IInv'
    BY <1>1, <2>2, GetStep, CloseFailedStep, FileSteps
  <2>3. ASSUME NEW u \in Users, CloseFs(u) PROVE IInv'
    BY <1>1, <2>3, CloseFsStep
  <2>4. ASSUME NEW k \in Clients,
               \/ WaitBegins(k) \/ Watchdog(k) \/ WaitEnds(k)
               \/ \E link \in {"hung", "cut"} : Breaks(k, link)
        PROVE  IInv'
    BY <1>1, <2>4, ClientSteps
  <2>5. CASE Cleanup
    BY <1>1, <2>5, CleanupStep
  <2>6. ASSUME NEW c \in Fss, Ages(c) \/ \E sftpErr \in BOOLEAN : CloseConn(c, sftpErr)
        PROVE  IInv'
    BY <1>1, <2>6, ConnSteps
  <2>7. QED
    BY <1>1, <2>1, <2>2, <2>3, <2>4, <2>5, <2>6 DEF Next
<1>2. QED
  BY <1>1, Initially, PTL DEF Spec

(* The types of the file systems, the cache and the clients. *)
THEOREM TypeCorrect == Spec => []TypeOK
<1>1. IInv => TypeOK
  BY DEF IInv
<1>2. QED
  BY <1>1, Invariance, PTL

(* The cleanup never evicts a connection that a file system uses whose     *)
(* session nobody has dropped.                                             *)
THEOREM Kept == Spec => []InUseKept
<1>1. IInv => InUseKept
  BY DEF IInv
<1>2. QED
  BY <1>1, Invariance, PTL

(* Every open SSH connection is known, and the cleanup reaches it or has it *)
(* to close, except one dialed for a file system without a session after    *)
(* the connection had been evicted and closed.                              *)
THEOREM NothingLeaks == Spec => []NoLeak
<1>1. IInv => NoLeak
  BY DEF IInv, OpenKnown, Reachable, NoLeak, Known, Current
<1>2. QED
  BY <1>1, Invariance, PTL
=============================================================================

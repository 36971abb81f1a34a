------------------------- MODULE Connections_proofs --------------------------
(***************************************************************************)
(* Proofs about Connections, for any handlers, users and limits.  The only *)
(* hypothesis is UniqueConnIDs, without which a closed session may leave   *)
(* its entry behind.  The argument: every operation of the registry changes one      *)
(* entry of the table that SessionRegistry keeps, the counters follow the  *)
(* table, and a handler has an entry exactly while it serves a session.    *)
(***************************************************************************)
EXTENDS Connections, FiniteSetTheorems, SequenceTheorems, TLAPS

Conn == [conn : Handlers, user : Users \cup {NoUser}]

Constants == ConnectionsAssumption /\ UniqueConnIDs

RegistryType == connections \in Seq(Conn) /\ mapping \in [Ids -> Nat]

(* The table of SessionRegistry, as the slice and the map describe it. *)
session ==
  [h \in Handlers |->
     IF mapping[ConnID[h]] = 0 THEN NotRegistered
     ELSE connections[mapping[ConnID[h]]].user]

-----------------------------------------------------------------------------
(* A handler with a key in the map has its own connection in the slice.    *)
LEMMA Mapped ==
  ASSUME Constants, RegistryType, MappingExact,
         NEW h \in Handlers, mapping[ConnID[h]] # 0
  PROVE  /\ mapping[ConnID[h]] \in 1..Len(connections)
         /\ connections[mapping[ConnID[h]]] \in Conn
         /\ connections[mapping[ConnID[h]]].conn = h
<1>1. ConnID[h] \in Ids BY DEF Constants, ConnectionsAssumption
<1>2. DOMAIN connections = 1..Len(connections)
  BY LenProperties DEF RegistryType
<1>3. /\ mapping[ConnID[h]] \in 1..Len(connections)
      /\ ConnID[connections[mapping[ConnID[h]]].conn] = ConnID[h]
  BY <1>1, <1>2 DEF MappingExact
<1>4. connections[mapping[ConnID[h]]] \in Conn
  BY <1>3, ElementOfSeq DEF RegistryType
<1> QED BY <1>3, <1>4 DEF Conn, Constants, UniqueConnIDs

(* The table and the slice agree on who works for a user. *)
LEMMA TableEntry ==
  ASSUME Constants, RegistryType, MappingExact,
         NEW h \in Handlers, NEW u \in Users \cup {NoUser}
  PROVE  h \in SessionsOf(u) <=> session[h] = u
<1>1. u # NotRegistered BY DEF Constants, ConnectionsAssumption
<1>2. DOMAIN connections = 1..Len(connections) /\ Len(connections) \in Nat
  BY LenProperties DEF RegistryType
<1>3. ASSUME NEW i \in DOMAIN connections, connections[i] = [conn |-> h, user |-> u]
      PROVE session[h] = u
  <2>1. mapping[ConnID[h]] = i BY <1>3 DEF MappingExact
  <2>2. i # 0 BY <1>2
  <2> QED BY <1>3, <2>1, <2>2 DEF session
<1>4. ASSUME session[h] = u
      PROVE \E i \in DOMAIN connections : connections[i] = [conn |-> h, user |-> u]
  <2>1. mapping[ConnID[h]] # 0 /\ connections[mapping[ConnID[h]]].user = u
    BY <1>1, <1>4 DEF session
  <2>2. connections[mapping[ConnID[h]]] = [conn |-> h, user |-> u]
    BY <2>1, Mapped DEF Conn
  <2>3. mapping[ConnID[h]] \in DOMAIN connections
    BY <1>2, <2>1, Mapped
  <2> QED BY <2>2, <2>3
<1> QED BY <1>3, <1>4 DEF SessionsOf

-----------------------------------------------------------------------------
(* Appending a connection under a new id adds its entry to the table.      *)
LEMMA AddTable ==
  ASSUME Constants, RegistryType, MappingExact,
         NEW h \in Handlers, NEW u \in Users \cup {NoUser},
         mapping[ConnID[h]] = 0, Add(h, u)
  PROVE  /\ RegistryType' /\ MappingExact'
         /\ session' = [session EXCEPT ![h] = u]
<1> DEFINE e == [conn |-> h, user |-> u]
           n == Len(connections)
<1>1. e \in Conn BY DEF Conn
<1>2. /\ connections \in Seq(Conn) /\ n \in Nat
      /\ DOMAIN connections = 1..n
      /\ \A i \in 1..n : connections[i] \in Conn
  BY LenProperties, ElementOfSeq DEF RegistryType
<1>3. connections' = Append(connections, e) BY DEF Add
<1>4. /\ connections' \in Seq(Conn) /\ Len(connections') = n + 1
      /\ \A i \in 1..n : connections'[i] = connections[i]
      /\ connections'[n + 1] = e
  BY <1>1, <1>2, <1>3, AppendProperties
<1>5. DOMAIN connections' = 1..(n + 1) BY <1>4, LenProperties
<1>6. ConnID[h] \in Ids /\ mapping \in [Ids -> Nat]
      /\ mapping' = [mapping EXCEPT ![ConnID[h]] = n + 1]
  BY DEF Constants, ConnectionsAssumption, RegistryType, Add
<1>7. RegistryType' BY <1>2, <1>4, <1>6 DEF RegistryType
<1>8. ASSUME NEW i \in 1..n PROVE connections[i].conn # h
  BY <1>2 DEF MappingExact
<1>9. \A i \in DOMAIN connections' : mapping'[ConnID[connections'[i].conn]] = i
  <2> TAKE i \in DOMAIN connections'
  <2>1. CASE i = n + 1 BY <1>4, <1>6, <2>1
  <2>2. CASE i \in 1..n
    <3>1. connections[i] \in Conn /\ mapping[ConnID[connections[i].conn]] = i
      BY <1>2, <2>2 DEF MappingExact
    <3>2. connections[i].conn \in Handlers BY <3>1 DEF Conn
    <3>3. ConnID[connections[i].conn] # ConnID[h]
      BY <1>8, <2>2, <3>2 DEF Constants, UniqueConnIDs
    <3>4. ConnID[connections[i].conn] \in Ids
      BY <3>2 DEF Constants, ConnectionsAssumption
    <3> QED BY <1>4, <1>6, <2>2, <3>1, <3>3, <3>4
  <2> QED BY <1>2, <1>5, <2>1, <2>2
<1>10. ASSUME NEW id \in Ids, mapping'[id] # 0
       PROVE  /\ mapping'[id] \in DOMAIN connections'
              /\ ConnID[connections'[mapping'[id]].conn] = id
  <2>1. CASE id = ConnID[h] BY <1>2, <1>4, <1>5, <1>6, <2>1
  <2>2. CASE id # ConnID[h]
    <3>1. mapping'[id] = mapping[id] BY <1>6, <2>2
    <3>2. mapping[id] \in 1..n /\ ConnID[connections[mapping[id]].conn] = id
      BY <1>2, <1>10, <3>1 DEF MappingExact
    <3> QED BY <1>2, <1>4, <1>5, <3>1, <3>2
  <2> QED BY <2>1, <2>2
<1>11. session' = [session EXCEPT ![h] = u]
  <2>1. ASSUME NEW g \in Handlers
        PROVE session'[g] = IF g = h THEN u ELSE session[g]
    <3>1. CASE g = h
      <4>1. mapping'[ConnID[g]] = n + 1 BY <1>6, <3>1
      <4> QED BY <1>2, <1>4, <3>1, <4>1 DEF session
    <3>2. CASE g # h
      <4>1. ConnID[g] # ConnID[h] /\ ConnID[g] \in Ids
        BY <3>2 DEF Constants, UniqueConnIDs, ConnectionsAssumption
      <4>2. mapping'[ConnID[g]] = mapping[ConnID[g]] BY <1>6, <4>1
      <4>3. mapping[ConnID[g]] # 0 =>
              connections'[mapping[ConnID[g]]] = connections[mapping[ConnID[g]]]
        BY <1>4, Mapped
      <4> QED BY <3>2, <4>2, <4>3 DEF session
    <3> QED BY <3>1, <3>2
  <2> QED BY <2>1 DEF session
<1> QED BY <1>7, <1>9, <1>10, <1>11 DEF MappingExact

(* Replacing a connection at its position changes its entry only.          *)
LEMMA SwapTable ==
  ASSUME Constants, RegistryType, MappingExact,
         NEW h \in Handlers, NEW u \in Users \cup {NoUser}, Swap(h, u)
  PROVE  /\ RegistryType' /\ MappingExact'
         /\ session' = [session EXCEPT ![h] = u]
<1> DEFINE e == [conn |-> h, user |-> u]
           p == mapping[ConnID[h]]
           n == Len(connections)
<1>1. /\ p # 0 /\ mapping' = mapping
      /\ connections' = [connections EXCEPT ![p] = e]
  BY DEF Swap, SwapFound
<1>2. p \in 1..n /\ connections[p].conn = h /\ e \in Conn
  BY <1>1, Mapped DEF Conn
<1>3. /\ connections \in Seq(Conn) /\ n \in Nat /\ DOMAIN connections = 1..n
      /\ mapping \in [Ids -> Nat]
  BY LenProperties DEF RegistryType
<1>4. /\ connections' \in Seq(Conn) /\ Len(connections') = n
      /\ \A i \in 1..n : connections'[i] = IF i = p THEN e ELSE connections[i]
  BY <1>1, <1>2, <1>3, ExceptSeq
<1>5. DOMAIN connections' = 1..n BY <1>4, LenProperties
<1>6. RegistryType' BY <1>1, <1>3, <1>4 DEF RegistryType
<1>7. \A i \in 1..n : connections'[i].conn = connections[i].conn
  BY <1>2, <1>4
<1>8. MappingExact' BY <1>1, <1>3, <1>5, <1>7 DEF MappingExact
<1>9. ASSUME NEW g \in Handlers
      PROVE session'[g] = IF g = h THEN u ELSE session[g]
  <2>1. CASE g = h BY <1>1, <1>2, <1>4, <2>1 DEF session
  <2>2. CASE g # h
    <3>1. mapping[ConnID[g]] # 0 =>
            mapping[ConnID[g]] \in 1..n /\ mapping[ConnID[g]] # p
      BY <1>2, <2>2, Mapped
    <3>2. mapping[ConnID[g]] # 0 =>
            connections'[mapping[ConnID[g]]] = connections[mapping[ConnID[g]]]
      BY <1>4, <3>1
    <3> QED BY <1>1, <2>2, <3>2 DEF session
  <2> QED BY <2>1, <2>2
<1>10. session' = [session EXCEPT ![h] = u] BY <1>9 DEF session
<1> QED BY <1>6, <1>8, <1>10

(* Moving the last connection into the hole and mapping it there removes   *)
(* the entry of the removed connection and no other.                       *)
LEMMA RemoveTable ==
  ASSUME Constants, RegistryType, MappingExact,
         NEW h \in Handlers, mapping[ConnID[h]] # 0, Remove(ConnID[h])
  PROVE  /\ RegistryType' /\ MappingExact'
         /\ session' = [session EXCEPT ![h] = NotRegistered]
<1> DEFINE p == mapping[ConnID[h]]
           n == Len(connections)
           m == connections[n].conn
<1>1. p \in 1..n /\ connections[p].conn = h BY Mapped
<1>2. /\ connections \in Seq(Conn) /\ n \in Nat /\ DOMAIN connections = 1..n
      /\ mapping \in [Ids -> Nat] /\ ConnID[h] \in Ids
      /\ \A i \in 1..n : connections[i] \in Conn
  BY LenProperties, ElementOfSeq
  DEF RegistryType, Constants, ConnectionsAssumption
<1>3. n \in 1..n /\ n - 1 \in Nat /\ n \in Nat \ {0} BY <1>1, <1>2
<1>4. m \in Handlers /\ ConnID[m] \in Ids /\ mapping[ConnID[m]] = n
  BY <1>2, <1>3 DEF Conn, MappingExact, Constants, ConnectionsAssumption
<1>5. connections' =
        [i \in 1..(n - 1) |-> IF i = p THEN connections[n] ELSE connections[i]]
  BY DEF Remove, Unordered
<1>6. connections' \in Seq(Conn) /\ DOMAIN connections' = 1..(n - 1)
  <2>1. connections' \in [1..(n - 1) -> Conn] BY <1>2, <1>3, <1>5
  <2> QED BY <1>3, <1>5, <2>1, SeqDef
<1>7. mapping' = IF p = n THEN [mapping EXCEPT ![ConnID[h]] = 0]
                 ELSE [[mapping EXCEPT ![ConnID[h]] = 0] EXCEPT ![ConnID[m]] = p]
  BY DEF Remove
<1>8. ConnID[m] = ConnID[h] => p = n /\ m = h
  BY <1>4 DEF Constants, UniqueConnIDs
<1>9. ASSUME NEW id \in Ids
      PROVE  mapping'[id] = IF id = ConnID[h] THEN 0
                            ELSE IF id = ConnID[m] THEN p ELSE mapping[id]
  <2>1. CASE p = n
    <3>1. m = h BY <1>1, <2>1
    <3> QED BY <1>2, <1>7, <2>1, <3>1
  <2>2. CASE p # n
    <3>1. ConnID[m] # ConnID[h] BY <1>8, <2>2
    <3> QED BY <1>2, <1>4, <1>7, <2>2, <3>1
  <2> QED BY <2>1, <2>2
<1>10. RegistryType'
  <2>1. mapping' \in [Ids -> Nat] BY <1>1, <1>2, <1>7
  <2> QED BY <1>6, <2>1 DEF RegistryType
<1>11. ASSUME NEW i \in DOMAIN connections'
       PROVE mapping'[ConnID[connections'[i].conn]] = i
  <2>1. i \in 1..(n - 1) /\ i \in 1..n /\ i # n BY <1>2, <1>3, <1>6, <1>11
  <2>2. CASE i = p
    <3>1. connections'[i].conn = m BY <1>5, <2>1, <2>2
    <3>2. ConnID[m] # ConnID[h] BY <1>1, <1>8, <2>1, <2>2
    <3> QED BY <1>4, <1>9, <2>2, <3>1, <3>2
  <2>3. CASE i # p
    <3> DEFINE c == connections[i].conn
    <3>1. connections'[i] = connections[i] BY <1>5, <2>1, <2>3
    <3>2. c \in Handlers /\ ConnID[c] \in Ids
      BY <1>2, <2>1 DEF Conn, Constants, ConnectionsAssumption
    <3>3. mapping[ConnID[c]] = i BY <1>2, <2>1 DEF MappingExact
    <3>4. ConnID[c] # ConnID[h] /\ ConnID[c] # ConnID[m]
      BY <1>4, <2>1, <2>3, <3>3
    <3> QED BY <1>9, <3>1, <3>2, <3>3, <3>4
  <2> QED BY <2>2, <2>3
<1>12. ASSUME NEW id \in Ids, mapping'[id] # 0
       PROVE  /\ mapping'[id] \in DOMAIN connections'
              /\ ConnID[connections'[mapping'[id]].conn] = id
  <2>1. id # ConnID[h] BY <1>9, <1>12
  <2>2. CASE id = ConnID[m]
    <3>1. mapping'[id] = p /\ p # n BY <1>1, <1>9, <2>1, <2>2
    <3>2. p \in 1..(n - 1) BY <1>1, <1>2, <3>1
    <3> QED BY <1>5, <1>6, <2>2, <3>1, <3>2
  <2>3. CASE id # ConnID[m]
    <3>1. mapping'[id] = mapping[id] BY <1>9, <2>1, <2>3
    <3>2. mapping[id] \in 1..n /\ ConnID[connections[mapping[id]].conn] = id
      BY <1>2, <1>12, <3>1 DEF MappingExact
    <3>3. mapping[id] # n /\ mapping[id] # p BY <1>1, <2>1, <2>3, <3>2
    <3>4. mapping[id] \in 1..(n - 1) BY <1>2, <3>2, <3>3
    <3> QED BY <1>5, <1>6, <3>1, <3>2, <3>3, <3>4
  <2> QED BY <2>2, <2>3
<1>13. ASSUME NEW g \in Handlers
       PROVE session'[g] = IF g = h THEN NotRegistered ELSE session[g]
  <2>0. ConnID[g] \in Ids BY DEF Constants, ConnectionsAssumption
  <2>1. CASE g = h BY <1>2, <1>9, <2>1 DEF session
  <2>2. CASE g # h
    <3>1. ConnID[g] # ConnID[h] BY <2>2 DEF Constants, UniqueConnIDs
    <3>2. CASE g = m
      <4>1. p # n BY <1>1, <2>2, <3>2
      <4>2. p \in 1..(n - 1) BY <1>1, <1>2, <4>1
      <4>3. mapping'[ConnID[g]] = p /\ connections'[p] = connections[n]
        BY <1>5, <1>9, <2>0, <3>1, <3>2, <4>2
      <4>4. session'[g] = connections[n].user BY <1>1, <4>3 DEF session
      <4>5. session[g] = connections[n].user BY <1>3, <1>4, <3>2 DEF session
      <4> QED BY <2>2, <4>4, <4>5
    <3>3. CASE g # m
      <4>1. ConnID[g] # ConnID[m] BY <1>4, <3>3 DEF Constants, UniqueConnIDs
      <4>2. mapping'[ConnID[g]] = mapping[ConnID[g]]
        BY <1>9, <2>0, <3>1, <4>1
      <4>3. ASSUME mapping[ConnID[g]] # 0
            PROVE connections'[mapping[ConnID[g]]] = connections[mapping[ConnID[g]]]
        <5>1. mapping[ConnID[g]] \in 1..n /\ mapping[ConnID[g]] # n
              /\ mapping[ConnID[g]] # p
          BY <1>1, <2>2, <3>3, <4>3, Mapped
        <5>2. mapping[ConnID[g]] \in 1..(n - 1) BY <1>2, <5>1
        <5> QED BY <1>5, <5>1, <5>2
      <4> QED BY <2>2, <4>2, <4>3 DEF session
    <3> QED BY <3>2, <3>3
  <2> QED BY <2>1, <2>2
<1>14. session' = [session EXCEPT ![h] = NotRegistered] BY <1>13 DEF session
<1> QED BY <1>10, <1>11, <1>12, <1>14 DEF MappingExact

-----------------------------------------------------------------------------
(* The counters follow the table.                                          *)
CountType == perUserConns \in [Users -> Nat]

RegistryInv ==
  RegistryType /\ MappingExact /\ CountType /\ UserCountExact /\ SessionLimit

TableCorrect ==
  \A u \in Users \cup {NoUser} : SessionsOf(u) = {h \in Handlers : session[h] = u}

LEMMA TableLemma ==
  ASSUME Constants PROVE RegistryType /\ MappingExact => TableCorrect
BY TableEntry DEF TableCorrect, SessionsOf

LEMMA FiniteSessions ==
  ASSUME Constants, NEW S \in SUBSET Handlers
  PROVE  IsFiniteSet(S) /\ Cardinality(S) \in Nat
BY FS_Subset, FS_CardinalityType DEF Constants, ConnectionsAssumption

LEMMA MappedTable ==
  ASSUME Constants, RegistryType, MappingExact, NEW h \in Handlers
  PROVE  /\ mapping[ConnID[h]] = 0 <=> session[h] = NotRegistered
         /\ session[h] \in Users \cup {NoUser, NotRegistered}
BY Mapped DEF session, Conn, Constants, ConnectionsAssumption

(* What one changed entry of the table does to the sessions of a user. *)
LEMMA SessionsChange ==
  ASSUME Constants, RegistryType, MappingExact, RegistryType', MappingExact',
         NEW h \in Handlers, NEW v, session' = [session EXCEPT ![h] = v],
         NEW u \in Users
  PROVE  SessionsOf(u)' = IF v = u THEN SessionsOf(u) \cup {h}
                                   ELSE SessionsOf(u) \ {h}
<1>1. TableCorrect BY TableLemma
<1>2. (RegistryType /\ MappingExact => TableCorrect)' BY TableLemma, PTL
<1>3. TableCorrect' BY <1>2
<1>4. DOMAIN session = Handlers BY DEF session
<1> QED BY <1>1, <1>3, <1>4 DEF TableCorrect

(* The counters once the swapped-out connection no longer counts. *)
LEMMA OldUncounted ==
  ASSUME Constants, RegistryInv, NEW h \in Handlers, SwapFound(h)
  PROVE  /\ WithoutOld(h) \in [Users -> Nat]
         /\ \A u \in Users : WithoutOld(h)[u] = Cardinality(SessionsOf(u) \ {h})
         /\ connections[mapping[ConnID[h]]].user = session[h]
         /\ session[h] \in Users \cup {NoUser}
         /\ session[h] \in Users =>
              perUserConns[session[h]] > 0
<1> DEFINE o == session[h]
<1>1. connections[mapping[ConnID[h]]].user = o BY DEF SwapFound, session
<1>2. o \in Users \cup {NoUser}
  BY MappedTable DEF SwapFound, RegistryInv
<1>3. TableCorrect BY TableLemma DEF RegistryInv
<1>4. \A u \in Users : h \in SessionsOf(u) <=> u = o BY <1>3 DEF TableCorrect
<1>5. \A u \in Users : /\ IsFiniteSet(SessionsOf(u))
                       /\ Cardinality(SessionsOf(u)) \in Nat
                       /\ Cardinality(SessionsOf(u) \ {h}) \in Nat
  BY FiniteSessions DEF SessionsOf
<1>6. ASSUME NEW u \in Users
      PROVE Cardinality(SessionsOf(u) \ {h}) =
              IF u = o THEN perUserConns[u] - 1 ELSE perUserConns[u]
  BY <1>4, <1>5, FS_RemoveElement DEF RegistryInv, UserCountExact
<1>7. ASSUME NEW u \in Users, u = o PROVE perUserConns[u] > 0
  <2>1. perUserConns[u] \in Nat BY DEF RegistryInv, CountType
  <2>2. perUserConns[u] - 1 = Cardinality(SessionsOf(u) \ {h}) BY <1>6, <1>7
  <2>3. Cardinality(SessionsOf(u) \ {h}) \in Nat BY <1>5
  <2> QED BY <2>1, <2>2, <2>3
<1>8. WithoutOld(h) = IF o = NoUser THEN perUserConns
                      ELSE [perUserConns EXCEPT ![o] = @ - 1]
  BY <1>1, <1>2, <1>7 DEF WithoutOld, removeUserConnection
<1>9. NoUser \notin Users BY DEF Constants, ConnectionsAssumption
<1>10. \A u \in Users : WithoutOld(h)[u] = Cardinality(SessionsOf(u) \ {h})
  BY <1>2, <1>6, <1>8, <1>9 DEF RegistryInv, CountType
<1>11. WithoutOld(h) \in [Users -> Nat]
  <2>1. DOMAIN WithoutOld(h) = Users BY <1>8 DEF RegistryInv, CountType
  <2>2. WithoutOld(h) = [u \in Users |-> WithoutOld(h)[u]]
    BY <1>8, <2>1 DEF RegistryInv, CountType
  <2> QED BY <1>5, <1>10, <2>2
<1> QED BY <1>1, <1>2, <1>7, <1>10, <1>11

-----------------------------------------------------------------------------
(* FiniteSets reached through the instance counts the same. *)
LEMMA TableCardinality ==
  ASSUME NEW S PROVE Table!Cardinality(S) = Cardinality(S)
BY DEF Table!Cardinality, Cardinality

(* The effect of each registry operation on the table, with its invariant. *)
LEMMA AddStep ==
  ASSUME Constants, RegistryInv, NEW h \in Handlers,
         NEW u \in Users \cup {NoUser}, mapping[ConnID[h]] = 0, Add(h, u)
  PROVE  RegistryInv' /\ session' = [session EXCEPT ![h] = u] /\ Table!MayHold(h, u)
<1>1. /\ RegistryType' /\ MappingExact'
      /\ session' = [session EXCEPT ![h] = u]
  BY AddTable DEF RegistryInv
<1>2. TableCorrect BY TableLemma DEF RegistryInv
<1>3. session[h] = NotRegistered BY MappedTable DEF RegistryInv
<1>4. \A v \in Users : /\ h \notin SessionsOf(v)
                       /\ IsFiniteSet(SessionsOf(v))
                       /\ Cardinality(SessionsOf(v)) \in Nat
  BY <1>2, <1>3, FiniteSessions
  DEF TableCorrect, SessionsOf, Constants, ConnectionsAssumption
<1>5. NoUser \notin Users BY DEF Constants, ConnectionsAssumption
<1>6. \A v \in Users : SessionsOf(v)' = IF v = u THEN SessionsOf(v) \cup {h}
                                                 ELSE SessionsOf(v)
  <2> TAKE v \in Users
  <2>1. SessionsOf(v)' = IF v = u THEN SessionsOf(v) \cup {h}
                                  ELSE SessionsOf(v) \ {h}
    BY <1>1, SessionsChange DEF RegistryInv
  <2>2. SessionsOf(v) \ {h} = SessionsOf(v) BY <1>4
  <2> QED BY <2>1, <2>2
<1>7. \A v \in Users : Cardinality(SessionsOf(v))' =
        IF v = u THEN Cardinality(SessionsOf(v)) + 1 ELSE Cardinality(SessionsOf(v))
  BY <1>4, <1>6, FS_AddElement
<1>8. perUserConns' = IF u = NoUser THEN perUserConns
                      ELSE [perUserConns EXCEPT ![u] = @ + 1]
  BY DEF Add, addUserConnection
<1>9. CountType' BY <1>8 DEF CountType, RegistryInv
<1>10. UserCountExact'
  BY <1>5, <1>7, <1>8 DEF UserCountExact, RegistryInv, CountType
<1>11. ASSUME u \in Users, MaxSessions[u] > 0
       PROVE Cardinality(SessionsOf(u)) < MaxSessions[u]
  <2>1. ~(perUserConns[u] >= MaxSessions[u])
    BY <1>5, <1>11 DEF Add, TooManySessions
  <2>2. MaxSessions[u] \in Nat BY <1>11 DEF Constants, ConnectionsAssumption
  <2>3. perUserConns[u] = Cardinality(SessionsOf(u)) /\ perUserConns[u] \in Nat
    BY <1>11 DEF RegistryInv, UserCountExact, CountType
  <2> QED BY <2>1, <2>2, <2>3
<1>12. SessionLimit'
  <2>1. ASSUME NEW v \in Users, MaxSessions[v] > 0
        PROVE Cardinality(SessionsOf(v))' <= MaxSessions[v]
    <3>1. MaxSessions[v] \in Nat BY DEF Constants, ConnectionsAssumption
    <3>2. CASE v = u BY <1>4, <1>7, <1>11, <2>1, <3>1, <3>2
    <3>3. CASE v # u BY <1>7, <2>1, <3>3 DEF RegistryInv, SessionLimit
    <3> QED BY <3>2, <3>3
  <2> QED BY <2>1 DEF SessionLimit
<1>13. Table!MayHold(h, u)
  <2>1. ASSUME u \in Users, MaxSessions[u] > 0
        PROVE Cardinality({g \in Handlers : session[g] = u} \ {h}) < MaxSessions[u]
    <3>1. {g \in Handlers : session[g] = u} \ {h} = SessionsOf(u)
      BY <1>2, <1>4, <2>1 DEF TableCorrect
    <3> QED BY <1>11, <2>1, <3>1
  <2> QED BY <2>1, TableCardinality DEF Table!MayHold, Table!SessionsOf, session
<1> QED BY <1>1, <1>9, <1>10, <1>12, <1>13 DEF RegistryInv

LEMMA SwapStep ==
  ASSUME Constants, RegistryInv, NEW h \in Handlers,
         NEW u \in Users \cup {NoUser}, Swap(h, u)
  PROVE  /\ RegistryInv' /\ session' = [session EXCEPT ![h] = u]
         /\ session[h] # NotRegistered /\ Table!MayHold(h, u)
<1>1. /\ RegistryType' /\ MappingExact'
      /\ session' = [session EXCEPT ![h] = u]
  BY SwapTable DEF RegistryInv
<1>2. TableCorrect BY TableLemma DEF RegistryInv
<1>3. SwapFound(h) /\ session[h] # NotRegistered
  BY MappedTable DEF Swap, SwapFound, RegistryInv
<1>4. /\ WithoutOld(h) \in [Users -> Nat]
      /\ \A v \in Users : WithoutOld(h)[v] = Cardinality(SessionsOf(v) \ {h})
  BY <1>3, OldUncounted
<1>5. NoUser \notin Users BY DEF Constants, ConnectionsAssumption
<1>6. \A v \in Users : SessionsOf(v)' =
        IF v = u THEN (SessionsOf(v) \ {h}) \cup {h} ELSE SessionsOf(v) \ {h}
  BY <1>1, SessionsChange DEF RegistryInv
<1>7. \A v \in Users : /\ IsFiniteSet(SessionsOf(v)) /\ IsFiniteSet(SessionsOf(v) \ {h})
                       /\ Cardinality(SessionsOf(v)) \in Nat
                       /\ Cardinality(SessionsOf(v) \ {h}) \in Nat
  BY FiniteSessions DEF SessionsOf
<1>8. \A v \in Users : Cardinality(SessionsOf(v))' =
        IF v = u THEN Cardinality(SessionsOf(v) \ {h}) + 1
                 ELSE Cardinality(SessionsOf(v) \ {h})
  <2> TAKE v \in Users
  <2>1. IsFiniteSet(SessionsOf(v) \ {h}) /\ h \notin SessionsOf(v) \ {h}
    BY <1>7
  <2>2. Cardinality((SessionsOf(v) \ {h}) \cup {h}) =
          Cardinality(SessionsOf(v) \ {h}) + 1
    BY <2>1, FS_AddElement
  <2> QED BY <1>6, <2>2
<1>9. perUserConns' = IF u = NoUser THEN WithoutOld(h)
                      ELSE [WithoutOld(h) EXCEPT ![u] = @ + 1]
  BY DEF Swap, addUserConnection
<1>10. CountType' BY <1>4, <1>9 DEF CountType
<1>11. UserCountExact' BY <1>4, <1>5, <1>8, <1>9 DEF UserCountExact
<1>12. ASSUME u \in Users, MaxSessions[u] > 0
       PROVE Cardinality(SessionsOf(u) \ {h}) < MaxSessions[u]
  <2>1. ~(WithoutOld(h)[u] >= MaxSessions[u])
    BY <1>5, <1>12 DEF Swap, TooManySessions
  <2>2. MaxSessions[u] \in Nat BY <1>12 DEF Constants, ConnectionsAssumption
  <2> QED BY <1>4, <1>7, <1>12, <2>1, <2>2
<1>13. SessionLimit'
  <2>1. ASSUME NEW v \in Users, MaxSessions[v] > 0
        PROVE Cardinality(SessionsOf(v))' <= MaxSessions[v]
    <3>1. MaxSessions[v] \in Nat BY DEF Constants, ConnectionsAssumption
    <3>2. CASE v = u BY <1>7, <1>8, <1>12, <2>1, <3>1, <3>2
    <3>3. CASE v # u
      <4>1. Cardinality(SessionsOf(v) \ {h}) <= Cardinality(SessionsOf(v))
        BY <1>7, FS_Subset
      <4>2. Cardinality(SessionsOf(v)) <= MaxSessions[v]
        BY <2>1 DEF RegistryInv, SessionLimit
      <4> QED BY <1>7, <1>8, <3>1, <3>3, <4>1, <4>2
    <3> QED BY <3>2, <3>3
  <2> QED BY <2>1 DEF SessionLimit
<1>14. Table!MayHold(h, u)
  <2>1. ASSUME u \in Users, MaxSessions[u] > 0
        PROVE Cardinality({g \in Handlers : session[g] = u} \ {h}) < MaxSessions[u]
    <3>1. {g \in Handlers : session[g] = u} \ {h} = SessionsOf(u) \ {h}
      BY <1>2, <2>1 DEF TableCorrect
    <3> QED BY <1>12, <2>1, <3>1
  <2> QED BY <2>1, TableCardinality DEF Table!MayHold, Table!SessionsOf, session
<1> QED BY <1>1, <1>3, <1>10, <1>11, <1>13, <1>14 DEF RegistryInv

(* A refused swap counts the old connection again: nothing has changed.    *)
LEMMA SwapRefusedStep ==
  ASSUME Constants, RegistryInv, NEW h \in Handlers,
         NEW u \in Users \cup {NoUser}, SwapRefused(h, u)
  PROVE  UNCHANGED registry
<1>1. CASE ~SwapFound(h) BY <1>1 DEF SwapRefused, registry
<1>2. CASE SwapFound(h)
  <2> DEFINE o == session[h]
  <2>1. /\ connections[mapping[ConnID[h]]].user = o
        /\ o \in Users \cup {NoUser} /\ (o \in Users => perUserConns[o] > 0)
    BY <1>2, OldUncounted
  <2>2. perUserConns' = addUserConnection(WithoutOld(h), o)
    BY <1>2, <2>1 DEF SwapRefused
  <2>3. WithoutOld(h) = IF o = NoUser THEN perUserConns
                        ELSE [perUserConns EXCEPT ![o] = @ - 1]
    BY <2>1 DEF WithoutOld, removeUserConnection
  <2>4. perUserConns \in [Users -> Nat] BY DEF RegistryInv, CountType
  <2>5. perUserConns' = perUserConns
    <3>1. CASE o = NoUser BY <2>2, <2>3, <3>1 DEF addUserConnection
    <3>2. CASE o # NoUser
      <4>1. perUserConns' =
              [[perUserConns EXCEPT ![o] = @ - 1] EXCEPT ![o] = @ + 1]
        BY <2>2, <2>3, <3>2 DEF addUserConnection
      <4>2. o \in Users /\ perUserConns[o] \in Nat BY <2>1, <2>4, <3>2
      <4> QED BY <2>4, <4>1, <4>2
    <3> QED BY <3>1, <3>2
  <2> QED BY <2>5 DEF SwapRefused, registry
<1> QED BY <1>1, <1>2

LEMMA RemoveStep ==
  ASSUME Constants, RegistryInv, NEW h \in Handlers,
         mapping[ConnID[h]] # 0, Remove(ConnID[h])
  PROVE  /\ RegistryInv' /\ session' = [session EXCEPT ![h] = NotRegistered]
         /\ session[h] # NotRegistered
<1>1. /\ RegistryType' /\ MappingExact'
      /\ session' = [session EXCEPT ![h] = NotRegistered]
  BY RemoveTable DEF RegistryInv
<1>2. session[h] # NotRegistered BY MappedTable DEF RegistryInv
<1>3. perUserConns' = WithoutOld(h) BY DEF Remove, WithoutOld
<1>4. /\ WithoutOld(h) \in [Users -> Nat]
      /\ \A v \in Users : WithoutOld(h)[v] = Cardinality(SessionsOf(v) \ {h})
  BY OldUncounted DEF SwapFound
<1>5. NotRegistered \notin Users BY DEF Constants, ConnectionsAssumption
<1>6. \A v \in Users : SessionsOf(v)' = SessionsOf(v) \ {h}
  BY <1>1, <1>5, SessionsChange DEF RegistryInv
<1>7. CountType' /\ UserCountExact'
  BY <1>3, <1>4, <1>6 DEF CountType, UserCountExact
<1>8. SessionLimit'
  <2>1. ASSUME NEW v \in Users, MaxSessions[v] > 0
        PROVE Cardinality(SessionsOf(v))' <= MaxSessions[v]
    <3>1. MaxSessions[v] \in Nat BY DEF Constants, ConnectionsAssumption
    <3>2. /\ IsFiniteSet(SessionsOf(v)) /\ Cardinality(SessionsOf(v)) \in Nat
          /\ Cardinality(SessionsOf(v) \ {h}) \in Nat
      BY FiniteSessions DEF SessionsOf
    <3>3. Cardinality(SessionsOf(v) \ {h}) <= Cardinality(SessionsOf(v))
      BY <3>2, FS_Subset
    <3>4. Cardinality(SessionsOf(v)) <= MaxSessions[v]
      BY <2>1 DEF RegistryInv, SessionLimit
    <3> QED BY <1>6, <3>1, <3>2, <3>3, <3>4
  <2> QED BY <2>1 DEF SessionLimit
<1> QED BY <1>1, <1>2, <1>7, <1>8 DEF RegistryInv

-----------------------------------------------------------------------------
(* The inductive invariant: the registry's own, the types of the handlers, *)
(* the SSH connections' slice and map, and what the handlers' control      *)
(* points say about both.                                                  *)
Serving(h) ==
  pc[h] \in {"open", "ending"} \/ (h \in FTPHandlers /\ pc[h] = "checked")

Serves == \A h \in Handlers : session[h] # NotRegistered <=> Serving(h)

HandlerType ==
  /\ pc \in [Handlers -> {"idle", "checked", "open", "ending"}]
  /\ login \in [Handlers -> Users \cup {NoUser}]
  /\ closing \subseteq Handlers
  /\ sshState \in [SSHConns -> {"idle", "auth", "open"}]
  /\ sshUser \in [SSHConns -> Users \cup {NoUser}]

Authenticated ==
  /\ \A h \in Handlers : pc[h] = "checked" => login[h] \in Users
  /\ \A s \in SSHConns : sshState[s] # "idle" => sshUser[s] \in Users

SSHInv ==
  /\ sshConnections \in Seq(SSHConns) /\ sshMapping \in [SSHConns -> Nat]
  /\ SSHMappingExact
  /\ \A s \in SSHConns : sshMapping[s] # 0 <=> sshState[s] = "open"

(* The idle check. *)
IdleType ==
  idleCheck \in [locked : BOOLEAN, toRead : SUBSET (SSHConns \cup SFTPHandlers),
                 toClose : SUBSET SSHConns, steady : SUBSET SFTPHandlers]

(* It reads, and in the end closes the channels of an SSH connection. *)
LEMMA IdleCheckReads ==
  ASSUME checkIdles
  PROVE  /\ UNCHANGED <<registry, sshRegistry, pc, login, sshState, sshUser>>
         /\ closing' \subseteq closing \cup SFTPHandlers
         /\ closing \subseteq closing'
BY DEF checkIdles, CheckBegins, ReadSSH, ReadSession, CheckUnlocks, CloseIdleSSH, ChannelsOf

LEMMA HandlerTypeStep ==
  ASSUME Constants, RegistryInv, HandlerType, Authenticated, [Next]_vars
  PROVE  HandlerType' /\ Authenticated'
<1> USE DEF HandlerType, Authenticated
<1>1. ASSUME NEW h \in FTPHandlers, FTPNext(h) PROVE HandlerType' /\ Authenticated'
  <2>0. h \in Handlers BY DEF Handlers
  <2> QED BY <1>1, <2>0 DEF FTPNext, FTPClientConnected, FTPValidateUser, FTPSwap, sshVars
<1>2. ASSUME NEW h \in WebHandlers, NEW u \in Users, WebRequest(h, u)
      PROVE HandlerType' /\ Authenticated'
  <2>0. h \in Handlers BY DEF Handlers
  <2> QED BY <1>2, <2>0 DEF WebRequest, sshVars
<1>3. ASSUME NEW h \in SFTPHandlers, ChannelRequest(h)
      PROVE HandlerType' /\ Authenticated'
  <2>1. h \in Handlers /\ SSHOf[h] \in SSHConns
    BY DEF Handlers, Constants, ConnectionsAssumption
  <2>2. sshUser[SSHOf[h]] \in Users BY <1>3, <2>1 DEF ChannelRequest
  <2> QED BY <1>3, <2>1, <2>2 DEF ChannelRequest, sshVars
<1>4. ASSUME NEW h \in WebHandlers \cup SFTPHandlers, AddSession(h)
      PROVE HandlerType' /\ Authenticated'
  <2>0. h \in Handlers BY DEF Handlers
  <2> QED BY <1>4, <2>0 DEF AddSession, sshVars
<1>5. ASSUME NEW h \in Handlers, EndSession(h) PROVE HandlerType' /\ Authenticated'
  BY <1>5 DEF EndSession, sshVars
<1>6. ASSUME NEW s \in SSHConns, NEW u \in Users, SSHLogin(s, u)
      PROVE HandlerType' /\ Authenticated'
  BY <1>6 DEF SSHLogin
<1>7. ASSUME NEW s \in SSHConns, SSHHandshakeDone(s) PROVE HandlerType' /\ Authenticated'
  BY <1>7 DEF SSHHandshakeDone
<1>8. ASSUME NEW s \in SSHConns, SSHEnd(s) PROVE HandlerType' /\ Authenticated'
  <2>1. ChannelsOf(s) \subseteq Handlers BY DEF ChannelsOf, Handlers
  <2> QED BY <1>8, <2>1 DEF SSHEnd
<1>9. Registered \subseteq Handlers
  <2>1. connections \in Seq(Conn) BY DEF RegistryInv, RegistryType
  <2>2. DOMAIN connections = 1..Len(connections) BY <2>1, LenProperties
  <2>3. \A i \in DOMAIN connections : connections[i] \in Conn
    BY <2>1, <2>2, ElementOfSeq
  <2> QED BY <2>3 DEF Registered, Conn
<1>10. ASSUME NEW id \in Ids, Close(id) PROVE HandlerType' /\ Authenticated'
  <2>1. mapping[id] \in DOMAIN connections
    BY <1>10 DEF Close, RegistryInv, MappingExact
  <2>2. connections[mapping[id]].conn \in Handlers BY <1>9, <2>1 DEF Registered
  <2> QED BY <1>10, <2>2 DEF Close, sshVars
<1>11. ASSUME checkIdles PROVE HandlerType' /\ Authenticated'
  <2>1. SFTPHandlers \subseteq Handlers BY DEF Handlers
  <2> QED BY <1>11, <2>1, IdleCheckReads
<1>12. CASE UNCHANGED vars BY <1>12 DEF vars, sshVars
<1> QED BY <1>1, <1>2, <1>3, <1>4, <1>5, <1>6, <1>7, <1>8, <1>10, <1>11, <1>12 DEF Next

(* Every step of the code changes at most one entry of the table, within   *)
(* the limits, and keeps the registry and the handlers in step.            *)
TableStep == RegistryInv' /\ Serves' /\ (session' = session \/ Table!Next)

LEMMA RegistryUnchanged ==
  ASSUME RegistryInv, UNCHANGED registry
  PROVE  RegistryInv' /\ session' = session
<1> USE DEF registry
<1>1. RegistryType' /\ MappingExact' /\ CountType'
  BY DEF RegistryInv, RegistryType, MappingExact, CountType
<1>2. UserCountExact' /\ SessionLimit'
  BY DEF RegistryInv, UserCountExact, SessionLimit, SessionsOf
<1> QED BY <1>1, <1>2 DEF RegistryInv, session

LEMMA Quiet ==
  ASSUME RegistryInv, Serves, UNCHANGED registry,
         \A h \in Handlers : Serving(h)' <=> Serving(h)
  PROVE  TableStep
BY RegistryUnchanged DEF TableStep, Serves

LEMMA TableNext ==
  ASSUME Constants, NEW h \in Handlers,
         \/ \E u \in Users \cup {NoUser} : Table!Open(h, u)
         \/ \E u \in Users : Table!Login(h, u)
         \/ Table!Close(h)
  PROVE  Table!Next
BY DEF Table!Next

LEMMA AddTableStep ==
  ASSUME Constants, RegistryInv, Serves, NEW h \in Handlers,
         NEW u \in Users \cup {NoUser}, ~Serving(h), Serving(h)', Add(h, u),
         \A g \in Handlers \ {h} : Serving(g)' <=> Serving(g)
  PROVE  TableStep
<1>1. session[h] = NotRegistered BY DEF Serves
<1>2. mapping[ConnID[h]] = 0 BY <1>1, MappedTable DEF RegistryInv
<1>3. RegistryInv' /\ session' = [session EXCEPT ![h] = u] /\ Table!MayHold(h, u)
  BY <1>2, AddStep
<1>4. DOMAIN session = Handlers BY DEF session
<1>5. u # NotRegistered BY DEF Constants, ConnectionsAssumption
<1>6. Serves' BY <1>3, <1>4, <1>5 DEF Serves
<1>7. Table!Open(h, u) BY <1>1, <1>3 DEF Table!Open, session
<1> QED BY <1>3, <1>6, <1>7, TableNext DEF TableStep

LEMMA SwapTableStep ==
  ASSUME Constants, RegistryInv, Serves, NEW h \in Handlers,
         NEW u \in Users, Swap(h, u),
         \A g \in Handlers : Serving(g)' <=> Serving(g)
  PROVE  TableStep
<1>1. /\ RegistryInv' /\ session' = [session EXCEPT ![h] = u]
      /\ session[h] # NotRegistered /\ Table!MayHold(h, u)
  BY SwapStep
<1>2. DOMAIN session = Handlers BY DEF session
<1>3. u # NotRegistered BY DEF Constants, ConnectionsAssumption
<1>4. Serves' BY <1>1, <1>2, <1>3 DEF Serves
<1>5. Table!Login(h, u) BY <1>1 DEF Table!Login, session
<1> QED BY <1>1, <1>4, <1>5, TableNext DEF TableStep

LEMMA RemoveTableStep ==
  ASSUME Constants, RegistryInv, Serves, NEW h \in Handlers,
         Serving(h), ~Serving(h)', Remove(ConnID[h]),
         \A g \in Handlers \ {h} : Serving(g)' <=> Serving(g)
  PROVE  TableStep
<1>1. mapping[ConnID[h]] # 0 BY MappedTable DEF Serves, RegistryInv
<1>2. /\ RegistryInv' /\ session' = [session EXCEPT ![h] = NotRegistered]
      /\ session[h] # NotRegistered
  BY <1>1, RemoveStep
<1>3. DOMAIN session = Handlers BY DEF session
<1>4. Serves' BY <1>2, <1>3 DEF Serves
<1>5. Table!Close(h) BY <1>2 DEF Table!Close, session
<1> QED BY <1>2, <1>4, <1>5, TableNext DEF TableStep

LEMMA RegistryStep ==
  ASSUME Constants, RegistryInv, HandlerType, Authenticated, Serves, [Next]_vars
  PROVE  TableStep
<1> USE DEF HandlerType, Serving
<1>0. /\ FTPHandlers \cap (WebHandlers \cup SFTPHandlers) = {}
      /\ FTPHandlers \subseteq Handlers
      /\ WebHandlers \cup SFTPHandlers \subseteq Handlers
  BY DEF Handlers, Constants, ConnectionsAssumption
<1>1. ASSUME NEW h \in FTPHandlers, FTPClientConnected(h) PROVE TableStep
  <2>1. h \in Handlers /\ Add(h, NoUser) /\ ~Serving(h) /\ Serving(h)'
    BY <1>0, <1>1 DEF FTPClientConnected
  <2>2. \A g \in Handlers \ {h} : Serving(g)' <=> Serving(g)
    BY <1>0, <1>1 DEF FTPClientConnected
  <2> QED BY <2>1, <2>2, AddTableStep
<1>2. ASSUME NEW h \in FTPHandlers, NEW u \in Users, FTPValidateUser(h, u)
      PROVE TableStep
  <2>1. UNCHANGED registry BY <1>2 DEF FTPValidateUser
  <2>2. \A g \in Handlers : Serving(g)' <=> Serving(g)
    BY <1>0, <1>2 DEF FTPValidateUser
  <2> QED BY <2>1, <2>2, Quiet
<1>3. ASSUME NEW h \in FTPHandlers, FTPSwap(h) PROVE TableStep
  <2>1. h \in Handlers /\ login[h] \in Users
    BY <1>0, <1>3 DEF FTPSwap, Authenticated
  <2>2. \A g \in Handlers : Serving(g)' <=> Serving(g) BY <1>0, <1>3 DEF FTPSwap
  <2>3. CASE Swap(h, login[h]) BY <2>1, <2>2, <2>3, SwapTableStep
  <2>4. CASE SwapRefused(h, login[h])
    <3>1. UNCHANGED registry BY <2>1, <2>4, SwapRefusedStep
    <3> QED BY <2>2, <3>1, Quiet
  <2> QED BY <1>3, <2>3, <2>4 DEF FTPSwap
<1>4. ASSUME NEW h \in WebHandlers \cup SFTPHandlers,
             pc[h] = "idle", pc' = [pc EXCEPT ![h] = "checked"], UNCHANGED registry
      PROVE TableStep
  <2>1. \A g \in Handlers : Serving(g)' <=> Serving(g) BY <1>0, <1>4
  <2> QED BY <1>4, <2>1, Quiet
<1>5. ASSUME NEW h \in WebHandlers \cup SFTPHandlers, AddSession(h) PROVE TableStep
  <2>1. h \in Handlers /\ h \notin FTPHandlers /\ pc[h] = "checked"
    BY <1>0, <1>5 DEF AddSession
  <2>2. login[h] \in Users /\ ~Serving(h) BY <2>1 DEF Authenticated
  <2>3. CASE Add(h, login[h]) /\ pc' = [pc EXCEPT ![h] = "open"]
    <3>1. Serving(h)' BY <2>1, <2>3
    <3>2. \A g \in Handlers \ {h} : Serving(g)' <=> Serving(g) BY <2>1, <2>3
    <3> QED BY <2>1, <2>2, <2>3, <3>1, <3>2, AddTableStep
  <2>4. CASE pc' = [pc EXCEPT ![h] = "idle"] /\ UNCHANGED registry
    <3>1. \A g \in Handlers : Serving(g)' <=> Serving(g) BY <2>1, <2>4
    <3> QED BY <2>4, <3>1, Quiet
  <2> QED BY <1>5, <2>3, <2>4 DEF AddSession
<1>6. ASSUME NEW h \in Handlers, EndSession(h) PROVE TableStep
  <2>1. Serving(h) /\ ~Serving(h)' /\ Remove(ConnID[h])
    BY <1>6 DEF EndSession
  <2>2. \A g \in Handlers \ {h} : Serving(g)' <=> Serving(g) BY <1>6 DEF EndSession
  <2> QED BY <2>1, <2>2, RemoveTableStep
<1>7. ASSUME UNCHANGED <<registry, pc>> PROVE TableStep
  BY <1>7, Quiet
<1>8. ASSUME Next PROVE TableStep
  <2>1. ASSUME NEW h \in FTPHandlers, FTPNext(h) PROVE TableStep
    BY <1>1, <1>2, <1>3, <2>1 DEF FTPNext
  <2>2. ASSUME NEW h \in WebHandlers, NEW u \in Users, WebRequest(h, u)
        PROVE TableStep
    BY <1>4, <2>2 DEF WebRequest
  <2>3. ASSUME NEW h \in SFTPHandlers, ChannelRequest(h) PROVE TableStep
    BY <1>4, <2>3 DEF ChannelRequest
  <2>4. ASSUME NEW s \in SSHConns,
               (\E u \in Users : SSHLogin(s, u)) \/ SSHHandshakeDone(s) \/ SSHEnd(s)
        PROVE TableStep
    BY <1>7, <2>4 DEF SSHLogin, SSHHandshakeDone, SSHEnd
  <2>5. ASSUME NEW id \in Ids, Close(id) PROVE TableStep
    BY <1>7, <2>5 DEF Close
  <2>6. ASSUME checkIdles PROVE TableStep BY <1>7, <2>6, IdleCheckReads
  <2> QED BY <1>5, <1>6, <1>8, <2>1, <2>2, <2>3, <2>4, <2>5, <2>6 DEF Next
<1>9. ASSUME UNCHANGED vars PROVE TableStep BY <1>7, <1>9 DEF vars
<1> QED BY <1>8, <1>9

-----------------------------------------------------------------------------
(* The slice and the map of the SSH connections, and the state of their    *)
(* handlers.                                                               *)
LEMMA AddSSHStep ==
  ASSUME SSHInv, NEW s \in SSHConns, sshMapping[s] = 0, AddSSHConnection(s)
  PROVE  /\ sshConnections' \in Seq(SSHConns) /\ sshMapping' \in [SSHConns -> Nat]
         /\ SSHMappingExact'
         /\ \A t \in SSHConns : sshMapping'[t] # 0 <=> sshMapping[t] # 0 \/ t = s
<1> DEFINE n == Len(sshConnections)
<1> USE DEF SSHInv, SSHMappingExact
<1>1. /\ sshConnections \in Seq(SSHConns) /\ n \in Nat
      /\ DOMAIN sshConnections = 1..n
      /\ \A i \in 1..n : sshConnections[i] \in SSHConns
  BY LenProperties, ElementOfSeq
<1>2. /\ sshMapping' = [sshMapping EXCEPT ![s] = n + 1]
      /\ sshConnections' = Append(sshConnections, s)
  BY DEF AddSSHConnection
<1>3. /\ sshConnections' \in Seq(SSHConns) /\ Len(sshConnections') = n + 1
      /\ \A i \in 1..n : sshConnections'[i] = sshConnections[i]
      /\ sshConnections'[n + 1] = s
  BY <1>1, <1>2, AppendProperties
<1>4. DOMAIN sshConnections' = 1..(n + 1) BY <1>3, LenProperties
<1>5. \A t \in SSHConns : sshMapping'[t] = IF t = s THEN n + 1 ELSE sshMapping[t]
  BY <1>2
<1>6. sshMapping' \in [SSHConns -> Nat] BY <1>1, <1>2
<1>7. \A i \in 1..n : sshConnections[i] # s BY <1>1
<1>8. \A i \in 1..(n + 1) : sshMapping'[sshConnections'[i]] = i
  <2> TAKE i \in 1..(n + 1)
  <2>1. CASE i = n + 1 BY <1>3, <1>5, <2>1
  <2>2. CASE i \in 1..n BY <1>1, <1>3, <1>5, <1>7, <2>2
  <2> QED BY <1>1, <2>1, <2>2
<1>9. ASSUME NEW t \in SSHConns, sshMapping'[t] # 0
      PROVE sshMapping'[t] \in 1..(n + 1) /\ sshConnections'[sshMapping'[t]] = t
  <2>1. CASE t = s BY <1>1, <1>3, <1>5, <2>1
  <2>2. CASE t # s
    <3>1. sshMapping[t] \in 1..n /\ sshConnections[sshMapping[t]] = t
      BY <1>1, <1>5, <1>9, <2>2
    <3> QED BY <1>1, <1>3, <1>5, <2>2, <3>1
  <2> QED BY <2>1, <2>2
<1>10. \A t \in SSHConns : sshMapping'[t] # 0 <=> sshMapping[t] # 0 \/ t = s
  BY <1>1, <1>5
<1> QED BY <1>3, <1>4, <1>6, <1>8, <1>9, <1>10

LEMMA RemoveSSHStep ==
  ASSUME SSHInv, NEW s \in SSHConns, sshMapping[s] # 0, RemoveSSHConnection(s)
  PROVE  /\ sshConnections' \in Seq(SSHConns) /\ sshMapping' \in [SSHConns -> Nat]
         /\ SSHMappingExact'
         /\ \A t \in SSHConns : sshMapping'[t] # 0 <=> sshMapping[t] # 0 /\ t # s
<1> DEFINE n == Len(sshConnections)
           p == sshMapping[s]
           m == sshConnections[n]
<1> USE DEF SSHInv, SSHMappingExact
<1>1. /\ sshConnections \in Seq(SSHConns) /\ n \in Nat
      /\ DOMAIN sshConnections = 1..n
      /\ \A i \in 1..n : sshConnections[i] \in SSHConns
  BY LenProperties, ElementOfSeq
<1>2. p \in 1..n /\ sshConnections[p] = s BY <1>1
<1>3. n \in 1..n /\ n - 1 \in Nat /\ m \in SSHConns /\ sshMapping[m] = n
  BY <1>1, <1>2
<1>4. sshConnections' =
        [i \in 1..(n - 1) |-> IF i = p THEN m ELSE sshConnections[i]]
  BY DEF RemoveSSHConnection, Unordered
<1>5. sshConnections' \in Seq(SSHConns) /\ DOMAIN sshConnections' = 1..(n - 1)
  <2>1. sshConnections' \in [1..(n - 1) -> SSHConns] BY <1>1, <1>3, <1>4
  <2> QED BY <1>3, <1>4, <2>1, SeqDef
<1>6. sshMapping' = IF p = n THEN [sshMapping EXCEPT ![s] = 0]
                    ELSE [[sshMapping EXCEPT ![s] = 0] EXCEPT ![m] = p]
  BY DEF RemoveSSHConnection
<1>7. m = s <=> p = n BY <1>2, <1>3
<1>8. ASSUME NEW t \in SSHConns
      PROVE sshMapping'[t] = IF t = s THEN 0 ELSE IF t = m THEN p ELSE sshMapping[t]
  BY <1>3, <1>6, <1>7
<1>9. sshMapping' \in [SSHConns -> Nat] BY <1>1, <1>2, <1>6
<1>10. \A i \in 1..(n - 1) : sshMapping'[sshConnections'[i]] = i
  <2> TAKE i \in 1..(n - 1)
  <2>0. i \in 1..n /\ i # n
    <3> HIDE DEF n
    <3> QED BY <1>1
  <2>1. CASE i = p BY <1>3, <1>4, <1>7, <1>8, <2>0, <2>1
  <2>2. CASE i # p
    <3>1. sshConnections'[i] = sshConnections[i] BY <1>4, <2>2
    <3>2. sshMapping[sshConnections[i]] = i /\ sshConnections[i] \in SSHConns
      BY <1>1, <2>0
    <3>3. sshConnections[i] # s /\ sshConnections[i] # m
      BY <1>3, <2>0, <2>2, <3>2
    <3> QED BY <1>8, <3>1, <3>2, <3>3
  <2> QED BY <2>1, <2>2
<1>11. ASSUME NEW t \in SSHConns, sshMapping'[t] # 0
       PROVE sshMapping'[t] \in 1..(n - 1) /\ sshConnections'[sshMapping'[t]] = t
  <2>1. t # s BY <1>8, <1>11
  <2>2. CASE t = m
    <3>1. p # n BY <1>7, <2>1, <2>2
    <3>2. p \in 1..(n - 1) BY <1>1, <1>2, <3>1
    <3> QED BY <1>4, <1>8, <2>1, <2>2, <3>2
  <2>3. CASE t # m
    <3>1. sshMapping'[t] = sshMapping[t] BY <1>8, <2>1, <2>3
    <3>2. sshMapping[t] \in 1..n /\ sshConnections[sshMapping[t]] = t
      BY <1>1, <1>11, <3>1
    <3>3. sshMapping[t] # n /\ sshMapping[t] # p BY <1>2, <2>1, <2>3, <3>2
    <3>4. sshMapping[t] \in 1..(n - 1) BY <1>1, <3>2, <3>3
    <3> QED BY <1>4, <3>1, <3>2, <3>3, <3>4
  <2> QED BY <2>2, <2>3
<1>12. \A t \in SSHConns : sshMapping'[t] # 0 <=> sshMapping[t] # 0 /\ t # s
  BY <1>1, <1>2, <1>3, <1>8
<1> QED BY <1>5, <1>9, <1>10, <1>11, <1>12

LEMMA SSHInvStep ==
  ASSUME HandlerType, SSHInv, [Next]_vars PROVE SSHInv'
<1> USE DEF HandlerType
<1>1. ASSUME UNCHANGED sshRegistry,
             \A s \in SSHConns : sshState'[s] = "open" <=> sshState[s] = "open"
      PROVE SSHInv'
  BY <1>1 DEF SSHInv, SSHMappingExact, sshRegistry
<1>2. ASSUME NEW s \in SSHConns, NEW u \in Users, SSHLogin(s, u) PROVE SSHInv'
  <2>1. \A t \in SSHConns : sshState'[t] = "open" <=> sshState[t] = "open"
    BY <1>2 DEF SSHLogin
  <2> QED BY <1>1, <1>2, <2>1 DEF SSHLogin
<1>3. ASSUME NEW s \in SSHConns, SSHHandshakeDone(s) PROVE SSHInv'
  <2>1. sshMapping[s] = 0 BY <1>3 DEF SSHHandshakeDone, SSHInv
  <2>2. CASE AddSSHConnection(s) /\ sshState' = [sshState EXCEPT ![s] = "open"]
    <3>1. \A t \in SSHConns : sshState'[t] = "open" <=> sshState[t] = "open" \/ t = s
      BY <2>2
    <3> QED BY <2>1, <2>2, <3>1, AddSSHStep DEF SSHInv
  <2>3. CASE UNCHANGED sshRegistry /\ sshState' = [sshState EXCEPT ![s] = "idle"]
    <3>1. \A t \in SSHConns : sshState'[t] = "open" <=> sshState[t] = "open"
      BY <1>3, <2>3 DEF SSHHandshakeDone
    <3> QED BY <1>1, <2>3, <3>1
  <2> QED BY <1>3, <2>2, <2>3 DEF SSHHandshakeDone
<1>4. ASSUME NEW s \in SSHConns, SSHEnd(s) PROVE SSHInv'
  <2>1. sshMapping[s] # 0 BY <1>4 DEF SSHEnd, SSHInv
  <2>2. \A t \in SSHConns : sshState'[t] = "open" <=> sshState[t] = "open" /\ t # s
    BY <1>4 DEF SSHEnd
  <2> QED BY <1>4, <2>1, <2>2, RemoveSSHStep DEF SSHEnd, SSHInv
<1>5. ASSUME UNCHANGED <<sshRegistry, sshState>> PROVE SSHInv' BY <1>1, <1>5
<1>6. ASSUME NEW h \in Handlers,
             FTPNext(h) \/ (\E u \in Users : WebRequest(h, u)) \/ ChannelRequest(h)
               \/ AddSession(h) \/ EndSession(h)
      PROVE SSHInv'
  BY <1>5, <1>6 DEF FTPNext, FTPClientConnected, FTPValidateUser, FTPSwap,
     WebRequest, ChannelRequest, AddSession, EndSession, sshVars
<1>7. ASSUME NEW id, Close(id) PROVE SSHInv' BY <1>5, <1>7 DEF Close, sshVars
<1>8. ASSUME checkIdles PROVE SSHInv' BY <1>5, <1>8, IdleCheckReads
<1>9. CASE UNCHANGED vars BY <1>5, <1>9 DEF vars, sshVars
<1> QED BY <1>2, <1>3, <1>4, <1>6, <1>7, <1>8, <1>9 DEF Next, Handlers

-----------------------------------------------------------------------------
IInv == /\ RegistryInv /\ Serves /\ HandlerType /\ Authenticated /\ SSHInv

LEMMA InitInv == ASSUME Constants, Init PROVE IInv /\ Table!Init
<1>1. <<>> \in Seq(Conn) /\ <<>> \in Seq(SSHConns) /\ Len(<<>>) = 0
  BY EmptySeq
<1>2. DOMAIN connections = {} /\ DOMAIN sshConnections = {} BY DEF Init
<1>3. RegistryType /\ MappingExact /\ CountType
  BY <1>1, <1>2 DEF Init, RegistryType, MappingExact, CountType
<1>4. \A u \in Users : SessionsOf(u) = {} BY <1>2 DEF SessionsOf
<1>5. UserCountExact /\ SessionLimit
  <2>1. \A u \in Users : Cardinality(SessionsOf(u)) = 0
    BY <1>4, FS_EmptySet
  <2>2. \A u \in Users : perUserConns[u] = 0 BY DEF Init
  <2>3. \A u \in Users : MaxSessions[u] \in Nat
    BY DEF Constants, ConnectionsAssumption
  <2>4. UserCountExact BY <2>1, <2>2 DEF UserCountExact
  <2>5. SessionLimit BY <2>1, <2>3 DEF SessionLimit
  <2> QED BY <2>4, <2>5
<1>6. session = [h \in Handlers |-> NotRegistered]
  BY DEF Init, session, Constants, ConnectionsAssumption
<1>7. Serves BY <1>6 DEF Serves, Serving, Init
<1>8. HandlerType /\ Authenticated BY DEF Init, HandlerType, Authenticated
<1>9. SSHInv BY <1>1, <1>2 DEF Init, SSHInv, SSHMappingExact
<1>10. Table!Init BY <1>6 DEF Table!Init, session
<1> QED BY <1>3, <1>5, <1>7, <1>8, <1>9, <1>10 DEF IInv, RegistryInv

LEMMA NextInv ==
  ASSUME Constants, IInv, [Next]_vars
  PROVE  IInv' /\ (session' = session \/ Table!Next)
BY HandlerTypeStep, RegistryStep, SSHInvStep DEF IInv, TableStep

LEMMA Invariant == ASSUME Constants PROVE Spec => []IInv
<1>1. Init => IInv BY InitInv
<1>2. IInv /\ [Next]_vars => IInv' BY NextInv
<1> QED BY <1>1, <1>2, PTL DEF Spec

(* Add, Swap and Remove keep the map of ids exact for the slice: the       *)
(* element that Remove moves into the hole is mapped to its new position.  *)
THEOREM MappingsExact == ASSUME Constants PROVE Spec => []MappingExact
<1>1. IInv => MappingExact BY DEF IInv, RegistryInv
<1> QED BY <1>1, Invariant, PTL

(* AddSSHConnection and RemoveSSHConnection keep theirs, which rests on an *)
(* SSH connection being in the slice exactly while it is open.             *)
THEOREM SSHMappingsExact == ASSUME Constants PROVE Spec => []SSHMappingExact
<1>1. IInv => SSHMappingExact BY DEF IInv, SSHInv
<1> QED BY <1>1, Invariant, PTL

(* perUserConns counts the registered connections of every user, so no     *)
(* sequence of logins, refused swaps and removals leaves a user charged    *)
(* for a session or free of one.                                           *)
THEOREM CountsExact == ASSUME Constants PROVE Spec => []UserCountExact
<1>1. IInv => UserCountExact BY DEF IInv, RegistryInv
<1> QED BY <1>1, Invariant, PTL

(* MaxSessions is never exceeded, whatever checks the handlers made before *)
(* Add and Swap.                                                           *)
THEOREM LimitKept == ASSUME Constants PROVE Spec => []SessionLimit
<1>1. IInv => SessionLimit BY DEF IInv, RegistryInv
<1> QED BY <1>1, Invariant, PTL

(* What Registered and session say of a handler is the same. *)
LEMMA RegisteredTable ==
  ASSUME Constants, RegistryType, MappingExact, NEW h \in Handlers
  PROVE  h \in Registered <=> session[h] # NotRegistered
<1>1. DOMAIN connections = 1..Len(connections) /\ Len(connections) \in Nat
  BY LenProperties DEF RegistryType
<1>2. ASSUME NEW i \in DOMAIN connections, connections[i].conn = h
      PROVE mapping[ConnID[h]] # 0
  BY <1>1, <1>2 DEF MappingExact
<1>3. ASSUME mapping[ConnID[h]] # 0
      PROVE \E i \in DOMAIN connections : connections[i].conn = h
  BY <1>1, <1>3, Mapped
<1>4. mapping[ConnID[h]] = 0 <=> session[h] = NotRegistered BY MappedTable
<1> QED BY <1>2, <1>3, <1>4 DEF Registered

(* An open handler's session is that of the user it authenticated as; the  *)
(* one that is about to swap still has the session of its earlier login.   *)
LoggedIn == \A h \in Handlers : pc[h] = "open" => session[h] = login[h]

(* A handler that does not serve a session authenticated as nobody, so an  *)
(* FTP client that connects is registered without a user.                  *)
NotLoggedIn == \A h \in Handlers : pc[h] = "idle" => login[h] = NoUser

(* A handler is in the registry exactly while it serves its session.       *)
THEOREM NoGhosts == ASSUME Constants PROVE Spec => []NoGhostSessions
<1>1. IInv => NoGhostSessions
  BY RegisteredTable DEF IInv, RegistryInv, Serves, Serving, NoGhostSessions
<1> QED BY <1>1, Invariant, PTL

LEMMA LoggedInStep ==
  ASSUME Constants, IInv, LoggedIn, NotLoggedIn, [Next]_vars
  PROVE  LoggedIn' /\ NotLoggedIn'
<1> USE DEF HandlerType
<1> DEFINE Goal == LoggedIn' /\ NotLoggedIn'
<1>0. /\ RegistryInv /\ Serves /\ HandlerType /\ Authenticated
      /\ FTPHandlers \cap (WebHandlers \cup SFTPHandlers) = {}
      /\ FTPHandlers \subseteq Handlers
      /\ WebHandlers \cup SFTPHandlers \subseteq Handlers
      /\ DOMAIN session = Handlers
  BY DEF IInv, Handlers, Constants, ConnectionsAssumption, session
<1>1. ASSUME NEW h \in Handlers, ~Serving(h) PROVE mapping[ConnID[h]] = 0
  BY <1>0, <1>1, MappedTable DEF Serves, RegistryInv
<1>2. ASSUME UNCHANGED registry PROVE session' = session
  BY <1>0, <1>2, RegistryUnchanged
<1>3. ASSUME NEW h \in FTPHandlers, FTPClientConnected(h) PROVE Goal
  <2>1. h \in Handlers /\ mapping[ConnID[h]] = 0 /\ Add(h, NoUser)
    BY <1>0, <1>1, <1>3 DEF FTPClientConnected, Serving
  <2>2. session' = [session EXCEPT ![h] = NoUser] BY <1>0, <2>1, AddStep
  <2>3. login[h] = NoUser BY <1>3, <2>1 DEF FTPClientConnected, NotLoggedIn
  <2> QED BY <1>0, <1>3, <2>1, <2>2, <2>3 DEF FTPClientConnected, LoggedIn, NotLoggedIn
<1>4. ASSUME NEW h \in FTPHandlers, NEW u \in Users, FTPValidateUser(h, u) PROVE Goal
  <2>1. h \in Handlers /\ session' = session BY <1>0, <1>2, <1>4 DEF FTPValidateUser
  <2>2. pc'[h] \in {"checked", "ending"} BY <1>0, <1>4, <2>1 DEF FTPValidateUser
  <2>3. \A g \in Handlers \ {h} : pc'[g] = pc[g] /\ login'[g] = login[g]
    BY <1>0, <1>4, <2>1 DEF FTPValidateUser
  <2> QED BY <2>1, <2>2, <2>3 DEF LoggedIn, NotLoggedIn
<1>5. ASSUME NEW h \in FTPHandlers, FTPSwap(h) PROVE Goal
  <2>1. h \in Handlers /\ login[h] \in Users
    BY <1>0, <1>5 DEF FTPSwap, Authenticated
  <2>2. CASE Swap(h, login[h]) /\ pc' = [pc EXCEPT ![h] = "open"]
    <3>1. session' = [session EXCEPT ![h] = login[h]] BY <1>0, <2>1, <2>2, SwapStep
    <3> QED BY <1>0, <1>5, <2>1, <2>2, <3>1 DEF FTPSwap, LoggedIn, NotLoggedIn
  <2>3. CASE SwapRefused(h, login[h]) /\ pc' = [pc EXCEPT ![h] = "ending"]
    <3>1. session' = session BY <1>0, <1>2, <2>1, <2>3, SwapRefusedStep
    <3> QED BY <1>0, <1>5, <2>1, <2>3, <3>1 DEF FTPSwap, LoggedIn, NotLoggedIn
  <2> QED BY <1>5, <2>2, <2>3 DEF FTPSwap
<1>6. ASSUME NEW h \in Handlers, NEW u, pc' = [pc EXCEPT ![h] = "checked"],
             login' = [login EXCEPT ![h] = u], UNCHANGED registry
      PROVE Goal
  <2>1. session' = session BY <1>2, <1>6
  <2> QED BY <1>0, <1>6, <2>1 DEF LoggedIn, NotLoggedIn
<1>7. ASSUME NEW h \in WebHandlers \cup SFTPHandlers, AddSession(h) PROVE Goal
  <2>1. h \in Handlers /\ login[h] \in Users /\ mapping[ConnID[h]] = 0
    BY <1>0, <1>1, <1>7 DEF AddSession, Authenticated, Serving
  <2>2. CASE Add(h, login[h]) /\ pc' = [pc EXCEPT ![h] = "open"] /\ UNCHANGED login
    <3>1. session' = [session EXCEPT ![h] = login[h]] BY <1>0, <2>1, <2>2, AddStep
    <3> QED BY <1>0, <2>1, <2>2, <3>1 DEF LoggedIn, NotLoggedIn
  <2>3. CASE /\ pc' = [pc EXCEPT ![h] = "idle"] /\ UNCHANGED registry
             /\ login' = [login EXCEPT ![h] = NoUser]
    <3>1. session' = session BY <1>2, <2>3
    <3> QED BY <1>0, <2>1, <2>3, <3>1 DEF LoggedIn, NotLoggedIn
  <2> QED BY <1>7, <2>2, <2>3 DEF AddSession
<1>8. ASSUME NEW h \in Handlers, EndSession(h) PROVE Goal
  <2>1. Serving(h) BY <1>8 DEF EndSession, Serving
  <2>2. mapping[ConnID[h]] # 0 BY <1>0, <2>1, MappedTable DEF Serves, RegistryInv
  <2>3. session' = [session EXCEPT ![h] = NotRegistered]
    BY <1>0, <1>8, <2>2, RemoveStep DEF EndSession
  <2> QED BY <1>0, <1>8, <2>3 DEF EndSession, LoggedIn, NotLoggedIn
<1>9. ASSUME UNCHANGED <<registry, pc, login>> PROVE Goal
  <2>1. session' = session BY <1>2, <1>9
  <2> QED BY <1>9, <2>1 DEF LoggedIn, NotLoggedIn
<1>10. ASSUME NEW h \in Handlers,
              (\E u \in Users : WebRequest(h, u)) \/ ChannelRequest(h)
       PROVE Goal
  BY <1>6, <1>10 DEF WebRequest, ChannelRequest
<1>11. ASSUME NEW s \in SSHConns,
              (\E u \in Users : SSHLogin(s, u)) \/ SSHHandshakeDone(s) \/ SSHEnd(s)
       PROVE Goal
  BY <1>9, <1>11 DEF SSHLogin, SSHHandshakeDone, SSHEnd
<1>12. ASSUME NEW id, Close(id) PROVE Goal BY <1>9, <1>12 DEF Close
<1>13. ASSUME checkIdles PROVE Goal BY <1>9, <1>13, IdleCheckReads
<1>14. CASE UNCHANGED vars BY <1>9, <1>14 DEF vars
<1>15. CASE Next
  BY <1>0, <1>3, <1>4, <1>5, <1>7, <1>8, <1>10, <1>11, <1>12, <1>13, <1>15 DEF Next, FTPNext
<1> QED BY <1>14, <1>15

(* A session is registered under the user its handler authenticated as,    *)
(* also after an FTP client logged in again or a second login was refused: *)
(* what Swap, SwapRefused and Add leave is what the handler believes.      *)
THEOREM SessionsOwned == ASSUME Constants PROVE Spec => []SessionUser
<1>1. Init => LoggedIn /\ NotLoggedIn BY DEF Init, LoggedIn, NotLoggedIn
<1>2. IInv /\ LoggedIn /\ NotLoggedIn /\ [Next]_vars => LoggedIn' /\ NotLoggedIn'
  BY LoggedInStep
<1>3. ASSUME IInv, LoggedIn PROVE SessionUser
  <2> SUFFICES ASSUME NEW h \in Handlers, pc[h] = "open"
               PROVE \E i \in DOMAIN connections :
                       connections[i] = [conn |-> h, user |-> login[h]]
    BY DEF SessionUser
  <2>1. session[h] = login[h] /\ login[h] \in Users \cup {NoUser}
    BY <1>3 DEF IInv, LoggedIn, HandlerType
  <2>2. h \in SessionsOf(login[h])
    BY <1>3, <2>1, TableEntry DEF IInv, RegistryInv
  <2> QED BY <2>2 DEF SessionsOf
<1> QED BY <1>1, <1>2, <1>3, Invariant, PTL DEF Spec

(* What the idle check knows of the SSH connections it is to close: while  *)
(* it reads, the steady sessions they have are still to be looked at; then *)
(* they have none, as no session is added while it reads.                  *)
ToCloseInv ==
  /\ ~idleCheck.locked => idleCheck.toRead = {}
  /\ \A s \in idleCheck.toClose : \A h \in ChannelsOf(s) \cap idleCheck.steady :
       idleCheck.locked /\ (h \in Registered => h \in idleCheck.toRead)

(* Nobody but the check itself touches its state while it reads, and       *)
(* sessions or SSH connections that end only take something away from it.  *)
LEMMA IdleCheckKept ==
  ASSUME IdleType, ToCloseInv,
         \/ UNCHANGED <<registry, idleCheck>>
         \/ Unlocked /\ UNCHANGED idleCheck
         \/ Unlocked /\ \E h \in Handlers :
              idleCheck' = [idleCheck EXCEPT !.steady = @ \ {h}]
         \/ Unlocked /\ \E s \in SSHConns : idleCheck' = Closed(s)
  PROVE  IdleType' /\ ToCloseInv'
<1> USE DEF IdleType, ToCloseInv
<1>1. CASE UNCHANGED <<registry, idleCheck>>
  BY <1>1 DEF Registered, ChannelsOf, registry
<1>2. CASE Unlocked /\ UNCHANGED idleCheck BY <1>2 DEF Unlocked, ChannelsOf
<1>3. ASSUME Unlocked, NEW h \in Handlers,
             idleCheck' = [idleCheck EXCEPT !.steady = @ \ {h}]
      PROVE IdleType' /\ ToCloseInv'
  BY <1>3 DEF Unlocked, ChannelsOf
<1>4. ASSUME Unlocked, NEW s \in SSHConns, idleCheck' = Closed(s)
      PROVE IdleType' /\ ToCloseInv'
  BY <1>4 DEF Unlocked, ChannelsOf, Closed, NoCheck
<1> QED BY <1>1, <1>2, <1>3, <1>4

LEMMA ToCloseStep ==
  ASSUME Constants, IdleType, ToCloseInv, SSHInv, [Next]_vars
  PROVE  IdleType' /\ ToCloseInv'
<1> DEFINE Goal == IdleType' /\ ToCloseInv'
<1> USE DEF IdleType, ToCloseInv
<1>0. SSHConns \cap SFTPHandlers = {}
  BY DEF Constants, ConnectionsAssumption, Handlers
<1>1. ASSUME NEW h \in Handlers,
             FTPNext(h) \/ (\E u \in Users : WebRequest(h, u)) \/ ChannelRequest(h)
               \/ AddSession(h) \/ EndSession(h)
      PROVE Goal
  BY <1>1, IdleCheckKept DEF FTPNext, FTPClientConnected, FTPValidateUser, FTPSwap,
     WebRequest, ChannelRequest, AddSession, EndSession, sshVars
<1>2. ASSUME NEW s \in SSHConns,
             (\E u \in Users : SSHLogin(s, u)) \/ SSHHandshakeDone(s) \/ SSHEnd(s)
      PROVE Goal
  BY <1>2, IdleCheckKept DEF SSHLogin, SSHHandshakeDone, SSHEnd
<1>3. ASSUME NEW id, Close(id) PROVE Goal
  BY <1>3, IdleCheckKept DEF Close, sshVars
<1>4. ASSUME NEW steady \in SUBSET SFTPHandlers, CheckBegins(steady) PROVE Goal
  <2>1. DOMAIN sshConnections = 1..Len(sshConnections)
        /\ \A i \in DOMAIN sshConnections : sshConnections[i] \in SSHConns
    BY LenProperties, ElementOfSeq DEF SSHInv
  <2> QED BY <1>4, <2>1 DEF CheckBegins, ChannelsOf
<1>5. ASSUME NEW s \in SSHConns, NEW idle \in BOOLEAN, ReadSSH(s, idle) PROVE Goal
  <2>1. /\ idleCheck.locked /\ s \in idleCheck.toRead /\ idleCheck.toRead \subseteq SSHConns
        /\ Registered' = Registered
    BY <1>5 DEF ReadSSH, First, Registered, registry
  <2>2. CASE idle BY <1>0, <1>5, <2>1, <2>2 DEF ReadSSH, ChannelsOf
  <2>3. CASE ~idle BY <1>0, <1>5, <2>1, <2>3 DEF ReadSSH, ChannelsOf
  <2> QED BY <2>2, <2>3
<1>6. ASSUME NEW h \in SFTPHandlers, NEW idle \in BOOLEAN, ReadSession(h, idle) PROVE Goal
  <2>1. /\ idleCheck.locked /\ h \in idleCheck.toRead /\ Registered' = Registered
        /\ h \in idleCheck.steady => ~idle
    BY <1>6 DEF ReadSession, Registered, registry
  <2>2. CASE idle BY <1>6, <2>1, <2>2 DEF ReadSession, ChannelsOf
  <2>3. CASE ~idle BY <1>6, <2>1, <2>3 DEF ReadSession, ChannelsOf
  <2> QED BY <2>2, <2>3
<1>7. ASSUME CheckUnlocks PROVE Goal
  BY <1>7 DEF CheckUnlocks, ChannelsOf, NoCheck
<1>8. ASSUME NEW s \in SSHConns, CloseIdleSSH(s) PROVE Goal
  BY <1>8, IdleCheckKept DEF CloseIdleSSH
<1>9. CASE UNCHANGED vars BY <1>9, IdleCheckKept DEF vars, sshVars
<1>10. CASE checkIdles BY <1>4, <1>5, <1>6, <1>7, <1>8, <1>10 DEF checkIdles
<1> QED BY <1>1, <1>2, <1>3, <1>9, <1>10 DEF Next, Handlers

(* The registry's slice, map and counters, the handlers' state, that of    *)
(* the SSH connections and of the idle check keep their types.             *)
THEOREM TypeCorrect == ASSUME Constants PROVE Spec => []TypeOK
<1>1. Init => IdleType /\ ToCloseInv BY DEF Init, IdleType, ToCloseInv, NoCheck
<1>2. IInv /\ IdleType /\ ToCloseInv /\ [Next]_vars => IdleType' /\ ToCloseInv'
  BY ToCloseStep DEF IInv
<1>3. IInv /\ IdleType => TypeOK
  BY DEF IInv, RegistryInv, RegistryType, CountType, HandlerType, SSHInv, IdleType,
     TypeOK, Conn
<1> QED BY <1>1, <1>2, <1>3, Invariant, PTL DEF Spec

(* However the reads of the idle check interleave with sessions that       *)
(* start, end, or become active or idle, and whatever happens between the  *)
(* reads and the closes, a session that is active whenever it looks keeps  *)
(* its SSH connection.                                                     *)
THEOREM IdleCheckSafe == ASSUME Constants PROVE Spec => NoActiveSessionCut
<1>1. Init => IdleType /\ ToCloseInv BY DEF Init, IdleType, ToCloseInv, NoCheck
<1>2. IInv /\ IdleType /\ ToCloseInv /\ [Next]_vars => IdleType' /\ ToCloseInv'
  BY ToCloseStep DEF IInv
<1>3. ToCloseInv =>
        \A s \in SSHConns : CloseIdleSSH(s) => ChannelsOf(s) \cap idleCheck.steady = {}
  BY DEF ToCloseInv, CloseIdleSSH, Unlocked
<1> QED BY <1>1, <1>2, <1>3, Invariant, PTL DEF Spec, NoActiveSessionCut

(* The registry implements the session table: every step of the code is a  *)
(* session opened, changed or closed within the limits, or none of it.     *)
THEOREM ImplementsTable == ASSUME Constants PROVE Spec => TableSpec
<1>1. Init => Table!Init BY InitInv
<1>2. IInv /\ [Next]_vars => [Table!Next]_session BY NextInv
<1> QED BY <1>1, <1>2, Invariant, PTL DEF Spec, TableSpec, Table!Spec, session
=============================================================================

---------------------------- MODULE MemoryProvider ----------------------------
(***************************************************************************)
(* The memory provider: every operation runs under one lock, and no        *)
(* transaction undoes what it wrote before it found a missing object.      *)
(* addUser, updateUser, ... undo some of it by hand.  Where an operation   *)
(* fails after it mapped a part of the named objects, done is that part.   *)
(***************************************************************************)
EXTENDS ProviderStore

CONSTANT NamesMissing  \* requests may name objects that do not exist

(* The objects a request names. *)
Requested(T) == T \subseteq rows \/ NamesMissing

-----------------------------------------------------------------------------
(* A missing group takes back the groups and leaves the role; a missing    *)
(* folder takes back the folders and leaves the role and the groups.       *)
MemoryAddUser(u, R, G, F) ==
  /\ provider = Memory /\ u \notin rows
  /\ Requested(R \cup G \cup F)
  /\ \/ /\ R \cup G \cup F \subseteq rows
        /\ Put(u, R \cup G \cup F)
        /\ back' = Map(back, u, R \cup G \cup F)
     \/ /\ R \subseteq rows /\ ~(G \subseteq rows)
        /\ \E done \in SUBSET (G \cap rows) :
             back' = Unmap(Map(back, u, R), u, done)
        /\ UNCHANGED <<rows, refs>>
     \/ /\ R \cup G \subseteq rows /\ ~(F \subseteq rows)
        /\ \E done \in SUBSET (F \cap rows) :
             back' = Unmap(Map(back, u, R \cup G), u, done)
        /\ UNCHANGED <<rows, refs>>

(* Mutant: the old role keeps the user on its list. *)
MemoryUpdateUserKeepsRole(u, R, G, F) ==
  /\ provider = Memory /\ u \in rows
  /\ R \cup G \cup F \subseteq rows
  /\ Put(u, R \cup G \cup F)
  /\ back' = Map(Unmap(back, u, Named(u, Groups \cup Folders)), u, R \cup G \cup F)

(* Role, groups and folders are switched one after the other; a missing    *)
(* object maps the old ones of its own kind again and returns.             *)
MemoryUpdateUser(u, R, G, F) ==
  LET noRole   == Unmap(back, u, Named(u, Roles))
      noGroup  == Unmap(Map(noRole, u, R), u, Named(u, Groups))
      noFolder == Unmap(Map(noGroup, u, G), u, Named(u, Folders))
  IN
  /\ provider = Memory /\ u \in rows
  /\ Requested(R \cup G \cup F)
  /\ \/ /\ R \cup G \cup F \subseteq rows
        /\ back' = Map(noFolder, u, F)
        /\ Put(u, R \cup G \cup F)
     \/ /\ ~(R \subseteq rows)
        /\ back' = Map(noRole, u, Named(u, Roles) \cap rows)
        /\ UNCHANGED <<rows, refs>>
     \/ /\ R \subseteq rows /\ ~(G \subseteq rows)
        /\ \E done \in SUBSET (G \cap rows) :
             back' = Map(noGroup, u, done \cup (Named(u, Groups) \cap rows))
        /\ UNCHANGED <<rows, refs>>
     \/ /\ R \cup G \subseteq rows /\ ~(F \subseteq rows)
        /\ \E done \in SUBSET (F \cap rows) :
             back' = Map(noFolder, u, done \cup (Named(u, Folders) \cap rows))
        /\ UNCHANGED <<rows, refs>>

(* Mutant: the shares of a deleted user stay. *)
MemoryDeleteUserKeepsShares(u) ==
  /\ provider = Memory /\ u \in rows
  /\ Delete({u} \cup {k \in Keys : <<k, u>> \in refs},
            Unmap(back, u, Named(u, Roles \cup Groups \cup Folders)))

deleteAPIKeysWithUser(u)  == {k \in Keys : <<k, u>> \in refs}
deleteSharesWithUser(u)   == {s \in Shares : <<s, u>> \in refs}
deleteAPIKeysWithAdmin(a) == {k \in Keys : <<k, a>> \in refs}

MemoryDeleteUser(u) ==
  /\ provider = Memory /\ u \in rows
  /\ Delete({u} \cup deleteAPIKeysWithUser(u) \cup deleteSharesWithUser(u),
            Unmap(back, u, Named(u, Roles \cup Groups \cup Folders)))

-----------------------------------------------------------------------------
MemoryAddAdmin(a, R, G) ==
  /\ provider = Memory /\ a \notin rows
  /\ Requested(R \cup G)
  /\ \/ /\ R \cup G \subseteq rows
        /\ Put(a, R \cup G)
        /\ back' = Map(back, a, R \cup G)
     \/ /\ R \subseteq rows /\ ~(G \subseteq rows)
        /\ \E done \in SUBSET (G \cap rows) :
             back' = Unmap(Map(back, a, R), a, done)
        /\ UNCHANGED <<rows, refs>>

MemoryUpdateAdmin(a, R, G) ==
  LET noRole  == Unmap(back, a, Named(a, Roles))
      noGroup == Unmap(Map(noRole, a, R), a, Named(a, Groups))
  IN
  /\ provider = Memory /\ a \in rows
  /\ Requested(R \cup G)
  /\ \/ /\ R \cup G \subseteq rows
        /\ back' = Map(noGroup, a, G)
        /\ Put(a, R \cup G)
     \/ /\ ~(R \subseteq rows)
        /\ back' = Map(noRole, a, Named(a, Roles) \cap rows)
        /\ UNCHANGED <<rows, refs>>
     \/ /\ R \subseteq rows /\ ~(G \subseteq rows)
        /\ \E done \in SUBSET (G \cap rows) :
             back' = Map(noGroup, a, done \cup (Named(a, Groups) \cap rows))
        /\ UNCHANGED <<rows, refs>>

MemoryDeleteAdmin(a) ==
  /\ provider = Memory /\ a \in rows
  /\ Delete({a} \cup deleteAPIKeysWithAdmin(a),
            Unmap(back, a, Named(a, Roles \cup Groups)))

-----------------------------------------------------------------------------
(* A missing folder takes back every folder mapped so far. *)
MemoryAddGroup(g, F) ==
  /\ provider = Memory /\ g \notin rows
  /\ Requested(F)
  /\ \/ F \subseteq rows /\ Put(g, F) /\ back' = Map(back, g, F)
     \/ /\ ~(F \subseteq rows)
        /\ \E done \in SUBSET (F \cap rows) : back' = Unmap(back, g, done)
        /\ UNCHANGED <<rows, refs>>

MemoryUpdateGroup(g, F) ==
  LET noFolder == Unmap(back, g, Named(g, Folders)) IN
  /\ provider = Memory /\ g \in rows
  /\ Requested(F)
  /\ \/ F \subseteq rows /\ Put(g, F) /\ back' = Map(noFolder, g, F)
     \/ /\ ~(F \subseteq rows)
        /\ \E done \in SUBSET (F \cap rows) :
             back' = Map(noFolder, g, done \cup (Named(g, Folders) \cap rows))
        /\ UNCHANGED <<rows, refs>>

(* Refused while a user is on the group's list; the group is taken out of  *)
(* the records of the admins on its list.                                  *)
MemoryDeleteGroup(g) ==
  /\ provider = Memory /\ g \in rows
  /\ Listed(g, Users) = {}
  /\ rows' = rows \ {g}
  /\ refs' = {l \in refs : l[1] # g} \ ((Listed(g, Admins) \cap rows) \X {g})
  /\ back' = {l \in Unmap(back, g, Named(g, Folders)) : l[2] # g}

-----------------------------------------------------------------------------
(* Folders, roles and event actions name nothing. *)
MemoryAddFolder(f) ==
  /\ provider = Memory /\ f \notin rows
  /\ Put(f, {}) /\ UNCHANGED back

MemoryDeleteFolder(f) ==
  /\ provider = Memory /\ f \in rows
  /\ rows' = rows \ {f}
  /\ refs' = refs \ ((Listed(f, Users \cup Groups) \cap rows) \X {f})
  /\ back' = {l \in back : l[2] # f}

MemoryAddRole(r) ==
  /\ provider = Memory /\ r \notin rows
  /\ Put(r, {}) /\ UNCHANGED back

MemoryDeleteRole(r) ==
  /\ provider = Memory /\ r \in rows
  /\ Listed(r, Admins) = {}
  /\ rows' = rows \ {r}
  /\ refs' = refs \ ((Listed(r, Users) \cap rows) \X {r})
  /\ back' = {l \in back : l[2] # r}

MemoryAddEventAction(c) ==
  /\ provider = Memory /\ c \notin rows
  /\ Put(c, {}) /\ UNCHANGED back

(* Rules that no longer exist leave the action's list. *)
MemoryUpdateEventAction(c) ==
  /\ provider = Memory /\ c \in rows
  /\ back' = {l \in back : l[2] = c => l[1] \in rows}
  /\ UNCHANGED <<rows, refs>>

MemoryDeleteEventAction(c) ==
  /\ provider = Memory /\ c \in rows
  /\ Listed(c, Rules) = {}
  /\ Delete({c}, back)

-----------------------------------------------------------------------------
MemoryAddEventRule(e, C) ==
  /\ provider = Memory /\ e \notin rows
  /\ Requested(C)
  /\ \/ C \subseteq rows /\ Put(e, C) /\ back' = Map(back, e, C)
     \/ /\ ~(C \subseteq rows)
        /\ \E done \in SUBSET (C \cap rows) : back' = Unmap(back, e, done)
        /\ UNCHANGED <<rows, refs>>

MemoryUpdateEventRule(e, C) ==
  LET noAction == Unmap(back, e, Named(e, Actions)) IN
  /\ provider = Memory /\ e \in rows
  /\ Requested(C)
  /\ \/ C \subseteq rows /\ Put(e, C) /\ back' = Map(noAction, e, C)
     \/ /\ ~(C \subseteq rows)
        /\ \E done \in SUBSET (C \cap rows) :
             back' = Map(noAction, e, done \cup (Named(e, Actions) \cap rows))
        /\ UNCHANGED <<rows, refs>>

MemoryDeleteEventRule(e) ==
  /\ provider = Memory /\ e \in rows
  /\ Delete({e}, Unmap(back, e, Named(e, Actions)))

-----------------------------------------------------------------------------
(* An API key may belong to a user or to an admin, a share belongs to a    *)
(* user; a missing owner is an error before anything is written.           *)
MemoryAddAPIKey(k, O) ==
  /\ provider = Memory /\ k \notin rows /\ O \subseteq rows
  /\ Put(k, O) /\ UNCHANGED back

MemoryUpdateAPIKey(k, O) ==
  /\ provider = Memory /\ k \in rows /\ O \subseteq rows
  /\ Put(k, O) /\ UNCHANGED back

MemoryDeleteAPIKey(k) ==
  /\ provider = Memory /\ k \in rows
  /\ Delete({k}, back)

MemoryAddShare(s, u) ==
  /\ provider = Memory /\ s \notin rows /\ u \in rows
  /\ Put(s, {u}) /\ UNCHANGED back

MemoryDeleteShare(s) ==
  /\ provider = Memory /\ s \in rows
  /\ Delete({s}, back)

(* restoreDump starts with an empty store; the operations it then calls    *)
(* for the objects of the dump are the ones above.                         *)
MemoryClear ==
  /\ provider = Memory
  /\ rows' = {} /\ refs' = {} /\ back' = {}
=============================================================================

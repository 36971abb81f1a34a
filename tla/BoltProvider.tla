----------------------------- MODULE BoltProvider -----------------------------
(***************************************************************************)
(* The bolt provider: every operation is one read-write transaction, an    *)
(* error anywhere in it rolls everything back, so that an operation that   *)
(* meets a missing object takes no step.                                   *)
(***************************************************************************)
EXTENDS ProviderStore

BoltAddUser(u, R, G, F) ==
  /\ provider = Bolt /\ u \notin rows
  /\ R \cup G \cup F \subseteq rows
  /\ Put(u, R \cup G \cup F)
  /\ back' = Map(back, u, R \cup G \cup F)

(* A group of the old record that is missing is an error too, a missing    *)
(* role or folder is not.                                                  *)
updateUserRelations(u, R, G, F) ==
  /\ Named(u, Groups) \subseteq rows
  /\ R \cup G \cup F \subseteq rows
  /\ back' = Map(Unmap(back, u, Named(u, Folders \cup Groups \cup Roles)),
                 u, R \cup G \cup F)

BoltUpdateUser(u, R, G, F) ==
  /\ provider = Bolt /\ u \in rows
  /\ updateUserRelations(u, R, G, F)
  /\ Put(u, R \cup G \cup F)

deleteRelatedAPIKey(o) == {k \in Keys : <<k, o>> \in refs}
deleteRelatedShares(u) == {s \in Shares : <<s, u>> \in refs}

BoltDeleteUser(u) ==
  /\ provider = Bolt /\ u \in rows
  /\ Named(u, Groups) \subseteq rows
  /\ Delete({u} \cup deleteRelatedAPIKey(u) \cup deleteRelatedShares(u),
            Unmap(back, u, Named(u, Roles \cup Folders \cup Groups)))

-----------------------------------------------------------------------------
BoltAddAdmin(a, R, G) ==
  /\ provider = Bolt /\ a \notin rows
  /\ R \cup G \subseteq rows
  /\ Put(a, R \cup G)
  /\ back' = Map(back, a, R \cup G)

BoltUpdateAdmin(a, R, G) ==
  /\ provider = Bolt /\ a \in rows
  /\ Named(a, Groups) \subseteq rows
  /\ R \cup G \subseteq rows
  /\ Put(a, R \cup G)
  /\ back' = Map(Unmap(back, a, Named(a, Roles \cup Groups)), a, R \cup G)

BoltDeleteAdmin(a) ==
  /\ provider = Bolt /\ a \in rows
  /\ Named(a, Groups) \subseteq rows
  /\ Delete({a} \cup deleteRelatedAPIKey(a),
            Unmap(back, a, Named(a, Groups \cup Roles)))

-----------------------------------------------------------------------------
BoltAddGroup(g, F) ==
  /\ provider = Bolt /\ g \notin rows
  /\ F \subseteq rows
  /\ Put(g, F) /\ back' = Map(back, g, F)

BoltUpdateGroup(g, F) ==
  /\ provider = Bolt /\ g \in rows
  /\ F \subseteq rows
  /\ Put(g, F) /\ back' = Map(Unmap(back, g, Named(g, Folders)), g, F)

removeGroupFromAdminMapping(g, A) == refs \ ((A \cap rows) \X {g})

(* Mutant: a group is taken out of its users as it is out of its admins. *)
BoltDeleteGroupReferenced(g) ==
  /\ provider = Bolt /\ g \in rows
  /\ rows' = rows \ {g}
  /\ refs' = {l \in removeGroupFromAdminMapping(g, Listed(g, Admins \cup Users)) : l[1] # g}
  /\ back' = {l \in Unmap(back, g, Named(g, Folders)) : l[2] # g}

BoltDeleteGroup(g) ==
  /\ provider = Bolt /\ g \in rows
  /\ Listed(g, Users) = {}
  /\ rows' = rows \ {g}
  /\ refs' = {l \in removeGroupFromAdminMapping(g, Listed(g, Admins)) : l[1] # g}
  /\ back' = {l \in Unmap(back, g, Named(g, Folders)) : l[2] # g}

-----------------------------------------------------------------------------
(* Folders, roles and event actions name nothing. *)
BoltAddFolder(f) ==
  /\ provider = Bolt /\ f \notin rows
  /\ Put(f, {}) /\ UNCHANGED back

(* The folder leaves the records of the users and groups on its lists. *)
deleteFolderMappings(f) ==
  refs \ ((Listed(f, Users \cup Groups) \cap rows) \X {f})

BoltDeleteFolder(f) ==
  /\ provider = Bolt /\ f \in rows
  /\ rows' = rows \ {f}
  /\ refs' = deleteFolderMappings(f)
  /\ back' = {l \in back : l[2] # f}

BoltAddRole(r) ==
  /\ provider = Bolt /\ r \notin rows
  /\ Put(r, {}) /\ UNCHANGED back

removeRoleFromUser(r, U) == refs \ ((U \cap rows) \X {r})

BoltDeleteRole(r) ==
  /\ provider = Bolt /\ r \in rows
  /\ Listed(r, Admins) = {}
  /\ rows' = rows \ {r}
  /\ refs' = removeRoleFromUser(r, Listed(r, Users))
  /\ back' = {l \in back : l[2] # r}

BoltAddEventAction(c) ==
  /\ provider = Bolt /\ c \notin rows
  /\ Put(c, {}) /\ UNCHANGED back

BoltUpdateEventAction(c) ==
  /\ provider = Bolt /\ c \in rows
  /\ back' = {l \in back : l[2] = c => l[1] \in rows}
  /\ UNCHANGED <<rows, refs>>

BoltDeleteEventAction(c) ==
  /\ provider = Bolt /\ c \in rows
  /\ Listed(c, Rules) = {}
  /\ Delete({c}, back)

-----------------------------------------------------------------------------
BoltAddEventRule(e, C) ==
  /\ provider = Bolt /\ e \notin rows
  /\ C \subseteq rows
  /\ Put(e, C) /\ back' = Map(back, e, C)

BoltUpdateEventRule(e, C) ==
  /\ provider = Bolt /\ e \in rows
  /\ C \subseteq rows
  /\ Put(e, C) /\ back' = Map(Unmap(back, e, Named(e, Actions)), e, C)

BoltDeleteEventRule(e) ==
  /\ provider = Bolt /\ e \in rows
  /\ Delete({e}, Unmap(back, e, Named(e, Actions)))

-----------------------------------------------------------------------------
BoltAddAPIKey(k, O) ==
  /\ provider = Bolt /\ k \notin rows /\ O \subseteq rows
  /\ Put(k, O) /\ UNCHANGED back

BoltUpdateAPIKey(k, O) ==
  /\ provider = Bolt /\ k \in rows /\ O \subseteq rows
  /\ Put(k, O) /\ UNCHANGED back

BoltDeleteAPIKey(k) ==
  /\ provider = Bolt /\ k \in rows
  /\ Delete({k}, back)

BoltAddShare(s, u) ==
  /\ provider = Bolt /\ s \notin rows /\ u \in rows
  /\ Put(s, {u}) /\ UNCHANGED back

BoltDeleteShare(s) ==
  /\ provider = Bolt /\ s \in rows
  /\ Delete({s}, back)
=============================================================================

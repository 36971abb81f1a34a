-------------------------- MODULE EmbeddedProviders --------------------------
(***************************************************************************)
(* The two embedded data providers as a program may be configured with     *)
(* either, and what both must keep: the two sides of every relation equal, *)
(* no name of a missing object, and the behaviour of the SQL provider.     *)
(***************************************************************************)
EXTENDS MemoryProvider, BoltProvider

ASSUME ProvidersAssumption ==
  /\ Memory # Bolt
  /\ NamesMissing \in BOOLEAN

vars == <<provider, store>>

Init ==
  /\ provider \in {Memory, Bolt}
  /\ rows = {} /\ refs = {} /\ back = {}

UserStep == \E u \in Users :
  \/ \E R \in Optional(Roles), G \in SUBSET Groups, F \in SUBSET Folders :
       \/ MemoryAddUser(u, R, G, F) \/ MemoryUpdateUser(u, R, G, F)
       \/ BoltAddUser(u, R, G, F) \/ BoltUpdateUser(u, R, G, F)
  \/ MemoryDeleteUser(u) \/ BoltDeleteUser(u)

AdminStep == \E a \in Admins :
  \/ \E R \in Optional(Roles), G \in SUBSET Groups :
       \/ MemoryAddAdmin(a, R, G) \/ MemoryUpdateAdmin(a, R, G)
       \/ BoltAddAdmin(a, R, G) \/ BoltUpdateAdmin(a, R, G)
  \/ MemoryDeleteAdmin(a) \/ BoltDeleteAdmin(a)

GroupStep == \E g \in Groups :
  \/ \E F \in SUBSET Folders :
       \/ MemoryAddGroup(g, F) \/ MemoryUpdateGroup(g, F)
       \/ BoltAddGroup(g, F) \/ BoltUpdateGroup(g, F)
  \/ MemoryDeleteGroup(g) \/ BoltDeleteGroup(g)

FolderStep == \E f \in Folders :
  \/ MemoryAddFolder(f) \/ MemoryDeleteFolder(f)
  \/ BoltAddFolder(f) \/ BoltDeleteFolder(f)

RoleStep == \E r \in Roles :
  \/ MemoryAddRole(r) \/ MemoryDeleteRole(r)
  \/ BoltAddRole(r) \/ BoltDeleteRole(r)

ActionStep == \E c \in Actions :
  \/ MemoryAddEventAction(c) \/ MemoryUpdateEventAction(c)
  \/ MemoryDeleteEventAction(c)
  \/ BoltAddEventAction(c) \/ BoltUpdateEventAction(c)
  \/ BoltDeleteEventAction(c)

RuleStep == \E e \in Rules :
  \/ \E C \in SUBSET Actions :
       \/ MemoryAddEventRule(e, C) \/ MemoryUpdateEventRule(e, C)
       \/ BoltAddEventRule(e, C) \/ BoltUpdateEventRule(e, C)
  \/ MemoryDeleteEventRule(e) \/ BoltDeleteEventRule(e)

KeyStep == \E k \in Keys :
  \/ \E O \in Optional(Users \cup Admins) :
       \/ MemoryAddAPIKey(k, O) \/ MemoryUpdateAPIKey(k, O)
       \/ BoltAddAPIKey(k, O) \/ BoltUpdateAPIKey(k, O)
  \/ MemoryDeleteAPIKey(k) \/ BoltDeleteAPIKey(k)

ShareStep == \E s \in Shares :
  \/ \E u \in Users : MemoryAddShare(s, u) \/ BoltAddShare(s, u)
  \/ MemoryDeleteShare(s) \/ BoltDeleteShare(s)

Next ==
  /\ \/ UserStep \/ AdminStep \/ GroupStep \/ FolderStep \/ RoleStep
     \/ ActionStep \/ RuleStep \/ KeyStep \/ ShareStep \/ MemoryClear
  /\ UNCHANGED provider

Spec == Init /\ [][Next]_vars

-----------------------------------------------------------------------------
(* A list is in the record of an object that exists. *)
TypeOK ==
  /\ provider \in {Memory, Bolt}
  /\ rows \subseteq Objects
  /\ refs \subseteq rows \X Objects
  /\ back \subseteq Objects \X rows

(* Each relation is on both sides or on none: a user's role and groups     *)
(* list it and only they do, a folder lists the users and groups that      *)
(* mount it, an action the rules that run it, whatever sequence of adds,   *)
(* updates and deletions of either side came before.                       *)
MappingsSymmetric == back = {l \in refs : l[1] \notin Keys \cup Shares}

(* No record names an object without a record: an API key or share does    *)
(* not survive its owner, to be taken over by a later user of that name.   *)
ForeignKeys == \A l \in refs : l[2] \in rows

(* Both providers change the relations as the SQL one does: they delete    *)
(* only what its foreign keys let it delete, and whatever these cascade to.*)
RelationsSpec == Relations!Spec

(* "the group %q is referenced, it cannot be removed" and the same for     *)
(* roles and actions: what refuses the removal is an existing record.      *)
ReferencedWhenRefused ==
  \A l \in back : l[1] \in rows /\ l \in refs
=============================================================================

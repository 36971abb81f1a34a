-------------------------- MODULE ProviderRelations --------------------------
(***************************************************************************)
(* What a data provider promises about the relations between its objects:  *)
(* the SQL provider, whose operations are transactions over tables with    *)
(* foreign keys.  An object is a row; a link <<o, p>> says that row o      *)
(* names row p (a mapping table or a foreign key column).  An operation    *)
(* that names a missing row fails as a whole, hence takes no step here.    *)
(***************************************************************************)
CONSTANTS
  Objects,  \* names of users, groups, ...
  kind      \* object -> the table it belongs to

OfKind(k) == {o \in Objects : kind[o] = k}
Users   == OfKind("user")
Admins  == OfKind("admin")
Groups  == OfKind("group")
Folders == OfKind("folder")
Roles   == OfKind("role")
Actions == OfKind("action")
Rules   == OfKind("rule")
Keys    == OfKind("key")
Shares  == OfKind("share")

(* A role, a key's owner: none or one of the set. *)
Optional(S) == {{}} \cup {{o} : o \in S}

VARIABLES
  rows,  \* the objects that exist
  links  \* pairs of objects, the first names the second

vars == <<rows, links>>

-----------------------------------------------------------------------------
(* Add a row with its links, replace the links of a row, remove rows: ON   *)
(* DELETE CASCADE and ON DELETE SET NULL drop the links of removed rows.   *)
Insert(o, T) ==
  /\ o \notin rows /\ T \subseteq rows
  /\ rows' = rows \cup {o}
  /\ links' = links \cup ({o} \X T)

Replace(o, T) ==
  /\ o \in rows /\ T \subseteq rows
  /\ links' = (links \ ({o} \X Objects)) \cup ({o} \X T)
  /\ UNCHANGED rows

Remove(S) ==
  /\ rows' = rows \ S
  /\ links' = {l \in links : l[1] \notin S /\ l[2] \notin S}

(* Foreign keys with ON DELETE NO ACTION refuse the removal. *)
NamedBy(o, S) == \E p \in S : <<p, o>> \in links

AddUser(u, R, G, F)    == u \in Users /\ Insert(u, R \cup G \cup F)
UpdateUser(u, R, G, F) == u \in Users /\ Replace(u, R \cup G \cup F)
DeleteUser(u) ==
  /\ u \in Users \cap rows
  /\ Remove({u} \cup {o \in Keys \cup Shares : <<o, u>> \in links})

AddAdmin(a, R, G)    == a \in Admins /\ Insert(a, R \cup G)
UpdateAdmin(a, R, G) == a \in Admins /\ Replace(a, R \cup G)
DeleteAdmin(a) ==
  /\ a \in Admins \cap rows
  /\ Remove({a} \cup {o \in Keys : <<o, a>> \in links})

AddGroup(g, F)    == g \in Groups /\ Insert(g, F)
UpdateGroup(g, F) == g \in Groups /\ Replace(g, F)
DeleteGroup(g)    == g \in Groups \cap rows /\ ~NamedBy(g, Users) /\ Remove({g})

AddFolder(f)    == f \in Folders /\ Insert(f, {})
DeleteFolder(f) == f \in Folders \cap rows /\ Remove({f})

AddRole(r)    == r \in Roles /\ Insert(r, {})
DeleteRole(r) == r \in Roles \cap rows /\ ~NamedBy(r, Admins) /\ Remove({r})

AddEventAction(c)    == c \in Actions /\ Insert(c, {})
DeleteEventAction(c) ==
  c \in Actions \cap rows /\ ~NamedBy(c, Rules) /\ Remove({c})

AddEventRule(e, C)    == e \in Rules /\ Insert(e, C)
UpdateEventRule(e, C) == e \in Rules /\ Replace(e, C)
DeleteEventRule(e)    == e \in Rules \cap rows /\ Remove({e})

AddAPIKey(k, O)    == k \in Keys /\ Insert(k, O)
UpdateAPIKey(k, O) == k \in Keys /\ Replace(k, O)
DeleteAPIKey(k)    == k \in Keys \cap rows /\ Remove({k})

AddShare(s, u)    == s \in Shares /\ Insert(s, {u})
DeleteShare(s)    == s \in Shares \cap rows /\ Remove({s})

(* The tables are dropped and created again. *)
resetDatabase == rows' = {} /\ links' = {}

-----------------------------------------------------------------------------
Init == rows = {} /\ links = {}

UserNext == \E u \in Users :
  \/ \E R \in Optional(Roles), G \in SUBSET Groups, F \in SUBSET Folders :
       AddUser(u, R, G, F) \/ UpdateUser(u, R, G, F)
  \/ DeleteUser(u)

AdminNext == \E a \in Admins :
  \/ \E R \in Optional(Roles), G \in SUBSET Groups :
       AddAdmin(a, R, G) \/ UpdateAdmin(a, R, G)
  \/ DeleteAdmin(a)

GroupNext == \E g \in Groups :
  \/ \E F \in SUBSET Folders : AddGroup(g, F) \/ UpdateGroup(g, F)
  \/ DeleteGroup(g)

RuleNext ==
  \/ \E c \in Actions : AddEventAction(c) \/ DeleteEventAction(c)
  \/ \E e \in Rules :
       \/ \E C \in SUBSET Actions : AddEventRule(e, C) \/ UpdateEventRule(e, C)
       \/ DeleteEventRule(e)

KeyNext ==
  \/ \E k \in Keys :
       \/ \E O \in Optional(Users \cup Admins) : AddAPIKey(k, O) \/ UpdateAPIKey(k, O)
       \/ DeleteAPIKey(k)
  \/ \E s \in Shares : DeleteShare(s) \/ \E u \in Users : AddShare(s, u)

Next ==
  \/ UserNext \/ AdminNext \/ GroupNext \/ RuleNext \/ KeyNext
  \/ \E f \in Folders : AddFolder(f) \/ DeleteFolder(f)
  \/ \E r \in Roles : AddRole(r) \/ DeleteRole(r)
  \/ resetDatabase

Spec == Init /\ [][Next]_vars
=============================================================================

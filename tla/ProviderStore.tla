---------------------------- MODULE ProviderStore ----------------------------
(***************************************************************************)
(* The records of the embedded data providers, the memory provider and the *)
(* bolt provider.  Neither has foreign keys: a relation is written twice,  *)
(* in the record that names the other object (User.Groups, User.Role, ...) *)
(* and in a list of the named one (Group.Users, Role.Users, ...), and each *)
(* operation must keep the two sides equal.  API keys and shares are only  *)
(* in the first.  The kinds of objects are those of ProviderRelations.     *)
(***************************************************************************)
CONSTANTS
  Objects,  \* names of users, groups, ...
  kind,     \* object -> its kind
  Memory,   \* the memory provider
  Bolt      \* the bolt provider

ASSUME KindAssumption ==
  kind \in [Objects -> {"user", "admin", "group", "folder", "role", "action",
                        "rule", "key", "share"}]

VARIABLES
  provider, \* the provider the program was started with
  rows,     \* the objects that have a record
  refs,     \* <<o, p>>: the record of o names p
  back      \* <<o, p>>: a list in the record of p holds o

Relations == INSTANCE ProviderRelations WITH links <- refs

Users   == Relations!Users
Admins  == Relations!Admins
Groups  == Relations!Groups
Folders == Relations!Folders
Roles   == Relations!Roles
Actions == Relations!Actions
Rules   == Relations!Rules
Keys    == Relations!Keys
Shares  == Relations!Shares

Optional(S) == Relations!Optional(S)

store == <<rows, refs, back>>

(* The members of S that the record of o names. *)
Named(o, S) == {p \in S : <<o, p>> \in refs}

(* The members of S on a list in the record of p. *)
Listed(p, S) == {o \in S : <<o, p>> \in back}

(* Write o on the lists of the objects T, or take it off: a missing object *)
(* has no list, and Map is used on objects that exist only.                *)
Map(b, o, T)   == b \cup ({o} \X T)
Unmap(b, o, T) == b \ ({o} \X T)

(* The record of o, which names the objects T. *)
Put(o, T) ==
  /\ rows' = rows \cup {o}
  /\ refs' = (refs \ ({o} \X Objects)) \cup ({o} \X T)

(* The records of S go, with what they name and the lists they hold; b are *)
(* the lists that the operation has already updated.                       *)
Delete(S, b) ==
  /\ rows' = rows \ S
  /\ refs' = {l \in refs : l[1] \notin S}
  /\ back' = {l \in b : l[2] \notin S}
=============================================================================

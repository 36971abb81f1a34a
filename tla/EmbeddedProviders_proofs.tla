----------------------- MODULE EmbeddedProviders_proofs -----------------------
(***************************************************************************)
(* Proofs about the embedded data providers, for any sets of objects.  The *)
(* bolt provider needs no assumption; for the memory provider the requests *)
(* name objects that exist (Careful).  Each operation writes one record    *)
(* with its mappings (Written), or erases records with everything that     *)
(* names them (Erased), and these two effects keep the invariant and are   *)
(* steps of ProviderRelations.                                             *)
(***************************************************************************)
EXTENDS EmbeddedProviders, TLAPS

(* Only requests to the bolt provider may name missing objects. *)
Careful == NamesMissing => provider = Bolt

(* Which kinds of objects name which. *)
LinkKinds ==
  \A l \in refs :
    \/ l[1] \in Users /\ l[2] \in Roles \cup Groups \cup Folders
    \/ l[1] \in Admins /\ l[2] \in Roles \cup Groups
    \/ l[1] \in Groups /\ l[2] \in Folders
    \/ l[1] \in Rules /\ l[2] \in Actions
    \/ l[1] \in Keys /\ l[2] \in Users \cup Admins
    \/ l[1] \in Shares /\ l[2] \in Users

Inv == TypeOK /\ MappingsSymmetric /\ ForeignKeys /\ LinkKinds

(* The record of o is written and names the existing objects T. *)
Written(o, T) ==
  /\ T \subseteq rows
  /\ rows' = rows \cup {o}
  /\ refs' = (refs \ ({o} \X Objects)) \cup ({o} \X T)
  /\ back' = IF o \in Keys \cup Shares THEN back
             ELSE (back \ ({o} \X Objects)) \cup ({o} \X T)

(* The records S are erased and no other record names them. *)
Erased(S) ==
  /\ rows' = rows \ S
  /\ refs' = {l \in refs : l[1] \notin S /\ l[2] \notin S}
  /\ back' = {l \in back : l[1] \notin S /\ l[2] \notin S}

USE DEF Users, Admins, Groups, Folders, Roles, Actions, Rules, Keys, Shares,
        Relations!Users, Relations!Admins, Relations!Groups, Relations!Folders,
        Relations!Roles, Relations!Actions, Relations!Rules, Relations!Keys,
        Relations!Shares, Relations!OfKind

(* The objects that an object may name. *)
MayName(o, T) ==
  \/ o \in Users /\ T \subseteq Roles \cup Groups \cup Folders
  \/ o \in Admins /\ T \subseteq Roles \cup Groups
  \/ o \in Groups /\ T \subseteq Folders
  \/ o \in Rules /\ T \subseteq Actions
  \/ o \in Keys /\ T \subseteq Users \cup Admins
  \/ o \in Shares /\ T \subseteq Users
  \/ o \in Folders \cup Roles \cup Actions /\ T = {}

(* Writing a record that names existing objects of the right kinds, with   *)
(* its mappings, keeps the invariant.                                      *)
LEMMA WrittenKeepsInv ==
  ASSUME Inv, NEW o \in Objects, NEW T, MayName(o, T), Written(o, T),
         UNCHANGED provider
  PROVE  Inv'
<1>1. TypeOK'
  BY DEF Inv, TypeOK, Written
<1>2. MappingsSymmetric'
  BY DEF Inv, TypeOK, MappingsSymmetric, Written
<1>3. ForeignKeys'
  BY DEF Inv, ForeignKeys, Written
<1>4. LinkKinds'
  BY DEF Inv, LinkKinds, MayName, Written
<1> QED
  BY <1>1, <1>2, <1>3, <1>4 DEF Inv

(* Erasing records with everything that names them keeps the invariant. *)
LEMMA ErasedKeepsInv ==
  ASSUME Inv, NEW S, Erased(S), UNCHANGED provider
  PROVE  Inv'
<1>1. TypeOK'
  BY DEF Inv, TypeOK, Erased
<1>2. MappingsSymmetric'
  BY DEF Inv, MappingsSymmetric, Erased
<1>3. ForeignKeys'
  BY DEF Inv, ForeignKeys, Erased
<1>4. LinkKinds'
  BY DEF Inv, LinkKinds, Erased
<1> QED
  BY <1>1, <1>2, <1>3, <1>4 DEF Inv

-----------------------------------------------------------------------------
(* Memory: operations that write a record. *)

LEMMA MemoryAddUserWrites ==
  ASSUME Inv, Careful, NEW u \in Users, NEW R \in SUBSET Roles,
         NEW G \in SUBSET Groups, NEW F \in SUBSET Folders, MemoryAddUser(u, R, G, F)
  PROVE  Written(u, R \cup G \cup F) /\ u \notin rows
BY ProvidersAssumption DEF Careful, MemoryAddUser, Requested, Put, Written, Inv, TypeOK, MappingsSymmetric, ForeignKeys, LinkKinds, Map

LEMMA MemoryUpdateUserWrites ==
  ASSUME Inv, Careful, NEW u \in Users, NEW R \in SUBSET Roles,
         NEW G \in SUBSET Groups, NEW F \in SUBSET Folders, MemoryUpdateUser(u, R, G, F)
  PROVE  Written(u, R \cup G \cup F) /\ u \in rows
<1> DEFINE old(S) == Named(u, S)
<1>1. /\ R \cup G \cup F \subseteq rows
      /\ Put(u, R \cup G \cup F)
      /\ back' = Map(Unmap(Map(Unmap(Map(Unmap(back, u, old(Roles)), u, R),
                                    u, old(Groups)), u, G), u, old(Folders)), u, F)
  BY ProvidersAssumption DEF Careful, MemoryUpdateUser, Requested, Put
<1>2. \A l \in back : l[1] = u => l[2] \in old(Roles) \cup old(Groups) \cup old(Folders)
  BY DEF Inv, TypeOK, MappingsSymmetric, LinkKinds, Named
<1>3. R \cap old(Groups) = {} /\ (R \cup G) \cap old(Folders) = {}
  BY DEF Named
<1>4. back' = (back \ ({u} \X (old(Roles) \cup old(Groups) \cup old(Folders))))
              \cup ({u} \X (R \cup G \cup F))
  <2> HIDE DEF old, Users, Admins, Groups, Folders, Roles
  <2> QED  BY <1>1, <1>3 DEF Map, Unmap
<1>5. back' = (back \ ({u} \X Objects)) \cup ({u} \X (R \cup G \cup F))
  <2>1. old(Roles) \cup old(Groups) \cup old(Folders) \subseteq Objects
    BY DEF Named
  <2> HIDE DEF old
  <2> QED  BY <1>2, <1>4, <2>1 DEF Inv, TypeOK
<1> QED
  BY <1>1, <1>5 DEF MemoryUpdateUser, Put, Written

LEMMA MemoryAddAdminWrites ==
  ASSUME Inv, Careful, NEW a \in Admins, NEW R \in SUBSET Roles,
         NEW G \in SUBSET Groups, MemoryAddAdmin(a, R, G)
  PROVE  Written(a, R \cup G) /\ a \notin rows
BY ProvidersAssumption DEF Careful, MemoryAddAdmin, Requested, Put, Written, Inv, TypeOK, MappingsSymmetric, ForeignKeys, LinkKinds, Map

LEMMA MemoryUpdateAdminWrites ==
  ASSUME Inv, Careful, NEW a \in Admins, NEW R \in SUBSET Roles,
         NEW G \in SUBSET Groups, MemoryUpdateAdmin(a, R, G)
  PROVE  Written(a, R \cup G) /\ a \in rows
<1> DEFINE old(S) == Named(a, S)
<1>1. /\ R \cup G \subseteq rows
      /\ Put(a, R \cup G)
      /\ back' = Map(Unmap(Map(Unmap(back, a, old(Roles)), a, R), a, old(Groups)), a, G)
  BY ProvidersAssumption DEF Careful, MemoryUpdateAdmin, Requested, Put
<1>2. \A l \in back : l[1] = a => l[2] \in old(Roles) \cup old(Groups)
  BY DEF Inv, TypeOK, MappingsSymmetric, LinkKinds, Named
<1>3. R \cap old(Groups) = {}
  BY DEF Named
<1>4. back' = (back \ ({a} \X (old(Roles) \cup old(Groups))))
              \cup ({a} \X (R \cup G))
  <2> HIDE DEF old, Users, Admins, Groups, Folders, Roles
  <2> QED  BY <1>1, <1>3 DEF Map, Unmap
<1>5. back' = (back \ ({a} \X Objects)) \cup ({a} \X (R \cup G))
  <2>1. old(Roles) \cup old(Groups) \subseteq Objects
    BY DEF Named
  <2> HIDE DEF old
  <2> QED  BY <1>2, <1>4, <2>1 DEF Inv, TypeOK
<1> QED
  BY <1>1, <1>5 DEF MemoryUpdateAdmin, Put, Written

LEMMA MemoryAddGroupWrites ==
  ASSUME Inv, Careful, NEW g \in Groups, NEW F \in SUBSET Folders, MemoryAddGroup(g, F)
  PROVE  Written(g, F) /\ g \notin rows
BY ProvidersAssumption DEF Careful, MemoryAddGroup, Requested, Put, Written, Inv, TypeOK, MappingsSymmetric, ForeignKeys, LinkKinds, Map

LEMMA MemoryUpdateGroupWrites ==
  ASSUME Inv, Careful, NEW g \in Groups, NEW F \in SUBSET Folders, MemoryUpdateGroup(g, F)
  PROVE  Written(g, F) /\ g \in rows
<1> DEFINE old(S) == Named(g, S)
<1>1. /\ F \subseteq rows
      /\ Put(g, F)
      /\ back' = Map(Unmap(back, g, old(Folders)), g, F)
  BY ProvidersAssumption DEF Careful, MemoryUpdateGroup, Requested, Put
<1>2. \A l \in back : l[1] = g => l[2] \in old(Folders)
  BY DEF Inv, TypeOK, MappingsSymmetric, LinkKinds, Named
<1>3. back' = (back \ ({g} \X Objects)) \cup ({g} \X (F))
  BY <1>1, <1>2 DEF Inv, TypeOK, Map, Unmap
<1> QED
  BY <1>1, <1>3 DEF MemoryUpdateGroup, Put, Written

LEMMA MemoryAddEventRuleWrites ==
  ASSUME Inv, Careful, NEW e \in Rules, NEW C \in SUBSET Actions, MemoryAddEventRule(e, C)
  PROVE  Written(e, C) /\ e \notin rows
BY ProvidersAssumption DEF Careful, MemoryAddEventRule, Requested, Put, Written, Inv, TypeOK, MappingsSymmetric, ForeignKeys, LinkKinds, Map

LEMMA MemoryUpdateEventRuleWrites ==
  ASSUME Inv, Careful, NEW e \in Rules, NEW C \in SUBSET Actions, MemoryUpdateEventRule(e, C)
  PROVE  Written(e, C) /\ e \in rows
<1> DEFINE old(S) == Named(e, S)
<1>1. /\ C \subseteq rows
      /\ Put(e, C)
      /\ back' = Map(Unmap(back, e, old(Actions)), e, C)
  BY ProvidersAssumption DEF Careful, MemoryUpdateEventRule, Requested, Put
<1>2. \A l \in back : l[1] = e => l[2] \in old(Actions)
  BY DEF Inv, TypeOK, MappingsSymmetric, LinkKinds, Named
<1>3. back' = (back \ ({e} \X Objects)) \cup ({e} \X (C))
  BY <1>1, <1>2 DEF Inv, TypeOK, Map, Unmap
<1> QED
  BY <1>1, <1>3 DEF MemoryUpdateEventRule, Put, Written

LEMMA MemoryAddFolderWrites ==
  ASSUME Inv, Careful, NEW f \in Folders, MemoryAddFolder(f)
  PROVE  Written(f, {}) /\ f \notin rows
BY DEF MemoryAddFolder, Put, Written, Inv, TypeOK, MappingsSymmetric, ForeignKeys, LinkKinds, Map

LEMMA MemoryAddRoleWrites ==
  ASSUME Inv, Careful, NEW r \in Roles, MemoryAddRole(r)
  PROVE  Written(r, {}) /\ r \notin rows
BY DEF MemoryAddRole, Put, Written, Inv, TypeOK, MappingsSymmetric, ForeignKeys, LinkKinds, Map

LEMMA MemoryAddEventActionWrites ==
  ASSUME Inv, Careful, NEW c \in Actions, MemoryAddEventAction(c)
  PROVE  Written(c, {}) /\ c \notin rows
BY DEF MemoryAddEventAction, Put, Written, Inv, TypeOK, MappingsSymmetric, ForeignKeys, LinkKinds, Map

LEMMA MemoryAddAPIKeyWrites ==
  ASSUME Inv, Careful, NEW k \in Keys, NEW O \in SUBSET (Users \cup Admins), MemoryAddAPIKey(k, O)
  PROVE  Written(k, O) /\ k \notin rows
BY DEF MemoryAddAPIKey, Put, Written, Inv, TypeOK, MappingsSymmetric, ForeignKeys, LinkKinds, Map

LEMMA MemoryUpdateAPIKeyWrites ==
  ASSUME Inv, Careful, NEW k \in Keys, NEW O \in SUBSET (Users \cup Admins), MemoryUpdateAPIKey(k, O)
  PROVE  Written(k, O) /\ k \in rows
BY DEF MemoryUpdateAPIKey, Put, Written, Inv, TypeOK, MappingsSymmetric, ForeignKeys, LinkKinds, Map

LEMMA MemoryAddShareWrites ==
  ASSUME Inv, Careful, NEW s \in Shares, NEW u \in Users, MemoryAddShare(s, u)
  PROVE  Written(s, {u}) /\ s \notin rows
BY DEF MemoryAddShare, Put, Written, Inv, TypeOK, MappingsSymmetric, ForeignKeys, LinkKinds, Map

-----------------------------------------------------------------------------
(* Bolt: operations that write a record. *)

LEMMA BoltAddUserWrites ==
  ASSUME Inv, NEW u \in Users, NEW R \in SUBSET Roles,
         NEW G \in SUBSET Groups, NEW F \in SUBSET Folders, BoltAddUser(u, R, G, F)
  PROVE  Written(u, R \cup G \cup F) /\ u \notin rows
BY DEF BoltAddUser, Put, Written, Inv, TypeOK, MappingsSymmetric, ForeignKeys, LinkKinds, Map

LEMMA BoltUpdateUserWrites ==
  ASSUME Inv, NEW u \in Users, NEW R \in SUBSET Roles,
         NEW G \in SUBSET Groups, NEW F \in SUBSET Folders, BoltUpdateUser(u, R, G, F)
  PROVE  Written(u, R \cup G \cup F) /\ u \in rows
BY DEF BoltUpdateUser, Put, Written, Inv, TypeOK, MappingsSymmetric, ForeignKeys, LinkKinds, Map, Unmap, Named, updateUserRelations

LEMMA BoltAddAdminWrites ==
  ASSUME Inv, NEW a \in Admins, NEW R \in SUBSET Roles,
         NEW G \in SUBSET Groups, BoltAddAdmin(a, R, G)
  PROVE  Written(a, R \cup G) /\ a \notin rows
BY DEF BoltAddAdmin, Put, Written, Inv, TypeOK, MappingsSymmetric, ForeignKeys, LinkKinds, Map

LEMMA BoltUpdateAdminWrites ==
  ASSUME Inv, NEW a \in Admins, NEW R \in SUBSET Roles,
         NEW G \in SUBSET Groups, BoltUpdateAdmin(a, R, G)
  PROVE  Written(a, R \cup G) /\ a \in rows
BY DEF BoltUpdateAdmin, Put, Written, Inv, TypeOK, MappingsSymmetric, ForeignKeys, LinkKinds, Map, Unmap, Named

LEMMA BoltAddGroupWrites ==
  ASSUME Inv, NEW g \in Groups, NEW F \in SUBSET Folders, BoltAddGroup(g, F)
  PROVE  Written(g, F) /\ g \notin rows
BY DEF BoltAddGroup, Put, Written, Inv, TypeOK, MappingsSymmetric, ForeignKeys, LinkKinds, Map

LEMMA BoltUpdateGroupWrites ==
  ASSUME Inv, NEW g \in Groups, NEW F \in SUBSET Folders, BoltUpdateGroup(g, F)
  PROVE  Written(g, F) /\ g \in rows
BY DEF BoltUpdateGroup, Put, Written, Inv, TypeOK, MappingsSymmetric, ForeignKeys, LinkKinds, Map, Unmap, Named

LEMMA BoltAddEventRuleWrites ==
  ASSUME Inv, NEW e \in Rules, NEW C \in SUBSET Actions, BoltAddEventRule(e, C)
  PROVE  Written(e, C) /\ e \notin rows
BY DEF BoltAddEventRule, Put, Written, Inv, TypeOK, MappingsSymmetric, ForeignKeys, LinkKinds, Map

LEMMA BoltUpdateEventRuleWrites ==
  ASSUME Inv, NEW e \in Rules, NEW C \in SUBSET Actions, BoltUpdateEventRule(e, C)
  PROVE  Written(e, C) /\ e \in rows
BY DEF BoltUpdateEventRule, Put, Written, Inv, TypeOK, MappingsSymmetric, ForeignKeys, LinkKinds, Map, Unmap, Named

LEMMA BoltAddFolderWrites ==
  ASSUME Inv, NEW f \in Folders, BoltAddFolder(f)
  PROVE  Written(f, {}) /\ f \notin rows
BY DEF BoltAddFolder, Put, Written, Inv, TypeOK, MappingsSymmetric, ForeignKeys, LinkKinds, Map

LEMMA BoltAddRoleWrites ==
  ASSUME Inv, NEW r \in Roles, BoltAddRole(r)
  PROVE  Written(r, {}) /\ r \notin rows
BY DEF BoltAddRole, Put, Written, Inv, TypeOK, MappingsSymmetric, ForeignKeys, LinkKinds, Map

LEMMA BoltAddEventActionWrites ==
  ASSUME Inv, NEW c \in Actions, BoltAddEventAction(c)
  PROVE  Written(c, {}) /\ c \notin rows
BY DEF BoltAddEventAction, Put, Written, Inv, TypeOK, MappingsSymmetric, ForeignKeys, LinkKinds, Map

LEMMA BoltAddAPIKeyWrites ==
  ASSUME Inv, NEW k \in Keys, NEW O \in SUBSET (Users \cup Admins), BoltAddAPIKey(k, O)
  PROVE  Written(k, O) /\ k \notin rows
BY DEF BoltAddAPIKey, Put, Written, Inv, TypeOK, MappingsSymmetric, ForeignKeys, LinkKinds, Map

LEMMA BoltUpdateAPIKeyWrites ==
  ASSUME Inv, NEW k \in Keys, NEW O \in SUBSET (Users \cup Admins), BoltUpdateAPIKey(k, O)
  PROVE  Written(k, O) /\ k \in rows
BY DEF BoltUpdateAPIKey, Put, Written, Inv, TypeOK, MappingsSymmetric, ForeignKeys, LinkKinds, Map

LEMMA BoltAddShareWrites ==
  ASSUME Inv, NEW s \in Shares, NEW u \in Users, BoltAddShare(s, u)
  PROVE  Written(s, {u}) /\ s \notin rows
BY DEF BoltAddShare, Put, Written, Inv, TypeOK, MappingsSymmetric, ForeignKeys, LinkKinds, Map

-----------------------------------------------------------------------------
(* What is on no list of p is named by no record of that kind either. *)
LEMMA NotListed ==
  ASSUME Inv, NEW p, NEW S, S \cap (Keys \cup Shares) = {}, Listed(p, S) = {}
  PROVE  /\ \A l \in refs : l[2] = p => l[1] \notin S
         /\ ~Relations!NamedBy(p, S)
<1>1. \A l \in refs : l[2] = p => l[1] \notin S
  <2> SUFFICES ASSUME NEW l \in refs, l[2] = p, l[1] \in S
               PROVE  FALSE
    OBVIOUS
  <2>1. l \in back /\ l = <<l[1], p>>
    <3> HIDE DEF Keys, Shares
    <3> QED  BY DEF Inv, MappingsSymmetric, TypeOK
  <2>2. l[1] \in Listed(p, S)
    BY <2>1 DEF Listed
  <2> QED
    BY <2>2
<1> QED
  BY <1>1 DEF Relations!NamedBy

-----------------------------------------------------------------------------
(* Memory: operations that erase records. *)

LEMMA MemoryDeleteUserErases ==
  ASSUME Inv, NEW u \in Users, MemoryDeleteUser(u)
  PROVE  Erased({u} \cup deleteAPIKeysWithUser(u) \cup deleteSharesWithUser(u)) /\ u \in rows
BY DEF MemoryDeleteUser, Delete, Unmap, Named, deleteAPIKeysWithUser, deleteSharesWithUser, Inv, TypeOK, MappingsSymmetric, ForeignKeys, LinkKinds, Erased

LEMMA MemoryDeleteAdminErases ==
  ASSUME Inv, NEW a \in Admins, MemoryDeleteAdmin(a)
  PROVE  Erased({a} \cup deleteAPIKeysWithAdmin(a)) /\ a \in rows
BY DEF MemoryDeleteAdmin, Delete, Unmap, Named, deleteAPIKeysWithAdmin, Inv, TypeOK, MappingsSymmetric, ForeignKeys, LinkKinds, Erased

LEMMA MemoryDeleteGroupErases ==
  ASSUME Inv, NEW g \in Groups, MemoryDeleteGroup(g)
  PROVE  Erased({g})
         /\ g \in rows /\ ~Relations!NamedBy(g, Users)
<1>1. Users \cap (Keys \cup Shares) = {}
  OBVIOUS
<1>2. /\ \A l \in refs : l[2] = g => l[1] \notin Users
      /\ ~Relations!NamedBy(g, Users)
  BY <1>1, NotListed DEF MemoryDeleteGroup
<1> QED
  BY <1>2 DEF MemoryDeleteGroup, Unmap, Named, Listed, Inv, TypeOK, MappingsSymmetric, ForeignKeys, LinkKinds, Erased

LEMMA MemoryDeleteFolderErases ==
  ASSUME Inv, NEW f \in Folders, MemoryDeleteFolder(f)
  PROVE  Erased({f}) /\ f \in rows
BY DEF MemoryDeleteFolder, Listed, Inv, TypeOK, MappingsSymmetric, ForeignKeys, LinkKinds, Erased

LEMMA MemoryDeleteRoleErases ==
  ASSUME Inv, NEW r \in Roles, MemoryDeleteRole(r)
  PROVE  Erased({r})
         /\ r \in rows /\ ~Relations!NamedBy(r, Admins)
<1>1. Admins \cap (Keys \cup Shares) = {}
  OBVIOUS
<1>2. /\ \A l \in refs : l[2] = r => l[1] \notin Admins
      /\ ~Relations!NamedBy(r, Admins)
  BY <1>1, NotListed DEF MemoryDeleteRole
<1> QED
  BY <1>2 DEF MemoryDeleteRole, Listed, Inv, TypeOK, MappingsSymmetric, ForeignKeys, LinkKinds, Erased

LEMMA MemoryDeleteEventActionErases ==
  ASSUME Inv, NEW c \in Actions, MemoryDeleteEventAction(c)
  PROVE  Erased({c})
         /\ c \in rows /\ ~Relations!NamedBy(c, Rules)
<1>1. Rules \cap (Keys \cup Shares) = {}
  OBVIOUS
<1>2. /\ \A l \in refs : l[2] = c => l[1] \notin Rules
      /\ ~Relations!NamedBy(c, Rules)
  BY <1>1, NotListed DEF MemoryDeleteEventAction
<1> QED
  BY <1>2 DEF MemoryDeleteEventAction, Delete, Inv, TypeOK, MappingsSymmetric, ForeignKeys, LinkKinds, Erased

LEMMA MemoryDeleteEventRuleErases ==
  ASSUME Inv, NEW e \in Rules, MemoryDeleteEventRule(e)
  PROVE  Erased({e}) /\ e \in rows
BY DEF MemoryDeleteEventRule, Delete, Unmap, Named, Inv, TypeOK, MappingsSymmetric, ForeignKeys, LinkKinds, Erased

LEMMA MemoryDeleteAPIKeyErases ==
  ASSUME Inv, NEW k \in Keys, MemoryDeleteAPIKey(k)
  PROVE  Erased({k}) /\ k \in rows
BY DEF MemoryDeleteAPIKey, Delete, Inv, TypeOK, MappingsSymmetric, ForeignKeys, LinkKinds, Erased

LEMMA MemoryDeleteShareErases ==
  ASSUME Inv, NEW s \in Shares, MemoryDeleteShare(s)
  PROVE  Erased({s}) /\ s \in rows
BY DEF MemoryDeleteShare, Delete, Inv, TypeOK, MappingsSymmetric, ForeignKeys, LinkKinds, Erased

-----------------------------------------------------------------------------
(* Bolt: operations that erase records. *)

LEMMA BoltDeleteUserErases ==
  ASSUME Inv, NEW u \in Users, BoltDeleteUser(u)
  PROVE  Erased({u} \cup deleteRelatedAPIKey(u) \cup deleteRelatedShares(u)) /\ u \in rows
BY DEF BoltDeleteUser, Delete, Unmap, Named, deleteRelatedAPIKey, deleteRelatedShares, Inv, TypeOK, MappingsSymmetric, ForeignKeys, LinkKinds, Erased

LEMMA BoltDeleteAdminErases ==
  ASSUME Inv, NEW a \in Admins, BoltDeleteAdmin(a)
  PROVE  Erased({a} \cup deleteRelatedAPIKey(a)) /\ a \in rows
BY DEF BoltDeleteAdmin, Delete, Unmap, Named, deleteRelatedAPIKey, Inv, TypeOK, MappingsSymmetric, ForeignKeys, LinkKinds, Erased

LEMMA BoltDeleteGroupErases ==
  ASSUME Inv, NEW g \in Groups, BoltDeleteGroup(g)
  PROVE  Erased({g})
         /\ g \in rows /\ ~Relations!NamedBy(g, Users)
<1>1. Users \cap (Keys \cup Shares) = {}
  OBVIOUS
<1>2. /\ \A l \in refs : l[2] = g => l[1] \notin Users
      /\ ~Relations!NamedBy(g, Users)
  BY <1>1, NotListed DEF BoltDeleteGroup
<1> QED
  BY <1>2 DEF BoltDeleteGroup, Unmap, Named, Listed, removeGroupFromAdminMapping, Inv, TypeOK, MappingsSymmetric, ForeignKeys, LinkKinds, Erased

LEMMA BoltDeleteFolderErases ==
  ASSUME Inv, NEW f \in Folders, BoltDeleteFolder(f)
  PROVE  Erased({f}) /\ f \in rows
BY DEF BoltDeleteFolder, Listed, deleteFolderMappings, Inv, TypeOK, MappingsSymmetric, ForeignKeys, LinkKinds, Erased

LEMMA BoltDeleteRoleErases ==
  ASSUME Inv, NEW r \in Roles, BoltDeleteRole(r)
  PROVE  Erased({r})
         /\ r \in rows /\ ~Relations!NamedBy(r, Admins)
<1>1. Admins \cap (Keys \cup Shares) = {}
  OBVIOUS
<1>2. /\ \A l \in refs : l[2] = r => l[1] \notin Admins
      /\ ~Relations!NamedBy(r, Admins)
  BY <1>1, NotListed DEF BoltDeleteRole
<1> QED
  BY <1>2 DEF BoltDeleteRole, Listed, removeRoleFromUser, Inv, TypeOK, MappingsSymmetric, ForeignKeys, LinkKinds, Erased

LEMMA BoltDeleteEventActionErases ==
  ASSUME Inv, NEW c \in Actions, BoltDeleteEventAction(c)
  PROVE  Erased({c})
         /\ c \in rows /\ ~Relations!NamedBy(c, Rules)
<1>1. Rules \cap (Keys \cup Shares) = {}
  OBVIOUS
<1>2. /\ \A l \in refs : l[2] = c => l[1] \notin Rules
      /\ ~Relations!NamedBy(c, Rules)
  BY <1>1, NotListed DEF BoltDeleteEventAction
<1> QED
  BY <1>2 DEF BoltDeleteEventAction, Delete, Inv, TypeOK, MappingsSymmetric, ForeignKeys, LinkKinds, Erased

LEMMA BoltDeleteEventRuleErases ==
  ASSUME Inv, NEW e \in Rules, BoltDeleteEventRule(e)
  PROVE  Erased({e}) /\ e \in rows
BY DEF BoltDeleteEventRule, Delete, Unmap, Named, Inv, TypeOK, MappingsSymmetric, ForeignKeys, LinkKinds, Erased

LEMMA BoltDeleteAPIKeyErases ==
  ASSUME Inv, NEW k \in Keys, BoltDeleteAPIKey(k)
  PROVE  Erased({k}) /\ k \in rows
BY DEF BoltDeleteAPIKey, Delete, Inv, TypeOK, MappingsSymmetric, ForeignKeys, LinkKinds, Erased

LEMMA BoltDeleteShareErases ==
  ASSUME Inv, NEW s \in Shares, BoltDeleteShare(s)
  PROVE  Erased({s}) /\ s \in rows
BY DEF BoltDeleteShare, Delete, Inv, TypeOK, MappingsSymmetric, ForeignKeys, LinkKinds, Erased

-----------------------------------------------------------------------------

(* The rules on an action's list all exist, updateEventAction keeps them.  *)
LEMMA UpdateEventActionKeeps ==
  ASSUME Inv, NEW c \in Actions,
         MemoryUpdateEventAction(c) \/ BoltUpdateEventAction(c)
  PROVE  UNCHANGED store
BY DEF MemoryUpdateEventAction, BoltUpdateEventAction, Inv, TypeOK,
       MappingsSymmetric, store

(* Writing is an insert or an update of the SQL provider, erasing is a     *)
(* delete with its cascade.                                                *)
LEMMA WrittenRefines ==
  ASSUME Inv, NEW o \in Objects, NEW T, Written(o, T)
  PROVE  /\ o \notin rows => Relations!Insert(o, T)
         /\ o \in rows => Relations!Replace(o, T)
BY DEF Inv, TypeOK, Written, Relations!Insert, Relations!Replace

LEMMA ErasedRefines ==
  ASSUME NEW S, Erased(S)
  PROVE  Relations!Remove(S)
BY DEF Erased, Relations!Remove

-----------------------------------------------------------------------------
(* One lemma per kind of object: its operations keep the invariant and are *)
(* steps of the abstract specification.                                    *)
RelationsStep == [Relations!Next]_(Relations!vars)

(* None or one of a set is a subset of it. *)
LEMMA OptionalSubset ==
  ASSUME NEW S
  PROVE  Optional(S) \subseteq SUBSET S
BY DEF Optional, Relations!Optional

LEMMA UserStepOK ==
  ASSUME Inv, Careful, UNCHANGED provider, UserStep
  PROVE  Inv' /\ RelationsStep
<1>1. PICK u \in Users :
         \/ \E R \in Optional(Roles), G \in SUBSET Groups, F \in SUBSET Folders :
              \/ MemoryAddUser(u, R, G, F) \/ MemoryUpdateUser(u, R, G, F)
              \/ BoltAddUser(u, R, G, F) \/ BoltUpdateUser(u, R, G, F)
         \/ MemoryDeleteUser(u) \/ BoltDeleteUser(u)
  BY DEF UserStep
<1>2. CASE \E R \in Optional(Roles), G \in SUBSET Groups, F \in SUBSET Folders :
              \/ MemoryAddUser(u, R, G, F) \/ MemoryUpdateUser(u, R, G, F)
              \/ BoltAddUser(u, R, G, F) \/ BoltUpdateUser(u, R, G, F)
  <2>1. PICK R \in Optional(Roles), G \in SUBSET Groups, F \in SUBSET Folders :
              \/ MemoryAddUser(u, R, G, F) \/ MemoryUpdateUser(u, R, G, F)
              \/ BoltAddUser(u, R, G, F) \/ BoltUpdateUser(u, R, G, F)
    BY <1>2
  <2>2. R \in SUBSET Roles
    BY OptionalSubset
  <2>3. Written(u, R \cup G \cup F)
    BY <2>1, <2>2, MemoryAddUserWrites, MemoryUpdateUserWrites, BoltAddUserWrites, BoltUpdateUserWrites
  <2>4. u \in Objects /\ MayName(u, R \cup G \cup F)
    BY <2>2 DEF MayName
  <2>5. Inv'
    BY <2>3, <2>4, WrittenKeepsInv
  <2>6. Relations!AddUser(u, R, G, F) \/ Relations!UpdateUser(u, R, G, F)
    BY <2>3, <2>4, WrittenRefines DEF Relations!AddUser, Relations!UpdateUser
  <2>7. RelationsStep
    BY <2>6 DEF RelationsStep, Relations!Next, Relations!UserNext, Optional, Relations!Optional
  <2> QED
    BY <2>5, <2>7
<1>3. CASE MemoryDeleteUser(u) \/ BoltDeleteUser(u)
  <2>1. PICK S : S = {u} \cup {o \in Keys \cup Shares : <<o, u>> \in refs} /\ Erased(S) /\ u \in rows
    BY <1>3, MemoryDeleteUserErases, BoltDeleteUserErases DEF deleteAPIKeysWithUser, deleteSharesWithUser,
                 deleteRelatedAPIKey, deleteRelatedShares
  <2>2. Inv'
    BY <2>1, ErasedKeepsInv
  <2>3. Relations!DeleteUser(u)
    BY <2>1, ErasedRefines DEF Relations!DeleteUser
  <2>4. RelationsStep
    BY <2>3 DEF RelationsStep, Relations!Next, Relations!UserNext, Optional
  <2> QED
    BY <2>2, <2>4
<1> QED
  BY <1>1, <1>2, <1>3

LEMMA AdminStepOK ==
  ASSUME Inv, Careful, UNCHANGED provider, AdminStep
  PROVE  Inv' /\ RelationsStep
<1>1. PICK a \in Admins :
         \/ \E R \in Optional(Roles), G \in SUBSET Groups :
              \/ MemoryAddAdmin(a, R, G) \/ MemoryUpdateAdmin(a, R, G)
              \/ BoltAddAdmin(a, R, G) \/ BoltUpdateAdmin(a, R, G)
         \/ MemoryDeleteAdmin(a) \/ BoltDeleteAdmin(a)
  BY DEF AdminStep
<1>2. CASE \E R \in Optional(Roles), G \in SUBSET Groups :
              \/ MemoryAddAdmin(a, R, G) \/ MemoryUpdateAdmin(a, R, G)
              \/ BoltAddAdmin(a, R, G) \/ BoltUpdateAdmin(a, R, G)
  <2>1. PICK R \in Optional(Roles), G \in SUBSET Groups :
              \/ MemoryAddAdmin(a, R, G) \/ MemoryUpdateAdmin(a, R, G)
              \/ BoltAddAdmin(a, R, G) \/ BoltUpdateAdmin(a, R, G)
    BY <1>2
  <2>2. R \in SUBSET Roles
    BY OptionalSubset
  <2>3. Written(a, R \cup G)
    BY <2>1, <2>2, MemoryAddAdminWrites, MemoryUpdateAdminWrites, BoltAddAdminWrites, BoltUpdateAdminWrites
  <2>4. a \in Objects /\ MayName(a, R \cup G)
    BY <2>2 DEF MayName
  <2>5. Inv'
    BY <2>3, <2>4, WrittenKeepsInv
  <2>6. Relations!AddAdmin(a, R, G) \/ Relations!UpdateAdmin(a, R, G)
    BY <2>3, <2>4, WrittenRefines DEF Relations!AddAdmin, Relations!UpdateAdmin
  <2>7. RelationsStep
    BY <2>6 DEF RelationsStep, Relations!Next, Relations!AdminNext, Optional, Relations!Optional
  <2> QED
    BY <2>5, <2>7
<1>3. CASE MemoryDeleteAdmin(a) \/ BoltDeleteAdmin(a)
  <2>1. PICK S : S = {a} \cup {o \in Keys : <<o, a>> \in refs} /\ Erased(S) /\ a \in rows
    BY <1>3, MemoryDeleteAdminErases, BoltDeleteAdminErases DEF deleteAPIKeysWithAdmin, deleteRelatedAPIKey
  <2>2. Inv'
    BY <2>1, ErasedKeepsInv
  <2>3. Relations!DeleteAdmin(a)
    BY <2>1, ErasedRefines DEF Relations!DeleteAdmin
  <2>4. RelationsStep
    BY <2>3 DEF RelationsStep, Relations!Next, Relations!AdminNext, Optional
  <2> QED
    BY <2>2, <2>4
<1> QED
  BY <1>1, <1>2, <1>3

LEMMA GroupStepOK ==
  ASSUME Inv, Careful, UNCHANGED provider, GroupStep
  PROVE  Inv' /\ RelationsStep
<1>1. PICK g \in Groups :
         \/ \E F \in SUBSET Folders :
              \/ MemoryAddGroup(g, F) \/ MemoryUpdateGroup(g, F)
              \/ BoltAddGroup(g, F) \/ BoltUpdateGroup(g, F)
         \/ MemoryDeleteGroup(g) \/ BoltDeleteGroup(g)
  BY DEF GroupStep
<1>2. CASE \E F \in SUBSET Folders :
              \/ MemoryAddGroup(g, F) \/ MemoryUpdateGroup(g, F)
              \/ BoltAddGroup(g, F) \/ BoltUpdateGroup(g, F)
  <2>1. PICK F \in SUBSET Folders :
              \/ MemoryAddGroup(g, F) \/ MemoryUpdateGroup(g, F)
              \/ BoltAddGroup(g, F) \/ BoltUpdateGroup(g, F)
    BY <1>2
  <2>3. Written(g, F)
    BY <2>1, MemoryAddGroupWrites, MemoryUpdateGroupWrites, BoltAddGroupWrites, BoltUpdateGroupWrites
  <2>4. g \in Objects /\ MayName(g, F)
    BY <2>1 DEF MayName
  <2>5. Inv'
    BY <2>3, <2>4, WrittenKeepsInv
  <2>6. Relations!AddGroup(g, F) \/ Relations!UpdateGroup(g, F)
    BY <2>3, <2>4, WrittenRefines DEF Relations!AddGroup, Relations!UpdateGroup
  <2>7. RelationsStep
    BY <2>6 DEF RelationsStep, Relations!Next, Relations!GroupNext, Optional, Relations!Optional
  <2> QED
    BY <2>5, <2>7
<1>3. CASE MemoryDeleteGroup(g) \/ BoltDeleteGroup(g)
  <2>1. PICK S : S = {g} /\ Erased(S) /\ g \in rows /\ ~Relations!NamedBy(g, Users)
    BY <1>3, MemoryDeleteGroupErases, BoltDeleteGroupErases
  <2>2. Inv'
    BY <2>1, ErasedKeepsInv
  <2>3. Relations!DeleteGroup(g)
    BY <2>1, ErasedRefines DEF Relations!DeleteGroup
  <2>4. RelationsStep
    BY <2>3 DEF RelationsStep, Relations!Next, Relations!GroupNext, Optional
  <2> QED
    BY <2>2, <2>4
<1> QED
  BY <1>1, <1>2, <1>3

LEMMA FolderStepOK ==
  ASSUME Inv, Careful, UNCHANGED provider, FolderStep
  PROVE  Inv' /\ RelationsStep
<1>1. PICK f \in Folders :
         \/ MemoryAddFolder(f) \/ BoltAddFolder(f)
         \/ MemoryDeleteFolder(f) \/ BoltDeleteFolder(f)
  BY DEF FolderStep
<1>2. CASE MemoryAddFolder(f) \/ BoltAddFolder(f)
  <2>3. Written(f, {}) /\ f \notin rows
    BY <1>2, MemoryAddFolderWrites, BoltAddFolderWrites
  <2>4. f \in Objects /\ MayName(f, {})
    BY <1>2 DEF MayName
  <2>5. Inv'
    BY <2>3, <2>4, WrittenKeepsInv
  <2>6. Relations!AddFolder(f)
    BY <2>3, <2>4, WrittenRefines DEF Relations!AddFolder
  <2>7. RelationsStep
    BY <2>6 DEF RelationsStep, Relations!Next, Optional, Relations!Optional
  <2> QED
    BY <2>5, <2>7
<1>3. CASE MemoryDeleteFolder(f) \/ BoltDeleteFolder(f)
  <2>1. PICK S : S = {f} /\ Erased(S) /\ f \in rows
    BY <1>3, MemoryDeleteFolderErases, BoltDeleteFolderErases
  <2>2. Inv'
    BY <2>1, ErasedKeepsInv
  <2>3. Relations!DeleteFolder(f)
    BY <2>1, ErasedRefines DEF Relations!DeleteFolder
  <2>4. RelationsStep
    BY <2>3 DEF RelationsStep, Relations!Next, Optional
  <2> QED
    BY <2>2, <2>4
<1> QED
  BY <1>1, <1>2, <1>3

LEMMA RoleStepOK ==
  ASSUME Inv, Careful, UNCHANGED provider, RoleStep
  PROVE  Inv' /\ RelationsStep
<1>1. PICK r \in Roles :
         \/ MemoryAddRole(r) \/ BoltAddRole(r)
         \/ MemoryDeleteRole(r) \/ BoltDeleteRole(r)
  BY DEF RoleStep
<1>2. CASE MemoryAddRole(r) \/ BoltAddRole(r)
  <2>3. Written(r, {}) /\ r \notin rows
    BY <1>2, MemoryAddRoleWrites, BoltAddRoleWrites
  <2>4. r \in Objects /\ MayName(r, {})
    BY <1>2 DEF MayName
  <2>5. Inv'
    BY <2>3, <2>4, WrittenKeepsInv
  <2>6. Relations!AddRole(r)
    BY <2>3, <2>4, WrittenRefines DEF Relations!AddRole
  <2>7. RelationsStep
    BY <2>6 DEF RelationsStep, Relations!Next, Optional, Relations!Optional
  <2> QED
    BY <2>5, <2>7
<1>3. CASE MemoryDeleteRole(r) \/ BoltDeleteRole(r)
  <2>1. PICK S : S = {r} /\ Erased(S) /\ r \in rows /\ ~Relations!NamedBy(r, Admins)
    BY <1>3, MemoryDeleteRoleErases, BoltDeleteRoleErases
  <2>2. Inv'
    BY <2>1, ErasedKeepsInv
  <2>3. Relations!DeleteRole(r)
    BY <2>1, ErasedRefines DEF Relations!DeleteRole
  <2>4. RelationsStep
    BY <2>3 DEF RelationsStep, Relations!Next, Optional
  <2> QED
    BY <2>2, <2>4
<1> QED
  BY <1>1, <1>2, <1>3

LEMMA ActionStepOK ==
  ASSUME Inv, Careful, UNCHANGED provider, ActionStep
  PROVE  Inv' /\ RelationsStep
<1>1. PICK c \in Actions :
         \/ MemoryAddEventAction(c) \/ BoltAddEventAction(c)
         \/ MemoryDeleteEventAction(c) \/ BoltDeleteEventAction(c)
         \/ MemoryUpdateEventAction(c) \/ BoltUpdateEventAction(c)
  BY DEF ActionStep
<1>2. CASE MemoryAddEventAction(c) \/ BoltAddEventAction(c)
  <2>3. Written(c, {}) /\ c \notin rows
    BY <1>2, MemoryAddEventActionWrites, BoltAddEventActionWrites
  <2>4. c \in Objects /\ MayName(c, {})
    BY <1>2 DEF MayName
  <2>5. Inv'
    BY <2>3, <2>4, WrittenKeepsInv
  <2>6. Relations!AddEventAction(c)
    BY <2>3, <2>4, WrittenRefines DEF Relations!AddEventAction
  <2>7. RelationsStep
    BY <2>6 DEF RelationsStep, Relations!Next, Relations!RuleNext, Optional, Relations!Optional
  <2> QED
    BY <2>5, <2>7
<1>3. CASE MemoryDeleteEventAction(c) \/ BoltDeleteEventAction(c)
  <2>1. PICK S : S = {c} /\ Erased(S) /\ c \in rows /\ ~Relations!NamedBy(c, Rules)
    BY <1>3, MemoryDeleteEventActionErases, BoltDeleteEventActionErases
  <2>2. Inv'
    BY <2>1, ErasedKeepsInv
  <2>3. Relations!DeleteEventAction(c)
    BY <2>1, ErasedRefines DEF Relations!DeleteEventAction
  <2>4. RelationsStep
    BY <2>3 DEF RelationsStep, Relations!Next, Relations!RuleNext, Optional
  <2> QED
    BY <2>2, <2>4
<1>4. CASE MemoryUpdateEventAction(c) \/ BoltUpdateEventAction(c)
  <2>1. UNCHANGED store
    BY <1>4, UpdateEventActionKeeps
  <2> QED
    BY <2>1 DEF Inv, TypeOK, MappingsSymmetric, ForeignKeys, LinkKinds, store,
                RelationsStep, Relations!vars
<1> QED
  BY <1>1, <1>2, <1>3, <1>4

LEMMA RuleStepOK ==
  ASSUME Inv, Careful, UNCHANGED provider, RuleStep
  PROVE  Inv' /\ RelationsStep
<1>1. PICK e \in Rules :
         \/ \E C \in SUBSET Actions :
              \/ MemoryAddEventRule(e, C) \/ MemoryUpdateEventRule(e, C)
              \/ BoltAddEventRule(e, C) \/ BoltUpdateEventRule(e, C)
         \/ MemoryDeleteEventRule(e) \/ BoltDeleteEventRule(e)
  BY DEF RuleStep
<1>2. CASE \E C \in SUBSET Actions :
              \/ MemoryAddEventRule(e, C) \/ MemoryUpdateEventRule(e, C)
              \/ BoltAddEventRule(e, C) \/ BoltUpdateEventRule(e, C)
  <2>1. PICK C \in SUBSET Actions :
              \/ MemoryAddEventRule(e, C) \/ MemoryUpdateEventRule(e, C)
              \/ BoltAddEventRule(e, C) \/ BoltUpdateEventRule(e, C)
    BY <1>2
  <2>3. Written(e, C)
    BY <2>1, MemoryAddEventRuleWrites, MemoryUpdateEventRuleWrites, BoltAddEventRuleWrites, BoltUpdateEventRuleWrites
  <2>4. e \in Objects /\ MayName(e, C)
    BY <2>1 DEF MayName
  <2>5. Inv'
    BY <2>3, <2>4, WrittenKeepsInv
  <2>6. Relations!AddEventRule(e, C) \/ Relations!UpdateEventRule(e, C)
    BY <2>3, <2>4, WrittenRefines DEF Relations!AddEventRule, Relations!UpdateEventRule
  <2>7. RelationsStep
    BY <2>6 DEF RelationsStep, Relations!Next, Relations!RuleNext, Optional, Relations!Optional
  <2> QED
    BY <2>5, <2>7
<1>3. CASE MemoryDeleteEventRule(e) \/ BoltDeleteEventRule(e)
  <2>1. PICK S : S = {e} /\ Erased(S) /\ e \in rows
    BY <1>3, MemoryDeleteEventRuleErases, BoltDeleteEventRuleErases
  <2>2. Inv'
    BY <2>1, ErasedKeepsInv
  <2>3. Relations!DeleteEventRule(e)
    BY <2>1, ErasedRefines DEF Relations!DeleteEventRule
  <2>4. RelationsStep
    BY <2>3 DEF RelationsStep, Relations!Next, Relations!RuleNext, Optional
  <2> QED
    BY <2>2, <2>4
<1> QED
  BY <1>1, <1>2, <1>3

LEMMA KeyStepOK ==
  ASSUME Inv, Careful, UNCHANGED provider, KeyStep
  PROVE  Inv' /\ RelationsStep
<1>1. PICK k \in Keys :
         \/ \E O \in Optional(Users \cup Admins) :
              \/ MemoryAddAPIKey(k, O) \/ MemoryUpdateAPIKey(k, O)
              \/ BoltAddAPIKey(k, O) \/ BoltUpdateAPIKey(k, O)
         \/ MemoryDeleteAPIKey(k) \/ BoltDeleteAPIKey(k)
  BY DEF KeyStep
<1>2. CASE \E O \in Optional(Users \cup Admins) :
              \/ MemoryAddAPIKey(k, O) \/ MemoryUpdateAPIKey(k, O)
              \/ BoltAddAPIKey(k, O) \/ BoltUpdateAPIKey(k, O)
  <2>1. PICK O \in Optional(Users \cup Admins) :
              \/ MemoryAddAPIKey(k, O) \/ MemoryUpdateAPIKey(k, O)
              \/ BoltAddAPIKey(k, O) \/ BoltUpdateAPIKey(k, O)
    BY <1>2
  <2>2. O \in SUBSET (Users \cup Admins)
    BY OptionalSubset
  <2>3. Written(k, O)
    BY <2>1, <2>2, MemoryAddAPIKeyWrites, MemoryUpdateAPIKeyWrites, BoltAddAPIKeyWrites, BoltUpdateAPIKeyWrites
  <2>4. k \in Objects /\ MayName(k, O)
    BY <2>2 DEF MayName
  <2>5. Inv'
    BY <2>3, <2>4, WrittenKeepsInv
  <2>6. Relations!AddAPIKey(k, O) \/ Relations!UpdateAPIKey(k, O)
    BY <2>3, <2>4, WrittenRefines DEF Relations!AddAPIKey, Relations!UpdateAPIKey
  <2>7. RelationsStep
    BY <2>6 DEF RelationsStep, Relations!Next, Relations!KeyNext, Optional, Relations!Optional
  <2> QED
    BY <2>5, <2>7
<1>3. CASE MemoryDeleteAPIKey(k) \/ BoltDeleteAPIKey(k)
  <2>1. PICK S : S = {k} /\ Erased(S) /\ k \in rows
    BY <1>3, MemoryDeleteAPIKeyErases, BoltDeleteAPIKeyErases
  <2>2. Inv'
    BY <2>1, ErasedKeepsInv
  <2>3. Relations!DeleteAPIKey(k)
    BY <2>1, ErasedRefines DEF Relations!DeleteAPIKey
  <2>4. RelationsStep
    BY <2>3 DEF RelationsStep, Relations!Next, Relations!KeyNext, Optional
  <2> QED
    BY <2>2, <2>4
<1> QED
  BY <1>1, <1>2, <1>3

LEMMA ShareStepOK ==
  ASSUME Inv, Careful, UNCHANGED provider, ShareStep
  PROVE  Inv' /\ RelationsStep
<1>1. PICK s \in Shares :
         \/ \E u \in Users :
              \/ MemoryAddShare(s, u)
              \/ BoltAddShare(s, u)
         \/ MemoryDeleteShare(s) \/ BoltDeleteShare(s)
  BY DEF ShareStep
<1>2. CASE \E u \in Users :
              \/ MemoryAddShare(s, u)
              \/ BoltAddShare(s, u)
  <2>1. PICK u \in Users :
              \/ MemoryAddShare(s, u)
              \/ BoltAddShare(s, u)
    BY <1>2
  <2>3. Written(s, {u}) /\ s \notin rows
    BY <2>1, MemoryAddShareWrites, BoltAddShareWrites
  <2>4. s \in Objects /\ MayName(s, {u})
    BY <2>1 DEF MayName
  <2>5. Inv'
    BY <2>3, <2>4, WrittenKeepsInv
  <2>6. Relations!AddShare(s, u)
    BY <2>3, <2>4, WrittenRefines DEF Relations!AddShare
  <2>7. RelationsStep
    BY <2>6 DEF RelationsStep, Relations!Next, Relations!KeyNext, Optional, Relations!Optional
  <2> QED
    BY <2>5, <2>7
<1>3. CASE MemoryDeleteShare(s) \/ BoltDeleteShare(s)
  <2>1. PICK S : S = {s} /\ Erased(S) /\ s \in rows
    BY <1>3, MemoryDeleteShareErases, BoltDeleteShareErases
  <2>2. Inv'
    BY <2>1, ErasedKeepsInv
  <2>3. Relations!DeleteShare(s)
    BY <2>1, ErasedRefines DEF Relations!DeleteShare
  <2>4. RelationsStep
    BY <2>3 DEF RelationsStep, Relations!Next, Relations!KeyNext, Optional
  <2> QED
    BY <2>2, <2>4
<1> QED
  BY <1>1, <1>2, <1>3

-----------------------------------------------------------------------------
LEMMA NextOK ==
  ASSUME Inv, Careful, [Next]_vars
  PROVE  Inv' /\ RelationsStep
<1>1. CASE MemoryClear /\ UNCHANGED provider
  <2>1. Inv'
    BY <1>1 DEF MemoryClear, Inv, TypeOK, MappingsSymmetric, ForeignKeys, LinkKinds
  <2>2. RelationsStep
    BY <1>1 DEF MemoryClear, RelationsStep, Relations!Next, Relations!resetDatabase
  <2> QED
    BY <2>1, <2>2
<1>2. CASE UNCHANGED vars
  BY <1>2 DEF vars, store, Inv, TypeOK, MappingsSymmetric, ForeignKeys, LinkKinds,
              RelationsStep, Relations!vars
<1> QED
  BY <1>1, <1>2, UserStepOK, AdminStepOK, GroupStepOK, FolderStepOK, RoleStepOK,
     ActionStepOK, RuleStepOK, KeyStepOK, ShareStepOK DEF Next

LEMMA InitInv ==
  ASSUME Init
  PROVE  Inv
BY DEF Init, Inv, TypeOK, MappingsSymmetric, ForeignKeys, LinkKinds

(* The invariant holds in every reachable state of both providers.         *)
THEOREM Invariance ==
  Spec /\ Careful => []Inv
<1>1. Inv /\ Careful /\ [Next]_vars => Inv' /\ Careful'
  BY NextOK DEF Careful, Next, vars, store
<1> QED
  BY <1>1, InitInv, PTL DEF Spec

(* Lists are held and relations named by existing records only.            *)
THEOREM TypeCorrect ==
  Spec /\ Careful => []TypeOK
<1>1. Inv => TypeOK
  BY DEF Inv
<1> QED
  BY <1>1, Invariance, PTL

(* Each relation is recorded on both of its sides or on none: whatever     *)
(* requests the bolt provider gets, and for the memory provider as long as *)
(* they name existing objects.                                             *)
THEOREM Symmetric ==
  Spec /\ Careful => []MappingsSymmetric
<1>1. Inv => MappingsSymmetric
  BY DEF Inv
<1> QED
  BY <1>1, Invariance, PTL

(* No record names a missing object: deletions erase what names the        *)
(* deleted object, or are refused.                                         *)
THEOREM NoDangling ==
  Spec /\ Careful => []ForeignKeys
<1>1. Inv => ForeignKeys
  BY DEF Inv
<1> QED
  BY <1>1, Invariance, PTL

(* The embedded providers implement the SQL provider's relations: the      *)
(* empty store is its initial state and every operation one of its steps.  *)
THEOREM Refinement ==
  Spec /\ Careful => RelationsSpec
<1>1. Init => Relations!Init
  BY DEF Init, Relations!Init
<1>2. Inv /\ Careful /\ [Next]_vars =>
        [Relations!Next]_(Relations!vars) /\ Careful'
  BY NextOK DEF RelationsStep, Careful, Next, vars, store
<1> QED
  BY <1>1, <1>2, Invariance, PTL DEF Spec, RelationsSpec, Relations!Spec
=============================================================================

--------------------------- MODULE TransfersChecker ---------------------------
(***************************************************************************)
(* The transfers of users with quotas, and the periodic check of what they *)
(* have moved together: each transfer compares its own bytes with what was *)
(* left when it started, so that only the check sees two of them exceed a  *)
(* quota.  Its entries are added and removed by goroutines of their own,   *)
(* sizes are read, stored, added up and compared with the used quota one   *)
(* after the other, and the transfers go on and end in between.            *)
(***************************************************************************)
EXTENDS Integers, FiniteSets

CONSTANTS
  Users, Conns,
  Owner,      \* connection -> its user
  Protocol,   \* connection -> "http", "webdav" or "other"
  IDs,        \* transfer ids, each connection counts its own
  Types,      \* connection -> what it does, "upload" or "download" or both
  Quotas,     \* what an administrator may set for a user
  MaxBytes    \* bounds what a transfer moves

(* 0 is no limit; total, ul and dl are the *DataTransfer of the user.      *)
Quota == [QuotaSize : Nat, total : Nat, ul : Nat, dl : Nat]

ASSUME CheckerAssumption ==
  /\ IsFiniteSet(Conns) /\ IDs \subseteq Nat /\ IsFiniteSet(IDs)
  /\ Owner \in [Conns -> Users]
  /\ Protocol \in [Conns -> {"http", "webdav", "other"}]
  /\ Types \in [Conns -> SUBSET {"upload", "download"}]
  /\ Quotas \subseteq Quota

Transfers == Conns \X IDs
UserOf(t) == Owner[t[1]]

VARIABLES
  quota,     \* user -> its limits
  transfer,  \* transfer -> its BaseTransfer
  used,      \* user -> the provider's size, bytes up and bytes down
  adding,    \* transfers whose addition to the checker is still to run
  removing,  \* the same for the removal
  entries,   \* the transfers the checker knows
  current,   \* transfer -> the size the checker has last been told
  check      \* the check: where it is, and its local variables

state == <<quota, transfer, used, adding, removing>>
vars == <<quota, transfer, used, adding, removing, entries, current, check>>

None == [st |-> "none", type |-> "none", moved |-> 0, size |-> 0,
         MaxWriteSize |-> 0, ul |-> 0, dl |-> 0, total |-> 0,
         ErrTransfer |-> "none", AbortTransfer |-> FALSE]

Idle == [pc |-> "idle", updates |-> {}, taken |-> {}, over |-> {},
         floor |-> [u \in Users |-> 0]] \* bytes moved when the check began; not in the code

TypeOf(t) == transfer[t].type
IsOpen(t) == transfer[t].st = "open"
Listed(t) == transfer[t].st \in {"open", "charged"}

(* HasSizeLimits of its transfer quota: then Close charges what it moved.   *)
HasSizeLimits(r) == r.ul > 0 \/ r.dl > 0 \/ r.total > 0

(* HasSizeLimit *)
Limited(r) == r.MaxWriteSize > 0 \/ HasSizeLimits(r)

(* Sizes of transfers are added up by counting their bytes, one by one.     *)
Bytes(sizes) == UNION {{s.t} \X (1 .. s.size) : s \in sizes}
Size(sizes) == Cardinality(Bytes(sizes))
Moved(S) == {[t |-> t, size |-> transfer[t].moved] : t \in S}

Used(u) == used[u].ul + used[u].dl

-----------------------------------------------------------------------------
(* Transfers                                                               *)

Left(limit, n) == IF limit > 0 THEN limit - n ELSE 0

(* The allowed sizes of checkUserQuota; 0 is no limit, or nothing left.    *)
checkUserQuota(u) ==
  [total |-> Left(quota[u].total, Used(u)),
   ul    |-> Left(quota[u].ul, used[u].ul),
   dl    |-> Left(quota[u].dl, used[u].dl)]

(* HasUploadSpace and HasDownloadSpace, and the disk quota of an upload.   *)
HasSpace(u, type) ==
  LET q == checkUserQuota(u)
      limit == IF type = "upload" THEN quota[u].ul ELSE quota[u].dl
      left  == IF type = "upload" THEN q.ul ELSE q.dl
  IN /\ IF quota[u].total > 0 THEN q.total > 0 ELSE limit > 0 => left > 0
     /\ (type = "upload" /\ quota[u].QuotaSize > 0) => used[u].size < quota[u].QuotaSize

(* A new file is uploaded, or a file downloaded: NewBaseTransfer, and the  *)
(* addition to the connection and to the checker.                          *)
Open(t, type) ==
  LET u == UserOf(t)
      q == checkUserQuota(u)
      opened == [None EXCEPT
        !.st = "open", !.type = type, !.total = q.total, !.ul = q.ul, !.dl = q.dl,
        !.MaxWriteSize = IF type = "upload" THEN Left(quota[u].QuotaSize, used[u].size) ELSE 0]
  IN /\ transfer[t].st = "none"
     /\ \A i \in IDs : i < t[2] => transfer[<<t[1], i>>].st # "none"
     /\ HasSpace(u, type)
     /\ transfer' = [transfer EXCEPT ![t] = opened]
     /\ adding' = IF Limited(opened) THEN adding \cup {t} ELSE adding
     /\ UNCHANGED <<quota, used, removing, entries, current, check>>

(* CheckRead, CheckWrite: after the bytes have moved. *)
Exceeded(r, n) ==
  \/ r.type = "upload" /\ r.MaxWriteSize > 0 /\ n > r.MaxWriteSize
  \/ IF r.total > 0 THEN n > r.total
     ELSE LET left == IF r.type = "upload" THEN r.ul ELSE r.dl
          IN left > 0 /\ n > left

(* A read or a write.  Only WebDAV and HTTP look at AbortTransfer first,   *)
(* and stop at an error; other protocols' requests may already be queued.  *)
Move(t) ==
  LET n == transfer[t].moved + 1 IN
  /\ IsOpen(t) /\ n <= MaxBytes
  /\ (transfer[t].AbortTransfer \/ transfer[t].ErrTransfer # "none")
        => Protocol[t[1]] = "other"
  /\ transfer' = [transfer EXCEPT ![t].moved = n, ![t].size = n,
       ![t].ErrTransfer = IF @ = "none" /\ Exceeded(transfer[t], n) THEN "quota" ELSE @]
  /\ UNCHANGED <<quota, used, adding, removing, entries, current, check>>

(* HTTP reports the error of the signal, WebDAV none. *)
Aborted(t) ==
  /\ IsOpen(t) /\ transfer[t].AbortTransfer /\ Protocol[t[1]] = "http"
  /\ transfer[t].ErrTransfer = "none"
  /\ transfer' = [transfer EXCEPT ![t].ErrTransfer = "quota"]
  /\ UNCHANGED <<quota, used, adding, removing, entries, current, check>>

(* Mutant: the transfer quota is not charged. *)
CloseChargesSize(t) ==
  LET u == UserOf(t) r == transfer[t] IN
  /\ IsOpen(t)
  /\ used' = IF r.type = "upload" THEN [used EXCEPT ![u].size = @ + r.size] ELSE used
  /\ transfer' = [transfer EXCEPT ![t].st = "charged"]
  /\ UNCHANGED <<quota, adding, removing, entries, current, check>>

(* Close charges the bytes that moved, removes an upload over quota and    *)
(* charges the size of the others (updateQuota).                           *)
Close(t) ==
  LET u == UserOf(t)
      r == transfer[t]
      n == IF HasSizeLimits(r) THEN r.moved ELSE 0
      size == IF r.type = "upload" /\ r.ErrTransfer = "quota" THEN 0 ELSE r.size
  IN /\ IsOpen(t)
     /\ used' = IF r.type = "upload"
                THEN [used EXCEPT ![u].ul = @ + n, ![u].size = @ + size]
                ELSE [used EXCEPT ![u].dl = @ + n]
     /\ transfer' = [transfer EXCEPT ![t].st = "charged", ![t].size = size]
     /\ UNCHANGED <<quota, adding, removing, entries, current, check>>

(* The deferred call: until then the checker counts the bytes once more.   *)
RemoveTransfer(t) ==
  /\ transfer[t].st = "charged"
  /\ transfer' = [transfer EXCEPT ![t] = [None EXCEPT !.st = "over", !.type = TypeOf(t)]]
  /\ removing' = IF Limited(transfer[t]) THEN removing \cup {t} ELSE removing
  /\ UNCHANGED <<quota, used, adding, entries, current, check>>

-----------------------------------------------------------------------------
(* The goroutines of AddTransfer and RemoveTransfer                        *)

CheckerAdd(t) ==
  /\ t \in adding
  /\ adding' = adding \ {t}
  /\ entries' = entries \cup {t}
  /\ current' = [current EXCEPT ![t] = 0]
  /\ UNCHANGED <<quota, transfer, used, removing, check>>

(* Mutant: the connection is not compared. *)
CheckerRemoveByID(t) ==
  /\ t \in removing
  /\ removing' = removing \ {t}
  /\ entries' = {e \in entries : e[2] # t[2]}
  /\ current' = [current EXCEPT ![t] = 0]
  /\ UNCHANGED <<quota, transfer, used, adding, check>>

(* An entry that is not there yet stays for ever when it is added. *)
CheckerRemove(t) ==
  /\ t \in removing
  /\ removing' = removing \ {t}
  /\ entries' = entries \ {t}
  /\ current' = [current EXCEPT ![t] = 0]
  /\ UNCHANGED <<quota, transfer, used, adding, check>>

-----------------------------------------------------------------------------
(* The check                                                               *)

(* What a user has been charged, and what is to be charged for the entries. *)
Chargeable(u) ==
  {t \in entries : UserOf(t) = u /\ IsOpen(t) /\ HasSizeLimits(transfer[t])}
movedSoFar == [u \in Users |-> Used(u) + Size(Moved(Chargeable(u)))]

(* The sizes of the connections' transfers are read, for goroutines that   *)
(* store them.  Nothing is checked while a single connection is there: one *)
(* without a transfer may be, or not, another with a transfer is.          *)
TwoConnections == Cardinality({t[1] : t \in {x \in Transfers : Listed(x)}}) >= 2

CheckBegins ==
  LET found == {t \in Transfers : Listed(t) /\ Limited(transfer[t])} IN
  /\ check.pc = "idle" /\ found # {}
  /\ check' = [Idle EXCEPT !.pc = "sizes",
       !.updates = {[t |-> t, size |-> transfer[t].size] : t \in found},
       !.floor = movedSoFar]
  /\ UNCHANGED <<state, entries, current>>

(* Mutant: the connection is not compared. *)
UpdateByID(p) ==
  /\ p \in check.updates
  /\ check' = [check EXCEPT !.updates = @ \ {p}]
  /\ current' = [t \in Transfers |->
       IF t \in entries /\ t[2] = p.t[2] THEN p.size ELSE current[t]]
  /\ UNCHANGED <<state, entries>>

UpdateTransferCurrentSizes(p) ==
  /\ p \in check.updates
  /\ check' = [check EXCEPT !.updates = @ \ {p}]
  /\ current' = IF p.t \in entries THEN [current EXCEPT ![p.t] = p.size] ELSE current
  /\ UNCHANGED <<state, entries>>

(* wg.Wait, then the entries are copied under the checker's lock. *)
Aggregate ==
  /\ check.pc = "sizes" /\ check.updates = {}
  /\ check' = [check EXCEPT !.pc = "fetch",
                 !.taken = {[t |-> t, size |-> current[t]] : t \in entries}]
  /\ UNCHANGED <<state, entries, current>>

TakenOf(u) == {p \in check.taken : UserOf(p.t) = u}
TakenUp(u) == {p \in TakenOf(u) : TypeOf(p.t) = "upload"}

TransfersNotCounted == {u \in Users : Cardinality(TakenOf(u)) > 2} \* mutant

(* Users are read when two of their transfers may exceed a quota together. *)
usersToFetch == {u \in Users : Cardinality(TakenOf(u)) > 1}

OverDisk(u) ==
  quota[u].QuotaSize > 0 /\ Size(TakenUp(u)) > quota[u].QuotaSize - used[u].size

isDataTransferExceeded(u, p) ==
  LET up   == Size(TakenUp(u))
      down == Size(TakenOf(u) \ TakenUp(u))
      q    == checkUserQuota(u)
      totalOver == quota[u].total > 0 /\ up + down > q.total
      downOver  == quota[u].dl > 0 /\ down > q.dl
      upOver    == quota[u].ul > 0 /\ up > q.ul
  IN /\ p.size > 0
     /\ IF totalOver THEN TRUE
        ELSE IF downOver THEN TypeOf(p.t) = "download"
        ELSE upOver /\ TypeOf(p.t) = "upload"

overquotaOf(u) ==
  {p.t : p \in {q \in TakenUp(u) : OverDisk(u) /\ q.size > 0}}
  \cup {p.t : p \in {q \in TakenOf(u) : isDataTransferExceeded(u, q)}}

(* The used quotas are read, the entries were copied before. *)
GetOverquotaTransfers ==
  LET over == UNION {overquotaOf(u) : u \in usersToFetch} IN
  /\ check.pc = "fetch"
  /\ check' = IF over = {} THEN Idle
              ELSE [Idle EXCEPT !.pc = "signal", !.over = over]
  /\ UNCHANGED <<state, entries, current>>

(* The provider cannot be read. *)
FetchFails ==
  /\ check.pc = "fetch" /\ usersToFetch # {}
  /\ check' = Idle
  /\ UNCHANGED <<state, entries, current>>

SignalTransferClose ==
  /\ check.pc = "signal"
  /\ transfer' = [t \in Transfers |->
       IF t \in check.over /\ Listed(t)
       THEN [transfer[t] EXCEPT !.AbortTransfer = TRUE] ELSE transfer[t]]
  /\ check' = Idle
  /\ UNCHANGED <<quota, used, adding, removing, entries, current>>

-----------------------------------------------------------------------------
Init ==
  /\ quota \in [Users -> Quotas]
  /\ transfer = [t \in Transfers |-> None]
  /\ used = [u \in Users |-> [size |-> 0, ul |-> 0, dl |-> 0]]
  /\ adding = {} /\ removing = {} /\ entries = {}
  /\ current = [t \in Transfers |-> 0]
  /\ check = Idle

TransferStep(t) ==
  \/ \E type \in Types[t[1]] : Open(t, type)
  \/ Move(t) \/ Aborted(t) \/ Close(t) \/ RemoveTransfer(t)
  \/ CheckerAdd(t) \/ CheckerRemove(t)

CheckStep ==
  \/ CheckBegins
  \/ \E p \in check.updates : UpdateTransferCurrentSizes(p)
  \/ Aggregate \/ GetOverquotaTransfers \/ FetchFails \/ SignalTransferClose

Next ==
  \/ \E t \in Transfers : TransferStep(t)
  \/ CheckStep

Spec == Init /\ [][Next]_vars

(* The goroutines of the transfers and of the check run; the check is      *)
(* periodic, and a provider that is asked again and again answers.         *)
Fairness ==
  /\ \A t \in Transfers : WF_vars(CheckerAdd(t))
  /\ WF_vars(TwoConnections /\ CheckBegins) /\ WF_vars(Aggregate) /\ WF_vars(SignalTransferClose)
  /\ WF_vars(\E p \in check.updates : UpdateTransferCurrentSizes(p))
  /\ SF_vars(GetOverquotaTransfers)

FairSpec == Spec /\ Fairness

-----------------------------------------------------------------------------
(* Properties                                                              *)

BaseTransfer ==
  [st : {"none", "open", "charged", "over"}, type : {"none", "upload", "download"},
   moved : Nat, size : Nat, MaxWriteSize : Int, ul : Int, dl : Int, total : Int,
   ErrTransfer : {"none", "quota"}, AbortTransfer : BOOLEAN]

Entry == [t : Transfers, size : Nat]
Check == [pc : {"idle", "sizes", "fetch", "signal"}, over : SUBSET Transfers,
          updates : SUBSET Entry, taken : SUBSET Entry, floor : {check.floor}]

TypeOK ==
  /\ quota \in [Users -> Quotas]
  /\ transfer \in [Transfers -> BaseTransfer]
  /\ used \in [Users -> [size : Nat, ul : Nat, dl : Nat]]
  /\ adding \subseteq Transfers /\ removing \subseteq Transfers
  /\ entries \subseteq Transfers /\ current \in [Transfers -> Nat]
  /\ check \in Check

(* A transfer with a size limit that is on its connection is known to the  *)
(* checker, or about to be: transfers of other connections with the same   *)
(* id come and go, and so does its own goroutine.                          *)
NoLostEntry ==
  \A t \in Transfers :
    (Listed(t) /\ Limited(transfer[t])) => t \in entries \cup adding

(* When the quotas are compared no byte that had moved when the check      *)
(* began, and counts against a transfer quota, is missing: a transfer that *)
(* ends meanwhile is in the copied entries, or has been charged before it  *)
(* left them.                                                              *)
NothingUncounted ==
  check.pc = "fetch" =>
    \A u \in Users : Used(u) + Size(TakenOf(u)) >= check.floor[u]

(* What a user's transfers have moved that are not charged yet.            *)
Load(u, type) ==
  Size(Moved({t \in Transfers : UserOf(t) = u /\ TypeOf(t) = type /\ IsOpen(t)}))

OverQuota(u) ==
  LET up == Load(u, "upload") down == Load(u, "download") IN
  \/ quota[u].QuotaSize > 0 /\ used[u].size + up > quota[u].QuotaSize
  \/ quota[u].total > 0 /\ Used(u) + up + down > quota[u].total
  \/ quota[u].ul > 0 /\ used[u].ul + up > quota[u].ul
  \/ quota[u].dl > 0 /\ used[u].dl + down > quota[u].dl

(* The check compares with bytes of a transfer that has ended: Close has   *)
(* charged or removed them, RemoveTransfer's goroutine is still to come,   *)
(* came after the copy, or came before the entry was added.                *)
EndedCounted(u) == \E p \in TakenOf(u) : p.size > 0 /\ ~IsOpen(p.t)

(* The check closes transfers of users whose charged bytes and running     *)
(* transfers are together over a quota, and nobody else's, except those of *)
(* a user with bytes it counts although their transfer has ended.          *)
SignalJustified ==
  [][\A t \in check'.over \ check.over :
       OverQuota(UserOf(t)) \/ EndedCounted(UserOf(t))]_vars

(* Two transfers of a user that go on, on connections of their own, and    *)
(* have moved more together than the user has left.                        *)
ExceedTogether(t1, t2) ==
  LET u == UserOf(t1)
      n == transfer[t1].moved + transfer[t2].moved
  IN /\ IsOpen(t1) /\ IsOpen(t2) /\ transfer[t1].moved > 0
     /\ \/ quota[u].total > 0 /\ Used(u) + n > quota[u].total
        \/ /\ TypeOf(t1) = "upload" /\ TypeOf(t2) = "upload"
           /\ quota[u].QuotaSize > 0 /\ used[u].size + n > quota[u].QuotaSize

(* One that goes on is told to stop, also when each is below its own limit,*)
(* whatever starts, ends, fails or moves next to it.                       *)
ExcessSignalled ==
  \A t1, t2 \in Transfers :
    (t1[1] # t2[1] /\ UserOf(t1) = UserOf(t2)) =>
      (ExceedTogether(t1, t2) ~>
         (transfer[t1].AbortTransfer \/ ~IsOpen(t1) \/ ~IsOpen(t2)))
=============================================================================

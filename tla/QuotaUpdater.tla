---------------------------- MODULE QuotaUpdater ----------------------------
(***************************************************************************)
(* Quota accounting in dataprovider: handlers change what a user or folder *)
(* uses and then report the difference; with DelayedQuotaUpdate the        *)
(* differences accumulate in memory and a background loop moves them to    *)
(* the provider (the database); quota scans and transfer-quota resets      *)
(* replace the stored value; users are deleted and created again; the      *)
(* process may crash.                                                      *)
(*                                                                         *)
(* An account is one quota counter: the disk quota of a user, the quota of *)
(* a virtual folder, or the transfer quota of a user.  Its files and sizes *)
(* are added up, stored and reset together and are one number here.        *)
(***************************************************************************)
EXTENDS Integers, FiniteSets

CONSTANTS
  Accounts,     \* quota counters
  Kind,         \* account -> "user", "folder" or "transfer"
  Owner,        \* account -> the user or folder it belongs to
  Workers,      \* protocol handlers that report differences
  Readers,      \* callers of GetUsedQuota
  Deltas,       \* differences a handler reports
  Delays,       \* TRUE: DelayedQuotaUpdate is not zero, FALSE: it is
  Scannable,    \* accounts on which scans or resets are run
  Deletable,    \* owners that may be deleted and created again
  MaxTransfers, \* bound: changes of usage in a behaviour
  MaxScans, MaxDeletes, MaxCrashes, \* bounds on these events
  None          \* no account

ASSUME QuotaAssumption ==
  /\ Kind \in [Accounts -> {"user", "folder", "transfer"}]
  /\ Deltas \subseteq Int \ {0}
  /\ Delays \subseteq BOOLEAN
  /\ Scannable \subseteq Accounts
  /\ None \notin Accounts
  /\ {MaxTransfers, MaxScans, MaxDeletes, MaxCrashes} \subseteq Nat

VARIABLES
  stored,     \* account -> value in the provider
  exists,     \* account -> its owner is in the provider
  pending,    \* account -> accumulated difference, 0 when it has no key
  usage,      \* account -> what is really used: the files on disk, the
              \* bytes transferred since the last reset
  owed,       \* worker -> the account and difference it has yet to report
  unreported, \* account -> sum of the differences owed
  phase,      \* loop: off, sleep, or the kind of accounts it is storing
  todo,       \* loop: accounts still to store in this phase
  cur, amt,   \* loop: account being stored and the difference it read
  applied,    \* loop: the provider has amt, pending has not dropped it yet
  scan,       \* account -> idle, read (usage known), cleared
  scanned,    \* account -> usage read by the scan
  deleting,   \* owners deleted from the provider, pending not reset yet
  read,       \* reader -> the account, the value read so far, whether it is
              \* the result, whether nothing happened meanwhile
  clean,      \* account -> nothing happened since that may make it inexact
  events      \* counters behind the bounds

storeVars  == <<phase, todo, cur, amt, applied>>
scanVars   == <<scan, scanned>>
workerVars == <<usage, owed, unreported>>
vars == <<stored, exists, pending, workerVars, storeVars, scanVars,
          deleting, read, clean, events>>

NothingOwed == [acc |-> None, delta |-> 0]
NothingOwedOn(a) == unreported[a] = 0 /\ \A w \in Workers : owed[w].acc # a
NoRead == [acc |-> None, val |-> 0, done |-> FALSE, calm |-> FALSE]
Disturbed == [r \in Readers |-> [read[r] EXCEPT !.calm = FALSE]]
Delayed == phase # "off" \* the loop runs, or ends at once (start)
Accs(o) == {a \in Accounts : Owner[a] = o}
Count(e, bound) == events[e] < bound /\ events' = [events EXCEPT ![e] = @ + 1]

Init ==
  /\ stored = [a \in Accounts |-> 0]
  /\ exists = [a \in Accounts |-> TRUE]
  /\ pending = [a \in Accounts |-> 0]
  /\ usage = [a \in Accounts |-> 0]
  /\ owed = [w \in Workers |-> NothingOwed]
  /\ unreported = [a \in Accounts |-> 0]
  /\ phase \in {IF d THEN "sleep" ELSE "off" : d \in Delays}
  /\ todo = {} /\ cur = None /\ amt = 0 /\ applied = FALSE
  /\ scan = [a \in Accounts |-> "idle"]
  /\ scanned = [a \in Accounts |-> 0]
  /\ deleting = {}
  /\ read = [r \in Readers |-> NoRead]
  /\ clean = [a \in Accounts |-> TRUE]
  /\ events = [transfers |-> 0, scans |-> 0, deletes |-> 0, crashes |-> 0]

-----------------------------------------------------------------------------
(* A handler writes or removes a file, or moves bytes ... *)
Transfer(w, a, d) ==
  /\ owed[w] = NothingOwed /\ exists[a]
  /\ Count("transfers", MaxTransfers)
  /\ usage' = [usage EXCEPT ![a] = @ + d]
  /\ owed' = [owed EXCEPT ![w] = [acc |-> a, delta |-> d]]
  /\ unreported' = [unreported EXCEPT ![a] = @ + d]
  /\ clean' = [clean EXCEPT ![a] = @ /\ scan[a] = "idle"]
  /\ read' = Disturbed
  /\ UNCHANGED <<stored, exists, pending, storeVars, scanVars, deleting>>

(* ... and reports the difference: UpdateUserQuota, UpdateVirtualFolderQuota *)
(* or UpdateUserTransferQuota with reset FALSE.                            *)
UpdateQuota(w) ==
  LET a == owed[w].acc
      d == owed[w].delta
  IN  /\ a # None
      /\ \/ /\ Delayed
            /\ pending' = [pending EXCEPT ![a] = @ + d]
            /\ clean' = [clean EXCEPT ![a] = @ /\ scan[a] = "idle"]
            /\ UNCHANGED stored
         \/ /\ ~Delayed /\ exists[a]
            /\ stored' = [stored EXCEPT ![a] = @ + d]
            /\ clean' = [clean EXCEPT ![a] = @ /\ scan[a] = "idle"]
            /\ UNCHANGED pending
         \/ /\ ~Delayed \* the provider fails, the caller ignores it
            /\ clean' = [clean EXCEPT ![a] = FALSE]
            /\ UNCHANGED <<stored, pending>>
      /\ owed' = [owed EXCEPT ![w] = NothingOwed]
      /\ unreported' = [unreported EXCEPT ![a] = @ - d]
      /\ UNCHANGED <<exists, usage, storeVars, scanVars, deleting, read, events>>

-----------------------------------------------------------------------------
(* The background loop: users, then folders, then transfer quotas, each    *)
(* over the accounts that have a pending difference when its turn comes.   *)
PendingOf(kind) == {a \in Accounts : Kind[a] = kind /\ pending[a] # 0}

(* Mutants: the loop ends after one round; folders are forgotten. *)
PhasesOnce == [sleep |-> "user", user |-> "folder",
               folder |-> "transfer", transfer |-> "ended"]
PhasesNoFolders == [sleep |-> "user", user |-> "transfer",
                    folder |-> "transfer", transfer |-> "sleep"]

Phases == [sleep |-> "user", user |-> "folder",
           folder |-> "transfer", transfer |-> "sleep"]

NextPhase ==
  /\ Delayed
  /\ todo = {} /\ cur = None
  /\ phase' = Phases[phase]
  /\ todo' = PendingOf(Phases[phase])
  /\ UNCHANGED <<stored, exists, pending, workerVars, cur, amt, applied,
                 scanVars, deleting, read, clean, events>>

(* The difference may have changed, or be gone, since the keys were listed. *)
ReadPending(a) ==
  /\ a \in todo /\ cur = None
  /\ todo' = todo \ {a}
  /\ IF pending[a] # 0 THEN cur' = a /\ amt' = pending[a]
                       ELSE UNCHANGED <<cur, amt>>
  /\ UNCHANGED <<stored, exists, pending, workerVars, phase, applied, scanVars,
                 deleting, read, clean, events>>

(* What the loop has stored but not dropped from pending yet. *)
StoredTwice(a) == IF applied /\ cur = a THEN amt ELSE 0

(* An SQL provider updates no row for an owner that is gone, and succeeds. *)
Store ==
  /\ cur # None /\ ~applied
  /\ stored' = IF exists[cur] THEN [stored EXCEPT ![cur] = @ + amt] ELSE stored
  /\ applied' = TRUE
  /\ clean' = [clean EXCEPT ![cur] = @ /\ scan[cur] # "cleared"]
  /\ read' = [r \in Readers |-> [read[r] EXCEPT !.calm = @ /\ read[r].acc # cur]]
  /\ UNCHANGED <<exists, pending, workerVars, phase, todo, cur, amt, scanVars,
                 deleting, events>>

(* The provider returns an error and stores nothing (a memory or bolt       *)
(* provider also for an owner that is gone): the difference stays.         *)
StoreFails ==
  /\ cur # None /\ ~applied
  /\ cur' = None /\ amt' = 0
  /\ UNCHANGED <<stored, exists, pending, workerVars, phase, todo, applied,
                 scanVars, deleting, read, clean, events>>

(* Mutants: the whole pending difference is dropped, or nothing of it. *)
DropPendingAll ==
  /\ applied
  /\ pending' = [pending EXCEPT ![cur] = 0]
  /\ cur' = None /\ amt' = 0 /\ applied' = FALSE
  /\ UNCHANGED <<stored, exists, workerVars, phase, todo, scanVars, deleting,
                 read, clean, events>>
KeepPending ==
  /\ applied
  /\ cur' = None /\ amt' = 0 /\ applied' = FALSE
  /\ UNCHANGED <<stored, exists, pending, workerVars, phase, todo, scanVars,
                 deleting, read, clean, events>>

DropPending ==
  /\ applied
  /\ pending' = [pending EXCEPT ![cur] = @ - amt]
  /\ cur' = None /\ amt' = 0 /\ applied' = FALSE
  /\ UNCHANGED <<stored, exists, workerVars, phase, todo, scanVars, deleting,
                 read, clean, events>>

-----------------------------------------------------------------------------
(* A quota scan (one at a time for an account) reads the usage; a reset of *)
(* the transfer quota starts a new period with nothing used.  Then the     *)
(* pending difference is dropped, and then the provider gets the value.    *)
ScanRead(a) ==
  /\ scan[a] = "idle" /\ exists[a]
  /\ Count("scans", MaxScans)
  /\ usage' = IF Kind[a] = "transfer" THEN [usage EXCEPT ![a] = 0] ELSE usage
  /\ scanned' = [scanned EXCEPT ![a] = usage'[a]]
  /\ scan' = [scan EXCEPT ![a] = "read"]
  /\ clean' = [clean EXCEPT ![a] = NothingOwedOn(a)]
  /\ read' = Disturbed
  /\ UNCHANGED <<stored, exists, pending, owed, unreported, storeVars, deleting>>

ResetPending(a) ==
  /\ scan[a] = "read"
  /\ pending' = [pending EXCEPT ![a] = 0]
  /\ scan' = [scan EXCEPT ![a] = "cleared"]
  /\ clean' = [clean EXCEPT ![a] = @ /\ ~(applied /\ cur = a)]
  /\ UNCHANGED <<stored, exists, workerVars, storeVars, scanned, deleting,
                 read, events>>

ScanStore(a) ==
  /\ scan[a] = "cleared"
  /\ \/ exists[a] /\ stored' = [stored EXCEPT ![a] = scanned[a]] /\ UNCHANGED clean
     \/ UNCHANGED stored /\ clean' = [clean EXCEPT ![a] = FALSE]
  /\ scan' = [scan EXCEPT ![a] = "idle"]
  /\ read' = Disturbed
  /\ UNCHANGED <<exists, pending, workerVars, storeVars, scanned, deleting, events>>

-----------------------------------------------------------------------------
(* DeleteUser, DeleteFolder: the provider first, then the pending disk     *)
(* quota.  The pending transfer quota is not reset.                        *)
Delete(o) ==
  /\ \A a \in Accs(o) : exists[a]
  /\ Count("deletes", MaxDeletes)
  /\ exists' = [a \in Accounts |-> exists[a] /\ Owner[a] # o]
  /\ deleting' = deleting \cup {o}
  /\ UNCHANGED <<stored, pending, workerVars, storeVars, scanVars, read, clean>>

DeleteResetsPending(o) ==
  /\ o \in deleting
  /\ pending' = [a \in Accounts |->
       IF Owner[a] = o /\ Kind[a] # "transfer" THEN 0 ELSE pending[a]]
  /\ deleting' = deleting \ {o}
  /\ clean' = [a \in Accounts |-> clean[a] /\ pending'[a] = pending[a]]
  /\ UNCHANGED <<stored, exists, workerVars, storeVars, scanVars, read, events>>

(* Mutant: a user created again takes over the old counters. *)
CreateKeepsQuota(o) ==
  /\ \A a \in Accs(o) : ~exists[a]
  /\ exists' = [a \in Accounts |-> exists[a] \/ Owner[a] = o]
  /\ usage' = [a \in Accounts |-> IF Owner[a] = o THEN 0 ELSE usage[a]]
  /\ clean' = [a \in Accounts |->
       IF Owner[a] = o
       THEN scan[a] = "idle" /\ NothingOwedOn(a) /\ pending[a] = StoredTwice(a)
       ELSE clean[a]]
  /\ read' = Disturbed
  /\ UNCHANGED <<stored, pending, owed, unreported, storeVars, scanVars,
                 deleting, events>>

(* AddUser, AddFolder: the counters of the new owner start at zero.        *)
Create(o) ==
  /\ \A a \in Accs(o) : ~exists[a]
  /\ exists' = [a \in Accounts |-> exists[a] \/ Owner[a] = o]
  /\ stored' = [a \in Accounts |-> IF Owner[a] = o THEN 0 ELSE stored[a]]
  /\ usage' = [a \in Accounts |-> IF Owner[a] = o THEN 0 ELSE usage[a]]
  /\ clean' = [a \in Accounts |->
       IF Owner[a] = o
       THEN scan[a] = "idle" /\ NothingOwedOn(a) /\ pending[a] = StoredTwice(a)
       ELSE clean[a]]
  /\ read' = Disturbed
  /\ UNCHANGED <<pending, owed, unreported, storeVars, scanVars, deleting, events>>

-----------------------------------------------------------------------------
(* GetUsedQuota, GetUsedVirtualFolderQuota: the provider, then the pending *)
(* difference.                                                             *)
ReadStored(r, a) ==
  /\ exists[a]
  /\ read[r] = NoRead
  /\ read' = [read EXCEPT ![r] = [acc |-> a, val |-> stored[a], done |-> FALSE,
       calm |-> ~(applied /\ cur = a) /\ \A w \in Workers : owed[w] = NothingOwed]]
  /\ UNCHANGED <<stored, exists, pending, workerVars, storeVars, scanVars,
                 deleting, clean, events>>

(* Mutant: the pending difference is forgotten. *)
ReadStoredOnly(r) ==
  /\ read[r].acc # None /\ ~read[r].done
  /\ read' = [read EXCEPT ![r].done = TRUE]
  /\ UNCHANGED <<stored, exists, pending, workerVars, storeVars, scanVars,
                 deleting, clean, events>>

ReadDelayed(r) ==
  /\ read[r].acc # None /\ ~read[r].done
  /\ read' = [read EXCEPT ![r].val = @ + pending[read[r].acc], ![r].done = TRUE]
  /\ UNCHANGED <<stored, exists, pending, workerVars, storeVars, scanVars,
                 deleting, clean, events>>

(* The caller uses the result and forgets it. *)
ReadUsed(r) ==
  /\ read[r].done
  /\ read' = [read EXCEPT ![r] = NoRead]
  /\ UNCHANGED <<stored, exists, pending, workerVars, storeVars, scanVars,
                 deleting, clean, events>>

-----------------------------------------------------------------------------
(* The process stops and starts again: what is in memory is gone. *)
Crash ==
  /\ Count("crashes", MaxCrashes)
  /\ clean' = [a \in Accounts |->
       /\ clean[a] /\ pending[a] = StoredTwice(a) /\ unreported[a] = 0
       /\ scan[a] = "idle"]
  /\ pending' = [a \in Accounts |-> 0]
  /\ owed' = [w \in Workers |-> NothingOwed]
  /\ unreported' = [a \in Accounts |-> 0]
  /\ phase' = (IF Delayed THEN "sleep" ELSE "off")
  /\ todo' = {} /\ cur' = None /\ amt' = 0 /\ applied' = FALSE
  /\ scan' = [a \in Accounts |-> "idle"]
  /\ deleting' = {}
  /\ read' = [r \in Readers |-> NoRead]
  /\ UNCHANGED <<stored, exists, usage, scanned>>

Next ==
  \/ \E w \in Workers, a \in Accounts, d \in Deltas : Transfer(w, a, d)
  \/ \E w \in Workers : UpdateQuota(w)
  \/ NextPhase
  \/ \E a \in Accounts : ReadPending(a)
  \/ Store
  \/ StoreFails
  \/ DropPending
  \/ \E a \in Scannable : ScanRead(a) \/ ResetPending(a) \/ ScanStore(a)
  \/ \E o \in Deletable : Delete(o) \/ DeleteResetsPending(o) \/ Create(o)
  \/ \E r \in Readers : (\E a \in Accounts : ReadStored(r, a)) \/ ReadDelayed(r) \/ ReadUsed(r)
  \/ Crash

Spec == Init /\ [][Next]_vars

(* The loop runs for ever, handlers report what they owe, and a provider   *)
(* that is asked again and again does not fail for ever.                   *)
Fairness ==
  /\ \A w \in Workers : WF_vars(UpdateQuota(w))
  /\ WF_vars(NextPhase) /\ WF_vars(DropPending) /\ SF_vars(Store)
  /\ \A a \in Accounts : SF_vars(ReadPending(a))
  /\ WF_vars(StoreFails)

FairSpec == Spec /\ Fairness

-----------------------------------------------------------------------------
TypeOK ==
  /\ stored \in [Accounts -> Int] /\ pending \in [Accounts -> Int]
  /\ usage \in [Accounts -> Int] /\ unreported \in [Accounts -> Int]
  /\ exists \in [Accounts -> BOOLEAN] /\ clean \in [Accounts -> BOOLEAN]
  /\ owed \in [Workers -> [acc : Accounts \cup {None}, delta : Int]]
  /\ phase \in DOMAIN Phases \cup {"off"} /\ todo \subseteq Accounts
  /\ cur \in Accounts \cup {None} /\ amt \in Int /\ applied \in BOOLEAN
  /\ scan \in [Accounts -> {"idle", "read", "cleared"}]
  /\ scanned \in [Accounts -> Int]
  /\ events \in [{"transfers", "scans", "deletes", "crashes"} -> Nat]

(* What the accounting knows of an account: the provider's value and the   *)
(* pending difference, without counting twice what the loop is moving.     *)
Known(a) == stored[a] + pending[a] - StoredTwice(a)

(* Whatever the loop, failing stores, reports, scans, deletions and crashes*)
(* do, an account is exact: what is known and what is still to be reported *)
(* is what is used.  Except one that lost something in a crash, that was   *)
(* changed during a scan, that the loop was storing when a scan reset it   *)
(* (ResetPending, Store), or that was deleted with differences pending and *)
(* created before they were gone (Create, DeleteResetsPending).            *)
UsageExact ==
  \A a \in Accounts :
    (exists[a] /\ clean[a] /\ scan[a] = "idle") =>
      Known(a) + unreported[a] = usage[a]

(* A crash loses reports; it never charges an account for something it     *)
(* does not use (checked where handlers only add, and nothing is reset).   *)
NeverOvercharged ==
  \A a \in Accounts : exists[a] => Known(a) + unreported[a] <= usage[a]

(* A pending difference is stored: the provider catches up, for every kind *)
(* of account, also when it fails now and then.                            *)
EventuallyStored == \A a \in Accounts : []<>(pending[a] = 0)

(* A user created anew, for whom nothing was transferred yet, has used     *)
(* nothing.  It does not hold with delayed updates, and no run checks it:  *)
(* "Uploaded size, as bytes, since the last reset".                        *)
FreshUserUnused ==
  \A a \in Accounts :
    ( /\ exists[a] /\ Owner[a] \notin deleting
      /\ usage[a] = 0 /\ NothingOwedOn(a) /\ scan[a] = "idle" ) => Known(a) = 0

(* "GetUsedQuota returns the used quota": a caller gets what is used, while*)
(* nothing is transferred, reported or reset, and the loop does not move   *)
(* a difference of the account between the two values it reads.            *)
ReadExact ==
  \A r \in Readers :
    LET a == read[r].acc
    IN  (read[r].done /\ read[r].calm) =>
          ((exists[a] /\ clean[a] /\ scan[a] = "idle") => read[r].val = usage[a])
=============================================================================

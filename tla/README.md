# SFTPxy in TLA+

TLA+ models of the concurrent core of SFTPxy (a file transfer server for SFTP, SCP, FTP,
WebDAV and HTTP, written in Go), the TLC configurations that check them on small
instances, and TLAPS proofs of the properties that matter most, for every value of the
constants. Paths below are relative to the root of the repository; `common/x.go` and the
like are short for `src/internal/common/x.go`.

`PROJECT.json` is the index: which definition stands for which lines of the source
("map"), the runs, the mutated definition that breaks each property ("mutants"), the
disagreements found ("findings"), the hazards of the code with the properties that watch
them, and the theorems.

To check: `tlc -config MCUploads.cfg MCUploads` (module and configuration of a run are in
`PROJECT.json`), `tlapm Connections_proofs.tla`.

## 1. The system

SFTPxy is one process with many goroutines. Servers (`sftpd`, `ftpd`, `webdavd`, `httpd`)
accept clients and run a goroutine for each session, channel or request. All of them share
the state of two packages: `common` (who is connected, what is transferred, who is banned,
limits and rates, quota scans, events) and `dataprovider` (users, folders, quotas, sessions
in a database or in memory, and caches in front of it). Several instances may share one
database ("shared mode").

| Component | State | Operations | Hard part | What makes it correct |
|---|---|---|---|---|
| Connection registry (`common.ActiveConnections`) | slice of connections, map id -> position, sessions per user; slice and map of SSH connections | Add, Swap, Remove, Close, AddSSHConnection, RemoveSSHConnection, checkIdles | limits checked at login, enforced at registration; swap-with-last removal; activity times that change while the idle check reads them, disconnections after the lock is gone | map, slice and counters agree; limits hold; who is served is registered, under the right user; what was active all the time is not idle; who is closed goes |
| Quota accounting (`quotaUpdater`, `provider_quota_ops.go`) | pending differences per user, folder and transfer quota; stored values | Update*Quota, the storing loop, scans and resets, GetUsedQuota, DeleteUser | read, store and subtract are three critical sections; failing provider; crash | stored + pending = used; nothing stays pending; nothing is charged twice |
| Client admission (`clientsMap`, IsNewConnectionAllowed) | total and counts per source | AddClientConnection, RemoveClientConnection, the comparisons | check and count without a common lock; total and map changed apart | counts are exact; limits hold under every race |
| Transfer admission, graceful shutdown (IsNewTransferAllowed, AddTransfer, RemoveTransfer, WaitForTransfers) | counts in all, per user, per address, list per connection; running hooks | the same | four counts changed one after the other; shutdown polls while transfers move | counts agree; nothing that ran is cut by a graceful exit; the shutdown ends |
| Uploads (`BaseTransfer`, upload handlers) | open file, offsets, limits, error, bytes received; the user's files and quota | opening (checks, rename, create), WriteAt, Truncate, TransferError, Close, hook, quota update | several partial failures between opening and accounting; other clients change the same files | what is charged is what is there; no partial files in atomic mode; limits hold |
| Transfers checker (`transfersCheckerMem`, `transfersCheckerDB`, checkTransfers) | running transfers with their sizes | AddTransfer, RemoveTransfer, UpdateTransferCurrentSizes, GetOverquotaTransfers | additions and removals in goroutines of their own; signals to other goroutines | transfers over quota are closed, and nobody else's |
| Downloads and transfer quota (`BaseTransfer`, `webDavFile.Seek`) | allowed bytes per direction, bytes moved | CheckRead, CheckWrite, updateTransferQuotaOnSeek | the counters are reset by a seek | every byte is charged once |
| Defender (`memoryDefender`, `dbDefender`) | hosts with scored events, banned hosts | IsBanned, AddEvent, DeleteHost, cleanup | read lock given up for a write lock; eviction | who is unbanned stays so; a ban never gets shorter |
| Rate limiter (`rateLimiter`, `sourceBuckets`) | a token bucket per source | Wait, reserve, addAndReserve, cleanup | a source added twice; eviction | at most burst + rate x time events |
| Scans and checks (`ActiveScans`, `ActiveRetentionChecks`) | running scans | Add*, Remove* | released on every way out | one per user or folder |
| Caches (`usersCache`, `credentialsCache`) | WebDAV users, password hashes | add, swap, remove, check | an old copy put back after an update | what is cached is not older than the last update |
| Event rules (`eventRulesContainer`), scheduled rules (`eventCronJob`) | loaded rules, cron entries; in a shared database a row of the tasks table for each scheduled rule | loadRules, addUpdateRule, handleFsEvent, Run | each node starts the rule by its own clock; nodes crash, rules go and come back | one execution of a scheduled rule at a time, one per occurrence, and no task stays locked |
| IP lists, shares, sessions, nodes | rows of the provider | list lookups, share tokens, OAuth/OIDC states | expiry, use counts | used at most as often as allowed |
| SFTP storage backend (`vfs/sftpfs.go`) | a cache of connections to other servers, the sessions of each, their clients | Get, OpenConnection, getClient, RemoveSession, Wait, Cleanup | shared by sessions; clients end, hang and are dialed again under goroutines that wait for the old ones | a connection in use is kept; no SSH connection is left behind; what is idle or dead is closed |
| Provider backends (memory, bolt, SQL) | users, admins, groups, folders, roles, actions, rules, API keys, shares, and the relations between them | add, update, delete of each, clear | the embedded ones write a relation into two records, by hand | both records agree; no name of a missing object; all backends do the same |
| VFS backends, KMS, plugins, web UI, authentication, CLI, configuration | external services, pages | I/O | not modelled, see section 9 | |

How they interact: a server asks the admission, then (per session) the registry; a request
that transfers asks the transfer admission, opens a `BaseTransfer`, which adds itself to the
connection and to the transfers checker; when it ends it settles its file, runs its hook and
reports a difference to the quota accounting, which stores it in the provider at once or
later. The idle check, the transfers check and the shutdown look at all of them from
goroutines of their own. A file system of a session may itself be an SFTP client of another
server, through the pool. Everything is stored by one provider backend, which nodes may
share; the tasks table is where they agree on scheduled rules.

## 2. Modules

| Module | Models |
|---|---|
| `SessionRegistry` | abstract: what the connection registry promises, a table handler -> user with a limit of sessions per user |
| `Connections` | `common.ActiveConnections` with the FTP, SSH and web handlers that use it; implements `SessionRegistry` |
| `QuotaUpdater` | quota accounting |
| `ClientLimits` | client admission |
| `TransferLimits` | transfer admission and graceful shutdown |
| `Uploads` | the life of an upload and the quota of its user |
| `TransfersChecker` | transfers of users with quotas, and the periodic check of what they have moved together |
| `ProviderRelations` | abstract: the SQL provider, transactions over tables with foreign keys |
| `ProviderStore` | the records of the embedded providers, both sides of every relation |
| `MemoryProvider`, `BoltProvider` | every operation of either that changes objects or relations |
| `EmbeddedProviders` | composes the two: a program runs with one of them; implements `ProviderRelations` |
| `ScheduledTasks` | a scheduled rule of nodes that share a database |
| `SFTPConnections` | the connection pool of the SFTP storage backend |
| `MC*` | instances of these for TLC |
| `*_proofs` | theorems, see section 6 |

`Connections` composes the registry with its users. `Uploads` charges the quota in one step
where the code calls UpdateUserQuota or UpdateVirtualFolderQuota; how that call reaches the
provider is `QuotaUpdater`. `TransferLimits` takes over where a transfer is added to its
connection and has no files; `Uploads` has the files and no counts. `TransfersChecker` has several transfers
with their limits and charges, where `Uploads` has the steps of one.

### Connections

`connections`, `mapping` and `perUserConns` are the fields of `ActiveConnections`, and
`sshConnections`, `sshMapping` those of the SSH connections. `pc` is where a handler
goroutine is: it has authenticated ("checked"), serves ("open"), is on its way out
("ending"). `closing` holds the handlers that were told to disconnect. Add, Swap and Remove
are operators over the locked state; the actions are the handlers: FTPClientConnected,
FTPValidateUser and FTPSwap (an FTP client registers before it has a user and is swapped in
when it authenticates, again and again if it wants), WebRequest, SSHLogin,
SSHHandshakeDone, ChannelRequest, AddSession, EndSession, SSHEnd, Close and the steps of
checkIdles.

The idle check takes the registry's read lock (CheckBegins), reads the activity time of each
SSH connection in turn and of its sessions one by one (ReadSSH, ReadSession), gives up the
lock (CheckUnlocks) and then closes what it found idle (CloseIdleSSH), each in a step of its
own; nothing that writes the registry runs in between while it is locked, everything else
does. Activity times are not kept: UpdateLastActivity (`common/connection.go:135`) takes no
lock, so each read finds a session idle or active, whatever the read before found. What a
property can ask for is that a session is spared that is active at every read: `steady` are
such sessions, any set of them, and it is not in the code. What the check's second loop
(`common/common.go:1153`) disconnects, single sessions, is Close: the model lets any session
be closed at any time.

### QuotaUpdater

An account is one counter: the disk quota of a user, the quota of a folder or the transfer
quota of a user; files and bytes are one number, since the code adds, stores and resets them
together. `pending` and `stored` are the map of `quotaUpdater` and the provider's value;
`phase`, `todo`, `cur`, `amt`, `applied` are the local state of the storing loop (the
accounts of the phase, the account and difference it read, whether the provider has it).
`usage` is the truth: what handlers have done to files. Transfer changes it, UpdateQuota
reports it. ReadPending, Store or StoreFails, and DropPending are the loop's three critical
sections; ScanRead, ResetPending, ScanStore those of a scan or reset; Delete,
DeleteResetsPending, Create; ReadStored, ReadDelayed for GetUsedQuota; Crash empties what is
in memory. `phase` is "off" where DelayedQuotaUpdate is zero: the loop ends at once, and
handlers change the provider's value themselves (`Delayed`; `Delays` are the configurations
of a run). `clean` says that nothing has happened to an account since it was last exact for
which the code promises nothing: a crash that lost something, a change while a scan was
running, and four races with the storing loop or a deletion, each a conjunct of the action it
happens in (Store, ResetPending, DeleteResetsPending, Create; see section 4). `calm` says the
same of a reader. The properties are about clean accounts and calm readers.

### ClientLimits

`totalConnections` and `clients` are the fields of `clientsMap`; `pc` follows a client
through AddClientConnection (two steps: AddTotal, AddSource), the comparisons of
IsNewConnectionAllowed in their order (CheckClosing, CheckHost, CheckTotal, CheckTransfers,
CheckSessions, each reading one value), Refuse and ClientDisconnected. Sessions and transfers of accepted
clients are there because two of the comparisons read them.

### TransferLimits

A request passes BeginTransfer and CompareUser, CompareIP, CompareTotal
(IsNewTransferAllowed), opens its file or fails (OpenFails), is counted by CountTotal,
CountUser, CountIP and List (AddTransfer), ends with Close, which may start a hook, and
UncountUser, UncountIP, Unlist (RemoveTransfer). A hook is "spawned" until its goroutine
runs and counts it. Interrupt, ReadHooks, ScanConnection, Scanned, Tick and GraceExpires are
WaitForTransfers. `existing` and `existingHooks` record what ran when the shutdown began;
the code does not read them.

### Uploads

`file` is what is at each path (its size, and whether it is whole, that is: not the partial
file of an upload that failed or is under way), `temp` the temporary file, or the unfinished
cloud object, of each upload, `usedFiles` and `usedSize` the user's quota, and `up` the
goroutine with its `BaseTransfer` (field names of the code). What is stored is added up by
counting bytes (`Bytes`), a set, so that proofs can split a sum at the file that changes.
The specification is `UploadsSpec`, since one proof module extends it next to another. An
upload is Lstat, Deny or Admit (the quota and limit checks, which
read the quota in a step of their own), Create or CreateFails, WriteAt, WriteFails and
TruncateHandle while it is open, Close or Abort (settling the temporary file), StatUpload,
HookEnds or HookFails, UpdateQuota. In Settle, StatUpload and HookFails the renames and
removals may fail, each by itself (`Outcomes`): a temporary file that cannot be renamed is
removed when it is in `TempPath`, outside the home directory (checkUploadOutsideHomeDir), and
stays otherwise. `failed` (which of the calls failed, by the upload that left a temporary file)
and `uncharged` (how many of them Close left, and their bytes) are not in the code. `Kept` says whether Close leaves what was written at the
path, drops it, or (a direct upload beyond its limit) removes it. RemoveFile, Rename, Truncate and RemoveLeftover are what
other clients of the user do; each of them changes the file and the quota in one action,
since the differences commute and nothing reads the quota in between for a property to see.

The protocols differ where their code does: HTTP and SCP move an existing file away before
they check anything; SFTP, FTP and HTTP differ in flags, in when they truncate, and in which
sizes they hand to the transfer.

### TransfersChecker

`transfer` is the `BaseTransfer` of each id of each connection (open, charged, over),
`used` what the provider has, `entries` and `current` the checker's map and the sizes in
it. Open is the admission (HasSpace) with NewBaseTransfer and AddTransfer; its goroutine,
and that of RemoveTransfer, are CheckerAdd and CheckerRemove, in any order. Move is a read
or a write with its own comparison, Aborted what HTTP does after the signal, Close charges
and RemoveTransfer is the deferred call. The check is CheckBegins (the sizes of the
connections' transfers), UpdateTransferCurrentSizes (a goroutine each), Aggregate,
GetOverquotaTransfers or FetchFails, SignalTransferClose. `check.floor`, what had moved when
the check began, is not in the code; it counts the transfers that Close will charge
(`Chargeable`: those of users with a transfer quota, HasSizeLimits), since a transfer under a
disk quota alone is not charged to any counter that the check compares with it. `OverQuota`
is what a user is over: what is charged and what open transfers have moved, each byte once. The
check adds up something else, namely its entries, some of transfers that are charged already
(`EndedCounted`).

### The providers

An object is a name with a kind. `rows` are the records there are, `refs` what each names
(User.Groups, User.Role, VirtualFolders, ...), `back` the lists in the named records
(Group.Users, Role.Users, ...). An operation of `MemoryProvider` runs under one lock and is
one action with a disjunct for each way out: where it meets a missing object after it wrote a
part, `done` is that part, and what the code takes back by hand is taken back. In
`BoltProvider` a transaction rolls all of that back. In `ProviderRelations` the same
operations are single steps over `rows` and links; those the foreign keys refuse do not
exist. `NamesMissing` says whether requests may name objects that do not exist: the REST
API does not check names before it calls the provider.

### ScheduledTasks

`rule` and `task` are rows; the age of the task's update is counted from the slowest clock,
and a node writes its own time (Stored). A job is one Run: Fire, EventRuleExists,
GetTaskByName, AddTask, UpdateTask or UpdateRefused, then it executes, with
UpdateTaskTimestamp every `updateInterval`, until Finish. An update may be stored without
its answer arriving (`answered`). DeleteEventRule is the soft deletion of shared databases, loadRules and
RemoveEventRule what a node does 30 minutes later, by name. `stale` and `runs` are not in
the code.

### SFTPConnections

`fs` are the file systems (`SFTPFs`), each opened once; `conn` the `sftpConnection`s, named
after the file system they are made for, with their sessions; `items` the cache, `closing`
what Cleanup has taken out and not closed, `client` every client dialed with its link and
its goroutine. Get, OpenConnection, OpenConnectionFails and CloseFailed are NewSFTPFs,
getClient is an operation that may dial again, CloseFs ends a user's connection and closes
every file system it knows, WaitBegins, Watchdog and WaitEnds are the goroutine of a client,
Cleanup and CloseConn the eviction. `UsedBy` says who shares a file system: the root of
an SSH connection is opened before its channels copy the user, so they share it. A cut TCP
connection and a closed channel are both "cut"; the two ticks of the watchdog are one step.

## 3. Runs that hold

| Run | Question | Bounds |
|---|---|---|
| `connections` | Do slices, maps and counters stay exact, and implement the session table, when clients of several protocols register, log in again as somebody else, are refused and leave? Does the idle check spare what was active, and does who is closed go? | an FTP client, a web request, two SSH connections, one with a channel, so that the check reads one with and one without sessions; 2 users with limits 1 and 2: limits that are reached by one protocol and by two together; the user with limit 1 is denied SSH, which keeps the instance small; removals of a first, middle and last connection |
| `quota_delayed` | Is anything lost or charged twice while the loop stores, fails and crashes? Is every difference stored in the end? | 2 handlers, 3 differences of 1 and 2, a user's, a folder's and a transfer quota, 2 crashes: two differences on one account around the store of the first |
| `quota_resets` | With and without delayed updates, next to the loop, a scan or reset, a deletion, a creation and a crash: is every account exact but for the named races, and does GetUsedQuota return what is used? | the disk and the transfer quota of one user, 1 handler, 1 reader, 2 differences of 2 and -1, 1 scan, 1 deletion, 1 crash: each of them at every point of the loop's three steps |
| `client_limits` | Are counts exact and limits kept without a lock over both? | 4 clients, 2 per address, total limit 2, limit per address 1, one safe address |
| `transfer_limits` | Do the four counts agree, does a graceful exit cut nothing, does WaitForTransfers return? | 3 requests on 2 connections, 1 hook, limits of 2 |
| `uploads_local` | Is the quota exact, are atomic uploads whole, do temporary files go, is the size limit kept? | 2 uploads of one local path over SFTP, which has every flag and every offset, three upload modes, with and without a TempPath, failing renames and removals, 1 temporary file that nobody charges, sizes up to 3 units |
| `uploads_quota` | Is the quota exact on every storage, and does a successful upload stay in it, whatever was resumed, overwritten, truncated or renamed? | one upload at a time over SFTP, FTP, SCP and HTTP, 2 local paths, an encrypted and a cloud path, quota of 2 units and 2 files, denied and failing opens, failing renames and removals, 1 temporary file that nobody charges |
| `provider` | Do both records of every relation agree, are no missing objects named, and do both embedded providers behave as the SQL one? | 2 users and one object of every other kind: each kind that is named by others, next to one that keeps it |
| `transfers_checker` | Is no entry lost and no byte missing from the sums, are only users over quota, or with an ended transfer still counted, signalled, and is the excess of two transfers seen? | two transfers of a user on two connections with one id, both directions, a quota for the files alone, one for both directions, or one for each |
| `scheduled_tasks` | Is a scheduled rule executed once at a time and once per occurrence, and again after a crash? | 2 nodes with clocks one unit (100 s) apart, a job each, refreshes as late as the assumption allows, 2 failures of any kind, 3 versions; the rule deleted, created again and removed at any time |
| `sftp_connections` | Is a connection in use kept, is none left behind, is what is idle or dead closed? | 3 file systems, one shared by two channels, 2 sessions per connection (so that one connection is shared and a second one made), 2 clients (so that one is dialed while the goroutine of another is late) |

Bounds are small because the hazards are: every one of them needs two actors on one piece of
state, and at most a third that takes the last place of a limit. The counters of events in
`QuotaUpdater`, and the sizes and `MaxUncharged` in `Uploads`, only bound how often something
is repeated: a second temporary file that nobody charges is one more of the same.

Deadlock is checked except where the system may really stop: `transfer_limits` (the process
exits), `quota_resets` (without the loop nothing runs when the bounded events are used up),
`transfers_checker` and `sftp_connections` (each transfer and file system is opened once).

In the runs of `Uploads` that hold, `Overlap` is FALSE: while a path is uploaded to, and
until the upload's hook has ended, no other client uploads to, renames or removes it.
`TruncateSizes` are below the size limit in them. `uploads_quota` has no failing hooks and
no aborting clients, which section 4 is about. `QuotaKept` is about one upload at a
time: two uploads that are admitted side by side share the room that is left by design, and
it is the transfers checker that has to stop them.

Larger instances were checked once with the same result: `scheduled_tasks` with three jobs
(`RefreshWithin = 4`, 967191 states); `sftp_connections` with one session per connection and
4 clients (279477 states), and with two file systems of one user under one session id
(`FoldersUsedBy`, `FoldersSessionOf`; 197003 states).

## 4. What does not hold

`provider_missing` lets requests name objects that do not exist. The memory provider then
leaves a user that it refused to create on the lists of a role or a group
(`dataprovider/memory.go:366`), and refuses later to delete that group as "referenced".
`PROJECT.json` quotes the sentence it contradicts.

The models show more, each with a small change to a configuration or with a conjunct of a
definition taken out (only the named property is checked):

| Change | What TLC then finds |
|---|---|
| `MCConnections.cfg` with `SFTPHandlers = {c1, c2}`, `SSHConns = {s1}`, `SSHOf <- OneSSH`, `ConnID <- SameChannelID`, `Users = {u2}`, AllReleased | two subsystem requests on one SSH channel register under one id; one of the two sessions is never removed (`sftpd/server.go:671`) |
| `MCQuotaResets.cfg`, UsageExact, without the last conjunct of `clean'` in Store, or in ResetPending | a reset of an account between the loop's store and its subtraction, or between its reading and its store: the difference is added to, or subtracted from, the scanned total (`dataprovider/quotaupdater.go:213`) |
| the same without that of Create, or of DeleteResetsPending | a user is created again before the old one's pending differences are dropped: they are stored for the new one, or the new one's are dropped with them (`dataprovider/provider_user_ops.go:164`) |
| `MCQuotaResets.cfg`, FreshUserUnused | a deleted user's pending transfer quota is charged to a user created later with that name: DeleteUser resets the pending quota but not the pending transfer quota (`dataprovider/provider_user_ops.go:164`) |
| `MCQuotaResets.cfg`, ReadExact, without the first conjunct of `calm` in ReadStored, or without what Store does to `read` | GetUsedQuota while the loop is between its store and its subtraction, or gets there between the two reads, counts a difference twice (`dataprovider/provider_quota_ops.go:106`) |
| `MCConnections.cfg`, NoActiveSessionCut, without `h \in steady => ~idle` in ReadSession | a session that becomes active after its time was read is cut with its SSH connection: Close comes after the unlock and looks at no time any more (`common/common.go:1144`) |
| the same without `\cap Registered` in CheckUnlocks | so is a channel that registers between the unlock and the Close |
| `MCTransfersChecker.cfg`, SignalJustified, without `EndedCounted` | a user exactly at the quota is signalled, because a download that was charged and is still on its connection is counted twice (`common/transfer.go:379`) |
| `MCUploads.cfg`, TempDeleted without its second disjunct, or QuotaExact without `uncharged` | an atomic upload whose rename fails, with no TempPath: nobody removes the temporary file, and it is charged to nobody (`common/transfer.go:400`) |
| `MCSFTPConnections.cfg`, NoLeak, without `late` | a client that a channel dials after its session was dropped and its connection evicted: it stays open, and nobody will close it (`vfs/sftpfs.go:1206`) |
| `MCUploads.cfg` with `Protocols = {"http"}`, `Failures = {"abort"}`, AtomicComplete | a client that goes away in the middle of an HTTP upload in atomic mode: the partial file is moved to the requested path (`httpd/api_http_user.go:279`) |
| `MCUploads.cfg` with `KindOf <- AllCloud`, `Failures = {"abort", "hook"}`, QuotaExact | the synchronous hook of a cloud upload fails: the object is removed and stays charged (`common/transfer.go:489`) |
| `MCTransferLimits.cfg` with HostTransferLimit and `MaxPerHostConnections = 1` | transfers are counted when their file is open, long after the comparison, so requests that are checked together exceed the limit (`common/common.go:1283`; the comment at 941 says the count is "used to enforce MaxPerHostConnections") |
| `MCUploads.cfg` with `Protocols = {"http"}` and LimitKept only | an HTTP (or SCP) upload that overwrites may be larger than max_upload_file_size by the size of the old file (`httpd/handler.go:235`, `sftpd/scp.go:264`) |
| `MCUploads.cfg` with `TruncateSizes = {2}` and LimitKept only | truncating an open file up to the limit makes the allowed size 0, which means no limit (`common/transfer.go:270`) |
| `MCUploads.cfg` with `Overlap = TRUE`, without the standard mode, and QuotaExact only | two atomic uploads to one new path are both charged as new (`common/transfer.go:502`) |

A failed or denied overwrite may leave the existing file at its temporary path (HTTP and SCP
rename before they check; SFTP, FTP and WebDAV when Create fails after the rename). It stays
charged, so the quota is exact, and it goes only when the user removes it: RemoveLeftover.
This is in the runs that hold. A temporary file that Close could neither rename nor remove
stays, too, and is not charged; with it, the user's quota is too low by its size until the
file is removed, and then by the same amount for good. These are the exceptions of
TempDeleted and the term `uncharged` of QuotaExact.

Some behaviour is in a model and excepted by its properties, by name:

* `SFTPConnections`, Dropped: the channels of an SSH connection share its SFTP file systems
  (`sftpd/server.go:638`), and the first channel that ends removes their session
  (`common/common.go:1051`). 30 s later Cleanup may evict the connection the others use; what they dial
  afterwards nobody closes. Two folders of one user on one server share the session id in
  the same way, and when the second fails to open (`vfs/sftpfs.go:342`) the first one's
  session goes. InUseKept excepts exactly these file systems, and NoLeak the clients that
  were dialed by one of them when its connection was evicted and closed already (`late`); a
  client that was there when its connection was evicted has to be closed with it.
* `SFTPConnections`, WaitEnds: after an eviction and a new dial the goroutine of the old
  client closes the new one (`vfs/sftpfs.go:1081`); the next operation dials again.
* `ScheduledTasks`, stale: a rule removed for good while it is executed may be created again
  and executed next to its predecessor; and RemoveEventRule, which finds the rule by name,
  takes a rule that was created meanwhile (`common/eventmanager.go:222`).
* `ScheduledTasks`, TimingAssumption: NotConcurrent needs that refreshes are stored in time. A
  refresh that fails once and clocks that differ by more than what is left of the two
  intervals break it (`RefreshWithin = 6` without the assumption). OncePerOccurrence needs that a
  job that was started is executed or given up in less than the two intervals, too.
* `TransfersChecker`, EndedCounted: the check counts bytes of a transfer that has ended, because
  it has just been charged, or because a removal that overtook its addition (`common/connection.go:171`)
  left the entry for ever. For such a user SignalJustified says nothing.
* `TransfersChecker`: transfers of
  a single connection are not checked; SFTP, SCP and FTP transfers do not look at the signal.

## 5. Fairness

Safety needs none. `connections` assumes weak fairness of AddSession and FTPSwap (they
wait for nothing but the lock), strong fairness of EndSession of a handler that is closing or
on its way out (its read fails and the deferred Remove runs, at the latest when an FTP
client's commands that were already read, more logins, are used up): strong, because the
idle check takes the lock again and again. For the same reason the fairness of FTPSwap is
strong, and an idle check that holds the lock goes on (weak fairness): it waits for nothing.
A client that nobody disconnects may stay for ever.

`quota_delayed` assumes that the loop and the handlers go on (weak fairness of NextPhase,
DropPending, StoreFails, UpdateQuota), that the loop gets to each account that has a
difference, and that a provider asked again and again does not fail for ever (strong
fairness of ReadPending and Store: each is disabled in between by the other phases).

`transfer_limits` assumes weak fairness of WaitForTransfers' own steps and strong fairness of
GraceExpires: when the ticker and the timer are both ready Go's `select` picks one at random,
and the timer's channel stays ready. Nothing is assumed of clients and hooks.

`transfers_checker`: the goroutines of the checker's entries and of the check run (weak
fairness); a check begins when transfers are on two connections, because with one it does
nothing; a provider that is asked again and again answers (strong fairness of
GetOverquotaTransfers, since FetchFails ends a check). Nothing is assumed of clients.

`scheduled_tasks`: time passes, a job that is answered and the ticker of a running one go on
(weak fairness), and some node is up at some occurrence again and again (strong fairness of
Fire by any job, which crashes and the end of its minute disable). `MaxFailures` bounds
failures: a database that never answers executes nothing.

`sftp_connections`: NewSFTPFs goes on until it has opened or closed, goroutines of clients
and the watchdog run, time passes and CloseConn returns, the cleanup is periodic (all weak
fairness: nothing disables them for ever but themselves). Nothing is assumed of users,
servers and operations.

## 6. What is proved

All theorems are for every value of the constants that satisfies the module's named
assumption (finite sets of handlers, clients, requests; limits in Nat; the times of
`ScheduledTasks`).

* `Connections_proofs`: types; MappingExact and SSHMappingExact; UserCountExact; SessionLimit;
  NoGhostSessions; SessionUser; the action property NoActiveSessionCut; and
  `Spec => TableSpec`, the refinement of `SessionRegistry`. It assumes
  that ids are unique (`UniqueConnIDs`), the assumption that AllReleased (section 4)
  shows to fail for two requests on one channel. The inductive invariant adds to the mappings that a handler is
  registered exactly while it serves and that who serves has a user; for SSHMappingExact, that
  an SSH connection is in the slice exactly while it is open; for SessionUser, that who does not
  serve is logged in as nobody, so that nobody's session is taken over. For NoActiveSessionCut
  it follows the idle check (`ToCloseInv`): of a connection in `toClose`, every session that is
  steady and registered is still to be read while the lock is held, and there is none when it
  is gone.
  Lemmas about Add, Swap and Remove say what each does to the table, and every action of
  a handler is one of them or leaves the registry alone.
* `QuotaUpdater_proofs`: types, UsageExact and ReadExact, with immediate and with delayed
  updates, next to the loop, scans, resets, deletions, failing updates and crashes;
  NeverOvercharged where handlers only add and nothing is scanned or deleted, with any failures
  and crashes. The last two need what
  the handlers still owe: a sum over handlers, of which a list without repetition is a witness
  (`Listing`). The inductive invariant adds what the loop holds in its
  hands (`applied` implies an account), and that a scan of an account that stayed clean has read
  what is used and, once it has reset the pending difference, that none is on its way. For
  ReadExact it follows a reader: what it has read is the
  stored value as long as nothing disturbs it, and the loop is not between two steps of the
  account.
* `ClientsUploads_proofs`, first part: types, ClientsExact, TotalLimit and HostLimit, together
  LimitsKept, of `ClientLimits`. That the limits hold without a lock rests on the order in
  which a client is counted and compares: whoever got past a comparison was in the counter
  when the last of them compared. The invariant therefore bounds the clients past each
  comparison (`PastHost`, `PastTotal`), not only the accepted ones.
* `ClientsUploads_proofs`, second part: all that the runs check of `Uploads`, for any paths,
  uploads, sizes and limits. Each action has a lemma that says all it does; what it does to its
  own upload is enough, because the other uploads keep their records, their temporary files and
  what is at their paths (`Frame`, `OthersKept`). Every theorem names the cases it leaves out,
  which section 4 shows to fail:
  * UploadsTypeOK, where no two clients use a path at a time (`~Overlap`). That the number of
    files changes by one at most rests on what an upload finds: the invariant `UInv` says for
    every step of an upload what is at its path and at its temporary file.
  * AtomicComplete, overlapping uploads included, unless HTTP clients abort. The invariant adds
    only what the open upload writes to.
  * TempDeleted, for all values of the constants, overlapping uploads included. The invariant
    ties each temporary file of an upload that is over to the call that failed.
  * LimitKept where the limit counts what it should (`LimitsCounted`): not for the handlers that
    rename first, which add the size of the old file, and for truncations that do not lift the
    limit: to nothing, or, without a quota, to less than the limit. The invariant is that the
    bytes still allowed and the bytes at the start never exceed the limit together, and the file
    never exceeds the bytes received and the bytes at the start.
  * QuotaExact, unless the hook of a cloud upload fails (`HooksHold`). The invariant `Balanced`
    is an equation of sums: what is charged, what nobody charges and what open uploads will still
    add is what is stored and what they will still take off. A step changes one upload and one file, or two in a
    rename, and lemmas about sums (`SumChange`, `SumOfOnes`) reduce it to their own terms.
  * QuotaKept, for a single upload at a time and truncations to nothing (`OnlyOne`): with more
    uploads the room is shared, and a truncation to a larger size is not checked. The invariant
    follows the room from GetMaxWriteSize to the charge.
* `TransferLimits_proofs`: types, TransfersExact, GracefulExit. A transfer that ran when the
  shutdown began only moves towards its end, because BeginTransfer refuses; one that the scan has not
  seen is on a connection that is still to be looked at, or something was found. So an empty scan has
  seen them all ended.
* `EmbeddedProviders_proofs`: types, MappingsSymmetric, ForeignKeys, and the refinement of
  `ProviderRelations`, for any sets of objects. It assumes `Careful`: bolt, or requests that
  name existing objects; `provider_missing` shows why. The invariant adds which kinds name
  which (LinkKinds), so that the lists an operation clears are all there are. Every operation
  has one of two effects, a record written with its mappings or records erased with
  everything that names them, and two lemmas carry the invariant and the refinement over them.
* `TransfersChecker_proofs`: types, NoLostEntry, NothingUncounted and SignalJustified, for any
  users, quotas and transfers. The invariant adds that a removal under way is of a transfer that
  is over; ids are unique per connection only, and the proof uses that the checker compares
  both. For NothingUncounted it says where each byte of the floor is: among the sizes still to
  be stored, in the copied entries or charged. For SignalJustified: where no copied entry is of a
  transfer that has ended, the copied sizes are not above what open transfers have moved. Sums
  are numbers of bytes here, too.
* `ScheduledTasks_proofs`: types, NotConcurrent and OncePerOccurrence, for any nodes, clocks and
  schedules with `RefreshWithin + MaxSkew <= 2 * updateInterval` and, for the second,
  `MaxDelay + MaxSkew <= 2 * updateInterval`: a job that is later than that finds the row of a
  finished execution old enough to be taken again, and TLC then shows an occurrence executed
  twice (skew 2, delay 5, interval 3, three jobs). Whoever executes has a row not older than
  its own last refresh, so nobody finds it free; whoever found it free before has read an
  earlier version, so the update refuses it.
* `SFTPConnections_proofs`: types, InUseKept, NoLeak, for any file systems shared in any way.
  The invariant says that a connection is made once, that of its clients only the current one
  is open, that a file system that kept its session has its connection in the cache, and that an
  open client's connection is cached or about to be closed, or the client was dialed late.

Types of all these modules are proved; of the runs only `uploads_local` repeats them, because
the bound on the number of files is a property of the uploads.

## 7. What is only model-checked

Liveness: DisconnectEnds, EventuallyStored, ShutdownEnds, ExcessSignalled, ExecutedAgain,
Reclaimed, LossNoticed. Fairness and ENABLED are out of the prover's reach. Every other
property of a run that holds is proved, under the conditions section 6 names, and the
constants of every run satisfy them: the runs show that the theorems are about something, and
the theorems that the bounds of the runs do not matter.

## 8. What the models leave out

* `Connections`: which FTP and web connections are idle, or no longer allowed (they may be
  closed at any time), node lookups; the clock: idle is what a read finds.
* `QuotaUpdater`: the concrete provider; each call is one step that happens or fails.
* `TransfersChecker`: virtual folders' quotas, the truncated size of an overwritten file,
  WebDAV's seeks, throttling, the checker that keeps its entries in the database.
* The providers: fields that relate nothing, IP lists, sessions and tasks, soft deletion in
  the SQL provider's shared mode, the parsing of a dump.
* `ScheduledTasks`: the actions of a rule, CheckActionsConsistency (a rule that fails it is
  skipped), nodes that do not share a database (nothing guards them). That removal comes 30
  minutes after deletion is any later time.
* `SFTPConnections`: file operations; that a dial holds the connection's lock while Get
  holds the cache's, so that all of them wait up to 15 s; the file systems of a user's
  connection are closed in one step.
* `ClientLimits`: the defender and the rate limiters, which are asked on the way.
* `Uploads`: downloads, transfer quota, throttling; failing Stat calls (for a
  missing file they are modelled) and disabled quota tracking; upload modes 4, 8 and 16 (partial files of failed cloud
  uploads); virtual folders with a quota of their own; writes beyond the end of a file;
  what the WebDAV library does when its client goes away.

## 9. Not modelled

The modules cover the parts where goroutines, nodes or failures meet shared state. The larger
part of the repository's lines is not of that kind, and a model would only restate it: the
VFS backends and everything that talks to external services (KMS, plugins, SMTP, ACME,
webhooks, commands) is I/O; the web UI and the REST API are pages and CRUD around the
provider; the SQL statements and the validation of objects' fields are sequential;
authentication is a sequence of comparisons with cryptography; the command line,
configuration, service wrapper, logging and metrics have no shared state of interest.

Left for later, in this order, because their hazards are known (`PROJECT.json`) and small:
the defender (`common/defendermem.go:131`), the loading of event rules next to events
(`common/eventmanager.go:267`), the credential caches (`dataprovider/cacheduser.go:68`),
the rate limiter (`common/ratelimiter.go:142`), WebDAV's seek (`webdavd/file.go:329`), the
checker in the database.

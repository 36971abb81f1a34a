------------------------------- MODULE Uploads -------------------------------
(***************************************************************************)
(* The life of an upload (BaseTransfer): the checks and the opening of the *)
(* file in the handlers of the protocols, writes, truncation, the end with *)
(* or without an error in each of the upload modes, the hook and the quota *)
(* accounting, next to the other changes of the same user's files.         *)
(* Every change of the quota is a difference against a size that was read  *)
(* earlier, in another step.                                               *)
(***************************************************************************)
EXTENDS Integers, FiniteSets

CONSTANTS
  Paths,
  KindOf,        \* path -> its file system: "local", "crypt" or "cloud"
  Uploads,       \* goroutines that serve the uploads of one user
  Protocols,     \* those in use, among "sftp", "ftp", "scp" and "http"
  UploadModes,   \* Configuration.UploadMode: "standard", "atomic", "resume"
  TempPaths,     \* values of: Configuration.TempPath is set
  Failures,      \* what may fail: "deny", "create", "write", "abort", "hook",
                 \* "rename" and "remove"
  Overlap,       \* clients may use a path that is being uploaded
  QuotaSize, QuotaFiles, MaxUploadFileSize,    \* 0 for no limit
  TruncateSizes, \* sizes clients truncate to
  MaxSize,       \* bounds the size of a file
  MaxReceived,   \* bounds the bytes an upload receives
  MaxUncharged,  \* bounds the temporary files that nobody charges
  NoFile

Content(n, whole) == [size |-> n, whole |-> whole]

(* Overlapping uploads are only modelled where each of them writes to a    *)
(* temporary file of its own.                                              *)
ASSUME UploadsAssumption ==
  /\ IsFiniteSet(Paths) /\ IsFiniteSet(Uploads)
  /\ KindOf \in [Paths -> {"local", "crypt", "cloud"}]
  /\ Overlap \in BOOLEAN
  /\ Overlap => "standard" \notin UploadModes
  /\ QuotaSize \in Nat /\ QuotaFiles \in Nat /\ MaxUploadFileSize \in Nat
  /\ TempPaths \subseteq BOOLEAN
  /\ MaxSize \in Nat /\ MaxReceived \in Nat /\ TruncateSizes \subseteq 0 .. MaxSize
  /\ MaxUncharged \in Nat
  /\ \A n \in 0 .. MaxSize, whole \in BOOLEAN : Content(n, whole) # NoFile

VARIABLES
  uploadMode,
  tempPath,  \* Configuration.TempPath is set, to a place outside the homes
  file,      \* path -> what is there: its size and whether it is whole
  temp,      \* upload -> its temporary file, or its unfinished cloud object
  usedFiles, usedSize,   \* the user's quota
  up,        \* upload -> the goroutine and its BaseTransfer
  failed,    \* upload -> the calls that failed, when it left its temporary file
  uncharged  \* temporary files that Close left behind: nobody charges them

config == <<uploadMode, tempPath>>
history == <<failed, uncharged>>
uploadsVars == <<config, file, temp, usedFiles, usedSize, up, history>>

Idle == [pc |-> "idle", path |-> NoFile, protocol |-> "none", flag |-> "none",
         isNewFile |-> FALSE, fileSize |-> 0, MaxWriteSize |-> 0,
         MinWriteOffset |-> 0, InitialSize |-> 0, BytesReceived |-> 0,
         ErrTransfer |-> "none", numFiles |-> 0]

Kind(u)   == KindOf[up[u].path]
Current(u) == file[up[u].path]
UploadsTo(p) == {u \in Uploads : up[u].path = p}

(* The path has no upload, or none that other clients are kept away from.  *)
Free(p) ==
  Overlap \/ \A u \in UploadsTo(p) : up[u].pc \in {"idle", "ended"}

(* IsAtomicUploadEnabled and IsAtomicUploadSupported.                      *)
Atomic(p) == uploadMode # "standard" /\ KindOf[p] # "cloud"
Direct(p) == uploadMode = "standard" /\ KindOf[p] # "cloud"

(* The file the upload writes to. *)
Written(u) == IF Direct(up[u].path) THEN Current(u) ELSE temp[u]

Write(u, content) ==
  IF Direct(up[u].path)
  THEN file' = [file EXCEPT ![up[u].path] = content] /\ UNCHANGED temp
  ELSE temp' = [temp EXCEPT ![u] = content] /\ UNCHANGED file

ChangeQuota(files, size) ==
  usedFiles' = usedFiles + files /\ usedSize' = usedSize + size

Failed(err) == IF err = "none" THEN "other" ELSE err

(* Whether a call succeeds. *)
Outcomes(call) == IF call \in Failures THEN BOOLEAN ELSE {TRUE}

-----------------------------------------------------------------------------
(* The checks of the handlers                                              *)

(* HTTP and SCP move the existing file away before they check anything.    *)
RenamesFirst(protocol) == protocol \in {"http", "scp"}

(* SFTP clients open a file to overwrite, to append or to write anywhere;  *)
(* FTP to overwrite or to append.                                          *)
Flags(protocol) ==
  CASE protocol = "sftp" -> {"trunc", "append", "readwrite"}
    [] protocol = "ftp"  -> {"trunc", "append"}
    [] OTHER             -> {"trunc"}

Lstat(u, p, protocol, flag) ==
  LET exists == file[p] # NoFile
      away   == exists /\ Atomic(p) /\ RenamesFirst(protocol)
  IN /\ up[u] = Idle /\ temp[u] = NoFile
     /\ Free(p)
     /\ up' = [up EXCEPT ![u] =
          [Idle EXCEPT !.pc = "checking", !.path = p, !.protocol = protocol,
                       !.flag = flag, !.isNewFile = ~exists,
                       !.fileSize = IF exists THEN file[p].size ELSE 0]]
     /\ IF away
        THEN /\ temp' = [temp EXCEPT ![u] = file[p]]
             /\ file' = [file EXCEPT ![p] = NoFile]
        ELSE UNCHANGED <<temp, file>>
     /\ UNCHANGED <<config, usedFiles, usedSize, history>>

HasSpace(checkFiles) ==
  /\ QuotaSize > 0 => usedSize < QuotaSize
  /\ (checkFiles /\ QuotaFiles > 0) => usedFiles < QuotaFiles

IsResume(u) == ~up[u].isNewFile /\ up[u].flag # "trunc"

(* A resume needs a file system that supports it and some size left.       *)
ResumeAllowed(u) ==
  IsResume(u) =>
    /\ Kind(u) = "local"
    /\ MaxUploadFileSize > 0 => up[u].fileSize < MaxUploadFileSize

AtMost(limit, size) == IF limit > 0 /\ (limit < size \/ size = 0) THEN limit ELSE size

(* Mutant: what is overwritten is not subtracted when the upload resumes.  *)
GetMaxWriteSizeResume(u) ==
  LET remaining == IF QuotaSize > 0 THEN QuotaSize - usedSize ELSE 0
  IN AtMost(MaxUploadFileSize,
            IF remaining > 0 THEN remaining + up[u].fileSize ELSE 0)

(* 0 is no limit. *)
GetMaxWriteSize(u) ==
  LET remaining == IF QuotaSize > 0 THEN QuotaSize - usedSize ELSE 0
      fileSize  == up[u].fileSize
  IN IF IsResume(u)
     THEN IF MaxUploadFileSize > 0
          THEN AtMost(MaxUploadFileSize - fileSize, remaining)
          ELSE remaining
     ELSE AtMost(MaxUploadFileSize,
                 IF remaining > 0 THEN remaining + fileSize ELSE 0)

(* The existing file may be under the temporary name by then, and stays.   *)
Refused(u) ==
  failed' = IF temp'[u] = NoFile THEN failed ELSE [failed EXCEPT ![u] = {"open"}]

(* No space, no resume, a transfer limit or the pre-upload hook.           *)
Deny(u) ==
  /\ up[u].pc = "checking"
  /\ ~HasSpace(up[u].isNewFile) \/ ~ResumeAllowed(u) \/ "deny" \in Failures
  /\ up' = [up EXCEPT ![u] = Idle]
  /\ UNCHANGED <<config, file, temp, usedFiles, usedSize, uncharged>>
  /\ Refused(u)

Admit(u) ==
  /\ up[u].pc = "checking"
  /\ HasSpace(up[u].isNewFile) /\ ResumeAllowed(u)
  /\ up' = [up EXCEPT ![u].pc = "admitted", ![u].MaxWriteSize = GetMaxWriteSize(u)]
  /\ UNCHANGED <<config, file, temp, usedFiles, usedSize, history>>

-----------------------------------------------------------------------------
(* Opening the file                                                        *)

(* The existing file is still to be renamed to the temporary path.         *)
ToRename(u) ==
  ~up[u].isNewFile /\ Atomic(up[u].path) /\ ~RenamesFirst(up[u].protocol)

(* What Create finds: the temporary file or the one at the path.           *)
Existing(u) ==
  IF ToRename(u) \/ Direct(up[u].path) THEN Current(u) ELSE temp[u]

(* Mutant: a truncated file is given back by Close, too.                   *)
TruncatesNowAnyFs(u) == up[u].flag = "trunc"

(* The existing content is lost now: the quota gives it back at once.      *)
(* Otherwise it is the initial size, and Close subtracts it.               *)
TruncatesNow(u) == up[u].flag = "trunc" /\ Kind(u) = "local"

OpenedSize(u) ==
  IF up[u].flag = "trunc" \/ Kind(u) # "local" \/ Existing(u) = NoFile
  THEN 0 ELSE Existing(u).size

(* fs.Create, the quota of what it truncates and NewBaseTransfer.  HTTP    *)
(* and SCP add the size of the existing file to the allowed size.          *)
Create(u) ==
  LET f == up[u].fileSize
      p == up[u].path
  IN /\ up[u].pc = "admitted"
     /\ ToRename(u) => Current(u) # NoFile
     /\ up' = [up EXCEPT
          ![u].pc = "open",
          ![u].MinWriteOffset = IF IsResume(u) /\ up[u].flag = "append" THEN f ELSE 0,
          ![u].InitialSize = IF TruncatesNow(u) THEN 0 ELSE f,
          ![u].MaxWriteSize =
             IF ~up[u].isNewFile /\ @ > 0 /\ RenamesFirst(up[u].protocol)
             THEN @ + f ELSE @]
     /\ IF Direct(p)
        THEN /\ file' = [file EXCEPT ![p] = Content(OpenedSize(u), FALSE)]
             /\ UNCHANGED temp
        ELSE /\ temp' = [temp EXCEPT ![u] = Content(OpenedSize(u), FALSE)]
             /\ file' = IF ToRename(u) THEN [file EXCEPT ![p] = NoFile] ELSE file
     /\ ChangeQuota(0, IF TruncatesNow(u) THEN -f ELSE 0)
     /\ UNCHANGED <<config, history>>

(* The rename fails, or Create after it. *)
CreateFails(u) ==
  LET p == up[u].path
  IN /\ up[u].pc = "admitted"
     /\ up' = [up EXCEPT ![u] = Idle]
     /\ \/ /\ ToRename(u) /\ (Current(u) = NoFile \/ "rename" \in Failures)
           /\ UNCHANGED <<file, temp>>
        \/ /\ "create" \in Failures
           /\ IF ToRename(u) /\ Current(u) # NoFile
              THEN /\ temp' = [temp EXCEPT ![u] = Current(u)]
                   /\ file' = [file EXCEPT ![p] = NoFile]
              ELSE UNCHANGED <<file, temp>>
     /\ Refused(u)
     /\ UNCHANGED <<config, usedFiles, usedSize, uncharged>>

-----------------------------------------------------------------------------
(* The open upload                                                         *)

(* CheckWrite, after the data is written. *)
Exceeded(u, received) == up[u].MaxWriteSize > 0 /\ received > up[u].MaxWriteSize

(* SFTP clients write at any offset above the minimum, the others one      *)
(* after the other.  A cancelled cloud upload takes no more data.          *)
Offsets(u) ==
  IF up[u].protocol = "sftp" /\ Kind(u) = "local"
  THEN up[u].MinWriteOffset .. Written(u).size
  ELSE {Written(u).size}

WriteAt(u, off) ==
  LET received == up[u].BytesReceived + 1
      end == off + 1
      old == Written(u).size
  IN /\ up[u].pc = "open" /\ received <= MaxReceived /\ end <= MaxSize
     /\ Kind(u) = "cloud" => up[u].ErrTransfer = "none"
     /\ Write(u, Content(IF end > old THEN end ELSE old, FALSE))
     /\ up' = [up EXCEPT
          ![u].BytesReceived = received,
          ![u].ErrTransfer = IF @ = "none" /\ Exceeded(u, received) THEN "quota" ELSE @]
     /\ UNCHANGED <<config, usedFiles, usedSize, history>>

(* A write fails, or is below the minimum offset: TransferError.           *)
WriteFails(u) ==
  /\ up[u].pc = "open" /\ "write" \in Failures
  /\ up' = [up EXCEPT ![u].ErrTransfer = Failed(@)]
  /\ UNCHANGED <<config, file, temp, usedFiles, usedSize, history>>

(* Mutant: the limit is not lowered by what stays in the file.             *)
TruncateHandleLimit(u, size) ==
  /\ up[u].pc = "open" /\ up[u].protocol = "sftp" /\ Kind(u) = "local"
  /\ Write(u, Content(size, FALSE))
  /\ up' = [up EXCEPT ![u].InitialSize = size,
                      ![u].BytesReceived = IF up[u].MaxWriteSize > 0 THEN 0 ELSE @]
  /\ ChangeQuota(0, size - up[u].InitialSize)
  /\ UNCHANGED <<config, history>>

(* Mutant: the quota changes by what the file loses.                       *)
TruncateHandleQuota(u, size) ==
  /\ up[u].pc = "open" /\ up[u].protocol = "sftp" /\ Kind(u) = "local"
  /\ Write(u, Content(size, FALSE))
  /\ up' = [up EXCEPT
       ![u].InitialSize = size,
       ![u].MaxWriteSize = IF @ > 0 THEN @ + up[u].InitialSize - size ELSE 0,
       ![u].BytesReceived = IF up[u].MaxWriteSize > 0 THEN 0 ELSE @]
  /\ ChangeQuota(0, size - Written(u).size)
  /\ UNCHANGED <<config, history>>

(* BaseTransfer.Truncate and the quota change of truncateFile.             *)
TruncateHandle(u, size) ==
  /\ up[u].pc = "open" /\ up[u].protocol = "sftp" /\ Kind(u) = "local"
  /\ Write(u, Content(size, FALSE))
  /\ up' = [up EXCEPT
       ![u].InitialSize = size,
       ![u].MaxWriteSize = IF @ > 0 THEN @ + up[u].InitialSize - size ELSE 0,
       ![u].BytesReceived = IF up[u].MaxWriteSize > 0 THEN 0 ELSE @]
  /\ ChangeQuota(0, size - up[u].InitialSize)
  /\ UNCHANGED <<config, history>>

-----------------------------------------------------------------------------
(* The end of the upload                                                   *)

(* Mutant: only the quota error matters.                                   *)
KeptOnError(u, err) == ~(Kind(u) = "local" /\ err = "quota")

(* The quota error removes what is on the local file system, an atomic     *)
(* upload and a cloud object are renamed or dropped, a direct one stays.   *)
Kept(u, err) ==
  /\ ~(Kind(u) = "local" /\ err = "quota")
  /\ Kind(u) = "cloud" => err = "none"
  /\ Atomic(up[u].path) => err = "none" \/ uploadMode = "resume"

(* Mutant: the quota error removes the path and not the temporary file.    *)
SettleAtPath(u, err, aborted, renamed, removed) ==
  LET content == Content(Written(u).size, err = "none" /\ ~aborted)
      p == up[u].path
  IN /\ IF Kept(u, err)
        THEN file' = [file EXCEPT ![p] = content] /\ temp' = [temp EXCEPT ![u] = NoFile]
        ELSE file' = [file EXCEPT ![p] = NoFile] /\ UNCHANGED temp
     /\ up' = [up EXCEPT ![u].pc = "settled", ![u].ErrTransfer = err]
     /\ UNCHANGED history

(* The file is closed and settled: renamed to the path, or removed.  A     *)
(* temporary file that cannot be renamed is removed from TempPath only     *)
(* (checkUploadOutsideHomeDir).  aborted says that the client has not sent *)
(* everything, renamed and removed that these calls succeed.               *)
Settle(u, err, aborted, renamed, removed) ==
  LET content == Content(Written(u).size, err = "none" /\ ~aborted)
      p == up[u].path
      notRenamed == Atomic(p) /\ Kept(u, err) /\ ~renamed
      placed  == Kept(u, err) /\ ~notRenamed
      removes == IF notRenamed THEN tempPath ELSE ~placed
      left    == Atomic(p) /\ ~placed /\ ~(removes /\ removed)
  IN /\ left => uncharged.files < MaxUncharged
     /\ file' = IF placed \/ (Direct(p) /\ ~removed) THEN [file EXCEPT ![p] = content]
                ELSE IF Direct(p) THEN [file EXCEPT ![p] = NoFile] ELSE file
     /\ temp' = IF left THEN temp ELSE [temp EXCEPT ![u] = NoFile]
     /\ up' = [up EXCEPT ![u].pc = "settled",
                         ![u].ErrTransfer = IF notRenamed THEN Failed(err) ELSE err]
     /\ failed' = IF ~left THEN failed ELSE [failed EXCEPT ![u] =
          (IF notRenamed THEN {"rename"} ELSE {}) \cup (IF removes THEN {"remove"} ELSE {})]
     /\ uncharged' = IF left THEN [files |-> uncharged.files + 1,
                                   size |-> uncharged.size + content.size]
                     ELSE uncharged

Close(u) ==
  /\ up[u].pc = "open"
  /\ \E renamed \in Outcomes("rename"), removed \in Outcomes("remove") :
       Settle(u, up[u].ErrTransfer, FALSE, renamed, removed)
  /\ UNCHANGED <<config, usedFiles, usedSize>>

(* The client is gone in the middle of its upload.  The HTTP handlers close *)
(* the file, the others report the error first.                             *)
Abort(u) ==
  /\ up[u].pc = "open" /\ "abort" \in Failures
  /\ \E renamed \in Outcomes("rename"), removed \in Outcomes("remove") :
       Settle(u, IF up[u].protocol = "http" THEN up[u].ErrTransfer
                 ELSE Failed(up[u].ErrTransfer), TRUE, renamed, removed)
  /\ UNCHANGED <<config, usedFiles, usedSize>>

(* A failed encrypted upload is removed. *)
Dropped(u) == Kind(u) = "crypt" /\ up[u].ErrTransfer # "none"

(* Mutant: a removed encrypted file is still counted.                      *)
StatUploadDropped(u) ==
  /\ up[u].pc = "settled"
  /\ \E removed \in Outcomes("remove") :
       LET exists == Current(u) # NoFile
           stays  == exists /\ ~(Dropped(u) /\ removed)
       IN /\ up' = [up EXCEPT
               ![u].pc = "hook",
               ![u].fileSize = IF stays THEN Current(u).size ELSE 0,
               ![u].numFiles = (IF up[u].isNewFile THEN 1 ELSE 0) - (IF exists THEN 0 ELSE 1)]
          /\ file' = IF stays THEN file ELSE [file EXCEPT ![up[u].path] = NoFile]
  /\ UNCHANGED <<config, temp, usedFiles, usedSize, history>>

(* getUploadFileSize. *)
StatUpload(u) ==
  /\ up[u].pc = "settled"
  /\ \E removed \in Outcomes("remove") :
       LET exists == Current(u) # NoFile
           stays  == exists /\ ~(Dropped(u) /\ removed)
       IN /\ up' = [up EXCEPT
               ![u].pc = "hook",
               ![u].fileSize = IF stays THEN Current(u).size ELSE 0,
               ![u].numFiles = (IF up[u].isNewFile THEN 1 ELSE 0) - (IF stays THEN 0 ELSE 1)]
          /\ file' = IF stays THEN file ELSE [file EXCEPT ![up[u].path] = NoFile]
  /\ UNCHANGED <<config, temp, usedFiles, usedSize, history>>

(* The hook runs after failed uploads, too. *)
HookEnds(u) ==
  /\ up[u].pc = "hook"
  /\ up' = [up EXCEPT ![u].pc = "ended"]
  /\ UNCHANGED <<config, file, temp, usedFiles, usedSize, history>>

(* Mutant: the file is taken off although there was none to remove.        *)
HookFailsAlways(u) ==
  /\ up[u].pc = "hook" /\ "hook" \in Failures
  /\ file' = [file EXCEPT ![up[u].path] = NoFile]
  /\ up' = [up EXCEPT ![u].pc = "ended",
                      ![u].ErrTransfer = Failed(@),
                      ![u].numFiles = @ - 1, ![u].fileSize = 0]
  /\ UNCHANGED <<config, temp, usedFiles, usedSize, history>>

(* executeUploadHook removes what is at the path, if it can. *)
HookFails(u) ==
  /\ up[u].pc = "hook" /\ "hook" \in Failures
  /\ \E removed \in IF Current(u) = NoFile THEN {FALSE} ELSE Outcomes("remove") :
       /\ file' = IF removed THEN [file EXCEPT ![up[u].path] = NoFile] ELSE file
       /\ up' = [up EXCEPT
            ![u].pc = "ended",
            ![u].ErrTransfer = Failed(@),
            ![u].numFiles = IF removed THEN @ - 1 ELSE @,
            ![u].fileSize = IF removed THEN 0 ELSE @]
  /\ UNCHANGED <<config, temp, usedFiles, usedSize, history>>

(* A failed upload to a cloud storage has changed nothing. *)
UpdateQuota(u) ==
  /\ up[u].pc = "ended"
  /\ IF Kind(u) = "cloud" /\ up[u].ErrTransfer # "none"
     THEN UNCHANGED <<usedFiles, usedSize>>
     ELSE ChangeQuota(up[u].numFiles, up[u].fileSize - up[u].InitialSize)
  /\ up' = [up EXCEPT ![u] = Idle]
  /\ UNCHANGED <<config, file, temp, history>>

-----------------------------------------------------------------------------
(* Other requests of the user                                              *)

RemoveFile(p) ==
  /\ file[p] # NoFile /\ Free(p)
  /\ file' = [file EXCEPT ![p] = NoFile]
  /\ ChangeQuota(-1, -file[p].size)
  /\ UNCHANGED <<config, temp, up, history>>

(* A temporary file that was left in the home directory is a file like any *)
(* other, also one that nobody charges.                                    *)
RemoveLeftover(u) ==
  /\ up[u] = Idle /\ temp[u] # NoFile /\ ~tempPath
  /\ temp' = [temp EXCEPT ![u] = NoFile]
  /\ failed' = [failed EXCEPT ![u] = {}]
  /\ ChangeQuota(-1, -temp[u].size)
  /\ UNCHANGED <<config, file, up, uncharged>>

(* An overwritten file is given back. *)
updateQuotaAfterRename(q) ==
  IF file[q] = NoFile
  THEN UNCHANGED <<usedFiles, usedSize>>
  ELSE ChangeQuota(-1, -file[q].size)

Rename(p, q) ==
  /\ p # q /\ KindOf[p] = KindOf[q]
  /\ file[p] # NoFile /\ Free(p) /\ Free(q)
  /\ file' = [file EXCEPT ![q] = file[p], ![p] = NoFile]
  /\ updateQuotaAfterRename(q)
  /\ UNCHANGED <<config, temp, up, history>>

(* truncateFile without an open handle. *)
Truncate(p, size) ==
  /\ file[p] # NoFile /\ Free(p) /\ KindOf[p] = "local"
  /\ file' = [file EXCEPT ![p].size = size]
  /\ ChangeQuota(0, size - file[p].size)
  /\ UNCHANGED <<config, temp, up, history>>

-----------------------------------------------------------------------------
UploadsInit ==
  /\ uploadMode \in UploadModes /\ tempPath \in TempPaths
  /\ file = [p \in Paths |-> NoFile]
  /\ temp = [u \in Uploads |-> NoFile]
  /\ usedFiles = 0 /\ usedSize = 0
  /\ up = [u \in Uploads |-> Idle]
  /\ failed = [u \in Uploads |-> {}] /\ uncharged = [files |-> 0, size |-> 0]

Upload(u) ==
  \/ \E p \in Paths, protocol \in Protocols : \E flag \in Flags(protocol) :
       Lstat(u, p, protocol, flag)
  \/ Deny(u) \/ Admit(u) \/ Create(u) \/ CreateFails(u)
  \/ up[u].pc = "open" /\ \E off \in Offsets(u) : WriteAt(u, off)
  \/ WriteFails(u)
  \/ \E size \in TruncateSizes : TruncateHandle(u, size)
  \/ Close(u) \/ Abort(u) \/ StatUpload(u) \/ HookEnds(u) \/ HookFails(u)
  \/ UpdateQuota(u)

UploadsNext ==
  \/ \E u \in Uploads : Upload(u) \/ RemoveLeftover(u)
  \/ \E p \in Paths :
       \/ RemoveFile(p)
       \/ \E q \in Paths : Rename(p, q)
       \/ \E size \in TruncateSizes : Truncate(p, size)

UploadsSpec == UploadsInit /\ [][UploadsNext]_uploadsVars

-----------------------------------------------------------------------------
(* Properties                                                              *)

Contents == [size : 0 .. MaxSize, whole : BOOLEAN] \cup {NoFile}

BaseTransfer ==
  [pc : {"idle", "checking", "admitted", "open", "settled", "hook", "ended"},
   path : Paths \cup {NoFile}, protocol : Protocols \cup {"none"},
   flag : {"none", "trunc", "append", "readwrite"}, isNewFile : BOOLEAN,
   fileSize : 0 .. MaxSize, InitialSize : 0 .. MaxSize, MinWriteOffset : 0 .. MaxSize,
   BytesReceived : 0 .. MaxReceived, MaxWriteSize : Int,
   ErrTransfer : {"none", "quota", "other"}, numFiles : -1 .. 1]

(* An upload changes the number of files by one at most, whatever fails.   *)
UploadsTypeOK ==
  /\ uploadMode \in UploadModes /\ tempPath \in BOOLEAN
  /\ file \in [Paths -> Contents] /\ temp \in [Uploads -> Contents]
  /\ usedFiles \in Int /\ usedSize \in Int
  /\ up \in [Uploads -> BaseTransfer]
  /\ failed \in [Uploads -> SUBSET {"open", "rename", "remove"}]
  /\ uncharged \in [files : Nat, size : Nat]

(* Sizes are added up by counting their bytes, one by one.                 *)
Bytes(size) == UNION {{x} \X (1 .. size[x]) : x \in DOMAIN size}
SizeOf(content) == IF content = NoFile THEN 0 ELSE content.size

(* Files of the user, the temporary ones included.                         *)
StoredFiles == Cardinality({p \in Paths : file[p] # NoFile})
               + Cardinality({u \in Uploads : temp[u] # NoFile})
StoredSize == Cardinality(Bytes([p \in Paths |-> SizeOf(file[p])]))
              + Cardinality(Bytes([u \in Uploads |-> SizeOf(temp[u])]))

(* When no upload is under way the used quota is what is stored, although  *)
(* overwriting, truncating, failing and removing each charge a difference  *)
(* of their own against a size read before.  It misses exactly the         *)
(* temporary files that Close could neither rename nor remove.             *)
QuotaExact ==
  (\A u \in Uploads : up[u].pc \in {"idle", "checking", "admitted"}) =>
    /\ usedFiles = StoredFiles - uncharged.files
    /\ usedSize = StoredSize - uncharged.size

(* In atomic mode, and in a cloud storage, a path never holds the partial  *)
(* file of an upload that is under way or has failed.                      *)
AtomicComplete ==
  \A p \in Paths :
    (file[p] # NoFile /\ (uploadMode = "atomic" \/ KindOf[p] = "cloud")) =>
      file[p].whole

(* An upload that is over leaves no temporary file, however it ended: but  *)
(* for one whose removal failed, one that could not be renamed within the  *)
(* home directory (nobody tries to remove it), and the file it was to      *)
(* overwrite when the upload was refused after that was moved away.        *)
TempDeleted ==
  \A u \in Uploads : (up[u] = Idle /\ temp[u] # NoFile) =>
    "remove" \in failed[u] \/ ("rename" \in failed[u] /\ ~tempPath) \/ "open" \in failed[u]

(* No upload succeeds with more than MaxUploadFileSize, resumed,           *)
(* overwritten or truncated in between.                                    *)
LimitKept ==
  MaxUploadFileSize > 0 =>
    \A p \in Paths :
      (file[p] # NoFile /\ file[p].whole) => file[p].size <= MaxUploadFileSize

(* One SFTP or FTP upload at a time that ends without an error keeps the   *)
(* user in the quota: the allowed size is computed before the overwritten  *)
(* file is given back, and truncation moves it.                            *)
QuotaKept ==
  [][\A u \in Uploads :
       (/\ up[u].pc = "ended" /\ up'[u].pc = "idle"
        /\ up[u].ErrTransfer = "none" /\ ~RenamesFirst(up[u].protocol)) =>
         /\ QuotaSize > 0 => usedSize' <= QuotaSize
         /\ QuotaFiles > 0 => usedFiles' <= QuotaFiles]_uploadsVars
=============================================================================

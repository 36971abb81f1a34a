SPECIFICATION UploadsSpec
CONSTANTS
  a = a
  b = b
  c = c
  d = d
  t1 = t1
  t2 = t2
  NoFile = NoFile
  Paths = {a}
  Uploads = {t1, t2}
  KindOf <- AllLocal
  Protocols = {"sftp"}
  UploadModes = {"standard", "atomic", "resume"}
  TempPaths = {FALSE, TRUE}
  Failures = {"abort", "hook", "rename", "remove"}
  Overlap = FALSE
  QuotaSize = 0
  QuotaFiles = 0
  MaxUploadFileSize = 2
  TruncateSizes = {1}
  MaxSize = 3
  MaxReceived = 3
  MaxUncharged = 1
SYMMETRY Symmetry
INVARIANTS
  UploadsTypeOK
  QuotaExact
  AtomicComplete
  TempDeleted
  LimitKept

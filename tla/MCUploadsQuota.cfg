SPECIFICATION UploadsSpec
CONSTANTS
  a = a
  b = b
  c = c
  d = d
  t1 = t1
  t2 = t2
  NoFile = NoFile
  Paths = {a, b, c, d}
  Uploads = {t1}
  KindOf <- AllKinds
  Protocols = {"sftp", "ftp", "scp", "http"}
  UploadModes = {"standard", "atomic", "resume"}
  TempPaths = {FALSE}
  Failures = {"deny", "create", "write", "rename", "remove"}
  Overlap = FALSE
  QuotaSize = 2
  QuotaFiles = 2
  MaxUploadFileSize = 0
  TruncateSizes = {0}
  MaxSize = 3
  MaxReceived = 3
  MaxUncharged = 1
SYMMETRY LocalSymmetry
INVARIANTS
  QuotaExact
PROPERTIES
  QuotaKept

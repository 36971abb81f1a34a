SPECIFICATION Spec
CONSTANTS
  uq = uq
  ut = ut
  fq = fq
  user = user
  folder = folder
  h1 = h1
  h2 = h2
  r1 = r1
  None = None
  Accounts = {uq, ut}
  Kind <- MCKind
  Owner <- MCOwner
  Workers = {h1}
  Readers = {r1}
  Deltas <- AddAndRemove
  Delays = {TRUE, FALSE}
  Scannable = {uq, ut}
  Deletable = {user}
  MaxTransfers = 2
  MaxScans = 1
  MaxDeletes = 1
  MaxCrashes = 1
INVARIANTS
  UsageExact
  ReadExact
CHECK_DEADLOCK FALSE

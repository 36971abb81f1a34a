SPECIFICATION FairSpec
CONSTANTS
  uq = uq
  ut = ut
  fq = fq
  user = user
  folder = folder
  h1 = h1
  h2 = h2
  r1 = r1
  None = None
  Accounts = {uq, ut, fq}
  Kind <- MCKind
  Owner <- MCOwner
  Workers = {h1, h2}
  Readers = {}
  Deltas <- AddOnly
  Delays = {TRUE}
  Scannable = {}
  Deletable = {}
  MaxTransfers = 3
  MaxScans = 0
  MaxDeletes = 0
  MaxCrashes = 2
INVARIANTS
  UsageExact
  NeverOvercharged
PROPERTIES
  EventuallyStored

SPECIFICATION FairSpec
CONSTANTS
  n1 = n1
  n2 = n2
  j1 = j1
  j2 = j2
  Nodes = {n1, n2}
  Jobs = {j1, j2}
  NodeOf <- MCNodeOf
  Skew <- MCSkew
  MaxSkew = 1
  updateInterval = 3
  RefreshWithin = 5
  MaxDelay = 1
  Period = 9
  MaxVersion = 3
  MaxFailures = 2
INVARIANTS
  NotConcurrent
  OncePerOccurrence
PROPERTIES
  ExecutedAgain

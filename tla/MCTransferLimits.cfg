SPECIFICATION FairSpec
CONSTANTS
  r1 = r1
  r2 = r2
  r3 = r3
  k1 = k1
  k2 = k2
  u = u
  ip = ip
  h1 = h1
  Requests = {r1, r2, r3}
  Conns = {k1, k2}
  ConnOf <- MCConnOf
  Users = {u}
  UserOf <- MCUserOf
  IPs = {ip}
  IPOf <- MCIPOf
  MaxSessions <- MCMaxSessions
  MaxPerHostConnections = 2
  MaxTotalConnections = 2
  Hooks = {h1}
INVARIANTS
  TransfersExact
  GracefulExit
PROPERTIES
  ShutdownEnds
CHECK_DEADLOCK FALSE

SPECIFICATION Spec
CONSTANTS
  c1 = c1
  c2 = c2
  c3 = c3
  c4 = c4
  ip1 = ip1
  ip2 = ip2
  Clients = {c1, c2, c3, c4}
  IPs = {ip1, ip2}
  IPOf <- MCIPOf
  SafeIPs = {ip2}
  MaxTotalConnections = 2
  MaxPerHostConnections = 1
  MaxPerClient = 1
SYMMETRY Symmetry
INVARIANTS
  ClientsExact
  LimitsKept

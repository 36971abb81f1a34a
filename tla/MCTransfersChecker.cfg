SPECIFICATION FairSpec
CONSTANTS
  u1 = u1
  c1 = c1
  c2 = c2
  Users = {u1}
  Conns = {c1, c2}
  Owner <- MCOwner
  Protocol <- MCProtocol
  IDs = {1}
  Types <- BothTypes
  Quotas <- MCQuotas
  MaxBytes = 2
INVARIANTS
  NoLostEntry
  NothingUncounted
PROPERTIES
  SignalJustified
  ExcessSignalled
CHECK_DEADLOCK FALSE

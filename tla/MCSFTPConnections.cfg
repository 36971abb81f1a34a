SPECIFICATION FairSpec
CONSTANTS
  f1 = f1
  f2 = f2
  f3 = f3
  u1 = u1
  u2 = u2
  u3 = u3
  u4 = u4
  s1 = s1
  s2 = s2
  s3 = s3
  Fss = {f1, f2, f3}
  Users = {u1, u2, u3, u4}
  UsedBy <- MCUsedBy
  Sessions = {s1, s2, s3}
  SessionOf <- MCSessionOf
  MaxClients = 2
  maxSessionsPerConnection = 2
INVARIANTS
  InUseKept
  NoLeak
PROPERTIES
  Reclaimed
  LossNoticed
CHECK_DEADLOCK FALSE

SPECIFICATION FairSpec
CONSTANTS
  u1 = u1
  u2 = u2
  f1 = f1
  w1 = w1
  c1 = c1
  c2 = c2
  s1 = s1
  s2 = s2
  NoUser = NoUser
  NotRegistered = NotRegistered
  Users = {u1, u2}
  FTPHandlers = {f1}
  WebHandlers = {w1}
  SFTPHandlers = {c1}
  SSHConns = {s1, s2}
  Ids = {f1, w1, c1}
  DeniedProtocols <- MCDenied
  MaxSessions <- MCMaxSessions
  SSHOf <- MCSSHOf
  ConnID <- OwnID
INVARIANTS
  MappingExact
  SSHMappingExact
  UserCountExact
  SessionLimit
  NoGhostSessions
  SessionUser
PROPERTIES
  TableSpec
  NoActiveSessionCut
  DisconnectEnds

---------------------------- MODULE MCConnections ----------------------------
(* Small instances of Connections for TLC. *)
EXTENDS Connections

CONSTANTS u1, u2, f1, w1, c1, c2, s1, s2

MCMaxSessions == [u \in Users |-> IF u = u1 THEN 1 ELSE 2]
MCDenied == [u \in Users |-> IF u = u1 THEN {"SSH"} ELSE {}]
MCSSHOf == [h \in SFTPHandlers |-> IF h = c1 THEN s1 ELSE s2]
OwnID == [h \in FTPHandlers \cup WebHandlers \cup SFTPHandlers |-> h]

(* Two requests of one SSH connection on the same channel. *)
OneSSH == [h \in SFTPHandlers |-> s1]
SameChannelID == [h \in FTPHandlers \cup WebHandlers \cup SFTPHandlers |-> IF h = c2 THEN c1 ELSE h]
=============================================================================

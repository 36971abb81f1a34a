-------------------------- MODULE MCSFTPConnections --------------------------
(* Small instances of SFTPConnections for TLC. *)
EXTENDS SFTPConnections

CONSTANTS f1, f2, f3, u1, u2, u3, u4, s1, s2, s3

(* f1 is shared by two channels of an SSH connection. *)
MCUsedBy == [f \in Fss |-> IF f = f1 THEN {u1, u2} ELSE IF f = f2 THEN {u3} ELSE {u4}]
MCSessionOf == [f \in Fss |-> IF f = f1 THEN s1 ELSE IF f = f2 THEN s2 ELSE s3]

(* Two folders of one user have one session id. *)
FoldersUsedBy == [f \in Fss |-> IF f = f1 THEN {u1, u2} ELSE {u3}]
FoldersSessionOf == [f \in Fss |-> IF f = f1 THEN s1 ELSE s2]
=============================================================================

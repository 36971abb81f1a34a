-------------------------- MODULE MCTransferLimits --------------------------
(* Small instances of TransferLimits for TLC. *)
EXTENDS TransferLimits

CONSTANTS r1, r2, r3, k1, k2, u, ip, h1

(* Two requests on one connection, a third on another.                     *)
MCConnOf == [r \in Requests |-> IF r = r3 THEN k2 ELSE k1]
MCUserOf == [c \in Conns |-> u]
MCIPOf == [c \in Conns |-> ip]
MCMaxSessions == [x \in Users |-> 2]
=============================================================================

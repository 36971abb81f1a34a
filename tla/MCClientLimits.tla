--------------------------- MODULE MCClientLimits ---------------------------
(* Small instances of ClientLimits for TLC. *)
EXTENDS ClientLimits, TLC

CONSTANTS c1, c2, c3, c4, ip1, ip2

MCIPOf == [c \in Clients |-> IF c \in {c1, c2} THEN ip1 ELSE ip2]

Symmetry == Permutations({c1, c2}) \cup Permutations({c3, c4})
=============================================================================

------------------------------ MODULE MCUploads ------------------------------
(* Small instances of Uploads for TLC. *)
EXTENDS Uploads, TLC

CONSTANTS a, b, c, d, t1, t2

AllLocal == [p \in Paths |-> "local"]
AllKinds == [p \in Paths |-> CASE p = c -> "crypt" [] p = d -> "cloud" [] OTHER -> "local"]
AllCloud == [p \in Paths |-> "cloud"]

LocalSymmetry == Permutations({a, b})
Symmetry == Permutations(Paths) \cup Permutations(Uploads)
=============================================================================

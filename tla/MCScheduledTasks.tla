--------------------------- MODULE MCScheduledTasks ---------------------------
(* Small instances of ScheduledTasks for TLC. *)
EXTENDS ScheduledTasks

CONSTANTS n1, n2, j1, j2

MCNodeOf == [j \in Jobs |-> IF j = j1 THEN n1 ELSE n2]
MCSkew == [n \in Nodes |-> IF n = n1 THEN 0 ELSE 1]
=============================================================================

-------------------------- MODULE MCTransfersChecker --------------------------
(* Small instances of TransfersChecker for TLC. *)
EXTENDS TransfersChecker, TLC

CONSTANTS u1, c1, c2

MCOwner == [c \in Conns |-> u1]
MCProtocol == [c \in Conns |-> IF c = c1 THEN "http" ELSE "other"] \* HTTP may do what WebDAV does

BothTypes == [c \in Conns |-> {"upload", "download"}]

(* A quota for the files only, for both directions, and one for each. *)
MCQuotas == {[QuotaSize |-> 2, total |-> 0, ul |-> 0, dl |-> 0],
             [QuotaSize |-> 0, total |-> 2, ul |-> 0, dl |-> 0],
             [QuotaSize |-> 2, total |-> 0, ul |-> 2, dl |-> 1]}
=============================================================================

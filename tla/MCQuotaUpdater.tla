--------------------------- MODULE MCQuotaUpdater ---------------------------
(* Small instances of QuotaUpdater for TLC. *)
EXTENDS QuotaUpdater

CONSTANTS uq, ut, fq, user, folder, h1, h2, r1

MCKind == [a \in Accounts |-> IF a = uq THEN "user" ELSE IF a = ut THEN "transfer" ELSE "folder"]
MCOwner == [a \in Accounts |-> IF a = fq THEN folder ELSE user]
AddAndRemove == {2, -1}
AddOnly == {1, 2}
=============================================================================

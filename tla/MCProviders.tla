----------------------------- MODULE MCProviders -----------------------------
EXTENDS EmbeddedProviders, TLC
CONSTANTS u1, u2, a1, g1, f1, r1, c1, e1, k1, s1

MCObjects == {u1, u2, a1, g1, f1, r1, c1, e1, k1, s1}
MCkind ==
  u1 :> "user" @@ u2 :> "user" @@ a1 :> "admin" @@ g1 :> "group" @@
  f1 :> "folder" @@ r1 :> "role" @@ c1 :> "action" @@ e1 :> "rule" @@
  k1 :> "key" @@ s1 :> "share"
MCSymmetry == Permutations({u1, u2})
=============================================================================

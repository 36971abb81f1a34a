CONSTANTS
  u1 = u1
  a1 = a1
  g1 = g1
  u2 = u2
  f1 = f1
  r1 = r1
  c1 = c1
  e1 = e1
  k1 = k1
  s1 = s1
  Memory = Memory
  Bolt = Bolt
  NamesMissing = TRUE
  Objects <- MCObjects
  kind <- MCkind
SYMMETRY MCSymmetry
SPECIFICATION Spec
INVARIANT ReferencedWhenRefused

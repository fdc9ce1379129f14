SPECIFICATION PolicySpec
CONSTANTS
  a = a
  b = b
  r = r
  Rules = {r}
  Commands = {a, b}
  Depth = 3
  NoPolicy = NoPolicy
INVARIANT MergeIsStrictest
SYMMETRY Symmetry

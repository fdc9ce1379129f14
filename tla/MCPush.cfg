SPECIFICATION Spec
CONSTANTS
  c1 = c1
  c2 = c2
  a = a
  b = b
  d1 = d1
  d2 = d2
  Clients = {c1, c2}
  Keys = {a, b}
  Others = {b}
  Learnings = {l}
  l = l
  Ids = {d1, d2}
  Bound <- MCBound
  MaxOthers = 2
  MaxEdits = 1
  MaxCommands = 2
  None = None
  NoOp = NoOp
INVARIANTS TypeOK
  
SYMMETRY MCSymmetry
CHECK_DEADLOCK FALSE

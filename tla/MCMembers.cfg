SPECIFICATION Spec
CONSTANTS
  o1 = o1
  o2 = o2
  n1 = n1
  r1 = r1
  r2 = r2
  Users = {o1, o2, n1}
  Founders = {o1, o2}
  Places = {"team"}
  Ghosts = {"ghost"}
  Tables <- MCTables
  Groups = {"g"}
  Claims = {{"g"}}
  Requests = {r1, r2}
  MaxRequests = 3
  NoGroups = NoGroups
  NoOp = NoOp
INVARIANTS TypeOK MappingsDecide
PROPERTIES LastOwnerKept ReconcileSettles
SYMMETRY MCSymmetry
CHECK_DEADLOCK FALSE

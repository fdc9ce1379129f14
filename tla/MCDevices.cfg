SPECIFICATION Spec
CONSTANTS
  u1 = u1
  u2 = u2
  f1 = f1
  c1 = c1
  c2 = c2
  r1 = r1
  r2 = r2
  Users <- MCUsers
  Prints <- MCPrints
  Codes <- MCCodes
  Requests <- MCRequests
  Permitted <- MCUsers
  MaxUses = 1
  MaxTokens = 3
  MaxEnds = 1
  NoCode = NoCode
  NoMachine = NoMachine
  NoFamily = NoFamily
INVARIANTS TypeOK SurvivorsStrayed RotationForksExplained EnrollmentCounts
PROPERTIES ImplementsDeviceGrant
SYMMETRY MCSymmetry
CHECK_DEADLOCK FALSE

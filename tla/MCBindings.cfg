SPECIFICATION Spec
CONSTANTS
  Users = {boss, dev}
  Admins = {boss}
  Projects = {web, api}
  Workspaces = {home}
  Requests = {r1, r2}
  None = None
  MaxRequests = 5
  MaxChanges = 1
SYMMETRY Symmetry
INVARIANTS TypeOK StrayBindingsExplained
PROPERTY EditsReplaceWhatWasSeen
CHECK_DEADLOCK FALSE

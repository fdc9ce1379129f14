SPECIFICATION Spec
CONSTANTS
  au = au
  ra = ra
  rb = rb
  rule = rule
  note = note
  Users <- MCUsers
  Author = au
  Admins = {rb}
  Ops <- MCOps
  Drafts <- MCFullDrafts
  Learning <- MCLearning
  MayDecide <- MCMayDecide
  MayPublish <- MCMayPublish
  MayContribute <- MCMayContribute
  RequiredApprovals = 2
  Requests = {q1, q2}
  MaxRequests = 5
  NoDigest = NoDigest
SYMMETRY Symmetry
INVARIANTS TypeOK VerdictsBacked OneReleasePerApproval FreshWritesReleaseApprovedContent
PROPERTIES OnlyStaleRequestsReopen TerminalContentFixed
CHECK_DEADLOCK FALSE

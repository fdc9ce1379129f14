SPECIFICATION Spec
CONSTANTS
  Scopes = {1, 2}
  Names = {1, 2}
  NoRev = NoRev
  None = None
  Changesets = {c1, c2, c3}
  Publishers = {p1, p2}
  Drafts <- MCDrafts
  MaxEdits = 0
  MaxLate = 0
  MaxClock = 4
  NoCs = NoCs
SYMMETRY Symmetry
INVARIANTS LostUpdatesExplained NoDeadlock
PROPERTIES PublishesAtomically
CHECK_DEADLOCK FALSE

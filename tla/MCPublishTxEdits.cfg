SPECIFICATION FairSpec
CONSTANTS
  Scopes = {1, 2}
  Names = {1}
  NoRev = NoRev
  None = None
  Changesets = {c1, c2}
  Publishers = {p1, p2}
  Drafts <- MCFewDrafts
  MaxEdits = 1
  MaxLate = 1
  MaxClock = 3
  NoCs = NoCs
INVARIANTS TypeOK HeadsMatchContents
PROPERTIES PublishEnds
CHECK_DEADLOCK FALSE

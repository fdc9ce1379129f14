SPECIFICATION FairSpec
CONSTANTS
  v1 = v1
  v2 = v2
  u1 = u1
  u2 = u2
  votes = votes
  usage = usage
  r1 = r1
  r2 = r2
  Events = {v1, v2, u1, u2}
  RowOf <- MCRowOf
  Counters = {votes}
  OccurredAt <- MCOccurredAt
  Batches <- MCBatches
  Requests = {r1, r2}
  Window = 1
  Ahead = 1
  MaxTime = 2
  None = None
INVARIANTS TypeOK  AnsweredIsStored
PROPERTIES CountedOnce 
CHECK_DEADLOCK FALSE

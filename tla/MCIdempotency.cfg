SPECIFICATION KeySpec
CONSTANTS
  Bodies = {b1, b2}
  Answers = {ok, failed}
  Attempts = {a1, a2, a3}
  MaxAttempts = 5
  NoAnswer = NoAnswer
  NoRow = NoRow
SYMMETRY Symmetry
INVARIANTS KeyTypeOK  ReplaysAreFaithful
CHECK_DEADLOCK FALSE

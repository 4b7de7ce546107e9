SPECIFICATION StudySpec
CONSTANTS
  Parts = 2
  MaxAttempts = 3
  MaxRuns = 2
  MaxOffline = 1
  MaxLate = 0
  MaxElsewhere = 0
CHECK_DEADLOCK FALSE
INVARIANT NeverOutOfOrder

SPECIFICATION FairSpec
CONSTANTS
  Requests <- Replayed
  MAX_TASK_ATTEMPTS = 2
  MaxConns = 2
  MaxCrashes = 0
  MaxRestarts = 0
PROPERTY EveryTaskSettles
CHECK_DEADLOCK FALSE

SPECIFICATION Spec
CONSTANTS
  Requests <- NotReplayedType
  MAX_TASK_ATTEMPTS = 1
  MaxConns = 2
  MaxCrashes = 1
  MaxRestarts = 0
INVARIANT NotReplayed
CHECK_DEADLOCK FALSE

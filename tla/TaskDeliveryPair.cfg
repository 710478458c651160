SPECIFICATION Spec
CONSTANTS
  Requests <- Mixed
  MAX_TASK_ATTEMPTS = 1
  MaxConns = 2
  MaxCrashes = 0
  MaxRestarts = 0
INVARIANT SucceededWasExecuted
INVARIANT NoTaskStranded
PROPERTY AcceptedNotReplayed
CHECK_DEADLOCK FALSE

SPECIFICATION Spec
CONSTANTS
  Requests <- Replayed
  MAX_TASK_ATTEMPTS = 2
  MaxConns = 2
  MaxCrashes = 1
  MaxRestarts = 1
INVARIANT TypeOK
INVARIANT ExecutedOncePerLife
INVARIANT RetryPolicy
PROPERTY ImplementsTaskService
CHECK_DEADLOCK FALSE

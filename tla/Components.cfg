SPECIFICATION ComponentsSpec
CONSTANTS
  Items = {"save"}
  TaskMix = {"create", "start", "restart", "configure", "write", "backup",
             "recover", "restore", "archive", "purge", "stop"}
  MaxRequests = 3
  MaxAgentCrashes = 1
  Changes = {c1, c2, c3}
  Reads = {r1}
  MaxStoreCrashes = 2
  SAMPLE = 2
  WINDOW = 4
  PRUNE = 3
  LIMIT = 2
  Usages = {"low", "high"}
  Leads <- LeadsOfOne
  MaxTime = 6
  MaxAgentRestarts = 1
  MaxConnections = 2
  MaxNodeRestarts = 1
  MaxHubRestarts = 1
  Browsers = {b1, b2}
  Names = {"ada", "Ada", "bob"}
  Lower <- LowerCase
  MaxUsers = 2
  MaxSessions = 2
  Uploads = {"jar", "zip"}
  Zips = {"zip"}
  Creations = {n1, n2}
  MaxFailures = 2
  Openings = {o1, o2}
  Versions = {"old"}
  MaxSaves = 1
INVARIANT ComponentsTypeOK
INVARIANT SavesHeldOnlyForBackup
INVARIANT OfferedBackupIsWhole
INVARIANT RowFollowsMemory
INVARIANT ReadsSeeEarlierChanges
INVARIANT CurvesAgree
INVARIANT NewestPointServed
INVARIANT EnrolledAgentIsKnown
INVARIANT OnlineFollowsHub
INVARIANT RecordsAreUnique
INVARIANT CreatedHasPackage
INVARIANT RefusedOnlyIfReplaced
INVARIANT EmptySavedOnlyOnOverlap
INVARIANT OpenedIsFresh
PROPERTY DataKept
PROPERTY FailedRestoreUndone
PROPERTY ServerKeepsItsDirectory
PROPERTY StoreIsSerial
CHECK_DEADLOCK FALSE

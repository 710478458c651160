SPECIFICATION DataSpec
CONSTANTS
  Items = {"save"}
  TaskMix = {"start", "archive", "restore"}
  MaxRequests = 3
  MaxAgentCrashes = 1
PROPERTY ArchiveKeepsData
CHECK_DEADLOCK FALSE

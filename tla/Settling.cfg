SPECIFICATION SettlingSpec
CONSTANTS
  Directions = {"upload", "download"}
  MaxSubmissions = 2
  MaxExecutions = 2
  MaxPanelCrashes = 1
  Actions = {"backup", "restart"}
  MaxRuns = 3
  MaxEdits = 2
  MaxScheduleCrashes = 1
  MAX_TASK_ATTEMPTS = 2
  MaxTries = 2
  MaxOutages = 1
  MaxReboots = 1
  Catalog = {"x", "y"}
  MaxAsked = 2
  MaxClicks = 2
INVARIANT SettlingTypeOK
INVARIANT UploadVerified
INVARIANT AvailableDownloadHasFile
INVARIANT EachTimeRunsOnce
INVARIANT ConfirmedAsSeen
PROPERTY StagingIsRemoved
PROPERTY BackupIsDecided
PROPERTY SelectionIsShown
PROPERTY AvailableBackupStays
CHECK_DEADLOCK FALSE

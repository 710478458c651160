SPECIFICATION TransferSpec
CONSTANTS
  Directions = {"upload", "download"}
  MaxSubmissions = 2
  MaxExecutions = 2
  MaxPanelCrashes = 1
PROPERTY ResubmissionIsServed
CHECK_DEADLOCK FALSE

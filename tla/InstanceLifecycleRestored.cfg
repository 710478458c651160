SPECIFICATION Spec
CONSTANTS
  i1 = i1
  i2 = i2
  c1 = c1
  c2 = c2
  Instances <- TwoInstances
  Name <- OwnName
  Protocol <- AllTcp
  Ports <- OnePort
  Wanted <- NoPort
  Clients <- OneClient
  Kinds <- PortKinds
  MaxTasks = 1
  MaxRestarts = 0
INVARIANT LivePortsDistinct
CHECK_DEADLOCK FALSE

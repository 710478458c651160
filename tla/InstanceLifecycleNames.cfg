SPECIFICATION Spec
CONSTANTS
  i1 = i1
  i2 = i2
  c1 = c1
  c2 = c2
  Instances <- TwoInstances
  Name <- OneName
  Protocol <- AllTcp
  Ports <- TwoPorts
  Wanted <- OnePort
  Clients <- TwoClients
  Kinds <- PortKinds
  MaxTasks = 1
  MaxRestarts = 0
SYMMETRY Alike
INVARIANT ClashOnlyIfRevived
CHECK_DEADLOCK FALSE

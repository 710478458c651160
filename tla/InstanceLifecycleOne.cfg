SPECIFICATION FairSpec
CONSTANTS
  i1 = i1
  i2 = i2
  c1 = c1
  c2 = c2
  Instances <- OneInstance
  Name <- OwnName
  Protocol <- AllTcp
  Ports <- OnePort
  Wanted <- TwoPorts
  Clients <- TwoClients
  Kinds <- AllKinds
  MaxTasks = 1
  MaxRestarts = 1
INVARIANT StuckOnlyIfRevived
INVARIANT CreationUnderWay
PROPERTY ExpiredIsPurged
CHECK_DEADLOCK FALSE

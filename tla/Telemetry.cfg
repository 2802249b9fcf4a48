SPECIFICATION FairSpec
CONSTANTS
  cloud = cloud
  other = other
  Cloud <- cloud
  Publishers <- Both
  Names <- SomeNames
  Stored <- SomeStored
  Loc <- LocNames
  QueueSize = 2
  HasSensor = FALSE
  MaxSends = 3
  MaxInputs = 3
  LogSize = 2
  MaxLogs = 3
INVARIANTS
  Consistent
  OneSlotPerName
  SuccessMeansSent
PROPERTIES
  QueueEmpties
CHECK_DEADLOCK FALSE

SPECIFICATION FairSpec
CONSTANTS
  MaxSched = 2
  MaxTime = 2
  MaxCrash = 2
  Epoch = 2
INVARIANTS
  Consistent
  StopNotEarly
  FiredOncePerReset
PROPERTIES
  CancelledStaysQuiet
  ArmedStops
CHECK_DEADLOCK FALSE

SPECIFICATION FairSpec
CONSTANTS
  MaxSched = 2
  MaxTime = 2
  MaxCrash = 2
  Epoch = 2
PROPERTIES
  NoDuplicateStop
CHECK_DEADLOCK FALSE

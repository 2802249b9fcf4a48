SPECIFICATION FairSpec
CONSTANTS
  MaxAttempts = 2
  MaxFaults = 2
  MaxMisses = 2
  MaxResets = 1
  MaxCommands = 1
INVARIANTS
  Consistent
  FiresOnce
  RebootOnce
PROPERTIES
  IdentityKept
  GetsOnline
CHECK_DEADLOCK FALSE

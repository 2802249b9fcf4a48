SPECIFICATION DrainSpec
CONSTANTS
  N = 4
  Batch = 2
  MaxPush = 5
  MaxFaults = 1
  FailingWrites <- AllWrites
  UseClear = TRUE
INVARIANTS
  Consistent
  DriftBounded
PROPERTIES
  ReplayInOrder
  ImplementsFifo
  ReplayEnds
  EventuallyLeaves

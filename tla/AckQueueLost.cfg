SPECIFICATION Spec
CONSTANTS
  cloud = cloud
  app = app
  Threads <- TwoThreads
  Depth = 1
  RetryMax = 2
  MaxAcks = 2
INVARIANTS
  NoSilentLoss

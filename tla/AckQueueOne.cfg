SPECIFICATION FairSpec
CONSTANTS
  cloud = cloud
  app = app
  Threads <- OneThread
  Depth = 2
  RetryMax = 2
  MaxAcks = 3
INVARIANTS
  Consistent
  NoSilentLoss
  PublishedOnce
PROPERTIES
  QueueDrains

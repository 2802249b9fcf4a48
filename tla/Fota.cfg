SPECIFICATION FairFotaSpec
CONSTANTS
  CloudThread = CloudThread
  Apps = {App}
  Jobs <- SomeJobs
  Version <- SomeVersion
  Unnamed = {2}
  Foreign = {4}
  Factory = 1
  MaxSends = 3
  MaxResets = 2
  MaxFaults = 1
INVARIANTS
  FotaConsistent
PROPERTIES
  ReportsAreTrue
  RecordIsReported
CHECK_DEADLOCK FALSE

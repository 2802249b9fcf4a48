SPECIFICATION FotaSpec
CONSTANTS
  CloudThread = CloudThread
  Apps = {}
  Jobs <- TwoJobs
  Version <- TwoVersions
  Unnamed = {}
  Foreign = {}
  Factory = 1
  MaxSends = 2
  MaxResets = 1
  MaxFaults = 0
INVARIANTS
  RecordKept
CHECK_DEADLOCK FALSE

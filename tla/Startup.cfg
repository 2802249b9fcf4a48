SPECIFICATION FairSpec
CONSTANTS
  Interval = 3
  Advances <- MCAdvances
INVARIANTS
  Consistent
  StrayBounded
PROPERTIES
  MeasuresOn
  SamplingResumes
  FailedBootRestarts
CHECK_DEADLOCK FALSE

SPECIFICATION FairSpec
CONSTANTS
  AppCalls = {"publish", "wait", "connect", "disconnect"}
  MaxAttempts = 3
  HandlerFailures = {"subscribe", "replay"}
INVARIANTS
  Consistent
  LossesCounted
  LossIsReal
PROPERTIES
  RecoversOrReboots

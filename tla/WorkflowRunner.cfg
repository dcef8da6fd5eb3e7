SPECIFICATION FairSpec
CONSTANTS
  Owners = {o1, o2}
  Nobody = Nobody
  StepCount = 4
  Idempotent = {2, 3}
  Retryable = {2}
  Retries = 2
  AutoRetry = TRUE
  VerifyEach = TRUE
  FinishedAt <- FirstThree
  BrokenAt <- FirstOnly
INVARIANTS
  TypeOK
  CallsAreBounded
  InflightIsUncertain
  CompletedIsWhole
PROPERTIES
  KeepsContract
  CheckpointsAreCurrent
  RunsEnd

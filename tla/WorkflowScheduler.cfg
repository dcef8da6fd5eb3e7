SPECIFICATION FairSpec
CONSTANTS
  StepCount = 5
  Inputs = {2, 5}
  Deps <- Review
  MaxParallel = 2
  WaitFor = "waits"
  Faults = {"journal", "crash"}
INVARIANTS
  TypeOK
  WorkersAreOwned
PROPERTIES
  KeepsContract
  AwaitingIsBlocked
  ReturnedIsKept
  RunsEnd

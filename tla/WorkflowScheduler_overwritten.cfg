SPECIFICATION Spec
CONSTANTS
  StepCount = 4
  Inputs = {4}
  Deps <- Siblings
  MaxParallel = 2
  WaitFor = "waits"
  Faults = {}
PROPERTIES
  InvalidIsFinal

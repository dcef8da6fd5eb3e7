SPECIFICATION Spec
CONSTANTS
  Services = {s1, s2}
  Imports = {i1, i2}
  None = None
  Callers = {c1, c2}
  MaxActive = 1
  MaxAttempts = 2
  Faults = {"store", "crash"}
SYMMETRY Symmetry
INVARIANTS
  TypeOK
  LocksFollowWork
  BudgetIsKept
  CapacityIsKept
  CancelHolds
PROPERTIES
  CancelStops
  StaleControlsMiss

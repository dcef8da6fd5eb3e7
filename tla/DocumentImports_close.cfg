SPECIFICATION FairSpec
CONSTANTS
  Services = {s1, s2}
  Imports = {i1}
  None = None
  Callers = {c1, c2}
  MaxActive = 1
  MaxAttempts = 2
  Faults = {"store", "crash"}
PROPERTIES
  CallsAreAnswered

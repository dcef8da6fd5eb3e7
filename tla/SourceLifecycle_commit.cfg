SPECIFICATION FairSpec
CONSTANTS
  Clients = {c1, c2}
  Recovery = Recovery
  Keys = {k1}
  Texts = {t1, t2}
  NoRecord = NoRecord
  MaxSources = 2
  MaxBatch = 1
  RetireLimit = 1
  Exclusion = "commit"
  Faults = {"refuse", "crash"}
  MaxFaults = 2
PROPERTIES
  ReplaceNeverRevives
  Reopens

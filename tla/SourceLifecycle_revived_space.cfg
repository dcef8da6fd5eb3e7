SPECIFICATION Spec
CONSTANTS
  Clients = {c1, c2}
  Recovery = Recovery
  Keys = {k1}
  Texts = {t1}
  NoRecord = NoRecord
  MaxSources = 1
  MaxBatch = 1
  RetireLimit = 1
  Exclusion = "commit"
  Faults = {}
  MaxFaults = 0
INVARIANTS
  DeletedStaysEmpty

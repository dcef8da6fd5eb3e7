SPECIFICATION Spec
CONSTANTS
  Clients = {c1}
  Recovery = Recovery
  Keys = {k1, k2}
  Texts = {t1, t2}
  NoRecord = NoRecord
  MaxSources = 3
  MaxBatch = 2
  RetireLimit = 1
  Exclusion = "call"
  Faults = {"refuse", "lost", "cancel", "crash"}
  MaxFaults = 2
INVARIANTS
  TypeOK
  IncompleteIsCovered
  ForgottenIsErased
  DeletedStaysEmpty
PROPERTIES
  OpenIsClean
  BatchWhole
  LedgerSpec
SYMMETRY Symmetry

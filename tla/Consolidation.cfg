SPECIFICATION FairSpec
CONSTANTS
  Episodes = {1, 2}
  worker = worker
  byHand = byHand
  Passes = {worker, byHand}
  Worker = worker
  r1 = r1
  Requests = {r1}
  Batch <- MCBatch
  Clients = {c1, c2}
  MaxAttempts = 2
  Limit = 1
  MaxClaims = 1
  MaxFaults = 1
INVARIANTS
  TypeOK
  AttemptsAreBounded
PROPERTIES
  ReceiptsOnlyGrow
  RecordsSettle

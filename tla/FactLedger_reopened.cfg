SPECIFICATION Spec
CONSTANTS
  Objects = {o1, o2}
  NoObject = NoObject
  MaxTime = 3
  MaxFacts = 2
  MaxRepeats = 2
  MaxProposals = 1
  FollowFrayed = FALSE
  LinkCommits = FALSE
INVARIANTS
  ReopenHoldsAlone
CHECK_DEADLOCK FALSE

SPECIFICATION Spec
CONSTANTS
  Objects = {o1, o2}
  NoObject = NoObject
  MaxTime = 3
  MaxFacts = 3
  MaxRepeats = 2
  MaxProposals = 1
  FollowFrayed = FALSE
  LinkCommits = TRUE
PROPERTIES
  PlacementIsWhole
CHECK_DEADLOCK FALSE

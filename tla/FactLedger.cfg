SPECIFICATION Spec
CONSTANTS
  Objects = {o1, o2}
  NoObject = NoObject
  MaxTime = 4
  MaxFacts = 3
  MaxRepeats = 2
  MaxProposals = 1
  FollowFrayed = FALSE
  LinkCommits = TRUE
INVARIANTS
  TypeOK
  NothingHeldTwice
  SupersededIsTrue
  AnswersAreTold
PROPERTIES
  PersonsReasonStays
  FollowsTimeline
SYMMETRY Symmetry
CHECK_DEADLOCK FALSE

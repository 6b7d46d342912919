SPECIFICATION FairSpec
CONSTANTS
  MaxRecent = 2
  MaxFailures = 3
  Messages = 6
INVARIANTS CountedOnce LeftOut
PROPERTIES LossIsNotFatal Recovers

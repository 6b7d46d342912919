SPECIFICATION Spec
CONSTANTS
  Days = 2
  DayLen = 9
  Symbol <- MCSymbol
  Targets <- MCTargets
  Rank <- MCRank
  Schedules <- MCSchedules
  Interval = 4
  LogInterval = 2
  Margin = 1
  Slack = 1
  Lag = 1
  MaxCycles = 0
  Horizon = 18
INVARIANTS TypeOK TradedIsQueued StrikeOfTheEpoch NoWindowMissed
PROPERTIES OneJobPerEpoch OneCoordinatorPerEpoch NoEpochLeftOut RunSurvives
CHECK_DEADLOCK FALSE

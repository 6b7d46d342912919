SPECIFICATION FairSpec
CONSTANTS
  b = b
  e = e
  None = None
  Job = {b, e}
  Simulated = {e}
  Slot <- TwoSlots
  Cycle <- OneCycle
  Waits = TRUE
  ConfiguredRetries = 2
  Delay = 1
  Gap = 1
  RetryGap = 1
  KeySets = {{1, 2, 3}, {}}
  Authorized = {1, 2}
  BusyTries = 2
  Lateness <- Late
  Horizon = 3
PROPERTIES ImplementsQueue JobSettles DrainEnds

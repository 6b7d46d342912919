SPECIFICATION Spec
CONSTANTS
  b = b
  e = e
  None = None
  Job = {b, e}
  Simulated = {}
  Slot <- TwoSlots
  Cycle <- TwoCycles
  Waits = FALSE
  ConfiguredRetries = 1
  Delay = 1
  Gap = 1
  RetryGap = 1
  KeySets = {{1, 2, 3}, {}}
  Authorized = {1, 2}
  BusyTries = 2
  Lateness <- Late
  Horizon = 3
INVARIANTS QueuedOnce PaidOnce CallBudget DrainedClean

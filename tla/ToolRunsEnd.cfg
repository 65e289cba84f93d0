SPECIFICATION FairSpec
CONSTANTS
  r1 = r1
  r2 = r2
  Runs <- One
  MaxRetries = 2
  MaxSteps = 3
  MaxFaults = 2
  None = None
PROPERTY EveryRunIsCharged
CHECK_DEADLOCK FALSE

SPECIFICATION Spec
CONSTANTS
  r1 = r1
  r2 = r2
  Runs <- Executions
  MaxRetries = 1
  MaxSteps = 2
  MaxFaults = 2
  None = None
INVARIANT ChargedForWhatItStored
INVARIANT BrowserIsWhereItWentLast
INVARIANT OnlyLateRunsReopen
SYMMETRY Symmetric
CHECK_DEADLOCK FALSE

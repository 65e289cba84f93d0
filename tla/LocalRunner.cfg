\* Two approvals, two runner processes, throws and crashes.
CONSTANTS
  Runs = {a, b}
  Kind <- Approvals
  Engine <- OnLocalRunner
  Owners = {o1}
  Workers = {w1, w2}
  NoRun = NoRun
  MaxFaults = 2
SPECIFICATION FairSpec
INVARIANTS
  OneRunnerPerRun
  ActsAtMostOnce
PROPERTIES
  WaitingRunsAreServed
CHECK_DEADLOCK FALSE

\* One handoff, one dispatcher: retries, crashes, liveness.
CONSTANTS
  a = a
  h = h
  Runs = {h}
  Kind <- KindOfRuns
  Engine <- OnTemporal
  Owners = {o1}
  Workers = {w1}
  NoRun = NoRun
  Dispatchers = {d1}
  MaximumAttempts = 3
  MaxFaults = 1
SPECIFICATION FairSpec
PROPERTIES
  ImplementsLifecycle
CHECK_DEADLOCK FALSE

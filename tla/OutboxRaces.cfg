\* One approval, two dispatchers: every race of the outbox with itself.
CONSTANTS
  a = a
  h = h
  Runs = {a}
  Kind <- KindOfRuns
  Engine <- OnTemporal
  Owners = {o1, o2}
  Workers = {w1}
  NoRun = NoRun
  Dispatchers = {d1, d2}
  MaximumAttempts = 3
  MaxFaults = 1
SYMMETRY Interchangeable
SPECIFICATION Spec
INVARIANTS
  StartIntentKept
  CancelIntentKept
  ResolvedSubjectHasNoActiveRun
  ClaimsAreExclusive
PROPERTIES
  KeepsLifecycle
  PhaseGoesWrongOnlyLate
CHECK_DEADLOCK FALSE

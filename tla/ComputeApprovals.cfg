\* One execution, two dashboard requests, one termination, expirations at any time.
CONSTANTS
  Executions = {e1}
  Callers = {p1}
  Resolvers = {o1, o2}
  Terminators = {t1}
  Containers = {c1, c2, c3}
  NoExecution = NoExecution
  NoContainer = NoContainer
  MaxFaults = 1
SYMMETRY Interchangeable
SPECIFICATION Spec
INVARIANTS
  NothingRunsUnapproved
  RunsOnceForEachHolder
  ApprovalAgreesAtRest
PROPERTIES
  ImplementsGate
CHECK_DEADLOCK FALSE

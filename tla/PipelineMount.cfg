\* Two pipelines over one mount point, two faults of any kind.
SPECIFICATION Spec
CONSTANTS
  Pipelines = {p1, p2}
  MaxFaults = 2
INVARIANTS
  WorksOnOwnMount
  NothingLeftBehind
  SuccessIsComplete
PROPERTIES
  UnmountsOnlyOwn
  ImplementsLock
\* Every pipeline ends.
CHECK_DEADLOCK FALSE

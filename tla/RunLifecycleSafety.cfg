\* One run, two workers, cancel requests, a deletion, a crash and a failing query.
SPECIFICATION Spec
SYMMETRY Symmetry
CONSTANTS
  Runs = {r1}
  Workers = {w1, w2}
  Cancellers = {c1}
  NoWorker = NoWorker
  N = 2
  AutoPkg = 2
  MaxCrashes = 1
  MaxDbErrors = 1
INVARIANTS
  NoOrphanRun
  NoOrphanTask
  RunAndTaskAgree
  NoOpenStageAfterThread
PROPERTIES CancelledStays ImplementsRecord
\* No more runs can be triggered: the bounded instance comes to an end.
CHECK_DEADLOCK FALSE

\* Two triggers in one worker, no faults.
SPECIFICATION Spec
CONSTANTS
  Runs = {r1, r2}
  Workers = {w1}
  Cancellers = {}
  NoWorker = NoWorker
  N = 1
  AutoPkg = 1
  MaxCrashes = 0
  MaxDbErrors = 0
INVARIANT OneActiveRun
\* No more runs can be triggered: the bounded instance comes to an end.
CHECK_DEADLOCK FALSE

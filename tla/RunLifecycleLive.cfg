\* Under fairness, with one worker and two overlapping cancel requests: cancelled runs
\* are signalled and stop, active runs settle.
SPECIFICATION FairSpec
CONSTANTS
  Runs = {r1}
  Workers = {w1}
  Cancellers = {c1, c2}
  NoWorker = NoWorker
  N = 2
  AutoPkg = 2
  MaxCrashes = 1
  MaxDbErrors = 0
INVARIANTS
  SingleWorkerCancelledIsSignalled
  SignalStopsPipeline
PROPERTY RunsSettle
\* No more runs can be triggered: the bounded instance comes to an end.
CHECK_DEADLOCK FALSE

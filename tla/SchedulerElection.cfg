\* Two workers, two requests at a time, one crash or failed query.
SPECIFICATION SchedulerSpec
CONSTANTS
  Workers = {w1, w2}
  Requests = {r1, r2}
  Crons = {c1}
  Off = Off
  Invalid = Invalid
  NoWorker = NoWorker
  NoJob = NoJob
  MaxFaults = 1
INVARIANTS
  SchedulerTypeOK
  EnabledIsCovered
  HolderFires
PROPERTY LockIsTakenAgain

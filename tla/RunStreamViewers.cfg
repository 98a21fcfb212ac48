\* One worker and one viewer; the broadcaster can expire and be replaced, and
\* two of its polls, connections or requests fail.
SPECIFICATION StreamSpec
CONSTANTS
  Workers = {w1}
  Viewers = {v1}
  NoWorker = NoWorker
  MaxLogs = 2
  MaxStages = 1
  MaxFaults = 2
INVARIANTS
  StreamTypeOK
  CompleteIsComplete
  NoGap
PROPERTIES
  SeesTheEnd
  ImplementsView
\* The run is over and everybody has seen it.
CHECK_DEADLOCK FALSE

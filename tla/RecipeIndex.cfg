SPECIFICATION FairSpec
CONSTANTS
  Workers = {w1, w2}
  Fetches = {f1, f2}
  NoWorker = NoWorker
  MaxVersions = 2
  MaxFaults = 2
INVARIANTS OneFetch
PROPERTIES NeverOlder SearchIsAnswered

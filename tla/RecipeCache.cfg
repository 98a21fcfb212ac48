SPECIFICATION FairSpec
CONSTANTS
  P = P
  s = s
  t = t
  A = A
  B = B
  X = X
  NoParent = NoParent
  Files <- MCFiles
  OverrideFiles <- MCOverrides
  Threads = {r1, r2}
  MaxChanges = 1
  MaxFaults = 1
INVARIANTS OneBuild CacheMatchesDisk
PROPERTIES SaveAppliesClicks PageIsAnswered

CONSTANTS
  Tables = {t1, t2}
  Writers = {w1, w2}
  Readers = {c1}
  Ops = {"mutate"}
  Age = 0
  Limit = 1
  BatchSize = 1
  MaxBatches = 1
  MaxRows = 1
  MaxSeq = 3
  MaxClock = 0
SPECIFICATION FairSpec
INVARIANTS FollowerComplete
PROPERTIES NoLateCommit OnceInOrder EveryChangeArrives
CHECK_DEADLOCK FALSE

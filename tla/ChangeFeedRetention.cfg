CONSTANTS
  Tables = {t1}
  Writers = {w1, w2}
  Readers = {c1}
  Ops = {"mutate", "lifecycle"}
  Age = 1
  Limit = 1
  BatchSize = 1
  MaxBatches = 2
  MaxRows = 2
  MaxSeq = 2
  MaxClock = 2
SYMMETRY WriterSymmetry
SPECIFICATION Spec
INVARIANTS FeedInv GapReported
PROPERTIES ImplementsChangeLog
CHECK_DEADLOCK FALSE

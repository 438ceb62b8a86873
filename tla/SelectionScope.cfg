\* Two requests compete for one scope; a client reads it Record by Record.
\* The clock and the Changes are bounded, so that the model may stop.
CHECK_DEADLOCK FALSE
SPECIFICATION Spec
CONSTANTS
  Records = {1, 2}
  Values <- SmallValues
  Filters <- TwoFilters
  Requests = {q1, q2}
  Readers = {c1}
  Writes = {"record", "view", "viewLife", "field", "convert", "table"}
  TTL = 1
  ScopeLimit = 1
  RequestLimit = 1
  MemberLimit = 2
  TotalLimit = 2
  CleanupLimit = 1
  MaxClock = 1
  MaxTail = 2
  None = None
  Void = Void
SYMMETRY Symmetry
INVARIANTS ScopesInv ValidIsTrue
PROPERTIES ReadingComplete ImplementsFixedSelection

SPECIFICATION Spec
CONSTANTS
  Workspaces = {1, 2, 3}
  Bases = {4, 5, 6}
  Tables = {7, 8, 9}
  Records = {10, 11}
  Names = {"A", "B"}
  s1 = s1
  s2 = s2
  k1 = k1
  k2 = k2
  None = None
  Slots = {s1, s2}
  Keys = {k1, k2}
  WorkspaceLimit = 3
  BaseLimit = 2
  TableLimit = 3
  MaxNumber = 4
  PageLimit = 1
SYMMETRY MCSymmetry
INVARIANTS AuditComplete HistoryMeetsFeed SnapshotsChain ChangesAssociated CreatedOnce
\* A behaviour ends when its numbers are drawn and retention has removed everything.
CHECK_DEADLOCK FALSE

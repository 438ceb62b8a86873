\* Pages of one Record and a resolution of a quarter of a step, so that ties occur.
SPECIFICATION Spec
CONSTANTS
  Records = {1, 2, 3}
  Step = 4
  PageSize = 1
  Readers = {c1}
  MaxTail = 3
  None = None
INVARIANTS PagesAndChangesComplete PlacedAsAsked

\* Two requests on two connections; receipts expire and an Option is dropped.
SPECIFICATION Spec
CONSTANTS
  r1 = r1
  r2 = r2
  r3 = r3
  Records = {r1, r2, r3}
  Existing = {r1}
  Names = {"a", "b"}
  Keys = {"k1", "k2"}
  Intents <- WriterIntents
  Handlers = {h1, h2}
  Editors = {e1}
  EditorOps = {"drop"}
  Reuse = FALSE
  Expiry = TRUE
  ActiveLimit = 2
  TotalLimit = 3
  MaxOption = 3
  MaxRev = 3
  MaxDone = 2
\* Clients stop at the bounds.
CHECK_DEADLOCK FALSE
SYMMETRY HandlerSymmetry
INVARIANTS MutationInv RevisionsHaveChanges OptionNamesUnique ConflictIsFinal
PROPERTIES ImplementsMutationLog

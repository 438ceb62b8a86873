\* One client, which reuses its key, against every edit of the Field.
SPECIFICATION Spec
CONSTANTS
  r1 = r1
  r2 = r2
  r3 = r3
  Records = {r1, r2}
  Existing = {r1}
  Names = {"a", "b", "c"}
  Keys = {"k1"}
  Intents <- OptionIntents
  Handlers = {h1}
  Editors = {e1}
  EditorOps = {"add", "drop", "revive", "deleteField", "restoreField", "toggleTable"}
  Reuse = TRUE
  Expiry = TRUE
  ActiveLimit = 2
  TotalLimit = 3
  MaxOption = 4
  MaxRev = 3
  MaxDone = 2
\* Clients stop at the bounds.
CHECK_DEADLOCK FALSE
INVARIANTS ValuesHaveOptions AppliedOnce AppliedIsTrue

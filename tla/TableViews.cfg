\* Two requests with a key and a client with others in flight; of three
\* identities for Views only two may be used.
SPECIFICATION Spec
CONSTANTS
  Views = {v1, v2, v3}
  Clients = {c1}
  Keys = {k1, k2}
  Handlers = {h1}
  Edits = {"update", "delete", "restore", "default", "create", "reorder", "field", "table", "expire"}
  ViewLimit = 2
  MaxChanges = 3
  None = None
SYMMETRY Symmetry
INVARIANTS ViewsInv ReorderReplayed
PROPERTIES WrittenAsSeen

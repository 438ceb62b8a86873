SPECIFICATION Spec
CONSTANTS
  m1 = m1
  m2 = m2
  o1 = o1
  o2 = o2
  v1 = v1
  v2 = v2
  None = None
  Migrators = {m1, m2}
  Operators = {o1, o2}
  Servers = {v1, v2}
  Files = 2
  Checked = {2}
  Names = {"A"}
  MaxSecrets = 3
SYMMETRY MCSymmetry
INVARIANTS ReadyIsMigrated OneActor ShownSecretsWork NamesUnique CursorKeyShared

--------------------------- MODULE MCInstallation ---------------------------
EXTENDS Installation
CONSTANTS m1, m2, o1, o2, v1, v2
MCSymmetry == Permutations(Migrators) \cup Permutations(Operators) \cup Permutations(Servers)
=============================================================================

---------------------------- MODULE MCTableAudit ----------------------------
EXTENDS TableAudit
CONSTANTS s1, s2, k1, k2
MCSymmetry == Permutations(Slots) \cup Permutations(Keys)
=============================================================================

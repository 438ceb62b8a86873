-------------------------- MODULE MCSelectionScope --------------------------
(* SelectionScope on small instances: a filter that one of two values        *)
(* matches, and none.                                                        *)
EXTENDS SelectionScope, TLC

SmallValues == 0 .. 1

TwoFilters == {{1}, SmallValues}

Symmetry == Permutations(Requests) \cup Permutations(Readers)
=============================================================================

---------------------------- MODULE MCTableViews ----------------------------
(* TableViews on small instances; what clients may do is chosen per run.    *)
EXTENDS TableViews, TLC

Symmetry ==
  Permutations(Views) \cup Permutations(Clients) \cup Permutations(Keys) \cup Permutations(Handlers)
=============================================================================

---------------------------- MODULE MCChangeFeed ----------------------------
(* Small instances of ChangeFeed for TLC. *)
EXTENDS ChangeFeed, TLC

(* Writers are interchangeable: no property names one. *)
WriterSymmetry == Permutations(Writers)
=============================================================================

---------------------------- MODULE MCFieldValues ----------------------------
(* FieldValues on two Records: a word in two cases, a numeral and a date; "10" *)
(* is there for instances with two numerals, whose order as text is not their *)
(* order as numbers.                                                          *)
EXTENDS FieldValues

MCFoldWord == [w \in Words |-> IF w = "Red" THEN "red" ELSE w]
MCRank(a) ==
    CASE a = "10" -> 0 [] a = "9" -> 1 [] a = "Red" -> 2 [] a = "day" -> 3 [] a = "red" -> 4
      [] a = "o1" -> 5 [] a = "o2" -> 6 [] a = "o3" -> 7
MCTextKey(atoms) == FoldLeft(LAMBDA key, a : 10 * key + MCRank(a) + 1, 0, atoms)
MCNumberRank == [n \in Numerals |-> IF n = "9" THEN 9 ELSE 10]
=============================================================================

--------------------------- MODULE MCRecordOrder ---------------------------
(* RecordOrder on small instances: Records are 1, 2, ... *)
EXTENDS RecordOrder, TLC
=============================================================================

-------------------------- MODULE MCRecordMutation --------------------------
(* RecordMutation on small sets, with the requests its clients make.        *)
EXTENDS RecordMutation, TLC

CONSTANTS r1, r2, r3

Cmd(kind, target, how, name, option) ==
  [kind |-> kind, target |-> target, how |-> how, name |-> name, option |-> option]

(* Two Records get one draft Option in one request; a value is removed; a    *)
(* creation that no Revision protects from being applied again; a request    *)
(* whose second command may fail after the first has written.                *)
WriterIntents ==
  {<<Cmd("update", r1, "draft", "b", 1), Cmd("create", r1, "draft", "b", 1)>>,
   <<Cmd("update", r1, "unset", "a", 1)>>,
   <<Cmd("create", r1, "pick", "a", 1)>>,
   <<Cmd("create", r1, "none", "a", 1), Cmd("delete", r1, "none", "a", 1)>>}

(* Drafts, known and deleted Options and plain values for a Record that      *)
(* comes and goes.                                                           *)
OptionIntents ==
  {<<Cmd("update", r1, "draft", "b", 1)>>,
   <<Cmd("update", r1, "pick", "a", 1), Cmd("create", r1, "draft", "c", 1)>>,
   <<Cmd("update", r1, "set", "a", 2)>>,
   <<Cmd("delete", r1, "none", "a", 1)>>,
   <<Cmd("restore", r1, "none", "a", 1)>>}

HandlerSymmetry == Permutations(Handlers)
=============================================================================

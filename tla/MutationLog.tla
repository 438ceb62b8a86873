----------------------------- MODULE MutationLog -----------------------------
(***************************************************************************)
(* What Record mutation promises: requests take effect one after another,  *)
(* each of them whole, with the effect its commands describe on the state  *)
(* that it finds.  Nothing else changes a Record; edits of the Field never *)
(* lose an Option.                                                         *)
(***************************************************************************)
EXTENDS Integers, Sequences

CONSTANTS Records, Keys

VARIABLES
  rows,   \* the Records: revision (0 for none), value, deleted
  field,  \* the Select Field: revision, active and deleted Options, deleted
  log     \* for each key, the requests that took effect under it

Ids(options) == {o.id : o \in options}

Init ==
  /\ \A r \in Records : rows[r].rev \in {0, 1}
  /\ log = [k \in Keys |-> <<>>]

UsesChoices(body) == \E i \in DOMAIN body.commands : body.commands[i].how \in {"draft", "pick"}

(* Exactly the draft names that no active Option has become Options, once   *)
(* each, and then the Revision moves by one.                                *)
OptionsOf(body) ==
  LET drafts == {c \in {body.commands[i] : i \in DOMAIN body.commands} : c.how = "draft"}
      made   == field'.options \ field.options
      missing == {d.name : d \in drafts} \ {o.name : o \in field.options}
  IN  /\ UsesChoices(body) => field.rev = body.fieldRev /\ ~field.deleted
      /\ {o.name : o \in made} = missing
      /\ \A o, p \in made : o.name = p.name => o = p
      /\ Ids(made) \cap Ids(field.options \cup field.dropped) = {}
      /\ field' = [field EXCEPT !.options = field.options \cup made,
                                !.rev = IF made = {} THEN field.rev ELSE field.rev + 1]

(* The value v that a command gives to a Record which had the value old. *)
MeansValue(cmd, old, v) ==
  /\ cmd.how = "draft" => \E o \in field'.options : o.name = cmd.name /\ o.id = v
  /\ cmd.how \in {"pick", "set"} =>
       /\ v = cmd.option
       /\ v \in Ids(field'.options) \/ (v = old /\ v \in Ids(field'.dropped))
  /\ cmd.how \in {"set", "unset"} => ~field.deleted
  /\ cmd.how = "unset" => v = 0
  /\ cmd.how = "none" => v = old

Changed(row, v, deleted) == [rev |-> row.rev + 1, value |-> v, deleted |-> deleted]

MeansCommand(cmd, out) ==
  LET before == rows[out.record]
      after  == rows'[out.record]
  IN  /\ out.rev = after.rev
      /\ out.status = IF after = before THEN "unchanged" ELSE "applied"
      /\ cmd.kind # "create" => out.record = cmd.target /\ before.rev = cmd.rev /\ before.rev > 0
      /\ MeansValue(cmd, before.value, after.value)
      /\ \/ /\ cmd.kind = "create" /\ before.rev = 0
            /\ after = Changed(before, after.value, FALSE)
         \/ /\ cmd.kind = "update" /\ ~before.deleted
            /\ after \in {before, Changed(before, after.value, FALSE)}
            /\ after.value = before.value => after = before
         \/ cmd.kind = "delete" /\ ~before.deleted /\ after = Changed(before, before.value, TRUE)
         \/ cmd.kind = "restore" /\ before.deleted /\ after = Changed(before, before.value, FALSE)

Accept(k, entry) ==
  LET cmds == entry.body.commands
      outs == entry.result
  IN  /\ log' = [log EXCEPT ![k] = Append(log[k], entry)]
      /\ OptionsOf(entry.body)
      /\ DOMAIN outs = DOMAIN cmds
      /\ \A i \in DOMAIN cmds : MeansCommand(cmds[i], outs[i])
      /\ \A i, j \in DOMAIN cmds : outs[i].record = outs[j].record => i = j
      /\ \A r \in Records : rows'[r] # rows[r] => \E i \in DOMAIN cmds : outs[i].record = r

EditField ==
  /\ field'.rev = field.rev + 1
  /\ Ids(field.options \cup field.dropped) \subseteq Ids(field'.options \cup field'.dropped)
  /\ UNCHANGED <<rows, log>>

Newest(k) == log'[k][Len(log'[k])]

Next ==
  \/ \E k \in Keys : log'[k] # <<>> /\ Accept(k, Newest(k))
  \/ EditField

Spec == Init /\ [][Next]_<<rows, field, log>>

=============================================================================

--------------------------- MODULE FixedSelection ---------------------------
(***************************************************************************)
(* What a selection scope promises: it is a set of Records that was fixed  *)
(* when it was taken, it may be used as long as just these Records match   *)
(* its query, and once they do not it is void and is never valid again.    *)
(***************************************************************************)
CONSTANTS
  Requests,  \* identities that a client selects under
  None,      \* no selection, one whose time is over, or no truth
  Void       \* a selection that may no longer be used

VARIABLES
  truth,     \* what the query of each request selects now
  selection  \* what each request has selected

fixedVars == <<truth, selection>>

FixedInit == truth = [q \in Requests |-> None] /\ selection = [q \in Requests |-> None]

Usable(q) == selection[q] \notin {None, Void}

(* The data, the Fields, the View or the Table changes: a selection becomes *)
(* void in the same step if, and only if, it is not the truth any more.     *)
Change ==
  /\ DOMAIN truth' = Requests
  /\ selection' = [q \in Requests |-> IF Usable(q) /\ truth'[q] # selection[q] THEN Void ELSE selection[q]]

(* Selections of old are forgotten when a new one is taken. *)
Take(q) ==
  /\ selection[q] = None /\ truth[q] # None
  /\ \E old \in SUBSET {p \in Requests : selection[p] = Void} :
       selection' = [p \in Requests |-> IF p = q THEN truth[q] ELSE IF p \in old THEN None ELSE selection[p]]
  /\ UNCHANGED truth

(* Time runs out, or what is void is forgotten. *)
Fade ==
  /\ \E ended \in SUBSET {q \in Requests : selection[q] # None} :
       selection' = [q \in Requests |-> IF q \in ended THEN None ELSE selection[q]]
  /\ UNCHANGED truth

FixedSpec == FixedInit /\ [][Change \/ Fade \/ \E q \in Requests : Take(q)]_fixedVars
=============================================================================

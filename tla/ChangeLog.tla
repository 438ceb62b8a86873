----------------------------- MODULE ChangeLog ------------------------------
(***************************************************************************)
(* What the Change feed promises: one log per Table that only grows at its *)
(* end, a horizon below which it may be forgotten, and positions handed to *)
(* clients that no later entry ever falls behind.                          *)
(***************************************************************************)
EXTENDS Integers

CONSTANTS Tables, Readers

VARIABLES
  log,      \* entries published so far for each Table
  horizon,  \* greatest entry each Table may have forgotten
  held,     \* position of each client: its Table and the entry it is at
  seen      \* entries each client was given since it started

vars == <<log, horizon, held, seen>>

Nowhere == [table |-> "none", seq |-> 0]

Init ==
  /\ log = [t \in Tables |-> {}]
  /\ horizon = [t \in Tables |-> 0]
  /\ held = [c \in Readers |-> Nowhere]
  /\ seen = [c \in Readers |-> {}]

(* New entries follow everything published and every position held. *)
Append(t) ==
  /\ log[t] \subseteq log'[t]
  /\ \A s \in log'[t] \ log[t] :
       /\ \A r \in log[t] : r < s
       /\ \A c \in Readers : held[c].table = t => held[c].seq < s
  /\ \A u \in Tables \ {t} : log'[u] = log[u]
  /\ UNCHANGED <<horizon, held, seen>>

(* Only published entries are forgotten, and a horizon never comes back. *)
Forget ==
  /\ \A t \in Tables :
       /\ horizon[t] <= horizon'[t]
       /\ horizon'[t] \in {horizon[t]} \cup log[t]
  /\ UNCHANGED <<log, held, seen>>

OthersUnchanged(c) ==
  /\ \A d \in Readers \ {c} : held'[d] = held[d] /\ seen'[d] = seen[d]
  /\ UNCHANGED <<log, horizon>>

(* A client starts at any position of a log, or gives its position up. *)
Start(c) ==
  /\ \/ held'[c] = Nowhere
     \/ \E t \in Tables : \E n \in {0} \cup log[t] : held'[c] = [table |-> t, seq |-> n]
  /\ seen'[c] = {}
  /\ OthersUnchanged(c)

(* From its position a client moves to a later entry, and is given every    *)
(* entry it passes that is not forgotten.                                   *)
Advance(c) ==
  /\ held[c].table \in Tables
  /\ LET t == held[c].table
         n == held'[c].seq
         passed == {s \in log[t] : held[c].seq < s /\ s <= n}
     IN  /\ held'[c].table = t
         /\ held[c].seq <= n
         /\ n \in {held[c].seq} \cup log[t]
         /\ {s \in passed : horizon[t] < s} \subseteq seen'[c]
         /\ seen[c] \subseteq seen'[c]
         /\ seen'[c] \subseteq seen[c] \cup passed
  /\ OthersUnchanged(c)

Next ==
  \/ \E t \in Tables : Append(t)
  \/ Forget
  \/ \E c \in Readers : Start(c) \/ Advance(c)

Spec == Init /\ [][Next]_vars
=============================================================================

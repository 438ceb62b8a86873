------------------------ MODULE RecordMutationProofs -------------------------
(***************************************************************************)
(* Theorems about RecordMutation, for every value of its constants.        *)
(*                                                                         *)
(* A handler's step is Quiet (it changes nobody but itself, in one of the  *)
(* ways Moves lists), a Commit or a Deliver; so each group of invariants   *)
(* is proved for these three, for Compose, Expire and the editors: types   *)
(* and budgets, locks, receipts, and the history of Change rows.           *)
(*                                                                         *)
(* The second half keeps account of what a transaction has done (WorkTrue):*)
(* which Options it has resolved and created, and the effect of each       *)
(* command so far.  At Commit that account is what MutationLog describes;  *)
(* with it go the Revisions that make a refusal final (Sound, Hopeless,    *)
(* Later).                                                                 *)
(***************************************************************************)
EXTENDS RecordMutation, FiniteSetTheorems, SequenceTheorems, TLAPS

-----------------------------------------------------------------------------
(* Types of the operators. *)

Loop == {"resolve", "apply"}

LEMMA IdleHandlerType == IdleHandler \in HandlerState
<1>1. NoKey \in Keys
  BY MutationAssumption DEF NoKey
<1>2. NoBody \in Body
  BY DEF NoBody, Body
<1>3. NoField \in Field
  BY DEF NoField, Field
<1>4. [r \in Records |-> NoRow] \in [Records -> Row]
  BY DEF NoRow, Row
<1>5. <<>> \in Seq({0} \cup Option) /\ <<>> \in Result
  BY DEF Result
<1> QED BY <1>1, <1>2, <1>3, <1>4, <1>5 DEF IdleHandler, HandlerState, Answers

(* One field of a handler changed to another value of its type. *)
LEMMA OneFieldType ==
  ASSUME NEW x \in HandlerState
  PROVE  /\ \A v \in Loop : [x EXCEPT !.pc = v] \in HandlerState
         /\ \A v \in Nat \ {0} : [x EXCEPT !.next = v] \in HandlerState
         /\ \A v \in Field : [x EXCEPT !.field = v] \in HandlerState
         /\ \A v \in Seq({0} \cup Option) : [x EXCEPT !.picked = v] \in HandlerState
         /\ \A v \in [Records -> Row] : [x EXCEPT !.rows = v] \in HandlerState
         /\ \A v \in SUBSET ChangeRow : [x EXCEPT !.log = v] \in HandlerState
         /\ \A v \in Result : [x EXCEPT !.result = v] \in HandlerState
<1>1. \A v \in Loop : [x EXCEPT !.pc = v] \in HandlerState
  BY DEF HandlerState, Loop
<1>2. \A v \in Nat \ {0} : [x EXCEPT !.next = v] \in HandlerState
  BY DEF HandlerState
<1>3. \A v \in Field : [x EXCEPT !.field = v] \in HandlerState
  BY DEF HandlerState
<1>4. \A v \in Seq({0} \cup Option) : [x EXCEPT !.picked = v] \in HandlerState
  BY DEF HandlerState
<1>5. \A v \in [Records -> Row] : [x EXCEPT !.rows = v] \in HandlerState
  BY DEF HandlerState
<1>6. \A v \in SUBSET ChangeRow : [x EXCEPT !.log = v] \in HandlerState
  BY DEF HandlerState
<1>7. \A v \in Result : [x EXCEPT !.result = v] \in HandlerState
  BY DEF HandlerState
<1> QED BY <1>1, <1>2, <1>3, <1>4, <1>5, <1>6, <1>7

LEMMA CurrentType ==
  ASSUME TypeOK, NEW h \in Handlers, handler[h].next <= Len(handler[h].body.commands)
  PROVE  Current(h) \in Command
<1>1. handler[h].next \in Nat \ {0} /\ handler[h].body.commands \in Seq(Command)
  BY DEF TypeOK, HandlerState, Body
<1> QED BY <1>1 DEF Current

LEMMA SeenType ==
  ASSUME TypeOK, NEW h \in Handlers, NEW r \in Records
  PROVE  Seen(h, r) \in Row
BY DEF TypeOK, HandlerState, Seen

LEMMA ChangeOfType ==
  ASSUME TypeOK, NEW h \in Handlers, NEW x \in Records \cup {"field"}, NEW n \in Nat
  PROVE  ChangeOf(h, x, n) \in ChangeRow
BY DEF TypeOK, HandlerState, ChangeOf, ChangeRow

(* A new Option within the budget leaves the Field within it. *)
LEMMA OneMoreOption ==
  ASSUME MutationAssumption, NEW f \in Field, WithinBudget(f), ~OverBudget(f), NEW o \in NamedOption
  PROVE  /\ [f EXCEPT !.options = f.options \cup {o}] \in Field
         /\ WithinBudget([f EXCEPT !.options = f.options \cup {o}])
<1> DEFINE g == [f EXCEPT !.options = f.options \cup {o}]
<1>1. g \in Field /\ g.options = f.options \cup {o} /\ g.dropped = f.dropped
  BY DEF Field
<1>2. IsFiniteSet(f.options \cup f.dropped) /\ IsFiniteSet(f.options)
  BY FS_Subset DEF WithinBudget
<1>3. Cardinality(f.options) \in Nat /\ Cardinality(f.options \cup f.dropped) \in Nat
  BY <1>2, FS_CardinalityType
<1>4. /\ IsFiniteSet(f.options \cup {o})
      /\ Cardinality(f.options \cup {o}) \in
           {Cardinality(f.options), Cardinality(f.options) + 1}
  BY <1>2, FS_AddElement
<1>5. g.options \cup g.dropped = (f.options \cup f.dropped) \cup {o}
  BY <1>1
<1>6. /\ IsFiniteSet(g.options \cup g.dropped)
      /\ Cardinality(g.options \cup g.dropped) \in
           {Cardinality(f.options \cup f.dropped), Cardinality(f.options \cup f.dropped) + 1}
  BY <1>2, <1>5, FS_AddElement
<1>7. Cardinality(f.options) < ActiveLimit /\ Cardinality(f.options \cup f.dropped) < TotalLimit
  BY <1>3, MutationAssumption DEF OverBudget
<1>8. Cardinality(g.options) <= ActiveLimit /\ Cardinality(g.options \cup g.dropped) <= TotalLimit
  BY <1>1, <1>3, <1>4, <1>6, <1>7, MutationAssumption
<1> QED BY <1>1, <1>6, <1>8 DEF WithinBudget

(* An Option that is dropped or revived is still counted. *)
LEMMA MovedOption ==
  ASSUME NEW f \in Field, WithinBudget(f), NEW g \in Field,
         g.options \cup g.dropped = f.options \cup f.dropped,
         Cardinality(g.options) <= ActiveLimit
  PROVE  WithinBudget(g)
BY DEF WithinBudget

-----------------------------------------------------------------------------
(* What a step of a handler is about.  Every step but Commit and Deliver    *)
(* replaces the handler's own state, h, by some r in one of these ways.     *)

SameRequest(h, r) == r.key = handler[h].key /\ r.body = handler[h].body

SameWrites(h, r) == r.log = handler[h].log /\ r.rows = handler[h].rows

Moves(h, r) ==
  \/ r.pc = "idle"
  \/ r.pc = "begun" /\ r.log = {} /\ \A x \in Records : r.rows[x] = NoRow
  \/ r.pc = "answer" /\ r.answer \notin {"applied", "expired"}
  \/ /\ handler[h].pc = "begun" /\ r.pc = "actor"
     /\ SameRequest(h, r) /\ SameWrites(h, r)
     /\ \A g \in Handlers : ~HoldsActor(g)
  \/ /\ handler[h].pc = "actor" /\ r.pc = "answer" /\ r.answer = "applied"
     /\ SameRequest(h, r)
     /\ receipt[r.key].kept /\ receipt[r.key].body = r.body /\ receipt[r.key].result = r.result
  \/ /\ handler[h].pc = "actor" /\ r.pc = "unseen"
     /\ SameRequest(h, r) /\ SameWrites(h, r)
     /\ ~receipt[r.key].kept
  \/ /\ handler[h].pc = "unseen" /\ r.pc = "answer" /\ r.answer = "expired"
     /\ SameRequest(h, r)
     /\ guard[r.key].kept /\ guard[r.key].body = r.body
  \/ /\ handler[h].pc = "unseen" /\ r.pc = "fresh"
     /\ SameRequest(h, r) /\ SameWrites(h, r)
     /\ ~guard[r.key].kept
  \/ /\ handler[h].pc = "fresh" /\ r.pc = "table"
     /\ SameRequest(h, r) /\ SameWrites(h, r)
     /\ TableFree
  \/ /\ handler[h].pc = "table" /\ r.pc \in Loop
     /\ SameRequest(h, r) /\ SameWrites(h, r)
     /\ r.field = field
  \/ /\ handler[h].pc \in Loop /\ r.pc \in Loop
     /\ SameRequest(h, r) /\ SameWrites(h, r)
     /\ r.field.rev = handler[h].field.rev
  \/ /\ handler[h].pc = "resolve" /\ r.pc = "apply"
     /\ SameRequest(h, r) /\ r.rows = handler[h].rows
     /\ r.field.rev = handler[h].field.rev + 1
     /\ r.log = handler[h].log \cup {ChangeOf(h, "field", r.field.rev)}
  \/ /\ handler[h].pc = "apply" /\ r.pc = "apply"
     /\ SameRequest(h, r) /\ r.field = handler[h].field
     /\ \E x \in Records, row \in Row :
          /\ row.rev = Seen(h, x).rev + 1
          /\ r.rows = [handler[h].rows EXCEPT ![x] = row]
          /\ r.log = handler[h].log \cup {ChangeOf(h, x, row.rev)}

Quiet(h) ==
  /\ OnlyHandler
  /\ \E r \in HandlerState :
       /\ Update(h, r) /\ Moves(h, r)
       /\ r.pc \in Loop => WithinBudget(r.field)

(* The premises of the lemmas about one handler. *)
Typed(h) == TypeOK /\ WorkWithinBudget /\ h \in Handlers

LEMMA RejectQuiet ==
  ASSUME NEW h, Typed(h), NEW code \in Answers \ {"applied", "expired"},
         Reject(h, code), OnlyHandler
  PROVE  Quiet(h)
<1> DEFINE r == [IdleHandler EXCEPT !.pc = "answer", !.key = handler[h].key,
                                    !.body = handler[h].body, !.answer = code]
<1>1. handler[h] \in HandlerState
  BY DEF Typed, TypeOK
<1>2. r \in HandlerState /\ r.pc = "answer" /\ r.answer = code
  BY <1>1, IdleHandlerType DEF HandlerState
<1>3. Update(h, r)
  BY DEF Reject
<1> HIDE DEF r
<1> QED BY <1>2, <1>3 DEF Quiet, Moves, Loop

LEMMA ReplayQuiet ==
  ASSUME NEW h, Typed(h), BeginTx(h) \/ Replay(h) \/ LockTable(h) \/ Abort(h) \/ LoseAnswer(h)
  PROVE  Quiet(h)
<1> USE DEF Typed
<1>0. handler[h] \in HandlerState
  BY DEF TypeOK
<1>1. CASE BeginTx(h)
  <2>1. PICK k \in Keys :
          Update(h, [IdleHandler EXCEPT !.pc = "begun", !.key = k, !.body = request[k]])
    BY <1>1 DEF BeginTx
  <2> DEFINE r == [IdleHandler EXCEPT !.pc = "begun", !.key = k, !.body = request[k]]
  <2>2. r \in HandlerState /\ r.pc = "begun"
    BY IdleHandlerType DEF HandlerState, TypeOK
  <2>3. r.log = {} /\ \A x \in Records : r.rows[x] = NoRow
    BY DEF IdleHandler
  <2>4. Update(h, r)
    BY <2>1
  <2> HIDE DEF r
  <2> QED BY <1>1, <2>2, <2>3, <2>4 DEF BeginTx, Quiet, Moves, Loop
<1>2. CASE LockActor(h)
  <2> DEFINE r == [handler[h] EXCEPT !.pc = "actor"]
  <2>1. r \in HandlerState /\ r.pc = "actor" /\ SameRequest(h, r) /\ SameWrites(h, r)
    BY <1>0 DEF HandlerState, SameRequest, SameWrites
  <2>2. Update(h, r) /\ handler[h].pc = "begun" /\ \A g \in Handlers : ~HoldsActor(g)
    BY <1>2 DEF LockActor
  <2> HIDE DEF r
  <2> QED BY <1>2, <2>1, <2>2 DEF LockActor, Quiet, Moves, Loop
<1>3. CASE ReadReceipt(h)
  <2> DEFINE k == handler[h].key
             found == receipt[k]
             r == [IdleHandler EXCEPT !.pc = "answer", !.key = k,
                                      !.body = handler[h].body, !.result = found.result]
             s == [handler[h] EXCEPT !.pc = "unseen"]
  <2>0. k \in Keys /\ found \in [kept : BOOLEAN, body : Body, result : Result]
    BY <1>0 DEF HandlerState, TypeOK
  <2>1. CASE found.kept /\ found.body = handler[h].body /\ Update(h, r)
    <3>1. /\ r \in HandlerState /\ r.pc = "answer" /\ SameRequest(h, r)
          /\ r.key = k /\ r.body = handler[h].body /\ r.result = found.result
      BY <1>0, <2>0, IdleHandlerType DEF HandlerState, SameRequest
    <3>2. r.answer = "applied"
      BY DEF IdleHandler
    <3>3. handler[h].pc = "actor"
      BY <1>3 DEF ReadReceipt
    <3> HIDE DEF r
    <3> QED BY <1>3, <2>1, <3>1, <3>2, <3>3 DEF ReadReceipt, Quiet, Moves, Loop
  <2>2. CASE Reject(h, "reused")
    BY <1>3, <2>2, RejectQuiet DEF ReadReceipt, Answers
  <2>3. CASE ~found.kept /\ Update(h, s)
    <3>1. s \in HandlerState /\ s.pc = "unseen" /\ SameRequest(h, s) /\ SameWrites(h, s) /\ s.key = k
      BY <1>0 DEF HandlerState, SameRequest, SameWrites
    <3>2. handler[h].pc = "actor"
      BY <1>3 DEF ReadReceipt
    <3> HIDE DEF s
    <3> QED BY <1>3, <2>3, <3>1, <3>2 DEF ReadReceipt, Quiet, Moves, Loop
  <2> QED BY <1>3, <2>1, <2>2, <2>3 DEF ReadReceipt
<1>4. CASE ReadGuard(h)
  <2> DEFINE k == handler[h].key
             r == [IdleHandler EXCEPT !.pc = "answer", !.key = k,
                                      !.body = handler[h].body, !.answer = "expired"]
             s == [handler[h] EXCEPT !.pc = "fresh"]
  <2>1. CASE guard[k].kept /\ guard[k].body = handler[h].body
    <3>1. /\ r \in HandlerState /\ r.pc = "answer" /\ r.answer = "expired"
          /\ r.key = k /\ r.body = handler[h].body
      BY <1>0, IdleHandlerType DEF HandlerState, Answers
    <3>2. handler[h].pc = "unseen" /\ Update(h, r)
      BY <1>4, <2>1 DEF ReadGuard, Reject
    <3>3. SameRequest(h, r)
      BY <3>1 DEF SameRequest
    <3> HIDE DEF r
    <3> QED BY <1>4, <2>1, <3>1, <3>2, <3>3 DEF ReadGuard, Quiet, Moves, Loop
  <2>2. CASE guard[k].kept /\ guard[k].body # handler[h].body
    <3>1. Reject(h, "reused")
      BY <1>4, <2>2 DEF ReadGuard
    <3> QED BY <1>4, <3>1, RejectQuiet DEF ReadGuard, Answers
  <2>3. CASE ~guard[k].kept
    <3>1. s \in HandlerState /\ s.pc = "fresh" /\ SameRequest(h, s) /\ SameWrites(h, s) /\ s.key = k
      BY <1>0 DEF HandlerState, SameRequest, SameWrites
    <3>2. handler[h].pc = "unseen" /\ Update(h, s)
      BY <1>4, <2>3 DEF ReadGuard
    <3> HIDE DEF s
    <3> QED BY <1>4, <2>3, <3>1, <3>2 DEF ReadGuard, Quiet, Moves, Loop
  <2> QED BY <2>1, <2>2, <2>3
<1>5. CASE LockTable(h)
  <2> DEFINE s == [handler[h] EXCEPT !.pc = "table"]
  <2>1. CASE active
    <3>1. s \in HandlerState /\ s.pc = "table" /\ SameRequest(h, s) /\ SameWrites(h, s)
      BY <1>0 DEF HandlerState, SameRequest, SameWrites
    <3>2. handler[h].pc = "fresh" /\ Update(h, s) /\ TableFree
      BY <1>5, <2>1 DEF LockTable
    <3> HIDE DEF s
    <3> QED BY <1>5, <3>1, <3>2 DEF LockTable, Quiet, Moves, Loop
  <2>2. CASE ~active
    BY <1>5, <2>2, RejectQuiet DEF LockTable, Answers
  <2> QED BY <2>1, <2>2
<1>6. CASE Abort(h) \/ LoseAnswer(h)
  <2>1. IdleHandler.pc = "idle"
    BY DEF IdleHandler
  <2> QED BY <1>6, <2>1, IdleHandlerType DEF Abort, LoseAnswer, Quiet, Moves, Loop
<1> QED BY <1>1, <1>2, <1>3, <1>4, <1>5, <1>6 DEF Replay

LEMMA StartLoopQuiet ==
  ASSUME NEW h, Typed(h), OnlyHandler, NEW pc \in Loop, StartLoop(h, pc, field),
         handler[h].pc = "table"
  PROVE  Quiet(h)
<1> DEFINE r == [handler[h] EXCEPT !.pc = pc, !.next = 1, !.field = field]
<1>1. handler[h] \in HandlerState /\ field \in Field /\ WithinBudget(field)
  BY DEF Typed, TypeOK
<1>2. r \in HandlerState
  <2> DEFINE r1 == [handler[h] EXCEPT !.pc = pc]
             r2 == [r1 EXCEPT !.next = 1]
  <2>1. r1 \in HandlerState
    BY <1>1, OneFieldType
  <2>2. r2 \in HandlerState
    <3> HIDE DEF r1
    <3>1. \A v \in Nat \ {0} : [r1 EXCEPT !.next = v] \in HandlerState
      BY <2>1, OneFieldType
    <3> QED BY <3>1
  <2>3. r = [r2 EXCEPT !.field = field]
    OBVIOUS
  <2> HIDE DEF r, r2
  <2> QED BY <1>1, <2>2, <2>3, OneFieldType
<1>3. r.pc = pc /\ r.field = field /\ SameRequest(h, r) /\ SameWrites(h, r)
  BY <1>1 DEF HandlerState, SameRequest, SameWrites
<1>4. Update(h, r)
  BY DEF StartLoop
<1> HIDE DEF r
<1>5. Moves(h, r)
  BY <1>3 DEF Moves
<1> QED BY <1>1, <1>2, <1>3, <1>4, <1>5 DEF Quiet

LEMMA CheckQuiet ==
  ASSUME NEW h, Typed(h), LoadFields(h) \/ CheckChoices(h)
  PROVE  Quiet(h)
<1>1. CASE LoadFields(h)
  BY <1>1, StartLoopQuiet DEF LoadFields, Loop
<1>2. CASE CheckChoices(h)
  <2>1. OnlyHandler /\ handler[h].pc = "table"
    BY <1>2 DEF CheckChoices
  <2>2. \/ \E code \in {"conflict", "state", "notFound"} : Reject(h, code)
        \/ StartLoop(h, "resolve", field)
    BY <1>2, Zenon DEF CheckChoices
  <2>3. CASE StartLoop(h, "resolve", field)
    BY <2>1, <2>3, StartLoopQuiet DEF Loop
  <2>4. ASSUME NEW code \in {"conflict", "state", "notFound"}, Reject(h, code)
        PROVE  Quiet(h)
    BY <2>1, <2>4, RejectQuiet DEF Answers
  <2> QED BY <2>2, <2>3, <2>4
<1> QED BY <1>1, <1>2

LEMMA PickQuiet ==
  ASSUME NEW h, Typed(h), OnlyHandler, InLoop(h, "resolve"),
         NEW id \in {0} \cup Option, NEW f \in Field, f.rev = handler[h].field.rev,
         WithinBudget(f), Pick(h, id, f)
  PROVE  Quiet(h)
<1> DEFINE r == [handler[h] EXCEPT !.next = handler[h].next + 1, !.field = f,
                                   !.picked = Append(handler[h].picked, id)]
<1>1. handler[h] \in HandlerState /\ handler[h].pc = "resolve"
  BY DEF Typed, TypeOK, InLoop
<1>2. Append(handler[h].picked, id) \in Seq({0} \cup Option)
  BY <1>1 DEF HandlerState
<1>3. r \in HandlerState
  <2>1. r = [[[handler[h] EXCEPT !.next = handler[h].next + 1] EXCEPT !.field = f]
              EXCEPT !.picked = Append(handler[h].picked, id)]
    OBVIOUS
  <2>2. handler[h].next + 1 \in Nat \ {0}
    BY <1>1 DEF HandlerState
  <2> QED BY <1>1, <1>2, <2>1, <2>2, OneFieldType
<1>4. r.pc = "resolve" /\ r.field = f /\ SameRequest(h, r) /\ SameWrites(h, r)
  BY <1>1 DEF HandlerState, SameRequest, SameWrites
<1>5. Update(h, r)
  BY DEF Pick
<1> HIDE DEF r
<1>6. Moves(h, r)
  BY <1>1, <1>4 DEF Moves, Loop
<1> QED BY <1>3, <1>4, <1>5, <1>6 DEF Quiet

LEMMA ResolveQuiet ==
  ASSUME NEW h, Typed(h), ResolveChoice(h)
  PROVE  Quiet(h)
<1> DEFINE cmd == Current(h)
           f == handler[h].field
<1>1. OnlyHandler /\ InLoop(h, "resolve")
  BY DEF ResolveChoice
<1>2. cmd \in Command
  BY <1>1, CurrentType DEF Typed, InLoop
<1>3. f \in Field /\ WithinBudget(f)
  BY <1>1 DEF Typed, TypeOK, HandlerState, WorkWithinBudget, Loop, InLoop
<1>4. CASE Pick(h, 0, f)
  BY <1>1, <1>3, <1>4, PickQuiet
<1>5. CASE Pick(h, cmd.option, f)
  <2>1. cmd.option \in Option
    BY <1>2 DEF Command
  <2> QED BY <1>1, <1>3, <1>5, <2>1, PickQuiet
<1>6. CASE Reject(h, "invalid")
  BY <1>1, <1>6, RejectQuiet DEF Answers
<1>7. CASE \E o \in f.options : Pick(h, o.id, f)
  <2>1. PICK o \in f.options : Pick(h, o.id, f)
    BY <1>7
  <2>2. o.id \in Option
    BY <1>3 DEF Field, NamedOption
  <2> QED BY <1>1, <1>3, <2>1, <2>2, PickQuiet
<1>8. ASSUME ~OverBudget(f), NEW id \in Option,
             Pick(h, id, [f EXCEPT !.options = f.options \cup {[id |-> id, name |-> cmd.name]}])
      PROVE  Quiet(h)
  <2> DEFINE o == [id |-> id, name |-> cmd.name]
             g == [f EXCEPT !.options = f.options \cup {o}]
  <2>1. o \in NamedOption
    BY <1>2 DEF Command, NamedOption
  <2>2. g \in Field /\ WithinBudget(g)
    BY <1>3, <1>8, <2>1, OneMoreOption, MutationAssumption
  <2>3. g.rev = f.rev
    BY <1>3 DEF Field
  <2>4. Pick(h, id, g)
    BY <1>8
  <2> HIDE DEF g
  <2> QED BY <1>1, <2>2, <2>3, <2>4, PickQuiet
<1>9. \/ Pick(h, 0, f) \/ Pick(h, cmd.option, f) \/ Reject(h, "invalid")
      \/ \E o \in f.options : Pick(h, o.id, f)
      \/ /\ ~OverBudget(f)
         /\ \E id \in Option :
              Pick(h, id, [f EXCEPT !.options = f.options \cup {[id |-> id, name |-> cmd.name]}])
  BY Zenon DEF ResolveChoice
<1> QED BY <1>4, <1>5, <1>6, <1>7, <1>8, <1>9

LEMMA SaveQuiet ==
  ASSUME NEW h, Typed(h), SaveOptions(h)
  PROVE  Quiet(h)
<1> DEFINE f == handler[h].field
           g == [f EXCEPT !.rev = f.rev + 1]
           s == [handler[h] EXCEPT !.pc = "apply", !.next = 1, !.field = f]
           r == [handler[h] EXCEPT !.pc = "apply", !.next = 1, !.field = g,
                   !.log = handler[h].log \cup {ChangeOf(h, "field", f.rev + 1)}]
<1>1. OnlyHandler /\ handler[h].pc = "resolve"
  BY DEF SaveOptions
<1>2. handler[h] \in HandlerState /\ f \in Field /\ WithinBudget(f)
  BY <1>1 DEF Typed, TypeOK, HandlerState, WorkWithinBudget
<1>3. CASE f = field
  <2>1. s \in HandlerState
    <3> DEFINE s1 == [handler[h] EXCEPT !.pc = "apply"]
               s2 == [s1 EXCEPT !.next = 1]
    <3>1. s1 \in HandlerState
      BY <1>2, OneFieldType DEF Loop
    <3>2. s2 \in HandlerState
      <4> HIDE DEF s1
      <4>1. \A v \in Nat \ {0} : [s1 EXCEPT !.next = v] \in HandlerState
        BY <3>1, OneFieldType
      <4> QED BY <4>1
    <3>3. s = [s2 EXCEPT !.field = f]
      OBVIOUS
    <3> HIDE DEF s, s2
    <3> QED BY <1>2, <3>2, <3>3, OneFieldType
  <2>2. s.pc = "apply" /\ s.field = f /\ SameRequest(h, s) /\ SameWrites(h, s)
    BY <1>2 DEF HandlerState, SameRequest, SameWrites
  <2>3. Update(h, s)
    BY <1>3 DEF SaveOptions, StartLoop
  <2> HIDE DEF s
  <2>4. Moves(h, s)
    BY <1>1, <2>2 DEF Moves, Loop
  <2> QED BY <1>1, <1>2, <2>1, <2>2, <2>3, <2>4 DEF Quiet
<1>4. CASE f # field
  <2>1. g \in Field /\ g.rev = f.rev + 1 /\ WithinBudget(g)
    BY <1>2 DEF Field, WithinBudget
  <2>2. f.rev + 1 \in Nat
    BY <1>2 DEF Field
  <2>3. ChangeOf(h, "field", f.rev + 1) \in ChangeRow
    BY <2>2, ChangeOfType DEF Typed
  <2>4. Update(h, r)
    BY <1>4 DEF SaveOptions
  <2> HIDE DEF g
  <2>5. r \in HandlerState
    <3> DEFINE l == handler[h].log \cup {ChangeOf(h, "field", f.rev + 1)}
               r1 == [handler[h] EXCEPT !.pc = "apply"]
               r2 == [r1 EXCEPT !.next = 1]
               r3 == [r2 EXCEPT !.field = g]
    <3>1. r1 \in HandlerState
      BY <1>2, OneFieldType DEF Loop
    <3>2. r2 \in HandlerState
      <4> HIDE DEF r1
      <4>1. \A v \in Nat \ {0} : [r1 EXCEPT !.next = v] \in HandlerState
        BY <3>1, OneFieldType
      <4> QED BY <4>1
    <3>3. r3 \in HandlerState
      <4> HIDE DEF r2
      <4> QED BY <2>1, <3>2, OneFieldType
    <3>4. r = [r3 EXCEPT !.log = l]
      OBVIOUS
    <3>5. l \in SUBSET ChangeRow
      BY <1>2, <2>3 DEF HandlerState
    <3> HIDE DEF l, r, r3
    <3> QED BY <3>3, <3>4, <3>5, OneFieldType
  <2>6. r.pc = "apply" /\ r.field = g /\ r.rows = handler[h].rows /\ SameRequest(h, r)
    BY <1>2 DEF HandlerState, SameRequest
  <2>7. r.log = handler[h].log \cup {ChangeOf(h, "field", f.rev + 1)}
    BY <1>2 DEF HandlerState
  <2> HIDE DEF r
  <2>8. Moves(h, r)
    BY <1>1, <2>1, <2>6, <2>7 DEF Moves
  <2> QED BY <1>1, <2>1, <2>4, <2>5, <2>6, <2>8 DEF Quiet
<1> QED BY <1>3, <1>4

LEMMA OutcomesType ==
  ASSUME NEW h, Typed(h), NEW status \in {"applied", "unchanged"}, NEW x \in Records, NEW n \in Nat
  PROVE  Outcomes(h, status, x, n) \in Result
<1>1. handler[h].result \in Seq(Outcome)
  BY DEF Typed, TypeOK, HandlerState, Result
<1>2. [status |-> status, record |-> x, rev |-> n] \in Outcome
  BY DEF Outcome
<1> QED BY <1>1, <1>2 DEF Outcomes, Result

LEMMA LeaveAloneQuiet ==
  ASSUME NEW h, Typed(h), OnlyHandler, handler[h].pc = "apply",
         NEW x \in Records, NEW row \in Row, LeaveAlone(h, x, row)
  PROVE  Quiet(h)
<1> DEFINE o == Outcomes(h, "unchanged", x, row.rev)
           n == handler[h].next + 1
           r1 == [handler[h] EXCEPT !.next = n]
           r == [handler[h] EXCEPT !.next = n, !.result = o]
<1>1. handler[h] \in HandlerState /\ WithinBudget(handler[h].field)
  BY DEF Typed, TypeOK, WorkWithinBudget
<1>2. o \in Result
  BY OutcomesType DEF Row
<1>3. n \in Nat \ {0}
  BY <1>1 DEF HandlerState
<1>4. Update(h, r)
  BY DEF LeaveAlone
<1> HIDE DEF o, n
<1>5. r1 \in HandlerState
  BY <1>1, <1>3, OneFieldType
<1>6. r \in HandlerState
  <2>1. r = [r1 EXCEPT !.result = o]
    OBVIOUS
  <2> HIDE DEF r1, r
  <2> QED BY <1>2, <1>5, <2>1, OneFieldType
<1>7. /\ r.pc = "apply" /\ r.field = handler[h].field
      /\ SameRequest(h, r) /\ SameWrites(h, r)
  BY <1>1 DEF HandlerState, SameRequest, SameWrites
<1> HIDE DEF r
<1>8. Moves(h, r)
  BY <1>7 DEF Moves, Loop
<1> QED BY <1>1, <1>4, <1>6, <1>7, <1>8 DEF Quiet

LEMMA WriteQuiet ==
  ASSUME NEW h, Typed(h), OnlyHandler, handler[h].pc = "apply",
         NEW x \in Records, NEW row \in Row, row.rev = Seen(h, x).rev + 1, Write(h, x, row)
  PROVE  Quiet(h)
<1> DEFINE o == Outcomes(h, "applied", x, row.rev)
           n == handler[h].next + 1
           w == [handler[h].rows EXCEPT ![x] = row]
           l == handler[h].log \cup {ChangeOf(h, x, row.rev)}
           r1 == [handler[h] EXCEPT !.next = n]
           r2 == [r1 EXCEPT !.rows = w]
           r3 == [r2 EXCEPT !.log = l]
           r == [handler[h] EXCEPT !.next = n, !.rows = w, !.log = l, !.result = o]
<1>1. handler[h] \in HandlerState /\ WithinBudget(handler[h].field)
  BY DEF Typed, TypeOK, WorkWithinBudget
<1>2. o \in Result
  BY OutcomesType DEF Row
<1>3. n \in Nat \ {0} /\ w \in [Records -> Row]
  BY <1>1 DEF HandlerState
<1>4. l \in SUBSET ChangeRow
  <2>1. ChangeOf(h, x, row.rev) \in ChangeRow
    BY ChangeOfType DEF Typed, Row
  <2> QED BY <1>1, <2>1 DEF HandlerState
<1>5. Update(h, r)
  BY DEF Write
<1>6. /\ r.pc = "apply" /\ r.field = handler[h].field /\ SameRequest(h, r)
      /\ r.rows = w /\ r.log = l
  BY <1>1 DEF HandlerState, SameRequest
<1>7. r \in HandlerState
  <2> HIDE DEF o, n, w, l
  <2>1. r1 \in HandlerState
    BY <1>1, <1>3, OneFieldType
  <2>2. r2 \in HandlerState
    <3> HIDE DEF r1
    <3> QED BY <1>3, <2>1, OneFieldType
  <2>3. r3 \in HandlerState
    <3> HIDE DEF r2
    <3> QED BY <1>4, <2>2, OneFieldType
  <2>4. r = [r3 EXCEPT !.result = o]
    OBVIOUS
  <2> HIDE DEF r3, r
  <2> QED BY <1>2, <2>3, <2>4, OneFieldType
<1>8. r.rows = [handler[h].rows EXCEPT ![x] = row] /\ r.log = handler[h].log \cup {ChangeOf(h, x, row.rev)}
  BY <1>6
<1> HIDE DEF r
<1>9. Moves(h, r)
  BY <1>6, <1>8 DEF Moves
<1> QED BY <1>1, <1>5, <1>6, <1>7, <1>9 DEF Quiet

(* A value that passes validation is an Option or none. *)
LEMMA NewValueType ==
  ASSUME NEW h, Typed(h), InLoop(h, "apply"), NEW old \in {0} \cup Option, Valid(h, old)
  PROVE  NewValue(h, old) \in {0} \cup Option
<1>1. Current(h) \in Command
  BY CurrentType DEF Typed, InLoop
<1>2. CASE Current(h).how = "none"
  BY <1>2 DEF NewValue
<1>3. CASE Current(h).how = "unset"
  BY <1>3 DEF NewValue
<1>4. CASE Current(h).how \notin {"unset", "none"}
  <2>1. Writable(handler[h].field, NewValue(h, old), old)
    BY <1>4 DEF Valid
  <2>2. handler[h].field \in Field
    BY DEF Typed, TypeOK, HandlerState
  <2>3. NewValue(h, old) \in Ids(handler[h].field.options) \cup Ids(handler[h].field.dropped)
    BY <2>1 DEF Writable
  <2> QED BY <2>2, <2>3 DEF Field, NamedOption, Ids
<1> QED BY <1>2, <1>3, <1>4

LEMMA ApplyQuiet ==
  ASSUME NEW h, Typed(h), ApplyCreate(h) \/ ApplyUpdate(h) \/ ApplyLifecycle(h)
  PROVE  Quiet(h)
<1> DEFINE cmd == Current(h)
           row == Seen(h, cmd.target)
<1>1. OnlyHandler /\ InLoop(h, "apply") /\ handler[h].pc = "apply"
  BY DEF ApplyCreate, ApplyUpdate, ApplyLifecycle, InLoop
<1>2. cmd \in Command /\ cmd.target \in Records
  BY <1>1, CurrentType DEF Typed, InLoop, Command
<1>3. row \in Row /\ row.rev \in Nat /\ row.value \in {0} \cup Option /\ row.deleted \in BOOLEAN
  BY <1>2, SeenType DEF Typed, Row
<1>4. ASSUME NEW code \in {"notFound", "conflict", "state", "invalid"}, Reject(h, code)
      PROVE  Quiet(h)
  BY <1>1, <1>4, RejectQuiet DEF Answers
<1>5. CASE ApplyCreate(h)
  <2>1. CASE Reject(h, "invalid")
    BY <1>4, <2>1
  <2>2. ASSUME Valid(h, 0), NEW x \in Records, Seen(h, x).rev = 0,
               Write(h, x, [rev |-> 1, value |-> NewValue(h, 0), deleted |-> FALSE])
        PROVE  Quiet(h)
    <3>1. NewValue(h, 0) \in {0} \cup Option
      BY <1>1, <2>2, NewValueType
    <3> DEFINE new == [rev |-> 1, value |-> NewValue(h, 0), deleted |-> FALSE]
    <3>2. new \in Row /\ new.rev = Seen(h, x).rev + 1
      BY <2>2, <3>1 DEF Row
    <3>3. Write(h, x, new)
      BY <2>2
    <3> HIDE DEF new
    <3> QED BY <1>1, <3>2, <3>3, WriteQuiet
  <2> QED BY <1>5, <2>1, <2>2 DEF ApplyCreate
<1>6. CASE ApplyUpdate(h)
  <2> DEFINE new == NewValue(h, row.value)
             written == [rev |-> row.rev + 1, value |-> new, deleted |-> FALSE]
  <2>1. \/ \E code \in {"notFound", "conflict", "state", "invalid"} : Reject(h, code)
        \/ LeaveAlone(h, cmd.target, row)
        \/ Valid(h, row.value) /\ Write(h, cmd.target, written)
    BY <1>6, Zenon DEF ApplyUpdate
  <2>2. CASE LeaveAlone(h, cmd.target, row)
    BY <1>1, <1>2, <1>3, <2>2, LeaveAloneQuiet
  <2>3. CASE Valid(h, row.value) /\ Write(h, cmd.target, written)
    <3>1. new \in {0} \cup Option
      BY <1>1, <1>3, <2>3, NewValueType
    <3>2. written \in Row /\ written.rev = row.rev + 1
      BY <1>3, <3>1 DEF Row
    <3>3. Write(h, cmd.target, written)
      BY <2>3
    <3> HIDE DEF written
    <3> QED BY <1>1, <1>2, <3>2, <3>3, WriteQuiet
  <2> QED BY <1>4, <2>1, <2>2, <2>3
<1>7. CASE ApplyLifecycle(h)
  <2> DEFINE deleting == cmd.kind = "delete"
             written == [row EXCEPT !.rev = row.rev + 1, !.deleted = deleting]
  <2>1. \/ \E code \in {"notFound", "conflict", "state"} : Reject(h, code)
        \/ Write(h, cmd.target, written)
    BY <1>7, Zenon DEF ApplyLifecycle
  <2>2. CASE Write(h, cmd.target, written)
    <3>1. deleting \in BOOLEAN /\ row.rev + 1 \in Nat
      BY <1>3
    <3> HIDE DEF deleting
    <3>2. written \in Row
      BY <1>3, <3>1 DEF Row
    <3>3. written.rev = row.rev + 1
      BY <1>3 DEF Row
    <3> HIDE DEF written
    <3> QED BY <1>1, <1>2, <2>2, <3>2, <3>3, WriteQuiet
  <2> QED BY <1>4, <2>1, <2>2
<1> QED BY <1>5, <1>6, <1>7

(* Every step of a handler is a commit, an answer, or one of Moves. *)
LEMMA HandlerSteps ==
  ASSUME TypeOK, WorkWithinBudget, NEW h \in Handlers, HandlerStep(h)
  PROVE  Quiet(h) \/ Commit(h) \/ Deliver(h)
<1>1. Typed(h)
  BY DEF Typed
<1> QED BY <1>1, ReplayQuiet, CheckQuiet, ResolveQuiet, SaveQuiet, ApplyQuiet
         DEF HandlerStep, Run

-----------------------------------------------------------------------------
(* Types are invariant. *)

Types == TypeOK /\ WorkWithinBudget

LEMMA OneOption ==
  ASSUME NEW f \in Field, NEW o, f.options = {o}, f.dropped = {}
  PROVE  WithinBudget(f)
<1>1. f.options \cup f.dropped = {o}
  OBVIOUS
<1>2. IsFiniteSet({o}) /\ Cardinality({o}) = 1
  BY FS_Singleton
<1>3. 1 <= ActiveLimit /\ 1 <= TotalLimit
  BY MutationAssumption
<1> QED BY <1>1, <1>2, <1>3 DEF WithinBudget

LEMMA TypesInit == Init => Types
<1> SUFFICES ASSUME Init PROVE Types
  OBVIOUS
<1> USE DEF Init
<1>1. records \in [Records -> Row]
  BY DEF NoRow, Row
<1>2. field \in Field /\ WithinBudget(field)
  <2>1. PICK n \in Names :
          field = [rev |-> 1, options |-> {[id |-> 1, name |-> n]}, dropped |-> {}, deleted |-> FALSE]
    OBVIOUS
  <2>2. 1 \in Option
    BY MutationAssumption DEF Option
  <2>3. field \in Field
    BY <2>1, <2>2 DEF Field, NamedOption
  <2>4. field.options = {[id |-> 1, name |-> n]} /\ field.dropped = {}
    BY <2>1
  <2> QED BY <2>3, <2>4, OneOption
<1>3. changes \subseteq ChangeRow
  BY MutationAssumption DEF ChangeRow
<1>4. NoBody \in Body
  BY DEF NoBody, Body
<1>5. /\ receipt \in [Keys -> [kept : BOOLEAN, body : Body, result : Result]]
      /\ guard \in [Keys -> [kept : BOOLEAN, body : Body]]
      /\ request \in [Keys -> Body]
  BY <1>4 DEF Result
<1>6. handler \in [Handlers -> HandlerState] /\ \A h \in Handlers : handler[h].pc = "idle"
  BY IdleHandlerType DEF IdleHandler
<1>7. editor \in [Editors -> EditorState] /\ \A e \in Editors : editor[e].pc = "idle"
  <2>1. IdleEditor \in EditorState /\ IdleEditor.pc = "idle"
    BY DEF IdleEditor, EditorState, NoField, Field, AllEditorOps
  <2> QED BY <2>1
<1>8. /\ answer \in [Keys -> Answers \cup {"none"}]
      /\ done \in [Keys -> Seq([body : Body, result : Result])]
      /\ forgotten \subseteq Keys /\ active \in BOOLEAN
  OBVIOUS
<1>9. WorkWithinBudget
  BY <1>6, <1>7 DEF WorkWithinBudget
<1> QED
  <2> USE ONLY <1>1, <1>2, <1>3, <1>5, <1>6, <1>7, <1>8, <1>9 DEF TypeOK, Types
  <2> QED OBVIOUS

(* What a quiet step of one handler leaves alone. *)
LEMMA QuietFrame ==
  ASSUME TypeOK, NEW h \in Handlers, NEW r \in HandlerState, Update(h, r)
  PROVE  /\ handler' \in [Handlers -> HandlerState]
         /\ handler'[h] = r
         /\ \A g \in Handlers \ {h} : handler'[g] = handler[g]
BY DEF TypeOK, Update

LEMMA QuietTypes ==
  ASSUME Types, NEW h \in Handlers, Quiet(h)
  PROVE  Types'
<1>1. PICK r \in HandlerState : /\ Update(h, r) /\ Moves(h, r)
                                /\ r.pc \in Loop => WithinBudget(r.field)
  BY DEF Quiet
<1>2. /\ handler' \in [Handlers -> HandlerState] /\ handler'[h] = r
      /\ \A g \in Handlers \ {h} : handler'[g] = handler[g]
  BY <1>1, QuietFrame DEF Types
<1>3. OnlyHandler
  BY DEF Quiet
<1>4. TypeOK'
  BY <1>2, <1>3 DEF Types, TypeOK, OnlyHandler, Server, WithinBudget
<1>5. WorkWithinBudget'
  BY <1>1, <1>2, <1>3 DEF Types, WorkWithinBudget, OnlyHandler, Loop, WithinBudget
<1> QED BY <1>4, <1>5 DEF Types

LEMMA ComposeTypes ==
  ASSUME Types, NEW k \in Keys, Compose(k)
  PROVE  Types'
<1>1. PICK intent \in Intents :
        /\ \A i \in Targets(intent) : records[intent[i].target].rev \in 1 .. MaxRev - 1
        /\ request' = [request EXCEPT ![k] = WithRevisions(intent)]
  BY DEF Compose
<1>2. WithRevisions(intent) \in Body
  <2>1. intent \in Seq(Intent)
    BY IntentAssumption
  <2>2. \A i \in DOMAIN intent : intent[i] \in Intent
    BY <2>1
  <2> DEFINE c(i) == [kind |-> intent[i].kind, target |-> intent[i].target, how |-> intent[i].how,
                      name |-> intent[i].name, option |-> intent[i].option,
                      rev |-> IF intent[i].kind = "create" THEN 0 ELSE records[intent[i].target].rev]
             cmds == [i \in DOMAIN intent |-> c(i)]
  <2>3. \A i \in DOMAIN intent : c(i) \in Command
    BY <2>2 DEF Intent, Command, Types, TypeOK, Row
  <2>4. DOMAIN intent = 1 .. Len(intent) /\ Len(intent) \in Nat
    BY <2>1
  <2> HIDE DEF c
  <2>5. cmds \in Seq(Command)
    BY <2>3, <2>4, IsASeq
  <2>6. field.rev \in Nat
    BY DEF Types, TypeOK, Field
  <2>7. WithRevisions(intent) = [commands |-> cmds, fieldRev |-> field.rev]
    BY DEF WithRevisions, c
  <2> QED BY <2>5, <2>6, <2>7 DEF Body
<1>3. answer' = [answer EXCEPT ![k] = "none"] /\ UNCHANGED <<Server, handler, editor>>
  BY DEF Compose
<1>4. request' \in [Keys -> Body] /\ answer' \in [Keys -> Answers \cup {"none"}]
  BY <1>1, <1>2, <1>3 DEF Types, TypeOK
<1>5. TypeOK'
  BY <1>3, <1>4 DEF Types, TypeOK, Server, WithinBudget
<1>6. WorkWithinBudget'
  BY <1>3 DEF Types, WorkWithinBudget, WithinBudget
<1> QED BY <1>5, <1>6 DEF Types

LEMMA CommitTypes ==
  ASSUME Types, NEW h \in Handlers, Commit(h)
  PROVE  Types'
<1> DEFINE k == handler[h].key
           body == handler[h].body
           entry == [body |-> body, result |-> handler[h].result]
           r == [IdleHandler EXCEPT !.pc = "answer", !.key = k, !.body = body,
                                    !.result = handler[h].result]
<1>1. handler[h] \in HandlerState /\ k \in Keys /\ body \in Body /\ handler[h].result \in Result
  BY DEF Types, TypeOK, HandlerState
<1>2. handler[h].field \in Field /\ WithinBudget(handler[h].field) /\ handler[h].log \subseteq ChangeRow
  BY <1>1 DEF Types, WorkWithinBudget, Commit, HandlerState
<1>3. records' \in [Records -> Row]
  <2>1. \A x \in Records : Seen(h, x) \in Row
    BY SeenType DEF Types
  <2>2. records' = [x \in Records |-> Seen(h, x)]
    BY DEF Commit
  <2> QED BY <2>1, <2>2
<1>4. field' = handler[h].field /\ changes' = changes \cup handler[h].log
  BY DEF Commit
<1>5. receipt' \in [Keys -> [kept : BOOLEAN, body : Body, result : Result]]
  BY <1>1 DEF Commit, Types, TypeOK
<1>6. guard' \in [Keys -> [kept : BOOLEAN, body : Body]]
  BY <1>1 DEF Commit, Types, TypeOK
<1>7. done' \in [Keys -> Seq([body : Body, result : Result])]
  <2>1. entry \in [body : Body, result : Result]
    BY <1>1
  <2>2. done[k] \in Seq([body : Body, result : Result])
    BY <1>1 DEF Types, TypeOK
  <2>3. Append(done[k], entry) \in Seq([body : Body, result : Result])
    BY <2>1, <2>2
  <2>4. done' = [done EXCEPT ![k] = Append(done[k], entry)]
    BY DEF Commit
  <2> QED BY <2>3, <2>4 DEF Types, TypeOK
<1>8. r \in HandlerState /\ r.pc = "answer"
  BY <1>1, IdleHandlerType DEF HandlerState
<1>9. Update(h, r) /\ UNCHANGED <<active, editor, request, answer, forgotten>>
  BY DEF Commit
<1> HIDE DEF r
<1>10. /\ handler' \in [Handlers -> HandlerState] /\ handler'[h].pc = "answer"
       /\ \A g \in Handlers \ {h} : handler'[g] = handler[g]
  BY <1>8, <1>9, QuietFrame DEF Types
<1>11. WithinBudget(field)'
  BY <1>2, <1>4 DEF WithinBudget
<1>12. TypeOK'
  BY <1>2, <1>3, <1>4, <1>5, <1>6, <1>7, <1>9, <1>10, <1>11 DEF Types, TypeOK
<1>13. WorkWithinBudget'
  BY <1>9, <1>10 DEF Types, WorkWithinBudget, WithinBudget
<1> QED BY <1>12, <1>13 DEF Types

LEMMA DeliverTypes ==
  ASSUME Types, NEW h \in Handlers, Deliver(h)
  PROVE  Types'
<1>1. handler[h].key \in Keys /\ handler[h].answer \in Answers
  BY DEF Types, TypeOK, HandlerState
<1>2. answer' \in [Keys -> Answers \cup {"none"}]
  BY <1>1 DEF Deliver, Types, TypeOK
<1>3. Update(h, IdleHandler) /\ UNCHANGED <<Server, editor, request>>
  BY DEF Deliver
<1>4. /\ handler' \in [Handlers -> HandlerState] /\ handler'[h].pc = "idle"
      /\ \A g \in Handlers \ {h} : handler'[g] = handler[g]
  BY <1>3, IdleHandlerType, QuietFrame DEF Types, IdleHandler
<1>5. TypeOK'
  BY <1>2, <1>3, <1>4 DEF Types, TypeOK, Server, WithinBudget
<1>6. WorkWithinBudget'
  BY <1>3, <1>4 DEF Types, WorkWithinBudget, WithinBudget
<1> QED BY <1>5, <1>6 DEF Types

LEMMA ExpireTypes ==
  ASSUME Types, NEW k \in Keys, Expire(k)
  PROVE  Types'
<1>1. [kept |-> FALSE, body |-> NoBody, result |-> <<>>] \in [kept : BOOLEAN, body : Body, result : Result]
  BY DEF NoBody, Body, Result
<1>2. receipt' \in [Keys -> [kept : BOOLEAN, body : Body, result : Result]]
  BY <1>1 DEF Expire, Types, TypeOK
<1>3. forgotten' \subseteq Keys
  BY DEF Expire, Types, TypeOK
<1>4. UNCHANGED <<records, field, active, changes, guard, handler, editor, request, answer, done>>
  BY DEF Expire
<1>5. TypeOK'
  BY <1>2, <1>3, <1>4 DEF Types, TypeOK, WithinBudget
<1>6. WorkWithinBudget'
  BY <1>4 DEF Types, WorkWithinBudget, WithinBudget
<1> QED BY <1>5, <1>6 DEF Types

(* The definitions that an editor may write are well-formed and affordable. *)
LEMMA EditedType ==
  ASSUME NEW f \in Field, WithinBudget(f), NEW op \in AllEditorOps, NEW g \in Edited(op, f)
  PROVE  g \in Field /\ WithinBudget(g)
<1>0. IsFiniteSet(f.options \cup f.dropped) /\ IsFiniteSet(f.options)
  BY FS_Subset DEF WithinBudget
<1>1. CASE op = "drop"
  <2>1. PICK o \in f.options : g = [f EXCEPT !.options = f.options \ {o}, !.dropped = f.dropped \cup {o}]
    BY <1>1 DEF Edited
  <2>2. g \in Field /\ g.options = f.options \ {o} /\ g.dropped = f.dropped \cup {o}
    BY <2>1 DEF Field
  <2>3. g.options \cup g.dropped = f.options \cup f.dropped
    BY <2>1, <2>2
  <2>4. Cardinality(g.options) <= Cardinality(f.options) /\ Cardinality(g.options) \in Nat /\ Cardinality(f.options) \in Nat
    BY <1>0, <2>2, FS_Subset, FS_CardinalityType
  <2>5. Cardinality(g.options) <= ActiveLimit
    BY <2>4, MutationAssumption DEF WithinBudget
  <2> QED BY <2>2, <2>3, <2>5, MovedOption
<1>2. CASE op = "revive"
  <2>1. PICK o \in f.dropped :
          /\ g = [f EXCEPT !.options = f.options \cup {o}, !.dropped = f.dropped \ {o}]
          /\ Cardinality(f.options) < ActiveLimit
    BY <1>2 DEF Edited
  <2>2. g \in Field /\ g.options = f.options \cup {o} /\ g.dropped = f.dropped \ {o}
    BY <2>1 DEF Field
  <2>3. g.options \cup g.dropped = f.options \cup f.dropped
    BY <2>1, <2>2
  <2>4. /\ Cardinality(f.options) \in Nat
        /\ Cardinality(g.options) \in {Cardinality(f.options), Cardinality(f.options) + 1}
    BY <1>0, <2>2, FS_AddElement, FS_CardinalityType
  <2>5. Cardinality(g.options) <= ActiveLimit
    BY <2>1, <2>4, MutationAssumption
  <2> QED BY <2>2, <2>3, <2>5, MovedOption
<1>3. CASE op = "add"
  <2>1. PICK o \in NamedOption : g = [f EXCEPT !.options = f.options \cup {o}] /\ ~OverBudget(f)
    BY <1>3 DEF Edited
  <2> QED BY <2>1, OneMoreOption, MutationAssumption
<1>4. CASE op \in {"deleteField", "restoreField", "toggleTable"}
  <2>1. g \in {f, [f EXCEPT !.deleted = TRUE], [f EXCEPT !.deleted = FALSE]}
    BY <1>4 DEF Edited
  <2>2. g \in Field /\ g.options = f.options /\ g.dropped = f.dropped
    BY <2>1 DEF Field
  <2> QED BY <2>2 DEF WithinBudget
<1> QED BY <1>1, <1>2, <1>3, <1>4 DEF AllEditorOps

LEMMA EditorTypes ==
  ASSUME Types, NEW e \in Editors, EditorStep(e)
  PROVE  Types'
<1>1. editor[e] \in EditorState /\ field \in Field /\ WithinBudget(field)
  BY DEF Types, TypeOK
<1>2. ASSUME NEW s \in EditorState, s.pc # "idle" => WithinBudget(s.target),
             editor' = [editor EXCEPT ![e] = s],
             UNCHANGED <<records, receipt, guard, handler, request, answer, done, forgotten>>,
             field' \in Field, WithinBudget(field'), active' \in BOOLEAN, changes' \subseteq ChangeRow
      PROVE  Types'
  <2>1. editor' \in [Editors -> EditorState]
    BY <1>2 DEF Types, TypeOK
  <2>2. \A d \in Editors : editor'[d] = IF d = e THEN s ELSE editor[d]
    BY <1>2 DEF Types, TypeOK
  <2>3. WithinBudget(field)'
    BY <1>2 DEF WithinBudget
  <2>4. TypeOK'
    BY <1>2, <2>1, <2>3 DEF Types, TypeOK
  <2>5. \A h \in Handlers : handler'[h].pc \in {"resolve", "apply"} => WithinBudget(handler[h].field)'
    BY <1>2 DEF Types, WorkWithinBudget, WithinBudget
  <2>6. \A d \in Editors : editor'[d].pc # "idle" => WithinBudget(editor[d].target)'
    BY <1>2, <2>2 DEF Types, WorkWithinBudget, WithinBudget
  <2> QED BY <2>4, <2>5, <2>6 DEF Types, WorkWithinBudget
<1>3. IdleEditor \in EditorState /\ IdleEditor.pc = "idle"
  BY DEF IdleEditor, EditorState, NoField, Field, AllEditorOps
<1>4. field' = field => field' \in Field /\ WithinBudget(field')
  BY <1>1
<1>5. changes \subseteq ChangeRow /\ active \in BOOLEAN
  BY DEF Types, TypeOK
<1>6. CASE EditorRead(e)
  <2>0. PICK op \in EditorOps : \E f \in Edited(op, field) :
          editor' = [editor EXCEPT ![e] = [pc |-> "read", op |-> op, rev |-> field.rev, target |-> f]]
    BY <1>6 DEF EditorRead
  <2>1. PICK f \in Edited(op, field) :
          editor' = [editor EXCEPT ![e] = [pc |-> "read", op |-> op, rev |-> field.rev, target |-> f]]
    BY <2>0
  <2> DEFINE s == [pc |-> "read", op |-> op, rev |-> field.rev, target |-> f]
  <2>2. op \in AllEditorOps
    BY MutationAssumption
  <2>3. f \in Field /\ WithinBudget(f)
    BY <1>1, <2>2, EditedType
  <2>4. s \in EditorState /\ WithinBudget(s.target)
    BY <1>1, <2>2, <2>3 DEF EditorState, Field
  <2>5. editor' = [editor EXCEPT ![e] = s]
    BY <2>1
  <2> HIDE DEF s
  <2> QED BY <1>2, <1>4, <1>5, <1>6, <2>4, <2>5 DEF EditorRead, Server
<1>7. CASE EditorLock(e)
  <2> DEFINE s == [editor[e] EXCEPT !.pc = "locked"]
  <2>1. s \in EditorState /\ s.target = editor[e].target
    BY <1>1 DEF EditorState
  <2>2. WithinBudget(editor[e].target)
    BY <1>7 DEF EditorLock, Types, WorkWithinBudget
  <2>3. editor' \in {[editor EXCEPT ![e] = s], [editor EXCEPT ![e] = IdleEditor]}
    BY <1>7 DEF EditorLock
  <2>4. WithinBudget(s.target)
    BY <2>1, <2>2
  <2> HIDE DEF s
  <2> QED BY <1>2, <1>3, <1>4, <1>5, <1>7, <2>1, <2>3, <2>4 DEF EditorLock, Server
<1>8. CASE EditorCommit(e)
  <2>1. editor' = [editor EXCEPT ![e] = IdleEditor]
    BY <1>8 DEF EditorCommit
  <2>2. field' \in Field /\ WithinBudget(field') /\ active' \in BOOLEAN /\ changes' \subseteq ChangeRow
    <3>1. CASE editor[e].op = "toggleTable"
      BY <1>1, <1>4, <1>5, <1>8, <3>1 DEF EditorCommit
    <3>2. CASE editor[e].op # "toggleTable"
      <4> DEFINE g == [editor[e].target EXCEPT !.rev = field.rev + 1]
                 c == [object |-> "field", rev |-> field.rev + 1, by |-> "editor"]
      <4>1. field' = g /\ changes' = changes \cup {c} /\ active' = active
        BY <1>8, <3>2 DEF EditorCommit
      <4>2. editor[e].target \in Field /\ field.rev + 1 \in Nat
        BY <1>1 DEF EditorState, Field
      <4>3. g \in Field /\ g.options = editor[e].target.options /\ g.dropped = editor[e].target.dropped
        BY <4>2 DEF Field
      <4>4. WithinBudget(editor[e].target)
        BY <1>8 DEF EditorCommit, Types, WorkWithinBudget
      <4>5. WithinBudget(g)
        BY <4>3, <4>4 DEF WithinBudget
      <4>6. c \in ChangeRow
        BY <4>2 DEF ChangeRow
      <4> QED BY <1>5, <4>1, <4>3, <4>5, <4>6
    <3> QED BY <3>1, <3>2
  <2> QED BY <1>2, <1>3, <1>8, <2>1, <2>2 DEF EditorCommit
<1>9. CASE EditorAbort(e)
  BY <1>2, <1>3, <1>4, <1>5, <1>9 DEF EditorAbort, Server
<1> QED BY <1>6, <1>7, <1>8, <1>9 DEF EditorStep

LEMMA TypesStep == Types /\ [Next]_vars => Types'
<1> SUFFICES ASSUME Types, [Next]_vars
             PROVE  Types'
  OBVIOUS
<1>1. ASSUME NEW k \in Keys, Compose(k) \/ Expire(k)
      PROVE  Types'
  BY <1>1, ComposeTypes, ExpireTypes
<1>2. ASSUME NEW h \in Handlers, HandlerStep(h)
      PROVE  Types'
  BY <1>2, HandlerSteps, QuietTypes, CommitTypes, DeliverTypes DEF Types
<1>3. ASSUME NEW e \in Editors, EditorStep(e)
      PROVE  Types'
  BY <1>3, EditorTypes
<1>4. CASE UNCHANGED vars
  BY <1>4 DEF Types, TypeOK, WorkWithinBudget, WithinBudget, vars
<1> QED BY <1>1, <1>2, <1>3, <1>4 DEF Next

-----------------------------------------------------------------------------
(* Locks are exclusive. *)

ActorPhases == {"actor", "unseen", "fresh", "table", "resolve", "apply"}
TablePhases == {"table", "resolve", "apply"}

LEMMA MovesLocks ==
  ASSUME NEW h \in Handlers, NEW r, Moves(h, r)
  PROVE  /\ r.pc \in ActorPhases => HoldsActor(h) \/ \A g \in Handlers : ~HoldsActor(g)
         /\ r.pc \in TablePhases => HandlerHoldsTable(h) \/ TableFree
BY DEF Moves, HoldsActor, HandlerHoldsTable, ActorPhases, TablePhases, Loop

LEMMA LocksStep == Types /\ LocksExclusive /\ [Next]_vars => LocksExclusive'
<1> SUFFICES ASSUME Types, LocksExclusive, [Next]_vars
             PROVE  LocksExclusive'
  OBVIOUS
<1> USE DEF LocksExclusive
<1>1. ASSUME UNCHANGED <<handler, editor>>
      PROVE  LocksExclusive'
  BY <1>1 DEF HoldsActor, HandlerHoldsTable, EditorHoldsTable
<1>2. ASSUME NEW h \in Handlers, NEW r \in HandlerState, Update(h, r), UNCHANGED editor,
             r.pc \in ActorPhases => HoldsActor(h) \/ \A g \in Handlers : ~HoldsActor(g),
             r.pc \in TablePhases => HandlerHoldsTable(h) \/ TableFree
      PROVE  LocksExclusive'
  <2>1. /\ handler'[h] = r
        /\ \A g \in Handlers \ {h} : handler'[g] = handler[g]
    BY <1>2, QuietFrame DEF Types
  <2> QED BY <1>2, <2>1
          DEF HoldsActor, HandlerHoldsTable, EditorHoldsTable, TableFree, ActorPhases, TablePhases
<1>3. ASSUME NEW h \in Handlers, HandlerStep(h)
      PROVE  LocksExclusive'
  <2>1. CASE Quiet(h)
    <3>1. PICK r \in HandlerState : Update(h, r) /\ Moves(h, r)
      BY <2>1 DEF Quiet
    <3> QED BY <1>2, <2>1, <3>1, MovesLocks DEF Quiet, OnlyHandler
  <2>2. CASE Commit(h)
    <3> DEFINE r == [IdleHandler EXCEPT !.pc = "answer", !.key = handler[h].key,
                       !.body = handler[h].body, !.result = handler[h].result]
    <3>1. r.pc = "answer" /\ r \in HandlerState
      BY IdleHandlerType DEF Types, TypeOK, HandlerState
    <3>2. Update(h, r) /\ UNCHANGED editor
      BY <2>2 DEF Commit
    <3> HIDE DEF r
    <3> QED BY <1>2, <3>1, <3>2 DEF ActorPhases, TablePhases
  <2>3. CASE Deliver(h)
    <3>1. IdleHandler.pc = "idle"
      BY DEF IdleHandler
    <3> QED BY <1>2, <2>3, <3>1, IdleHandlerType DEF Deliver, ActorPhases, TablePhases
  <2> QED BY <1>3, <2>1, <2>2, <2>3, HandlerSteps DEF Types
<1>4. ASSUME NEW e \in Editors, EditorStep(e)
      PROVE  LocksExclusive'
  <2>1. handler' = handler
    BY <1>4 DEF EditorStep, EditorRead, EditorLock, EditorCommit, EditorAbort
  <2>2. editor \in [Editors -> EditorState]
    BY DEF Types, TypeOK
  <2>3. CASE TableFree /\ \A d \in Editors \ {e} : editor'[d] = editor[d]
    BY <2>1, <2>3 DEF HoldsActor, HandlerHoldsTable, EditorHoldsTable, TableFree
  <2>4. CASE editor'[e].pc # "locked" /\ \A d \in Editors \ {e} : editor'[d] = editor[d]
    BY <2>1, <2>4 DEF HoldsActor, HandlerHoldsTable, EditorHoldsTable
  <2>5. CASE EditorRead(e)
    BY <2>2, <2>4, <2>5 DEF EditorRead
  <2>6. CASE EditorLock(e)
    BY <2>2, <2>3, <2>6 DEF EditorLock
  <2>7. CASE EditorCommit(e) \/ EditorAbort(e)
    BY <2>2, <2>4, <2>7 DEF EditorCommit, EditorAbort, IdleEditor
  <2> QED BY <1>4, <2>5, <2>6, <2>7 DEF EditorStep
<1>5. ASSUME NEW k \in Keys, Compose(k) \/ Expire(k)
      PROVE  LocksExclusive'
  BY <1>1, <1>5 DEF Compose, Expire
<1> QED BY <1>1, <1>3, <1>4, <1>5 DEF Next, vars

LEMMA LocksInit == Init => LocksExclusive
BY DEF Init, LocksExclusive, HoldsActor, HandlerHoldsTable, EditorHoldsTable, IdleHandler, IdleEditor

-----------------------------------------------------------------------------
(* Receipts and guards tell the truth and are there when they are needed. *)

ReceiptsInv ==
  /\ KeysUnused /\ Remembered /\ ReceiptsTrue /\ ExpiredIsTrue
  /\ AppliedOnce /\ AppliedIsTrue

LEMMA ReceiptsInit == Init => ReceiptsInv
BY DEF Init, ReceiptsInv, KeysUnused, Remembered, ReceiptsTrue, ExpiredIsTrue, AppliedOnce,
       AppliedIsTrue, CommittedAs, IdleHandler

Unread == {"unseen", "fresh", "table", "resolve", "apply"}
Unguarded == {"fresh", "table", "resolve", "apply"}

LEMMA MovesKeys ==
  ASSUME NEW h \in Handlers, NEW r, Moves(h, r), KeysUnused
  PROVE  /\ r.pc \in Unread => ~receipt[r.key].kept
         /\ r.pc \in Unguarded => ~guard[r.key].kept
         /\ r.pc = "answer" /\ r.answer = "applied" =>
              receipt[r.key].kept /\ receipt[r.key].body = r.body /\ receipt[r.key].result = r.result
         /\ r.pc = "answer" /\ r.answer = "expired" =>
              guard[r.key].kept /\ guard[r.key].body = r.body
<1>1. r.pc \in Unread => ~receipt[r.key].kept
  BY DEF Moves, KeysUnused, Unread, Loop, SameRequest
<1>2. r.pc \in Unguarded => ~guard[r.key].kept
  BY DEF Moves, KeysUnused, Unguarded, Loop, SameRequest
<1> QED BY <1>1, <1>2 DEF Moves, Loop

LEMMA QuietReceipts ==
  ASSUME Types, ReceiptsInv, NEW h \in Handlers, Quiet(h)
  PROVE  ReceiptsInv'
<1>1. PICK r \in HandlerState : Update(h, r) /\ Moves(h, r)
  BY DEF Quiet
<1>2. handler'[h] = r /\ \A g \in Handlers \ {h} : handler'[g] = handler[g]
  BY <1>1, QuietFrame DEF Types
<1>3. UNCHANGED <<receipt, guard, done, forgotten, request, answer>>
  BY DEF Quiet, OnlyHandler, Server
<1>4. /\ r.pc \in Unread => ~receipt[r.key].kept
      /\ r.pc \in Unguarded => ~guard[r.key].kept
      /\ r.pc = "answer" /\ r.answer = "applied" =>
           receipt[r.key].kept /\ receipt[r.key].body = r.body /\ receipt[r.key].result = r.result
      /\ r.pc = "answer" /\ r.answer = "expired" =>
           guard[r.key].kept /\ guard[r.key].body = r.body
  BY <1>1, MovesKeys DEF ReceiptsInv
<1>5. r.key \in Keys
  BY DEF HandlerState
<1>6. KeysUnused'
  BY <1>2, <1>3, <1>4 DEF ReceiptsInv, KeysUnused, Unread, Unguarded
<1>7. (Remembered /\ ReceiptsTrue /\ AppliedOnce)'
  BY <1>3 DEF ReceiptsInv, Remembered, ReceiptsTrue, AppliedOnce, CommittedAs
<1>8. ExpiredIsTrue'
  <2>1. r.pc = "answer" /\ r.answer = "expired" => CommittedAs(r.key, r.body) # {}
    BY <1>4, <1>5 DEF ReceiptsInv, ReceiptsTrue
  <2> QED BY <1>2, <1>3, <2>1 DEF ReceiptsInv, ExpiredIsTrue, CommittedAs
<1>9. AppliedIsTrue'
  <2>1. r.pc = "answer" /\ r.answer = "applied" =>
          \E i \in CommittedAs(r.key, r.body) : done[r.key][i].result = r.result
    BY <1>4, <1>5 DEF ReceiptsInv, ReceiptsTrue
  <2>2. \A g \in Handlers : handler'[g].pc = "answer" /\ handler'[g].answer = "applied" =>
          \E i \in CommittedAs(handler'[g].key, handler'[g].body) :
            done[handler'[g].key][i].result = handler'[g].result
    BY <1>2, <2>1 DEF ReceiptsInv, AppliedIsTrue
  <2> QED BY <1>3, <2>2 DEF ReceiptsInv, AppliedIsTrue, CommittedAs
<1> QED BY <1>6, <1>7, <1>8, <1>9 DEF ReceiptsInv

(* The same invariants in terms of one history. *)
Knows(hist, body) == \E i \in DOMAIN hist : hist[i].body = body

Vouches(hist, body, result) == \E i \in DOMAIN hist : hist[i].body = body /\ hist[i].result = result

LEMMA Vouching ==
  /\ ReceiptsTrue <=> \A k \in Keys :
       /\ receipt[k].kept => Vouches(done[k], receipt[k].body, receipt[k].result)
       /\ guard[k].kept => Knows(done[k], guard[k].body)
  /\ ExpiredIsTrue <=> \A h \in Handlers :
       handler[h].pc = "answer" /\ handler[h].answer = "expired" =>
         Knows(done[handler[h].key], handler[h].body)
  /\ AppliedIsTrue <=>
       /\ \A h \in Handlers : handler[h].pc = "answer" /\ handler[h].answer = "applied" =>
            Vouches(done[handler[h].key], handler[h].body, handler[h].result)
       /\ \A k \in Keys : answer[k] \in {"applied", "expired"} => Knows(done[k], request[k])
<1>1. ReceiptsTrue <=> \A k \in Keys :
        /\ receipt[k].kept => Vouches(done[k], receipt[k].body, receipt[k].result)
        /\ guard[k].kept => Knows(done[k], guard[k].body)
  BY DEF Knows, Vouches, CommittedAs, ReceiptsTrue
<1>2. ExpiredIsTrue <=> \A h \in Handlers :
        handler[h].pc = "answer" /\ handler[h].answer = "expired" =>
          Knows(done[handler[h].key], handler[h].body)
  BY DEF Knows, CommittedAs, ExpiredIsTrue
<1>3. AppliedIsTrue <=>
        /\ \A h \in Handlers : handler[h].pc = "answer" /\ handler[h].answer = "applied" =>
             Vouches(done[handler[h].key], handler[h].body, handler[h].result)
        /\ \A k \in Keys : answer[k] \in {"applied", "expired"} => Knows(done[k], request[k])
  BY DEF Knows, Vouches, CommittedAs, AppliedIsTrue
<1> QED BY <1>1, <1>2, <1>3

LEMMA VouchingNext ==
  /\ ReceiptsTrue' <=> \A k \in Keys :
       /\ receipt'[k].kept => Vouches(done'[k], receipt'[k].body, receipt'[k].result)
       /\ guard'[k].kept => Knows(done'[k], guard'[k].body)
  /\ ExpiredIsTrue' <=> \A h \in Handlers :
       handler'[h].pc = "answer" /\ handler'[h].answer = "expired" =>
         Knows(done'[handler'[h].key], handler'[h].body)
  /\ AppliedIsTrue' <=>
       /\ \A h \in Handlers : handler'[h].pc = "answer" /\ handler'[h].answer = "applied" =>
            Vouches(done'[handler'[h].key], handler'[h].body, handler'[h].result)
       /\ \A k \in Keys : answer'[k] \in {"applied", "expired"} => Knows(done'[k], request'[k])
<1>1. ReceiptsTrue' <=> \A k \in Keys :
        /\ receipt'[k].kept => Vouches(done'[k], receipt'[k].body, receipt'[k].result)
        /\ guard'[k].kept => Knows(done'[k], guard'[k].body)
  BY DEF Knows, Vouches, CommittedAs, ReceiptsTrue
<1>2. ExpiredIsTrue' <=> \A h \in Handlers :
        handler'[h].pc = "answer" /\ handler'[h].answer = "expired" =>
          Knows(done'[handler'[h].key], handler'[h].body)
  BY DEF Knows, CommittedAs, ExpiredIsTrue
<1>3. AppliedIsTrue' <=>
        /\ \A h \in Handlers : handler'[h].pc = "answer" /\ handler'[h].answer = "applied" =>
             Vouches(done'[handler'[h].key], handler'[h].body, handler'[h].result)
        /\ \A k \in Keys : answer'[k] \in {"applied", "expired"} => Knows(done'[k], request'[k])
  BY DEF Knows, Vouches, CommittedAs, AppliedIsTrue
<1> QED BY <1>1, <1>2, <1>3

LEMMA OneMoreEntry ==
  ASSUME NEW S, NEW hist \in Seq(S), NEW entry \in S
  PROVE  /\ \A b : Knows(hist, b) => Knows(Append(hist, entry), b)
         /\ \A b, o : Vouches(hist, b, o) => Vouches(Append(hist, entry), b, o)
         /\ Knows(Append(hist, entry), entry.body)
         /\ Vouches(Append(hist, entry), entry.body, entry.result)
<1>1. /\ Len(hist) \in Nat /\ DOMAIN hist = 1 .. Len(hist)
      /\ DOMAIN Append(hist, entry) = 1 .. Len(hist) + 1
      /\ Append(hist, entry)[Len(hist) + 1] = entry
      /\ \A i \in 1 .. Len(hist) : Append(hist, entry)[i] = hist[i]
  OBVIOUS
<1>2. DOMAIN hist \subseteq DOMAIN Append(hist, entry) /\ Len(hist) + 1 \in DOMAIN Append(hist, entry)
  BY <1>1
<1>3. \A b : Knows(hist, b) => Knows(Append(hist, entry), b)
  BY <1>1, <1>2 DEF Knows
<1>4. \A b, o : Vouches(hist, b, o) => Vouches(Append(hist, entry), b, o)
  BY <1>1, <1>2 DEF Vouches
<1> QED BY <1>1, <1>2, <1>3, <1>4 DEF Knows, Vouches

LEMMA CommitReceipts ==
  ASSUME Types, LocksExclusive, ReceiptsInv, NEW h \in Handlers, Commit(h)
  PROVE  ReceiptsInv'
<1> DEFINE k == handler[h].key
           body == handler[h].body
           result == handler[h].result
           entry == [body |-> body, result |-> result]
           r == [IdleHandler EXCEPT !.pc = "answer", !.key = k, !.body = body, !.result = result]
<1>1. k \in Keys /\ entry \in [body : Body, result : Result]
      /\ done[k] \in Seq([body : Body, result : Result])
  BY DEF Types, TypeOK, HandlerState
<1>2. /\ r \in HandlerState /\ r.pc = "answer" /\ r.key = k /\ r.body = body /\ r.result = result
      /\ r.answer = "applied"
  BY IdleHandlerType DEF Types, TypeOK, HandlerState, IdleHandler
<1>3. Update(h, r) /\ handler[h].pc = "apply" /\ UNCHANGED <<request, answer, forgotten>>
  BY DEF Commit
<1>4. handler'[h] = r /\ \A g \in Handlers \ {h} : handler'[g] = handler[g]
  BY <1>2, <1>3, QuietFrame DEF Types
<1>5. /\ receipt'[k] = [kept |-> TRUE, body |-> body, result |-> result]
      /\ \A j \in Keys \ {k} : receipt'[j] = receipt[j]
  BY <1>1 DEF Commit, Types, TypeOK
<1>6. /\ guard'[k] \in {guard[k], [kept |-> TRUE, body |-> body]}
      /\ \A j \in Keys \ {k} : guard'[j] = guard[j]
  BY <1>1 DEF Commit, Types, TypeOK
<1>7. done'[k] = Append(done[k], entry) /\ \A j \in Keys \ {k} : done'[j] = done[j]
  BY <1>1 DEF Commit, Types, TypeOK
<1> HIDE DEF r
<1>8. /\ \A j \in Keys : \A b : Knows(done[j], b) => Knows(done'[j], b)
      /\ \A j \in Keys : \A b, o : Vouches(done[j], b, o) => Vouches(done'[j], b, o)
      /\ Knows(done'[k], body) /\ Vouches(done'[k], body, result)
  <2>1. entry.body = body /\ entry.result = result
    OBVIOUS
  <2> HIDE DEF entry
  <2>2. /\ \A b : Knows(done[k], b) => Knows(Append(done[k], entry), b)
        /\ \A b, o : Vouches(done[k], b, o) => Vouches(Append(done[k], entry), b, o)
        /\ Knows(Append(done[k], entry), entry.body)
        /\ Vouches(Append(done[k], entry), entry.body, entry.result)
    BY <1>1, OneMoreEntry
  <2> HIDE DEF body, result
  <2> QED BY <1>7, <2>1, <2>2
<1>9. KeysUnused'
  <2>1. \A g \in Handlers \ {h} : handler[g].pc \notin Unread
    BY <1>3 DEF LocksExclusive, HoldsActor, Unread
  <2> QED BY <1>2, <1>4, <2>1 DEF KeysUnused, Unread
<1>10. Remembered'
  BY <1>3, <1>5, <1>6, <1>7 DEF ReceiptsInv, Remembered
<1>11. ReceiptsTrue'
  <2>1. \A j \in Keys :
          /\ receipt[j].kept => Vouches(done[j], receipt[j].body, receipt[j].result)
          /\ guard[j].kept => Knows(done[j], guard[j].body)
    BY Vouching DEF ReceiptsInv
  <2>2. \A j \in Keys :
          /\ receipt'[j].kept => Vouches(done'[j], receipt'[j].body, receipt'[j].result)
          /\ guard'[j].kept => Knows(done'[j], guard'[j].body)
    BY <1>5, <1>6, <1>8, <2>1
  <2> QED BY <2>2, VouchingNext
<1>12. ExpiredIsTrue'
  <2>1. \A g \in Handlers : handler[g].pc = "answer" /\ handler[g].answer = "expired" =>
          Knows(done[handler[g].key], handler[g].body)
    BY Vouching DEF ReceiptsInv
  <2>2. \A g \in Handlers : handler[g].key \in Keys
    BY DEF Types, TypeOK, HandlerState
  <2>3. \A g \in Handlers : handler'[g].pc = "answer" /\ handler'[g].answer = "expired" =>
          Knows(done'[handler'[g].key], handler'[g].body)
    BY <1>2, <1>4, <1>8, <2>1, <2>2
  <2> QED BY <2>3, VouchingNext
<1>13. AppliedOnce'
  <2>1. k \notin forgotten => done[k] = <<>>
    BY <1>1, <1>3 DEF Commit, ReceiptsInv, Remembered, KeysUnused
  <2>2. k \notin forgotten => Len(done'[k]) = 1
    BY <1>1, <1>7, <2>1
  <2> QED BY <1>3, <1>7, <2>2 DEF ReceiptsInv, AppliedOnce
<1>14. AppliedIsTrue'
  <2>1. /\ \A g \in Handlers : handler[g].pc = "answer" /\ handler[g].answer = "applied" =>
             Vouches(done[handler[g].key], handler[g].body, handler[g].result)
        /\ \A j \in Keys : answer[j] \in {"applied", "expired"} => Knows(done[j], request[j])
    BY Vouching DEF ReceiptsInv
  <2>2. \A g \in Handlers : handler[g].key \in Keys
    BY DEF Types, TypeOK, HandlerState
  <2>3. \A g \in Handlers : handler'[g].pc = "answer" /\ handler'[g].answer = "applied" =>
          Vouches(done'[handler'[g].key], handler'[g].body, handler'[g].result)
    BY <1>2, <1>4, <1>8, <2>1, <2>2
  <2>4. \A j \in Keys : answer'[j] \in {"applied", "expired"} => Knows(done'[j], request'[j])
    BY <1>3, <1>8, <2>1
  <2> QED BY <2>3, <2>4, VouchingNext
<1> QED BY <1>9, <1>10, <1>11, <1>12, <1>13, <1>14 DEF ReceiptsInv

LEMMA DeliverReceipts ==
  ASSUME Types, ReceiptsInv, NEW h \in Handlers, Deliver(h)
  PROVE  ReceiptsInv'
<1>1. handler'[h] = IdleHandler /\ \A g \in Handlers \ {h} : handler'[g] = handler[g]
  BY IdleHandlerType, QuietFrame DEF Deliver, Types
<1>2. UNCHANGED <<receipt, guard, done, forgotten, request>>
  BY DEF Deliver, Server
<1>3. IdleHandler.pc = "idle"
  BY DEF IdleHandler
<1>4. (KeysUnused /\ Remembered /\ ReceiptsTrue /\ AppliedOnce)'
  BY <1>1, <1>2, <1>3 DEF ReceiptsInv, KeysUnused, Remembered, ReceiptsTrue, AppliedOnce, CommittedAs
<1>5. ExpiredIsTrue'
  BY <1>1, <1>2, <1>3 DEF ReceiptsInv, ExpiredIsTrue, CommittedAs
<1>6. AppliedIsTrue'
  <2>1. \A g \in Handlers : handler[g].pc = "answer" /\ handler[g].answer = "applied" =>
          Vouches(done[handler[g].key], handler[g].body, handler[g].result)
    BY Vouching DEF ReceiptsInv
  <2>2. \A k \in Keys : answer[k] \in {"applied", "expired"} => Knows(done[k], request[k])
    BY Vouching DEF ReceiptsInv
  <2>3. handler[h].answer \in {"applied", "expired"} => Knows(done[handler[h].key], handler[h].body)
    BY Vouching DEF ReceiptsInv, Deliver, Vouches, Knows
  <2>4. handler[h].key \in Keys /\ answer \in [Keys -> Answers \cup {"none"}]
    BY DEF Types, TypeOK, HandlerState
  <2>5. \A k \in Keys : \/ answer'[k] = answer[k]
                        \/ /\ k = handler[h].key /\ request[k] = handler[h].body
                           /\ answer'[k] = handler[h].answer
    BY <2>4 DEF Deliver
  <2>6. \A k \in Keys : answer'[k] \in {"applied", "expired"} => Knows(done'[k], request'[k])
    BY <1>2, <2>2, <2>3, <2>5
  <2>7. \A g \in Handlers : handler'[g].pc = "answer" /\ handler'[g].answer = "applied" =>
          Vouches(done'[handler'[g].key], handler'[g].body, handler'[g].result)
    BY <1>1, <1>2, <1>3, <2>1
  <2> QED BY <2>6, <2>7, VouchingNext
<1> QED BY <1>4, <1>5, <1>6 DEF ReceiptsInv

LEMMA ReceiptsStep == Types /\ LocksExclusive /\ ReceiptsInv /\ [Next]_vars => ReceiptsInv'
<1> SUFFICES ASSUME Types, LocksExclusive, ReceiptsInv, [Next]_vars
             PROVE  ReceiptsInv'
  OBVIOUS
<1>1. ASSUME UNCHANGED <<receipt, guard, handler, request, answer, done, forgotten>>
      PROVE  ReceiptsInv'
  BY <1>1 DEF ReceiptsInv, KeysUnused, Remembered, ReceiptsTrue, ExpiredIsTrue, AppliedOnce,
              AppliedIsTrue, CommittedAs
<1>2. ASSUME NEW k \in Keys, Compose(k)
      PROVE  ReceiptsInv'
  <2>1. UNCHANGED <<receipt, guard, handler, done, forgotten>>
    BY <1>2 DEF Compose, Server
  <2>2. /\ answer'[k] = "none" /\ \A j \in Keys \ {k} : answer'[j] = answer[j]
        /\ \A j \in Keys \ {k} : request'[j] = request[j]
    BY <1>2 DEF Compose, Types, TypeOK
  <2>3. (KeysUnused /\ Remembered /\ ReceiptsTrue /\ ExpiredIsTrue /\ AppliedOnce)'
    BY <2>1 DEF ReceiptsInv, KeysUnused, Remembered, ReceiptsTrue, ExpiredIsTrue, AppliedOnce, CommittedAs
  <2>4. AppliedIsTrue'
    BY <2>1, <2>2 DEF ReceiptsInv, AppliedIsTrue, CommittedAs
  <2> QED BY <2>3, <2>4 DEF ReceiptsInv
<1>3. ASSUME NEW k \in Keys, Expire(k)
      PROVE  ReceiptsInv'
  <2>1. UNCHANGED <<guard, handler, request, answer, done>>
    BY <1>3 DEF Expire
  <2>2. /\ ~receipt'[k].kept /\ \A j \in Keys \ {k} : receipt'[j] = receipt[j]
        /\ forgotten' = IF guard[k].kept THEN forgotten ELSE forgotten \cup {k}
    BY <1>3 DEF Expire, Types, TypeOK
  <2>3. (KeysUnused /\ ReceiptsTrue)'
    <3>1. \A h \in Handlers : handler[h].key \in Keys
      BY DEF Types, TypeOK, HandlerState
    <3>2. \A j \in Keys : receipt'[j].kept => receipt'[j] = receipt[j]
      BY <2>2
    <3>3. KeysUnused'
      BY <2>1, <3>1, <3>2 DEF ReceiptsInv, KeysUnused
    <3>4. ReceiptsTrue'
      BY <2>1, <3>2 DEF ReceiptsInv, ReceiptsTrue, CommittedAs
    <3> QED BY <3>3, <3>4
  <2>4. (ExpiredIsTrue /\ AppliedIsTrue)'
    BY <2>1 DEF ReceiptsInv, ExpiredIsTrue, AppliedIsTrue, CommittedAs
  <2>5. (Remembered /\ AppliedOnce)'
    BY <2>1, <2>2 DEF ReceiptsInv, Remembered, AppliedOnce
  <2> QED BY <2>3, <2>4, <2>5 DEF ReceiptsInv
<1>4. ASSUME NEW h \in Handlers, HandlerStep(h)
      PROVE  ReceiptsInv'
  BY <1>4, HandlerSteps, QuietReceipts, CommitReceipts, DeliverReceipts DEF Types
<1>5. ASSUME NEW e \in Editors, EditorStep(e)
      PROVE  ReceiptsInv'
  BY <1>1, <1>5 DEF EditorStep, EditorRead, EditorLock, EditorCommit, EditorAbort, Server
<1> QED BY <1>1, <1>2, <1>3, <1>4, <1>5 DEF Next, vars

-----------------------------------------------------------------------------
(* The Change rows never miss a Revision. *)

HistoryInv == WritesHaveChanges /\ RevisionsHaveChanges

LEMMA HistoryInit == Init => HistoryInv
<1> SUFFICES ASSUME Init
             PROVE  HistoryInv
  OBVIOUS
<1>1. /\ changes = [object : Existing \cup {"field"}, rev : {1}, by : {"editor"}]
      /\ \A r \in Records : records[r].rev = IF r \in Existing THEN 1 ELSE 0
      /\ field.rev = 1
  BY DEF Init, NoRow
<1>2. WritesHaveChanges
  BY DEF Init, WritesHaveChanges, IdleHandler
<1>3. \A x \in Existing \cup {"field"} : CompleteUpTo(changes, x, 1)
  <2> SUFFICES ASSUME NEW x \in Existing \cup {"field"}
               PROVE  CompleteUpTo(changes, x, 1)
    OBVIOUS
  <2>1. [object |-> x, rev |-> 1, by |-> "editor"] \in changes
    BY <1>1
  <2>2. 1 .. 1 = {1}
    OBVIOUS
  <2>3. \A c \in changes : c.object = x => c = [object |-> x, rev |-> 1, by |-> "editor"]
    BY <1>1
  <2> QED BY <2>1, <2>2, <2>3 DEF CompleteUpTo
<1>4. \A x \in Records \ Existing : CompleteUpTo(changes, x, 0)
  BY <1>1, MutationAssumption DEF CompleteUpTo
<1>5. RevisionsHaveChanges
  BY <1>1, <1>3, <1>4 DEF RevisionsHaveChanges
<1> QED BY <1>2, <1>5 DEF HistoryInv

(* The next Change row of an object extends its history and no other. *)
LEMMA NextChange ==
  ASSUME NEW cs, NEW x, NEW n \in Nat, CompleteUpTo(cs, x, n), NEW c, c.object = x, c.rev = n + 1
  PROVE  /\ CompleteUpTo(cs \cup {c}, x, n + 1)
         /\ \A y, m : y # x /\ CompleteUpTo(cs, y, m) => CompleteUpTo(cs \cup {c}, y, m)
<1>1. \A d \in cs : d.object = x => d.rev \in 1 .. n /\ d.rev # c.rev
  BY DEF CompleteUpTo
<1>2. 1 .. n + 1 = (1 .. n) \cup {n + 1}
  OBVIOUS
<1>3. CompleteUpTo(cs \cup {c}, x, n + 1)
  BY <1>1, <1>2 DEF CompleteUpTo
<1>4. \A y, m : y # x /\ CompleteUpTo(cs, y, m) => CompleteUpTo(cs \cup {c}, y, m)
  BY DEF CompleteUpTo
<1> QED BY <1>3, <1>4

LEMMA QuietHistory ==
  ASSUME Types, HistoryInv, NEW h \in Handlers, Quiet(h)
  PROVE  HistoryInv'
<1>1. PICK r \in HandlerState : Update(h, r) /\ Moves(h, r)
  BY DEF Quiet
<1>2. handler'[h] = r /\ \A g \in Handlers \ {h} : handler'[g] = handler[g]
  BY <1>1, QuietFrame DEF Types
<1>3. UNCHANGED <<records, field, changes>>
  BY DEF Quiet, OnlyHandler, Server
<1>4. RevisionsHaveChanges'
  BY <1>3 DEF HistoryInv, RevisionsHaveChanges, CompleteUpTo
<1> DEFINE seen(x) == IF r.rows[x].rev > 0 THEN r.rows[x] ELSE records[x]
           cs == changes \cup r.log
           old == changes \cup handler[h].log
<1>5. /\ \A x \in Records : seen(x).rev \in Nat /\ Seen(h, x).rev \in Nat
      /\ handler[h].rows \in [Records -> Row]
      /\ handler[h].field.rev \in Nat
  BY DEF Seen, Types, TypeOK, HandlerState, Row, Field
<1>6. r.pc \in {"begun", "actor", "unseen", "fresh", "table"} =>
        r.log = {} /\ \A x \in Records : r.rows[x] = NoRow
  BY <1>1 DEF Moves, SameWrites, Loop, HistoryInv, WritesHaveChanges
<1>7. r.pc \in Loop => /\ CompleteUpTo(cs, "field", r.field.rev)
                       /\ \A x \in Records : CompleteUpTo(cs, x, seen(x).rev)
  <2>1. CASE handler[h].pc = "table" /\ SameWrites(h, r) /\ r.field = field
    <3>1. handler[h].log = {} /\ \A x \in Records : handler[h].rows[x] = NoRow
      BY <2>1 DEF HistoryInv, WritesHaveChanges
    <3>2. r.log = {} /\ \A x \in Records : r.rows[x].rev = 0
      BY <2>1, <3>1 DEF SameWrites, NoRow
    <3>3. cs = changes /\ \A x \in Records : seen(x) = records[x]
      BY <3>2
    <3> HIDE DEF cs, seen
    <3> QED BY <2>1, <3>3 DEF HistoryInv, RevisionsHaveChanges
  <2>2. ASSUME handler[h].pc \in Loop
        PROVE  /\ CompleteUpTo(old, "field", handler[h].field.rev)
               /\ \A x \in Records : CompleteUpTo(old, x, Seen(h, x).rev)
    BY <2>2 DEF HistoryInv, WritesHaveChanges, Loop
  <2>3. CASE handler[h].pc \in Loop /\ SameWrites(h, r) /\ r.field.rev = handler[h].field.rev
    <3>1. cs = old /\ \A x \in Records : seen(x) = Seen(h, x)
      BY <2>3 DEF SameWrites, Seen
    <3> QED BY <2>2, <2>3, <3>1
  <2>4. CASE /\ handler[h].pc = "resolve" /\ r.rows = handler[h].rows
             /\ r.field.rev = handler[h].field.rev + 1
             /\ r.log = handler[h].log \cup {ChangeOf(h, "field", r.field.rev)}
    <3> DEFINE c == ChangeOf(h, "field", r.field.rev)
    <3>1. c.object = "field" /\ c.rev = handler[h].field.rev + 1
      BY <2>4 DEF ChangeOf
    <3>2. cs = old \cup {c} /\ \A x \in Records : x # "field" /\ seen(x) = Seen(h, x)
      BY <2>4, MutationAssumption DEF Seen
    <3>3. handler[h].pc \in Loop
      BY <2>4 DEF Loop
    <3> HIDE DEF c, cs, old, seen
    <3> QED BY <1>5, <2>2, <2>4, <3>1, <3>2, <3>3, NextChange
  <2>5. CASE /\ handler[h].pc = "apply" /\ r.field = handler[h].field
             /\ \E x \in Records, row \in Row :
                  /\ row.rev = Seen(h, x).rev + 1
                  /\ r.rows = [handler[h].rows EXCEPT ![x] = row]
                  /\ r.log = handler[h].log \cup {ChangeOf(h, x, row.rev)}
    <3>1. PICK x \in Records, row \in Row :
            /\ row.rev = Seen(h, x).rev + 1
            /\ r.rows = [handler[h].rows EXCEPT ![x] = row]
            /\ r.log = handler[h].log \cup {ChangeOf(h, x, row.rev)}
      BY <2>5
    <3> DEFINE c == ChangeOf(h, x, row.rev)
    <3>2. c.object = x /\ c.rev = Seen(h, x).rev + 1
      BY <3>1 DEF ChangeOf
    <3>3. cs = old \cup {c} /\ x # "field"
      BY <3>1, MutationAssumption
    <3>4. seen(x).rev = Seen(h, x).rev + 1
      BY <1>5, <3>1 DEF Row
    <3>5. \A y \in Records \ {x} : seen(y) = Seen(h, y)
      BY <1>5, <3>1 DEF Seen
    <3>6. handler[h].pc \in Loop
      BY <2>5 DEF Loop
    <3> HIDE DEF c, cs, old, seen
    <3>7. CompleteUpTo(cs, x, Seen(h, x).rev + 1) /\ CompleteUpTo(cs, "field", handler[h].field.rev)
      BY <1>5, <2>2, <3>2, <3>3, <3>6, NextChange
    <3>8. \A y \in Records \ {x} : CompleteUpTo(cs, y, Seen(h, y).rev)
      BY <1>5, <2>2, <3>2, <3>3, <3>6, NextChange
    <3> QED BY <2>5, <3>4, <3>5, <3>7, <3>8
  <2> QED BY <1>1, <2>1, <2>3, <2>4, <2>5 DEF Moves, Loop
<1>8. WritesHaveChanges'
  <2>1. \A g \in Handlers \ {h} : \A x \in Records : Seen(g, x)' = Seen(g, x)
    BY <1>2, <1>3 DEF Seen
  <2>2. \A x \in Records : Seen(h, x)' = seen(x)
    BY <1>2, <1>3 DEF Seen
  <2> HIDE DEF seen
  <2> QED BY <1>2, <1>3, <1>6, <1>7, <2>1, <2>2 DEF HistoryInv, WritesHaveChanges, CompleteUpTo, Loop
<1> QED BY <1>4, <1>8 DEF HistoryInv

LEMMA CommitHistory ==
  ASSUME Types, LocksExclusive, HistoryInv, NEW h \in Handlers, Commit(h)
  PROVE  HistoryInv'
<1> DEFINE r == [IdleHandler EXCEPT !.pc = "answer", !.key = handler[h].key,
                   !.body = handler[h].body, !.result = handler[h].result]
<1>1. r \in HandlerState /\ r.pc = "answer"
  BY IdleHandlerType DEF Types, TypeOK, HandlerState
<1>2. Update(h, r) /\ handler[h].pc = "apply"
  BY DEF Commit
<1> HIDE DEF r
<1>3. handler'[h] = r /\ \A g \in Handlers \ {h} : handler'[g] = handler[g]
  BY <1>1, <1>2, QuietFrame DEF Types
<1>4. /\ \A x \in Records : records'[x] = Seen(h, x)
      /\ field' = handler[h].field /\ changes' = changes \cup handler[h].log
  BY DEF Commit
<1>5. RevisionsHaveChanges'
  BY <1>2, <1>4 DEF HistoryInv, WritesHaveChanges, RevisionsHaveChanges, CompleteUpTo
<1>6. \A g \in Handlers \ {h} : handler[g].pc \notin Loop
  BY <1>2 DEF LocksExclusive, HoldsActor, Loop
<1>7. WritesHaveChanges'
  BY <1>1, <1>3, <1>6 DEF HistoryInv, WritesHaveChanges, Loop
<1> QED BY <1>5, <1>7 DEF HistoryInv

LEMMA EditorHistory ==
  ASSUME Types, LocksExclusive, HistoryInv, NEW e \in Editors, EditorStep(e)
  PROVE  HistoryInv'
<1>1. handler' = handler /\ records' = records
  BY DEF EditorStep, EditorRead, EditorLock, EditorCommit, EditorAbort, Server
<1>2. CASE UNCHANGED <<field, changes>>
  BY <1>1, <1>2 DEF HistoryInv, RevisionsHaveChanges, WritesHaveChanges, CompleteUpTo, Seen
<1>3. CASE EditorCommit(e) /\ editor[e].op # "toggleTable"
  <2> DEFINE c == [object |-> "field", rev |-> field.rev + 1, by |-> "editor"]
  <2>1. changes' = changes \cup {c} /\ field'.rev = field.rev + 1
    BY <1>3 DEF EditorCommit, Types, TypeOK, EditorState, Field
  <2>2. c.object = "field" /\ c.rev = field.rev + 1 /\ field.rev \in Nat
    BY DEF Types, TypeOK, Field
  <2> HIDE DEF c
  <2>3. /\ CompleteUpTo(changes, "field", field.rev)
        /\ \A x \in Records : x # "field" /\ CompleteUpTo(changes, x, records[x].rev)
    BY MutationAssumption DEF HistoryInv, RevisionsHaveChanges
  <2>4. /\ CompleteUpTo(changes', "field", field.rev + 1)
        /\ \A x \in Records : CompleteUpTo(changes', x, records[x].rev)
    BY <2>1, <2>2, <2>3, NextChange
  <2>5. RevisionsHaveChanges'
    BY <1>1, <2>1, <2>4 DEF RevisionsHaveChanges, CompleteUpTo
  <2>6. \A h \in Handlers : handler[h].pc \notin Loop
    BY <1>3 DEF EditorCommit, LocksExclusive, HandlerHoldsTable, EditorHoldsTable, Loop
  <2>7. WritesHaveChanges'
    BY <1>1, <2>6 DEF HistoryInv, WritesHaveChanges, Loop
  <2> QED BY <2>5, <2>7 DEF HistoryInv
<1> QED BY <1>2, <1>3 DEF EditorStep, EditorRead, EditorLock, EditorCommit, EditorAbort, Server

LEMMA HistoryStep == Types /\ LocksExclusive /\ HistoryInv /\ [Next]_vars => HistoryInv'
<1> SUFFICES ASSUME Types, LocksExclusive, HistoryInv, [Next]_vars
             PROVE  HistoryInv'
  OBVIOUS
<1>1. ASSUME UNCHANGED <<records, field, changes, handler>>
      PROVE  HistoryInv'
  BY <1>1 DEF HistoryInv, RevisionsHaveChanges, WritesHaveChanges, CompleteUpTo, Seen
<1>2. ASSUME NEW k \in Keys, Compose(k) \/ Expire(k)
      PROVE  HistoryInv'
  BY <1>1, <1>2 DEF Compose, Expire, Server
<1>3. ASSUME NEW h \in Handlers, Deliver(h)
      PROVE  HistoryInv'
  <2>1. handler'[h] = IdleHandler /\ \A g \in Handlers \ {h} : handler'[g] = handler[g]
    BY <1>3, IdleHandlerType, QuietFrame DEF Deliver, Types
  <2>2. UNCHANGED <<records, field, changes>> /\ IdleHandler.pc = "idle"
    BY <1>3 DEF Deliver, Server, IdleHandler
  <2>3. \A g \in Handlers \ {h} : \A x \in Records : Seen(g, x)' = Seen(g, x)
    BY <2>1, <2>2 DEF Seen
  <2> QED BY <2>1, <2>2, <2>3 DEF HistoryInv, RevisionsHaveChanges, WritesHaveChanges, CompleteUpTo
<1>4. ASSUME NEW h \in Handlers, HandlerStep(h)
      PROVE  HistoryInv'
  BY <1>3, <1>4, HandlerSteps, QuietHistory, CommitHistory DEF Types
<1>5. ASSUME NEW e \in Editors, EditorStep(e)
      PROVE  HistoryInv'
  BY <1>5, EditorHistory
<1> QED BY <1>1, <1>2, <1>4, <1>5 DEF Next, vars

Everything == Types /\ LocksExclusive /\ ReceiptsInv /\ HistoryInv

LEMMA EverythingInv == Spec => []Everything
<1>1. Init => Everything
  BY TypesInit, LocksInit, ReceiptsInit, HistoryInit DEF Everything
<1>2. Everything /\ [Next]_vars => Everything'
  BY TypesStep, LocksStep, ReceiptsStep, HistoryStep DEF Everything
<1> QED BY <1>1, <1>2, PTL DEF Spec

(* Variables keep their types, and no Field ever exceeds its Option budgets *)
(* (resolveChoiceOption and normalizeUpdatedSelectConfig each count them).  *)
THEOREM MutationTypeOK == Spec => []TypeOK
<1>1. Everything => TypeOK
  BY DEF Everything, Types
<1> QED BY <1>1, EverythingInv, PTL

(* No request and no edit is about to exceed the budgets of active and of   *)
(* all Options, whatever the limits are (resolveChoiceOption,               *)
(* normalizeUpdatedSelectConfig).                                           *)
THEOREM MutationWithinBudget == Spec => []WorkWithinBudget
<1>1. Everything => WorkWithinBudget
  BY DEF Everything, Types
<1> QED BY <1>1, EverythingInv, PTL

(* A request is committed at most once under its key while the receipt or   *)
(* the guard of the key is kept (mutation.go replayIdempotent under the     *)
(* Actor lock, saveIdempotent in the same transaction).                     *)
THEOREM MutationAppliedOnce == Spec => []AppliedOnce
<1>1. Everything => AppliedOnce
  BY DEF Everything, ReceiptsInv
<1> QED BY <1>1, EverythingInv, PTL

(* Whoever is told "applied", or "expired", is told of a real commit of the  *)
(* very request that was sent, and a repeated request gets its first result. *)
THEOREM MutationAppliedIsTrue == Spec => []AppliedIsTrue
<1>1. Everything => AppliedIsTrue
  BY DEF Everything, ReceiptsInv
<1> QED BY <1>1, EverythingInv, PTL

(* Every Revision of every Record, and of the Select Field, has exactly one *)
(* row in changes, whatever handlers and editors interleave or abort        *)
(* (lockActiveTable, the compare-and-set updates, appendChange).            *)
THEOREM MutationRevisionsHaveChanges == Spec => []RevisionsHaveChanges
<1>1. Everything => RevisionsHaveChanges
  BY DEF Everything, HistoryInv
<1> QED BY <1>1, EverythingInv, PTL

(* The inductive invariant that the runs check holds for all constants. *)
THEOREM MutationInvariant == Spec => []MutationInv
<1>1. Everything => MutationInv
  BY DEF Everything, HistoryInv, ReceiptsInv, Types, MutationInv
<1> QED BY <1>1, EverythingInv, PTL

-----------------------------------------------------------------------------
(* What a transaction has done so far, and why it then has the effect that  *)
(* MutationLog describes.  f and rows are what is stored, g and work what   *)
(* the transaction works with.                                              *)

(* Options have identities of their own, and active ones names of their own. *)
Proper(f) ==
  \A o, p \in f.options \cup f.dropped :
    (o.id = p.id \/ (o.name = p.name /\ {o, p} \subseteq f.options)) => o = p

NamesOf(options) == {o.name : o \in options}

Drafts(cmds, n) == {cmds[i].name : i \in {j \in DOMAIN cmds : j < n /\ cmds[j].how = "draft"}}

PickTrue(cmd, g, id) ==
  /\ cmd.how = "draft" => \E o \in g.options : o.name = cmd.name /\ o.id = id
  /\ cmd.how = "pick" => id = cmd.option

(* The commands before n have their Options, and no Option is there for     *)
(* nothing.                                                                 *)
Resolved(body, g, picked, f, n) ==
  LET made == g.options \ f.options IN
  /\ Proper(g)
  /\ g.dropped = f.dropped /\ g.deleted = f.deleted /\ f.options \subseteq g.options
  /\ Ids(made) \cap Ids(f.options \cup f.dropped) = {}
  /\ NamesOf(made) = Drafts(body.commands, n) \ NamesOf(f.options)
  /\ HasChoices(body) => /\ f.rev = body.fieldRev /\ ~f.deleted
                         /\ Len(picked) = n - 1
                         /\ \A i \in 1 .. n - 1 : PickTrue(body.commands[i], g, picked[i])

(* The value v that a command gives a Record which had the value old.       *)
GivesValue(g, cmd, old, v) ==
  /\ cmd.how = "draft" => \E o \in g.options : o.name = cmd.name /\ o.id = v
  /\ cmd.how \in {"pick", "set"} =>
       v = cmd.option /\ (v \in Ids(g.options) \/ (v = old /\ v \in Ids(g.dropped)))
  /\ cmd.how \in {"set", "unset"} => ~g.deleted
  /\ cmd.how = "unset" => v = 0
  /\ cmd.how = "none" => v = old

Raised(row, v, deleted) == [rev |-> row.rev + 1, value |-> v, deleted |-> deleted]

(* A command took the row before to the row after, with the outcome out.    *)
Effect(g, cmd, out, before, after) ==
  /\ out.rev = after.rev
  /\ out.status = IF after = before THEN "unchanged" ELSE "applied"
  /\ cmd.kind # "create" => out.record = cmd.target /\ before.rev = cmd.rev /\ before.rev > 0
  /\ GivesValue(g, cmd, before.value, after.value)
  /\ \/ cmd.kind = "create" /\ before.rev = 0 /\ after = Raised(before, after.value, FALSE)
     \/ /\ cmd.kind = "update" /\ ~before.deleted
        /\ after \in {before, Raised(before, after.value, FALSE)}
        /\ after.value = before.value => after = before
     \/ cmd.kind = "delete" /\ ~before.deleted /\ after = Raised(before, before.value, TRUE)
     \/ cmd.kind = "restore" /\ before.deleted /\ after = Raised(before, before.value, FALSE)

Over(work, rows, r) == IF work[r].rev > 0 THEN work[r] ELSE rows[r]

(* The commands before n have had their effect, and nothing else has. *)
Applied(body, g, work, result, rows, n) ==
  /\ Len(result) = n - 1
  /\ \A i \in 1 .. n - 1 :
       LET x == result[i].record
       IN  Effect(g, body.commands[i], result[i], rows[x], Over(work, rows, x))
  /\ \A i, j \in 1 .. n - 1 : result[i].record = result[j].record => i = j
  /\ \A r \in Records : work[r] # NoRow => \E i \in 1 .. n - 1 : result[i].record = r

WorkTrue(q, rows, f) ==
  /\ q.pc \in {"begun", "actor", "unseen", "fresh", "table"} => q.picked = <<>> /\ q.result = <<>>
  /\ q.pc \in Loop => q.next <= Len(q.body.commands) + 1
  /\ q.pc = "resolve" => /\ HasChoices(q.body) /\ q.field.rev = f.rev
                         /\ Resolved(q.body, q.field, q.picked, f, q.next)
                         /\ Applied(q.body, q.field, q.rows, q.result, rows, 1)
  /\ q.pc = "apply" =>
       /\ q.field.rev = IF q.field.options = f.options THEN f.rev ELSE f.rev + 1
       /\ Resolved(q.body, q.field, q.picked, f, Len(q.body.commands) + 1)
       /\ Applied(q.body, q.field, q.rows, q.result, rows, q.next)

(* validateCommands, and Revisions that the client has seen. *)
Sound(body, rows, f) ==
  LET cmds == body.commands IN
  /\ body.fieldRev <= f.rev
  /\ \A i \in Targets(cmds) : 0 < cmds[i].rev /\ cmds[i].rev <= rows[cmds[i].target].rev
  /\ \A i, j \in Targets(cmds) : cmds[i].target = cmds[j].target => i = j
  /\ \A i \in DOMAIN cmds : cmds[i].kind \in {"delete", "restore"} => cmds[i].how = "none"

(* One more command has its Option. *)
LEMMA ResolveOne ==
  ASSUME NEW body \in Body, NEW f \in Field, NEW g \in Field, NEW h \in Field,
         NEW picked \in Seq({0} \cup Option), NEW id \in {0} \cup Option,
         NEW n \in 1 .. Len(body.commands),
         HasChoices(body), Resolved(body, g, picked, f, n), Proper(h),
         h.dropped = g.dropped, h.deleted = g.deleted, g.options \subseteq h.options,
         Ids(h.options \ f.options) \cap Ids(f.options \cup f.dropped) = {},
         NamesOf(h.options \ f.options) =
           NamesOf(g.options \ f.options) \cup
             (IF body.commands[n].how = "draft" THEN {body.commands[n].name} \ NamesOf(f.options) ELSE {}),
         PickTrue(body.commands[n], h, id)
  PROVE  Resolved(body, h, Append(picked, id), f, n + 1)
<1> DEFINE cmds == body.commands
           more == Append(picked, id)
<1>1. cmds \in Seq(Command) /\ n \in DOMAIN cmds /\ n \in Nat /\ DOMAIN cmds \subseteq Nat
  BY DEF Body
<1>2. Drafts(cmds, n + 1) = Drafts(cmds, n) \cup (IF cmds[n].how = "draft" THEN {cmds[n].name} ELSE {})
  <2>1. \A i \in DOMAIN cmds : i < n + 1 <=> i < n \/ i = n
    BY <1>1
  <2> HIDE DEF cmds
  <2> QED BY <1>1, <2>1 DEF Drafts
<1>3. NamesOf(h.options \ f.options) = Drafts(cmds, n + 1) \ NamesOf(f.options)
  <2>1. NamesOf(g.options \ f.options) = Drafts(cmds, n) \ NamesOf(f.options)
    BY DEF Resolved
  <2> HIDE DEF cmds
  <2> QED
    <3>1. (Drafts(cmds, n) \cup {cmds[n].name}) \ NamesOf(f.options)
            = (Drafts(cmds, n) \ NamesOf(f.options)) \cup ({cmds[n].name} \ NamesOf(f.options))
      OBVIOUS
    <3> QED BY <1>2, <2>1, <3>1 DEF cmds
<1>4. Len(picked) = n - 1 /\ \A i \in 1 .. n - 1 : PickTrue(cmds[i], g, picked[i])
  BY DEF Resolved
<1>5. Len(more) = n /\ more[n] = id /\ \A i \in 1 .. n - 1 : more[i] = picked[i]
  BY <1>1, <1>4, AppendProperties
<1>6. \A i \in 1 .. n : PickTrue(cmds[i], h, more[i])
  <2> SUFFICES ASSUME NEW i \in 1 .. n PROVE PickTrue(cmds[i], h, more[i])
    OBVIOUS
  <2>0. n \in Nat /\ (i = n \/ i \in 1 .. n - 1)
    OBVIOUS
  <2>1. CASE i = n
    BY <1>5, <2>1
  <2>2. CASE i \in 1 .. n - 1
    <3>1. PickTrue(cmds[i], g, picked[i]) /\ more[i] = picked[i]
      BY <1>4, <1>5, <2>2
    <3> QED BY <3>1 DEF PickTrue
  <2> QED BY <2>0, <2>1, <2>2
<1>7. /\ h.dropped = f.dropped /\ h.deleted = f.deleted /\ f.options \subseteq h.options
      /\ f.rev = body.fieldRev /\ ~f.deleted
  BY DEF Resolved
<1>8. (n + 1) - 1 = n
  BY <1>1
<1>9. Ids(h.options \ f.options) \cap Ids(f.options \cup f.dropped) = {} /\ Proper(h)
  OBVIOUS
<1>10. HasChoices(body) => /\ f.rev = body.fieldRev /\ ~f.deleted
                           /\ Len(more) = (n + 1) - 1
                           /\ \A i \in 1 .. (n + 1) - 1 : PickTrue(cmds[i], h, more[i])
  BY <1>5, <1>6, <1>7, <1>8
<1> HIDE DEF more
<1> QED BY <1>3, <1>7, <1>9, <1>10, Zenon DEF Resolved, more

(* The Record that a command is about has not been written before it. *)
LEMMA Unwritten ==
  ASSUME NEW body \in Body, NEW f \in Field, NEW g \in Field, NEW x \in Records,
         NEW work \in [Records -> Row], NEW result \in Result,
         NEW rows \in [Records -> Row], NEW n \in 1 .. Len(body.commands),
         Applied(body, g, work, result, rows, n), Sound(body, rows, f),
         body.commands[n].kind = "create" => Over(work, rows, x).rev = 0,
         body.commands[n].kind # "create" => x = body.commands[n].target
  PROVE  (\A i \in 1 .. n - 1 : result[i].record # x) /\ work[x] = NoRow
<1> DEFINE cmds == body.commands
<1>0. cmds \in Seq(Command)
  BY DEF Body
<1> HIDE DEF cmds
<1>1. /\ n \in Nat /\ n \in 1 .. Len(cmds) /\ n \in DOMAIN cmds
      /\ \A i \in 1 .. n - 1 : i \in DOMAIN cmds /\ i # n
  BY <1>0 DEF cmds
<1>2. \A i \in 1 .. n - 1 : Effect(g, cmds[i], result[i], rows[result[i].record],
                                   Over(work, rows, result[i].record))
  BY DEF Applied, cmds
<1>3. ASSUME NEW i \in 1 .. n - 1, result[i].record = x PROVE FALSE
  <2>1. Effect(g, cmds[i], result[i], rows[x], Over(work, rows, x))
    BY <1>2, <1>3
  <2>2. CASE cmds[n].kind = "create"
    <3>1. rows[x].rev \in Nat /\ Over(work, rows, x).rev = 0
      BY <2>2 DEF Row, cmds
    <3> QED BY <2>1, <3>1 DEF Effect, Raised
  <2>3. CASE cmds[n].kind # "create"
    <3>1. n \in Targets(cmds) /\ rows[x].rev > 0
      <4>1. n \in Targets(cmds)
        BY <1>1, <2>3 DEF Targets
      <4>2. 0 < cmds[n].rev /\ cmds[n].rev <= rows[cmds[n].target].rev
        BY <4>1 DEF Sound, cmds
      <4>3. cmds[n].rev \in Nat /\ rows[x].rev \in Nat
        <5>1. cmds[n] \in Command
          BY <1>0, <1>1
        <5> QED BY <5>1 DEF Command, Row
      <4>4. x = cmds[n].target
        BY <2>3 DEF cmds
      <4> QED BY <4>1, <4>2, <4>3, <4>4
    <3>2. cmds[i].kind # "create" /\ cmds[i].target = x
      <4>1. cmds[i].kind = "create" => rows[x].rev = 0
        BY <2>1 DEF Effect
      <4>2. cmds[i].kind # "create" => result[i].record = cmds[i].target
        BY <2>1 DEF Effect
      <4> QED BY <1>3, <3>1, <4>1, <4>2
    <3>3. i \in Targets(cmds)
      BY <1>1, <3>2 DEF Targets
    <3>4. cmds[n].target = x
      BY <2>3 DEF cmds
    <3>5. i = n
      BY <3>1, <3>2, <3>3, <3>4 DEF Sound, cmds
    <3> QED BY <1>1, <3>5
  <2> QED BY <2>2, <2>3
<1> QED BY <1>3 DEF Applied

(* One more command has had its effect. *)
LEMMA ApplyOne ==
  ASSUME NEW body \in Body, NEW g, NEW work \in [Records -> Row], NEW result \in Result,
         NEW rows \in [Records -> Row], NEW n \in 1 .. Len(body.commands),
         Applied(body, g, work, result, rows, n), NEW x \in Records,
         \A i \in 1 .. n - 1 : result[i].record # x,
         NEW out \in Outcome, out.record = x,
         NEW after \in [Records -> Row], \A y \in Records \ {x} : after[y] = work[y],
         Effect(g, body.commands[n], out, rows[x], Over(after, rows, x))
  PROVE  Applied(body, g, after, Append(result, out), rows, n + 1)
<1> DEFINE cmds == body.commands
           more == Append(result, out)
<1>1. n \in Nat /\ Len(result) = n - 1 /\ \A i \in 1 .. n - 1 : i \in 1 .. Len(result)
  BY DEF Applied
<1>2. Len(more) = n /\ more[n] = out /\ \A i \in 1 .. n - 1 : more[i] = result[i]
  BY <1>1, AppendProperties DEF Result
<1>3. \A i \in 1 .. n - 1 : result[i].record \in Records
  <2>1. result \in Seq(Outcome)
    BY DEF Result
  <2>2. \A i \in 1 .. n - 1 : result[i] \in Outcome
    BY <1>1, <2>1
  <2> QED BY <2>2 DEF Outcome
<1>4. \A i \in 1 .. n : Effect(g, cmds[i], more[i], rows[more[i].record], Over(after, rows, more[i].record))
  <2> SUFFICES ASSUME NEW i \in 1 .. n
               PROVE  Effect(g, cmds[i], more[i], rows[more[i].record], Over(after, rows, more[i].record))
    OBVIOUS
  <2>1. CASE i = n
    BY <1>2, <2>1
  <2>2. CASE i \in 1 .. n - 1
    <3>1. Effect(g, cmds[i], result[i], rows[result[i].record], Over(work, rows, result[i].record))
      BY <2>2 DEF Applied
    <3>2. result[i].record \in Records \ {x} /\ more[i] = result[i]
      BY <1>2, <1>3, <2>2
    <3>3. Over(after, rows, result[i].record) = Over(work, rows, result[i].record)
      BY <3>2 DEF Over
    <3> QED BY <3>1, <3>2, <3>3
  <2> QED BY <1>1, <2>1, <2>2
<1>5. \A i, j \in 1 .. n : more[i].record = more[j].record => i = j
  <2> SUFFICES ASSUME NEW i \in 1 .. n, NEW j \in 1 .. n, more[i].record = more[j].record
               PROVE  i = j
    OBVIOUS
  <2>1. (i = n \/ i \in 1 .. n - 1) /\ (j = n \/ j \in 1 .. n - 1)
    BY <1>1
  <2>2. CASE i \in 1 .. n - 1 /\ j \in 1 .. n - 1
    BY <1>2, <2>2 DEF Applied
  <2> QED BY <1>2, <2>1, <2>2
<1>6. \A r \in Records : after[r] # NoRow => \E i \in 1 .. n : more[i].record = r
  <2> SUFFICES ASSUME NEW r \in Records, after[r] # NoRow
               PROVE  \E i \in 1 .. n : more[i].record = r
    OBVIOUS
  <2>1. CASE r = x
    BY <1>1, <1>2, <2>1
  <2>2. CASE r # x
    <3>1. PICK i \in 1 .. n - 1 : result[i].record = r
      BY <2>2 DEF Applied
    <3> QED BY <1>1, <1>2, <3>1
  <2> QED BY <2>1, <2>2
<1>7. (n + 1) - 1 = n
  BY <1>1
<1> HIDE DEF more
<1> QED BY <1>2, <1>4, <1>5, <1>6, <1>7 DEF Applied

(* Before the loop nothing is done yet. *)
LEMMA NothingApplied ==
  ASSUME NEW body, NEW g, NEW work, NEW rows, NEW result, result = <<>>, \A r \in Records : work[r] = NoRow
  PROVE  Applied(body, g, work, result, rows, 1)
<1>1. Len(result) = 1 - 1 /\ 1 .. 1 - 1 = {}
  OBVIOUS
<1> QED BY <1>1 DEF Applied

LEMMA NothingResolved ==
  ASSUME NEW body \in Body, NEW f \in Field, Proper(f), NEW picked, picked = <<>>, NEW n \in Nat,
         IF HasChoices(body) THEN n = 1 /\ f.rev = body.fieldRev /\ ~f.deleted ELSE TRUE
  PROVE  Resolved(body, f, picked, f, n)
<1>1. body.commands \in Seq(Command)
  BY DEF Body
<1>2. Drafts(body.commands, n) = {}
  <2>1. CASE HasChoices(body)
    <3>1. n = 1 /\ \A j \in DOMAIN body.commands : ~(j < 1)
      BY <1>1, <2>1
    <3> QED BY <3>1 DEF Drafts
  <2>2. CASE ~HasChoices(body)
    BY <2>2 DEF Drafts, HasChoices
  <2> QED BY <2>1, <2>2
<1>3. f.options \ f.options = {} /\ NamesOf({}) = {} /\ Ids({}) = {}
  BY DEF NamesOf, Ids
<1>4. HasChoices(body) => Len(picked) = n - 1 /\ 1 .. n - 1 = {}
  OBVIOUS
<1> QED BY <1>2, <1>3, <1>4 DEF Resolved

(* The definition moves to its next Revision with the same Options. *)
LEMMA ResolvedSame ==
  ASSUME NEW body, NEW g, NEW h, NEW picked, NEW f, NEW n, Resolved(body, g, picked, f, n),
         h.options = g.options, h.dropped = g.dropped, h.deleted = g.deleted
  PROVE  Resolved(body, h, picked, f, n)
<1>1. Proper(h)
  BY DEF Resolved, Proper
<1>2. \A cmd, id : PickTrue(cmd, g, id) = PickTrue(cmd, h, id)
  BY DEF PickTrue
<1> QED BY <1>1, <1>2 DEF Resolved

-----------------------------------------------------------------------------
(* Each step of a handler extends what it has done. *)

LEMMA StartWork ==
  ASSUME Types, HistoryInv, Proper(field), NEW h \in Handlers,
         WorkTrue(handler[h], records, field), LoadFields(h) \/ CheckChoices(h),
         handler'[h].pc # "answer"
  PROVE  WorkTrue(handler'[h], records, field)
<1>1. PICK q \in HandlerState : q = handler[h]
  BY DEF Types, TypeOK
<1>2. handler[h].pc = "table" /\ field \in Field
  BY DEF LoadFields, CheckChoices, Types, TypeOK
<1>3. q.picked = <<>> /\ q.result = <<>> /\ \A r \in Records : q.rows[r] = NoRow
  BY <1>1, <1>2 DEF WorkTrue, HistoryInv, WritesHaveChanges
<1>4. q.body \in Body /\ Len(q.body.commands) \in Nat
  BY DEF HandlerState, Body
<1>5. ASSUME NEW pc \in Loop, StartLoop(h, pc, field)
      PROVE  /\ handler'[h].pc = pc /\ handler'[h].next = 1 /\ handler'[h].field = field
             /\ handler'[h].body = q.body /\ handler'[h].picked = <<>>
             /\ handler'[h].result = <<>> /\ handler'[h].rows = q.rows
  <2>1. handler'[h] = [q EXCEPT !.pc = pc, !.next = 1, !.field = field]
    BY <1>1, <1>5 DEF StartLoop, Update, Types, TypeOK
  <2> QED BY <1>3, <2>1 DEF HandlerState
<1>6. CASE LoadFields(h)
  <2>1. StartLoop(h, "apply", field) /\ ~HasChoices(q.body)
    BY <1>1, <1>6 DEF LoadFields
  <2>2. Resolved(q.body, field, <<>>, field, Len(q.body.commands) + 1)
    BY <1>2, <1>4, <2>1, NothingResolved
  <2>3. Applied(q.body, field, q.rows, <<>>, records, 1)
    BY <1>3, NothingApplied
  <2> QED BY <1>4, <1>5, <2>1, <2>2, <2>3 DEF WorkTrue, Loop
<1>7. CASE CheckChoices(h)
  <2>1. \/ \E code : Reject(h, code)
        \/ /\ StartLoop(h, "resolve", field) /\ HasChoices(q.body)
           /\ field.rev = q.body.fieldRev /\ ~field.deleted
    BY <1>1, <1>7, Zenon DEF CheckChoices
  <2>2. ~\E code : Reject(h, code)
    <3> SUFFICES ASSUME NEW code, Reject(h, code) PROVE FALSE
      OBVIOUS
    <3>1. handler'[h] = [IdleHandler EXCEPT !.pc = "answer", !.key = handler[h].key,
                           !.body = handler[h].body, !.answer = code]
      BY DEF Reject, Update, Types, TypeOK
    <3> QED BY <3>1 DEF IdleHandler
  <2>3. /\ StartLoop(h, "resolve", field) /\ HasChoices(q.body)
        /\ field.rev = q.body.fieldRev /\ ~field.deleted
    BY <2>1, <2>2
  <2>4. Resolved(q.body, field, <<>>, field, 1)
    BY <1>2, <1>4, <2>3, NothingResolved
  <2>5. Applied(q.body, field, q.rows, <<>>, records, 1)
    BY <1>3, NothingApplied
  <2> QED BY <1>4, <1>5, <2>3, <2>4, <2>5 DEF WorkTrue, Loop
<1> QED BY <1>6, <1>7

LEMMA SaveWork ==
  ASSUME Types, NEW h \in Handlers, WorkTrue(handler[h], records, field), SaveOptions(h)
  PROVE  WorkTrue(handler'[h], records, field)
<1>1. PICK q \in HandlerState : q = handler[h]
  BY DEF Types, TypeOK
<1>2. PICK f \in Field : f = q.field
  BY DEF HandlerState
<1>3. /\ q.pc = "resolve" /\ q.next > Len(q.body.commands) /\ q.next \in Nat
      /\ q.body \in Body /\ Len(q.body.commands) \in Nat /\ field \in Field
  BY <1>1 DEF SaveOptions, HandlerState, Body, Types, TypeOK
<1>4. /\ q.next = Len(q.body.commands) + 1
      /\ HasChoices(q.body) /\ f.rev = field.rev
      /\ Resolved(q.body, f, q.picked, field, Len(q.body.commands) + 1)
      /\ Applied(q.body, f, q.rows, q.result, records, 1)
  BY <1>1, <1>2, <1>3 DEF WorkTrue, Loop
<1>5. PICK g \in Field : /\ g.options = f.options /\ g.dropped = f.dropped /\ g.deleted = f.deleted
                         /\ g.rev = IF f.options = field.options THEN field.rev ELSE field.rev + 1
                         /\ handler'[h].field = g
                         /\ handler'[h].pc = "apply" /\ handler'[h].next = 1
                         /\ handler'[h].body = q.body /\ handler'[h].picked = q.picked
                         /\ handler'[h].result = q.result /\ handler'[h].rows = q.rows
  <2>1. CASE f = field
    <3>1. handler'[h] = [q EXCEPT !.pc = "apply", !.next = 1, !.field = f]
      BY <1>1, <1>2, <2>1 DEF SaveOptions, StartLoop, Update, Types, TypeOK
    <3> QED BY <1>4, <2>1, <3>1 DEF HandlerState
  <2>2. CASE f # field
    <3>1. f.options # field.options
      <4>1. f.dropped = field.dropped /\ f.deleted = field.deleted
        BY <1>4 DEF Resolved
      <4> QED BY <1>3, <1>4, <2>2, <4>1 DEF Field
    <3>2. PICK g : g = [f EXCEPT !.rev = f.rev + 1]
      OBVIOUS
    <3>3. g \in Field /\ g.options = f.options /\ g.dropped = f.dropped /\ g.deleted = f.deleted /\ g.rev = f.rev + 1
      BY <3>2 DEF Field
    <3>4. Update(h, [q EXCEPT !.pc = "apply", !.next = 1, !.field = g,
                              !.log = q.log \cup {ChangeOf(h, "field", f.rev + 1)}])
      BY <1>1, <1>2, <2>2, <3>2, Zenon DEF SaveOptions
    <3>5. handler'[h] = [q EXCEPT !.pc = "apply", !.next = 1, !.field = g,
                                  !.log = q.log \cup {ChangeOf(h, "field", f.rev + 1)}]
      BY <3>4 DEF Update, Types, TypeOK
    <3> QED BY <1>4, <3>1, <3>3, <3>5 DEF HandlerState
  <2> QED BY <2>1, <2>2
<1>6. Resolved(q.body, g, q.picked, field, Len(q.body.commands) + 1)
  BY <1>4, <1>5, ResolvedSame
<1>7. Applied(q.body, g, q.rows, q.result, records, 1)
  BY <1>4 DEF Applied
<1> QED BY <1>3, <1>5, <1>6, <1>7 DEF WorkTrue, Loop

LEMMA PickWork ==
  ASSUME Types, NEW h \in Handlers, WorkTrue(handler[h], records, field), InLoop(h, "resolve"),
         NEW id \in {0} \cup Option, NEW g \in Field, Pick(h, id, g), g.rev = handler[h].field.rev,
         Resolved(handler[h].body, g, Append(handler[h].picked, id), field, handler[h].next + 1)
  PROVE  WorkTrue(handler'[h], records, field)
<1>1. PICK q \in HandlerState : q = handler[h]
  BY DEF Types, TypeOK
<1>2. /\ q.pc = "resolve" /\ q.next <= Len(q.body.commands) /\ q.next \in Nat
      /\ Len(q.body.commands) \in Nat
  BY <1>1 DEF InLoop, HandlerState, Body
<1>3. /\ HasChoices(q.body) /\ q.field.rev = field.rev
      /\ Applied(q.body, q.field, q.rows, q.result, records, 1)
  BY <1>1, <1>2 DEF WorkTrue
<1>4. handler'[h] = [q EXCEPT !.next = q.next + 1, !.field = g, !.picked = Append(q.picked, id)]
  BY <1>1 DEF Pick, Update, Types, TypeOK
<1>5. /\ handler'[h].pc = "resolve" /\ handler'[h].next = q.next + 1 /\ handler'[h].field = g
      /\ handler'[h].picked = Append(q.picked, id) /\ handler'[h].body = q.body
      /\ handler'[h].result = q.result /\ handler'[h].rows = q.rows
  BY <1>2, <1>4 DEF HandlerState
<1>6. Applied(q.body, g, q.rows, q.result, records, 1)
  BY <1>3 DEF Applied
<1> QED BY <1>1, <1>2, <1>3, <1>5, <1>6 DEF WorkTrue

LEMMA ResolveWork ==
  ASSUME Types, NEW h \in Handlers, WorkTrue(handler[h], records, field), ResolveChoice(h),
         handler'[h].pc # "answer"
  PROVE  WorkTrue(handler'[h], records, field)
<1>1. PICK q \in HandlerState : q = handler[h]
  BY DEF Types, TypeOK
<1>2. PICK f \in Field : f = q.field
  BY DEF HandlerState
<1>3. InLoop(h, "resolve")
  BY DEF ResolveChoice
<1>4. /\ q.pc = "resolve" /\ q.next \in 1 .. Len(q.body.commands) /\ q.body \in Body
      /\ q.picked \in Seq({0} \cup Option) /\ field \in Field
  BY <1>1, <1>3 DEF InLoop, HandlerState, Body, Types, TypeOK
<1>5. HasChoices(q.body) /\ Resolved(q.body, f, q.picked, field, q.next) /\ f.rev = field.rev
  BY <1>1, <1>2, <1>4 DEF WorkTrue
<1>6. PICK cmd \in Command : cmd = Current(h) /\ cmd = q.body.commands[q.next]
  <2>1. Current(h) \in Command
    BY <1>3, CurrentType DEF InLoop, Types
  <2> QED BY <1>1, <2>1 DEF Current
<1>7. /\ Proper(f) /\ f.dropped = field.dropped /\ f.deleted = field.deleted /\ field.options \subseteq f.options
      /\ Ids(f.options \ field.options) \cap Ids(field.options \cup field.dropped) = {}
  BY <1>5 DEF Resolved
<1>8. ASSUME NEW id \in {0} \cup Option, Pick(h, id, f), PickTrue(cmd, f, id),
             cmd.how = "draft" => cmd.name \in NamesOf(f.options)
      PROVE  WorkTrue(handler'[h], records, field)
  <2>1. NamesOf(f.options \ field.options) = NamesOf(f.options \ field.options) \cup
          (IF cmd.how = "draft" THEN {cmd.name} \ NamesOf(field.options) ELSE {})
    BY <1>8 DEF NamesOf
  <2>2. Resolved(q.body, f, Append(q.picked, id), field, q.next + 1)
    BY <1>4, <1>5, <1>6, <1>7, <1>8, <2>1, ResolveOne
  <2> QED BY <1>1, <1>2, <1>3, <1>8, <2>2, PickWork
<1>9. CASE cmd.how \notin {"draft", "pick"} /\ Pick(h, 0, f)
  BY <1>8, <1>9 DEF PickTrue
<1>10. CASE cmd.how = "pick" /\ Pick(h, cmd.option, f)
  <2>1. cmd.option \in Option
    BY DEF Command
  <2> QED BY <1>8, <1>10, <2>1 DEF PickTrue
<1>11. ASSUME cmd.how = "draft", NEW o \in f.options, o.name = cmd.name, Pick(h, o.id, f)
       PROVE  WorkTrue(handler'[h], records, field)
  <2>1. o.id \in Option
    BY DEF Field, NamedOption
  <2> QED BY <1>8, <1>11, <2>1 DEF PickTrue, NamesOf
<1>12. ASSUME cmd.how = "draft", {o \in f.options : o.name = cmd.name} = {}, NEW id \in Option, Unused(id),
              Pick(h, id, [f EXCEPT !.options = f.options \cup {[id |-> id, name |-> cmd.name]}])
       PROVE  WorkTrue(handler'[h], records, field)
  <2>1. PICK o \in NamedOption : o = [id |-> id, name |-> cmd.name] /\ o.id = id /\ o.name = cmd.name
    <3>1. cmd.name \in Names
      BY DEF Command
    <3>2. [id |-> id, name |-> cmd.name] \in NamedOption
      BY <3>1 DEF NamedOption
    <3> QED BY <3>2
  <2>2. PICK g : g = [f EXCEPT !.options = f.options \cup {o}]
    OBVIOUS
  <2>3. /\ g \in Field /\ g.options = f.options \cup {o} /\ g.dropped = f.dropped
        /\ g.deleted = f.deleted /\ g.rev = f.rev
    BY <2>2 DEF Field
  <2>4. id \notin Ids(field.options \cup field.dropped) /\ id \notin Ids(f.options)
    BY <1>1, <1>2, <1>12 DEF Unused
  <2>5. /\ \A p \in f.options \cup f.dropped : p.id # id
        /\ \A p \in f.options : p.name # cmd.name
    BY <1>7, <1>12, <2>4 DEF Ids
  <2>6. Proper(g)
    BY <1>7, <2>1, <2>3, <2>5 DEF Proper
  <2>7. o \notin field.options
    BY <1>7, <2>1, <2>5
  <2>8. g.options \ field.options = (f.options \ field.options) \cup {o}
    BY <2>3, <2>7
  <2>9. Ids(g.options \ field.options) \cap Ids(field.options \cup field.dropped) = {}
    BY <1>7, <2>1, <2>4, <2>8 DEF Ids
  <2>10. NamesOf(g.options \ field.options) = NamesOf(f.options \ field.options) \cup ({cmd.name} \ NamesOf(field.options))
    BY <1>7, <2>1, <2>5, <2>8 DEF NamesOf
  <2>11. PickTrue(cmd, g, id)
    BY <1>12, <2>1, <2>3 DEF PickTrue
  <2>12. Resolved(q.body, g, Append(q.picked, id), field, q.next + 1)
    BY <1>4, <1>5, <1>6, <1>12, <2>3, <2>6, <2>9, <2>10, <2>11, ResolveOne
  <2>13. Pick(h, id, g)
    BY <1>12, <2>1, <2>2
  <2> QED BY <1>1, <1>2, <1>3, <2>3, <2>12, <2>13, PickWork
<1>13. ASSUME NEW code, Reject(h, code) PROVE FALSE
  <2>1. handler'[h] = [IdleHandler EXCEPT !.pc = "answer", !.key = handler[h].key,
                         !.body = handler[h].body, !.answer = code]
    BY <1>13 DEF Reject, Update, Types, TypeOK
  <2> QED BY <2>1 DEF IdleHandler
<1>14. \/ cmd.how \notin {"draft", "pick"} /\ Pick(h, 0, f)
       \/ cmd.how = "pick" /\ Pick(h, cmd.option, f)
       \/ Reject(h, "invalid")
       \/ /\ cmd.how = "draft"
          /\ \E o \in f.options : o.name = cmd.name /\ Pick(h, o.id, f)
       \/ /\ cmd.how = "draft" /\ {o \in f.options : o.name = cmd.name} = {}
          /\ \E id \in Option :
               /\ Unused(id)
               /\ Pick(h, id, [f EXCEPT !.options = f.options \cup {[id |-> id, name |-> cmd.name]}])
  BY <1>1, <1>2, <1>6 DEF ResolveChoice
<1> QED BY <1>9, <1>10, <1>11, <1>12, <1>13, <1>14

(* A rejection ends the work of a handler. *)
LEMMA RejectAnswers ==
  ASSUME Types, NEW h \in Handlers, NEW code \in Answers, Reject(h, code)
  PROVE  /\ handler'[h].pc = "answer" /\ handler'[h].answer = code
         /\ handler'[h].key = handler[h].key /\ handler'[h].body = handler[h].body
<1>1. handler'[h] = [IdleHandler EXCEPT !.pc = "answer", !.key = handler[h].key,
                       !.body = handler[h].body, !.answer = code]
  BY DEF Reject, Update, Types, TypeOK
<1> QED BY <1>1 DEF IdleHandler

(* normalizeFieldValue and prepareChoiceMutation let a command through only *)
(* with the value that it describes.                                        *)
LEMMA ValueGiven ==
  ASSUME Types, NEW h \in Handlers, InLoop(h, "apply"), WorkTrue(handler[h], records, field),
         Sound(handler[h].body, records, field), NEW old, Valid(h, old)
  PROVE  GivesValue(handler[h].field, Current(h), old, NewValue(h, old))
<1>1. PICK q \in HandlerState : q = handler[h]
  BY DEF Types, TypeOK
<1>2. /\ q.pc = "apply" /\ q.next \in 1 .. Len(q.body.commands) /\ q.body.commands \in Seq(Command)
      /\ q.next \in DOMAIN q.body.commands /\ Len(q.body.commands) \in Nat
  BY <1>1 DEF InLoop, HandlerState, Body
<1>3. PICK cmd \in Command : cmd = Current(h) /\ cmd = q.body.commands[q.next]
  BY <1>1, <1>2 DEF Current
<1>4. cmd.how \in {"draft", "pick"} => PickTrue(cmd, q.field, q.picked[q.next])
  <2> SUFFICES ASSUME cmd.how \in {"draft", "pick"} PROVE PickTrue(cmd, q.field, q.picked[q.next])
    OBVIOUS
  <2>1. HasChoices(q.body)
    BY <1>2, <1>3 DEF HasChoices
  <2>2. Resolved(q.body, q.field, q.picked, field, Len(q.body.commands) + 1)
    BY <1>1, <1>2 DEF WorkTrue
  <2>3. \A i \in 1 .. (Len(q.body.commands) + 1) - 1 : PickTrue(q.body.commands[i], q.field, q.picked[i])
    BY <2>1, <2>2 DEF Resolved
  <2>4. q.next \in 1 .. (Len(q.body.commands) + 1) - 1
    BY <1>2
  <2> QED BY <1>3, <2>3, <2>4
<1> DEFINE v == NewValue(h, old)
<1>5. /\ cmd.how \in {"draft", "pick"} => v = q.picked[q.next]
      /\ cmd.how = "set" => v = cmd.option
      /\ cmd.how = "unset" => v = 0
      /\ cmd.how = "none" => v = old
  BY <1>1, <1>3 DEF NewValue
<1>6. cmd.how \in Hows
  BY DEF Command
<1>7. IF cmd.how \in {"unset", "none"} THEN cmd.how = "unset" => ~q.field.deleted
      ELSE /\ ~q.field.deleted
           /\ v \in Ids(q.field.options) \/ (v \in Ids(q.field.dropped) /\ v = old)
  BY <1>1, <1>3, Zenon DEF Valid, Writable
<1> HIDE DEF v
<1>8. GivesValue(q.field, cmd, old, v)
  BY <1>4, <1>5, <1>6, <1>7 DEF GivesValue, PickTrue, Hows
<1> QED BY <1>1, <1>3, <1>8 DEF v

(* What Write and LeaveAlone do to a handler's work. *)
LEMMA OutcomeWork ==
  ASSUME Types, NEW h \in Handlers, InLoop(h, "apply"), WorkTrue(handler[h], records, field),
         NEW x \in Records, \A i \in 1 .. handler[h].next - 1 : handler[h].result[i].record # x,
         NEW out \in Outcome, out.record = x,
         handler'[h].pc = "apply", handler'[h].next = handler[h].next + 1,
         handler'[h].field = handler[h].field, handler'[h].body = handler[h].body,
         handler'[h].picked = handler[h].picked,
         handler'[h].result = Append(handler[h].result, out),
         NEW after \in [Records -> Row], handler'[h].rows = after,
         \A y \in Records \ {x} : after[y] = handler[h].rows[y],
         Effect(handler[h].field, Current(h), out, records[x], Over(after, records, x))
  PROVE  WorkTrue(handler'[h], records, field)
<1>1. PICK q \in HandlerState : q = handler[h]
  BY DEF Types, TypeOK
<1>2. /\ q.pc = "apply" /\ q.next \in 1 .. Len(q.body.commands) /\ Len(q.body.commands) \in Nat
      /\ q.body \in Body /\ q.rows \in [Records -> Row] /\ q.result \in Result
      /\ records \in [Records -> Row]
  BY <1>1 DEF InLoop, HandlerState, Body, Types, TypeOK
<1>3. /\ q.field.rev = IF q.field.options = field.options THEN field.rev ELSE field.rev + 1
      /\ Resolved(q.body, q.field, q.picked, field, Len(q.body.commands) + 1)
      /\ Applied(q.body, q.field, q.rows, q.result, records, q.next)
  BY <1>1, <1>2 DEF WorkTrue
<1>4. Effect(q.field, q.body.commands[q.next], out, records[x], Over(after, records, x))
  BY <1>1 DEF Current
<1>5. Applied(q.body, q.field, after, Append(q.result, out), records, q.next + 1)
  <2>1. /\ \A i \in 1 .. q.next - 1 : q.result[i].record # x
        /\ \A y \in Records \ {x} : after[y] = q.rows[y]
    BY <1>1
  <2>2. PICK body \in Body, work \in [Records -> Row], result \in Result :
          body = q.body /\ work = q.rows /\ result = q.result
    BY <1>2
  <2>3. PICK n \in 1 .. Len(body.commands), g \in Field : n = q.next /\ g = q.field
    BY <1>2, <2>2 DEF HandlerState
  <2>4. Applied(body, g, work, result, records, n)
    BY <1>3, <2>2, <2>3
  <2>5. Effect(g, body.commands[n], out, records[x], Over(after, records, x))
    BY <1>4, <2>2, <2>3
  <2>6. /\ \A i \in 1 .. n - 1 : result[i].record # x
        /\ \A y \in Records \ {x} : after[y] = work[y]
    BY <2>1, <2>2, <2>3
  <2>7. Applied(body, g, after, Append(result, out), records, n + 1)
    BY <1>2, <2>4, <2>5, <2>6, ApplyOne
  <2> QED BY <2>2, <2>3, <2>7
<1>6. q.next + 1 <= Len(q.body.commands) + 1
  BY <1>2
<1> QED BY <1>1, <1>3, <1>5, <1>6 DEF WorkTrue, Loop

LEMMA WriteWork ==
  ASSUME Types, NEW h \in Handlers, InLoop(h, "apply"), WorkTrue(handler[h], records, field),
         NEW x \in Records, \A i \in 1 .. handler[h].next - 1 : handler[h].result[i].record # x,
         NEW row \in Row, row.rev > 0, Write(h, x, row),
         Effect(handler[h].field, Current(h), [status |-> "applied", record |-> x, rev |-> row.rev],
                records[x], row)
  PROVE  WorkTrue(handler'[h], records, field)
<1>1. PICK q \in HandlerState : q = handler[h]
  BY DEF Types, TypeOK
<1>2. PICK after : after = [q.rows EXCEPT ![x] = row]
  OBVIOUS
<1>3. PICK out \in Outcome : out = [status |-> "applied", record |-> x, rev |-> row.rev] /\ out.record = x
  BY DEF Outcome, Row
<1>4. after \in [Records -> Row] /\ after[x] = row /\ \A y \in Records \ {x} : after[y] = q.rows[y]
  BY <1>2 DEF HandlerState
<1>5. Over(after, records, x) = row
  BY <1>4 DEF Over
<1>6. PICK log : handler'[h] = [q EXCEPT !.next = q.next + 1, !.rows = after, !.log = log,
                                         !.result = Append(q.result, out)]
  BY <1>1, <1>2, <1>3 DEF Write, Outcomes, Update, Types, TypeOK
<1>7. /\ handler'[h].pc = "apply" /\ handler'[h].next = q.next + 1
      /\ handler'[h].field = q.field /\ handler'[h].body = q.body
      /\ handler'[h].picked = q.picked /\ handler'[h].rows = after
      /\ handler'[h].result = Append(q.result, out)
  BY <1>1, <1>6 DEF HandlerState, InLoop
<1> QED BY <1>1, <1>3, <1>4, <1>5, <1>7, OutcomeWork

LEMMA LeaveWork ==
  ASSUME Types, NEW h \in Handlers, InLoop(h, "apply"), WorkTrue(handler[h], records, field),
         NEW x \in Records, \A i \in 1 .. handler[h].next - 1 : handler[h].result[i].record # x,
         NEW row \in Row, LeaveAlone(h, x, row),
         Effect(handler[h].field, Current(h), [status |-> "unchanged", record |-> x, rev |-> row.rev],
                records[x], Over(handler[h].rows, records, x))
  PROVE  WorkTrue(handler'[h], records, field)
<1>1. PICK q \in HandlerState : q = handler[h]
  BY DEF Types, TypeOK
<1>2. PICK out \in Outcome : out = [status |-> "unchanged", record |-> x, rev |-> row.rev] /\ out.record = x
  BY DEF Outcome, Row
<1>3. handler'[h] = [q EXCEPT !.next = q.next + 1, !.result = Append(q.result, out)]
  BY <1>1, <1>2 DEF LeaveAlone, Outcomes, Update, Types, TypeOK
<1>4. /\ handler'[h].pc = "apply" /\ handler'[h].next = q.next + 1
      /\ handler'[h].field = q.field /\ handler'[h].body = q.body
      /\ handler'[h].picked = q.picked /\ handler'[h].rows = q.rows
      /\ handler'[h].result = Append(q.result, out)
  BY <1>1, <1>3 DEF HandlerState, InLoop
<1>5. q.rows \in [Records -> Row]
  BY DEF HandlerState
<1> QED BY <1>1, <1>2, <1>4, <1>5, OutcomeWork

(* A command finds the row of its Record as it is stored. *)
LEMMA CommandFinds ==
  ASSUME Types, NEW h \in Handlers, InLoop(h, "apply"), WorkTrue(handler[h], records, field),
         Sound(handler[h].body, records, field), NEW x \in Records,
         Current(h).kind = "create" => Seen(h, x).rev = 0,
         Current(h).kind # "create" => x = Current(h).target
  PROVE  /\ \A i \in 1 .. handler[h].next - 1 : handler[h].result[i].record # x
         /\ Over(handler[h].rows, records, x) = records[x] /\ Seen(h, x) = records[x]
<1>1. PICK q \in HandlerState : q = handler[h]
  BY DEF Types, TypeOK
<1>2. /\ q.pc = "apply" /\ q.next \in 1 .. Len(q.body.commands)
      /\ records \in [Records -> Row]
  BY <1>1 DEF InLoop, HandlerState, Body, Types, TypeOK
<1>3. PICK body \in Body, work \in [Records -> Row], result \in Result :
        body = q.body /\ work = q.rows /\ result = q.result
  BY DEF HandlerState
<1>4. PICK n \in 1 .. Len(body.commands), g \in Field : n = q.next /\ g = q.field
  BY <1>2, <1>3 DEF HandlerState
<1>5. Applied(body, g, work, result, records, n)
  BY <1>1, <1>2, <1>3, <1>4 DEF WorkTrue
<1>6. Sound(body, records, field)
  BY <1>1, <1>3
<1>7. /\ body.commands[n].kind = "create" => Over(work, records, x).rev = 0
      /\ body.commands[n].kind # "create" => x = body.commands[n].target
  BY <1>1, <1>3, <1>4 DEF Current, Seen, Over
<1>8. (\A i \in 1 .. n - 1 : result[i].record # x) /\ work[x] = NoRow
  <2>1. PICK rows \in [Records -> Row], f \in Field : rows = records /\ f = field
    BY DEF Types, TypeOK
  <2>2. /\ Applied(body, g, work, result, rows, n) /\ Sound(body, rows, f)
        /\ body.commands[n].kind = "create" => Over(work, rows, x).rev = 0
        /\ body.commands[n].kind # "create" => x = body.commands[n].target
    BY <1>5, <1>6, <1>7, <2>1
  <2> QED BY <2>2, Unwritten
<1> QED BY <1>1, <1>3, <1>4, <1>8 DEF Over, Seen, NoRow

LEMMA CreateWork ==
  ASSUME Types, NEW h \in Handlers, WorkTrue(handler[h], records, field),
         Sound(handler[h].body, records, field), NEW x \in Records,
         records[x].rev = 0 => records[x] = NoRow,
         InLoop(h, "apply"), Current(h).kind = "create", Valid(h, 0), Seen(h, x).rev = 0,
         Write(h, x, [rev |-> 1, value |-> NewValue(h, 0), deleted |-> FALSE])
  PROVE  WorkTrue(handler'[h], records, field)
<1>1. PICK v \in {0} \cup Option : v = NewValue(h, 0)
  <2>1. Typed(h) /\ 0 \in {0} \cup Option
    BY DEF Types, Typed
  <2> QED BY <2>1, NewValueType
<1>2. PICK row \in Row : row = [rev |-> 1, value |-> v, deleted |-> FALSE]
  BY DEF Row
<1>3. row.rev = 1 /\ row.value = v
  BY <1>2
<1>4. /\ \A i \in 1 .. handler[h].next - 1 : handler[h].result[i].record # x
      /\ Seen(h, x) = records[x]
  BY CommandFinds
<1>5. records[x].rev = 0 /\ records[x].value = 0
  BY <1>4 DEF NoRow
<1>6. GivesValue(handler[h].field, Current(h), 0, v)
  BY <1>1, ValueGiven
<1>7. PICK out : out = [status |-> "applied", record |-> x, rev |-> row.rev]
  OBVIOUS
<1>8. out.status = "applied" /\ out.rev = row.rev /\ row # records[x]
  BY <1>3, <1>5, <1>7
<1>9. row = Raised(records[x], row.value, FALSE)
  BY <1>2, <1>3, <1>5 DEF Raised
<1>10. Effect(handler[h].field, Current(h), out, records[x], row)
  BY <1>3, <1>5, <1>6, <1>8, <1>9 DEF Effect
<1> QED BY <1>1, <1>2, <1>3, <1>4, <1>7, <1>10, WriteWork

LEMMA UpdateWork ==
  ASSUME Types, NEW h \in Handlers, WorkTrue(handler[h], records, field),
         Sound(handler[h].body, records, field), ApplyUpdate(h), handler'[h].pc # "answer"
  PROVE  WorkTrue(handler'[h], records, field)
<1>1. InLoop(h, "apply") /\ Current(h).kind = "update"
  BY DEF ApplyUpdate
<1>2. PICK cmd \in Command : cmd = Current(h)
  BY <1>1, CurrentType DEF InLoop, Types
<1>3. PICK x \in Records : x = cmd.target
  BY DEF Command
<1>4. /\ \A i \in 1 .. handler[h].next - 1 : handler[h].result[i].record # x
      /\ Over(handler[h].rows, records, x) = records[x] /\ Seen(h, x) = records[x]
  BY <1>1, <1>2, <1>3, CommandFinds
<1>5. PICK row \in Row : row = records[x]
  BY DEF Types, TypeOK
<1>6. \A code \in Answers : ~Reject(h, code)
  BY RejectAnswers
<1>7. /\ row.rev # 0 /\ row.rev = cmd.rev /\ ~row.deleted /\ Valid(h, row.value)
      /\ IF NewValue(h, row.value) = row.value THEN LeaveAlone(h, x, row)
         ELSE Write(h, x, [rev |-> row.rev + 1, value |-> NewValue(h, row.value), deleted |-> FALSE])
  BY <1>2, <1>3, <1>4, <1>5, <1>6 DEF ApplyUpdate, Answers
<1>8. PICK v \in {0} \cup Option : v = NewValue(h, row.value)
  <2>1. Typed(h) /\ row.value \in {0} \cup Option
    BY DEF Types, Typed, Row
  <2> QED BY <1>1, <1>7, <2>1, NewValueType
<1>9. GivesValue(handler[h].field, cmd, row.value, v)
  BY <1>1, <1>2, <1>7, <1>8, ValueGiven
<1>10. row.rev > 0 /\ row.rev \in Nat
  BY <1>7 DEF Row
<1>11. CASE v = row.value
  <2>1. PICK out : out = [status |-> "unchanged", record |-> x, rev |-> row.rev]
    OBVIOUS
  <2>2. out.status = "unchanged" /\ out.rev = row.rev /\ out.record = x
    BY <2>1
  <2>3. Effect(handler[h].field, cmd, out, row, row)
    BY <1>1, <1>2, <1>3, <1>7, <1>9, <1>10, <1>11, <2>2 DEF Effect
  <2> QED BY <1>1, <1>2, <1>4, <1>5, <1>7, <1>8, <1>11, <2>1, <2>3, LeaveWork
<1>12. CASE v # row.value
  <2>1. PICK new \in Row : new = [rev |-> row.rev + 1, value |-> v, deleted |-> FALSE]
    <3>1. row.rev + 1 \in Nat
      BY <1>10
    <3>2. [rev |-> row.rev + 1, value |-> v, deleted |-> FALSE] \in Row
      BY <3>1 DEF Row
    <3> QED BY <3>2
  <2>2. new.rev = row.rev + 1 /\ new.value = v /\ new # row
    BY <1>12, <2>1
  <2>3. PICK out : out = [status |-> "applied", record |-> x, rev |-> new.rev]
    OBVIOUS
  <2>4. out.status = "applied" /\ out.rev = new.rev /\ out.record = x
    BY <2>3
  <2>5. new = Raised(row, new.value, FALSE)
    BY <2>1, <2>2 DEF Raised
  <2>6. Effect(handler[h].field, cmd, out, row, new)
    BY <1>1, <1>2, <1>3, <1>7, <1>9, <1>10, <1>12, <2>2, <2>4, <2>5 DEF Effect
  <2>7. new.rev > 0
    BY <1>10, <2>2
  <2> QED BY <1>1, <1>2, <1>4, <1>5, <1>7, <1>8, <1>12, <2>1, <2>3, <2>6, <2>7, WriteWork
<1> QED BY <1>11, <1>12

LEMMA LifecycleWork ==
  ASSUME Types, NEW h \in Handlers, WorkTrue(handler[h], records, field),
         Sound(handler[h].body, records, field), ApplyLifecycle(h), handler'[h].pc # "answer"
  PROVE  WorkTrue(handler'[h], records, field)
<1>1. InLoop(h, "apply") /\ Current(h).kind \in {"delete", "restore"}
  BY DEF ApplyLifecycle
<1>2. PICK cmd \in Command : cmd = Current(h)
  BY <1>1, CurrentType DEF InLoop, Types
<1>3. PICK x \in Records : x = cmd.target
  BY DEF Command
<1>4. /\ \A i \in 1 .. handler[h].next - 1 : handler[h].result[i].record # x
      /\ Seen(h, x) = records[x]
  BY <1>1, <1>2, <1>3, CommandFinds
<1>5. PICK row \in Row : row = records[x]
  BY DEF Types, TypeOK
<1>6. PICK deleting \in BOOLEAN : deleting = (cmd.kind = "delete")
  OBVIOUS
<1>7. \A code \in Answers : ~Reject(h, code)
  BY RejectAnswers
<1>8. /\ row.rev # 0 /\ row.rev = cmd.rev /\ row.deleted # deleting
      /\ Write(h, x, [row EXCEPT !.rev = row.rev + 1, !.deleted = deleting])
  <2>1. \/ \E code \in {"notFound", "conflict", "state"} : Reject(h, code)
        \/ /\ Seen(h, cmd.target).rev # 0 /\ Seen(h, cmd.target).rev = cmd.rev
           /\ Seen(h, cmd.target).deleted # (cmd.kind = "delete")
           /\ Write(h, cmd.target, [Seen(h, cmd.target) EXCEPT !.rev = Seen(h, cmd.target).rev + 1,
                                                              !.deleted = (cmd.kind = "delete")])
    BY <1>2, Zenon DEF ApplyLifecycle
  <2>2. {"notFound", "conflict", "state"} \subseteq Answers
    BY DEF Answers
  <2> QED BY <1>3, <1>4, <1>5, <1>6, <1>7, <2>1, <2>2
<1>9. row.rev > 0 /\ row.rev \in Nat
  BY <1>8 DEF Row
<1>10. PICK new : new = [row EXCEPT !.rev = row.rev + 1, !.deleted = deleting]
  OBVIOUS
<1>11. new \in Row /\ new = Raised(row, row.value, deleting)
  <2>1. row.rev + 1 \in Nat
    BY <1>9
  <2>2. new \in Row /\ new.rev = row.rev + 1 /\ new.value = row.value /\ new.deleted = deleting
    BY <1>10, <2>1 DEF Row
  <2> QED BY <2>2 DEF Row, Raised
<1>12. new.rev = row.rev + 1 /\ new.value = row.value /\ new # row
  BY <1>9, <1>11 DEF Raised
<1>13. cmd.how = "none"
  <2>1. /\ handler[h].next \in DOMAIN handler[h].body.commands
        /\ cmd = handler[h].body.commands[handler[h].next]
    BY <1>1, <1>2 DEF InLoop, Current, Types, TypeOK, HandlerState, Body
  <2> QED BY <1>1, <1>2, <2>1 DEF Sound
<1>14. GivesValue(handler[h].field, cmd, row.value, row.value)
  BY <1>13 DEF GivesValue
<1>15. PICK out : out = [status |-> "applied", record |-> x, rev |-> new.rev]
  OBVIOUS
<1>16. out.status = "applied" /\ out.rev = new.rev /\ out.record = x
  BY <1>15
<1>17. /\ cmd.kind = "delete" => ~row.deleted /\ deleting
       /\ cmd.kind = "restore" => row.deleted /\ ~deleting
  BY <1>6, <1>8 DEF Row
<1>18. Effect(handler[h].field, cmd, out, row, new)
  <2>1. \/ cmd.kind = "delete" /\ ~row.deleted /\ new = Raised(row, row.value, TRUE)
        \/ cmd.kind = "restore" /\ row.deleted /\ new = Raised(row, row.value, FALSE)
    BY <1>1, <1>2, <1>11, <1>17
  <2> QED BY <1>3, <1>8, <1>9, <1>12, <1>14, <1>16, <2>1 DEF Effect
<1>19. new.rev > 0
  BY <1>9, <1>12
<1> QED BY <1>1, <1>2, <1>4, <1>5, <1>8, <1>10, <1>11, <1>15, <1>18, <1>19, WriteWork

-----------------------------------------------------------------------------
(* What a Revision tells.                                                   *)

(* The stored state moved on: a Revision that stayed means nothing changed. *)
Later(rows, f, rows2, f2) ==
  /\ f.rev <= f2.rev /\ (f2.rev = f.rev => f2 = f)
  /\ \A r \in Records : rows[r].rev <= rows2[r].rev /\ (rows2[r].rev = rows[r].rev => rows2[r] = rows[r])

(* No copy of the request can be applied any more. *)
Hopeless(body, rows, f) ==
  \/ HasChoices(body) /\ (f.rev = body.fieldRev => f.deleted)
  \/ \E i \in Targets(body.commands) :
       LET cmd == body.commands[i]
           row == rows[cmd.target]
       IN  row.rev = cmd.rev => row.deleted = (cmd.kind # "restore")

LEMMA RequestsAge ==
  ASSUME NEW body \in Body, NEW rows \in [Records -> Row], NEW f \in Field,
         NEW rows2 \in [Records -> Row], NEW f2 \in Field,
         Later(rows, f, rows2, f2), Sound(body, rows, f)
  PROVE  Sound(body, rows2, f2) /\ (Hopeless(body, rows, f) => Hopeless(body, rows2, f2))
<1> DEFINE cmds == body.commands
<1>1. cmds \in Seq(Command) /\ body.fieldRev \in Nat
  BY DEF Body
<1>2. f.rev \in Nat /\ f2.rev \in Nat
  BY DEF Field
<1>3. \A i \in Targets(cmds) :
        /\ cmds[i].target \in Records /\ cmds[i].rev \in Nat
        /\ rows[cmds[i].target].rev \in Nat /\ rows2[cmds[i].target].rev \in Nat
        /\ 0 < cmds[i].rev /\ cmds[i].rev <= rows[cmds[i].target].rev
  <2> SUFFICES ASSUME NEW i \in Targets(cmds)
               PROVE  /\ cmds[i].target \in Records /\ cmds[i].rev \in Nat
                      /\ rows[cmds[i].target].rev \in Nat /\ rows2[cmds[i].target].rev \in Nat
                      /\ 0 < cmds[i].rev /\ cmds[i].rev <= rows[cmds[i].target].rev
    OBVIOUS
  <2>1. cmds[i] \in Command
    BY <1>1 DEF Targets
  <2> QED BY <2>1 DEF Sound, Command, Row
<1>4. \A i \in Targets(cmds) :
        /\ cmds[i].rev <= rows2[cmds[i].target].rev
        /\ rows2[cmds[i].target].rev = cmds[i].rev =>
             rows2[cmds[i].target] = rows[cmds[i].target]
  <2> SUFFICES ASSUME NEW i \in Targets(cmds)
               PROVE  /\ cmds[i].rev <= rows2[cmds[i].target].rev
                      /\ rows2[cmds[i].target].rev = cmds[i].rev =>
                           rows2[cmds[i].target] = rows[cmds[i].target]
    OBVIOUS
  <2>1. PICK x \in Records : x = cmds[i].target
    BY <1>3
  <2>2. rows[x].rev <= rows2[x].rev /\ (rows2[x].rev = rows[x].rev => rows2[x] = rows[x])
    BY DEF Later
  <2> QED BY <1>3, <2>1, <2>2
<1>5. Sound(body, rows2, f2)
  BY <1>1, <1>2, <1>3, <1>4 DEF Sound, Later
<1>6. f2.rev = body.fieldRev => f2 = f
  BY <1>1, <1>2 DEF Sound, Later
<1>7. ASSUME NEW i \in Targets(cmds),
             rows[cmds[i].target].rev = cmds[i].rev => rows[cmds[i].target].deleted = (cmds[i].kind # "restore")
      PROVE  rows2[cmds[i].target].rev = cmds[i].rev => rows2[cmds[i].target].deleted = (cmds[i].kind # "restore")
  BY <1>4, <1>7
<1>8. Hopeless(body, rows, f) => Hopeless(body, rows2, f2)
  BY <1>6, <1>7 DEF Hopeless
<1> QED BY <1>5, <1>8

(* A request that has run to its end was not hopeless when it did. *)
LEMMA AppliedHopeful ==
  ASSUME NEW body \in Body, NEW g \in Field, NEW f \in Field, NEW picked, NEW work \in [Records -> Row],
         NEW result \in Result, NEW rows \in [Records -> Row],
         Resolved(body, g, picked, f, Len(body.commands) + 1),
         Applied(body, g, work, result, rows, Len(body.commands) + 1)
  PROVE  ~Hopeless(body, rows, f)
<1> DEFINE cmds == body.commands
<1>1. cmds \in Seq(Command) /\ Len(cmds) \in Nat
  BY DEF Body
<1>2. HasChoices(body) => f.rev = body.fieldRev /\ ~f.deleted
  BY DEF Resolved
<1>3. ASSUME NEW i \in Targets(cmds)
      PROVE  /\ rows[cmds[i].target].rev = cmds[i].rev
             /\ rows[cmds[i].target].deleted # (cmds[i].kind # "restore")
  <2>1. i \in 1 .. (Len(cmds) + 1) - 1 /\ cmds[i].kind # "create" /\ cmds[i] \in Command
    BY <1>1, <1>3 DEF Targets
  <2>2. PICK x : x = result[i].record
    OBVIOUS
  <2>3. Effect(g, cmds[i], result[i], rows[x], Over(work, rows, x))
    BY <2>1, <2>2 DEF Applied
  <2>4. x = cmds[i].target /\ rows[x].rev = cmds[i].rev
    BY <2>1, <2>2, <2>3 DEF Effect
  <2>5. PICK row \in Row : row = rows[x]
    BY <2>1, <2>4 DEF Command
  <2>6. \/ cmds[i].kind # "restore" /\ ~row.deleted
        \/ cmds[i].kind = "restore" /\ row.deleted
    BY <2>1, <2>3, <2>5 DEF Effect
  <2>7. row.deleted # (cmds[i].kind # "restore")
    BY <2>6 DEF Row
  <2> QED BY <2>4, <2>5, <2>7
<1> QED BY <1>2, <1>3 DEF Hopeless

(* What committing does to the rows and the definition. *)
LEMMA CommitLater ==
  ASSUME NEW body \in Body, NEW g \in Field, NEW f \in Field, NEW picked, NEW work \in [Records -> Row],
         NEW result \in Result, NEW rows \in [Records -> Row], NEW rows2 \in [Records -> Row], NEW n \in Nat,
         Resolved(body, g, picked, f, n), Applied(body, g, work, result, rows, n),
         g.rev = IF g.options = f.options THEN f.rev ELSE f.rev + 1,
         \A r \in Records : rows2[r] = Over(work, rows, r)
  PROVE  Later(rows, f, rows2, g)
<1>1. f.rev <= g.rev /\ (g.rev = f.rev => g = f)
  <2>1. g.dropped = f.dropped /\ g.deleted = f.deleted
    BY DEF Resolved
  <2>2. f.rev \in Nat
    BY DEF Field
  <2>3. g.options = f.options /\ g.rev = f.rev => g = f
    BY <2>1 DEF Field
  <2> QED BY <2>2, <2>3
<1>2. ASSUME NEW r \in Records
      PROVE  rows[r].rev <= rows2[r].rev /\ (rows2[r].rev = rows[r].rev => rows2[r] = rows[r])
  <2>1. rows[r].rev \in Nat /\ rows2[r] = Over(work, rows, r)
    BY DEF Row
  <2>2. CASE work[r] = NoRow
    BY <2>1, <2>2 DEF Over, NoRow
  <2>3. CASE work[r] # NoRow
    <3>1. PICK i \in 1 .. n - 1 : result[i].record = r
      BY <2>3 DEF Applied
    <3>2. Effect(g, body.commands[i], result[i], rows[r], Over(work, rows, r))
      BY <3>1 DEF Applied
    <3>3. Over(work, rows, r) = rows[r] \/ \E v, d : Over(work, rows, r) = Raised(rows[r], v, d)
      BY <3>2 DEF Effect
    <3>4. Over(work, rows, r) = rows[r] \/ Over(work, rows, r).rev = rows[r].rev + 1
      BY <3>3 DEF Raised
    <3> QED BY <2>1, <3>4
  <2> QED BY <2>2, <2>3
<1> QED BY <1>1, <1>2 DEF Later

-----------------------------------------------------------------------------
(* Every step of a handler.                                                 *)

Refused == {"conflict", "state"}

BeforeLoop == {"begun", "actor", "unseen", "fresh", "table"}

(* Before the loop, and when a transaction ends, nothing has been done. *)
LEMMA EarlyWork ==
  ASSUME Types, NEW h \in Handlers, NEW rows, NEW f, WorkTrue(handler[h], rows, f),
         BeginTx(h) \/ Replay(h) \/ LockTable(h) \/ Abort(h) \/ LoseAnswer(h)
  PROVE  /\ WorkTrue(handler'[h], rows, f)
         /\ handler'[h].body \in {handler[h].body, NoBody} \cup {request[k] : k \in Keys}
         /\ handler'[h].pc = "answer" => handler'[h].answer \notin Refused
<1>1. PICK q \in HandlerState : q = handler[h]
  BY DEF Types, TypeOK
<1>2. ASSUME NEW pc \in BeforeLoop, q.pc \in BeforeLoop, Update(h, [q EXCEPT !.pc = pc])
      PROVE  /\ WorkTrue(handler'[h], rows, f) /\ handler'[h].body = q.body
             /\ handler'[h].pc # "answer"
  <2>1. handler'[h] = [q EXCEPT !.pc = pc]
    BY <1>1, <1>2 DEF Update, Types, TypeOK
  <2>2. /\ handler'[h].pc = pc /\ handler'[h].picked = q.picked /\ handler'[h].result = q.result
        /\ handler'[h].body = q.body
    BY <2>1 DEF HandlerState
  <2>3. q.picked = <<>> /\ q.result = <<>>
    BY <1>1, <1>2 DEF WorkTrue, BeforeLoop
  <2> QED BY <1>2, <2>2, <2>3 DEF WorkTrue, BeforeLoop, Loop
<1>3. ASSUME NEW code \in Answers \ Refused, Reject(h, code)
      PROVE  /\ WorkTrue(handler'[h], rows, f) /\ handler'[h].body = q.body
             /\ handler'[h].answer \notin Refused
  BY <1>1, <1>3, RejectAnswers DEF WorkTrue, Loop
<1>4. ASSUME Update(h, IdleHandler)
      PROVE  WorkTrue(handler'[h], rows, f) /\ handler'[h].body = NoBody /\ handler'[h].pc # "answer"
  BY <1>4 DEF Update, Types, TypeOK, WorkTrue, Loop, IdleHandler
<1>5. CASE BeginTx(h)
  <2>1. PICK k \in Keys : Update(h, [IdleHandler EXCEPT !.pc = "begun", !.key = k, !.body = request[k]])
    BY <1>5 DEF BeginTx
  <2>2. handler'[h] = [IdleHandler EXCEPT !.pc = "begun", !.key = k, !.body = request[k]]
    BY <2>1 DEF Update, Types, TypeOK
  <2>3. /\ handler'[h].pc = "begun" /\ handler'[h].body = request[k]
        /\ handler'[h].picked = <<>> /\ handler'[h].result = <<>>
    BY <2>2 DEF IdleHandler
  <2> QED BY <2>3 DEF WorkTrue, Loop
<1>6. CASE LockActor(h) \/ ReadGuard(h) \/ LockTable(h)
  <2>1. \/ q.pc \in BeforeLoop /\ \E pc \in BeforeLoop : Update(h, [q EXCEPT !.pc = pc])
        \/ \E code \in Answers \ Refused : Reject(h, code)
    BY <1>1, <1>6 DEF LockActor, ReadGuard, LockTable, BeforeLoop, Answers, Refused
  <2> QED BY <1>1, <1>2, <1>3, <2>1
<1>7. CASE ReadReceipt(h)
  <2>1. CASE \E pc \in BeforeLoop, code \in Answers \ Refused :
               \/ q.pc \in BeforeLoop /\ Update(h, [q EXCEPT !.pc = pc])
               \/ Reject(h, code)
    BY <1>1, <1>2, <1>3, <2>1
  <2>2. CASE Update(h, [IdleHandler EXCEPT !.pc = "answer", !.key = handler[h].key,
                          !.body = handler[h].body, !.result = receipt[handler[h].key].result])
    <3>1. handler'[h] = [IdleHandler EXCEPT !.pc = "answer", !.key = handler[h].key,
                           !.body = handler[h].body, !.result = receipt[handler[h].key].result]
      BY <2>2 DEF Update, Types, TypeOK
    <3>2. handler'[h].pc = "answer" /\ handler'[h].body = q.body /\ handler'[h].answer = "applied"
      BY <1>1, <3>1 DEF IdleHandler
    <3> QED BY <1>1, <3>2 DEF WorkTrue, Loop, Refused
  <2> QED BY <1>1, <1>7, <2>1, <2>2 DEF ReadReceipt, BeforeLoop, Answers, Refused
<1>8. CASE Abort(h) \/ LoseAnswer(h)
  BY <1>4, <1>8 DEF Abort, LoseAnswer
<1> QED BY <1>5, <1>6, <1>7, <1>8 DEF Replay

Same(r, q) == r.body = q.body /\ r.key = q.key

(* A step that writes does not answer. *)
LEMMA WritesGoOn ==
  ASSUME Types, NEW h \in Handlers, NEW x, NEW row, Write(h, x, row) \/ LeaveAlone(h, x, row)
  PROVE  handler'[h].pc = handler[h].pc /\ Same(handler'[h], handler[h])
<1>1. PICK q \in HandlerState : q = handler[h]
  BY DEF Types, TypeOK
<1>2. CASE Write(h, x, row)
  <2>1. PICK rows, log, result :
          handler'[h] = [q EXCEPT !.next = q.next + 1, !.rows = rows, !.log = log, !.result = result]
    BY <1>1, <1>2 DEF Write, Update, Types, TypeOK
  <2> QED BY <1>1, <2>1 DEF HandlerState, Same
<1>3. CASE LeaveAlone(h, x, row)
  <2>1. PICK result : handler'[h] = [q EXCEPT !.next = q.next + 1, !.result = result]
    BY <1>1, <1>3 DEF LeaveAlone, Update, Types, TypeOK
  <2> QED BY <1>1, <2>1 DEF HandlerState, Same
<1> QED BY <1>2, <1>3

(* What the checks of CheckChoices refuse can not be applied later. *)
LEMMA ChoicesRefused ==
  ASSUME Types, HistoryInv, NEW h \in Handlers, CheckChoices(h)
  PROVE  \/ \E code \in Answers \ Refused : Reject(h, code)
         \/ StartLoop(h, "resolve", field)
         \/ Hopeless(handler[h].body, records, field) /\ \E code \in Answers : Reject(h, code)
<1>1. PICK q \in HandlerState : q = handler[h]
  BY DEF Types, TypeOK
<1>2. PICK body \in Body : body = q.body
  BY DEF HandlerState
<1>3. \A r \in Records : Seen(h, r) = records[r]
  <2>1. handler[h].pc = "table"
    BY DEF CheckChoices
  <2>2. \A r \in Records : handler[h].rows[r] = NoRow
    BY <2>1 DEF HistoryInv, WritesHaveChanges
  <2>3. ~(NoRow.rev > 0)
    BY DEF NoRow
  <2> QED BY <2>2, <2>3 DEF Seen
<1> DEFINE targets == Targets(body.commands)
           row(i) == records[body.commands[i].target]
<1>4. \A i \in targets : /\ Seen(h, body.commands[i].target) = row(i)
                         /\ row(i).deleted \in BOOLEAN
                         /\ body.commands[i].kind # "create"
  <2> SUFFICES ASSUME NEW i \in targets
               PROVE  body.commands[i].target \in Records /\ body.commands[i].kind # "create"
    BY <1>3 DEF Types, TypeOK, Row
  <2>1. i \in DOMAIN body.commands /\ body.commands \in Seq(Command)
    BY DEF Targets, Body
  <2>2. body.commands[i] \in Command
    BY <2>1
  <2> QED BY <2>2 DEF Command, Targets
<1>5. HasChoices(body)
  BY <1>1, <1>2 DEF CheckChoices
<1>6. CASE field.rev = body.fieldRev => field.deleted
  <2>1. Hopeless(body, records, field)
    BY <1>5, <1>6 DEF Hopeless
  <2>2. \E code \in Answers : Reject(h, code)
    BY <1>1, <1>2, <1>6, Zenon DEF CheckChoices, Answers
  <2> QED BY <1>1, <1>2, <2>1, <2>2
<1>7. CASE \E i \in targets : row(i).rev # body.commands[i].rev
                              \/ (body.commands[i].kind = "update" /\ row(i).deleted)
  <2>1. Hopeless(body, records, field)
    <3>1. PICK i \in targets : row(i).rev # body.commands[i].rev
                               \/ (body.commands[i].kind = "update" /\ row(i).deleted)
      BY <1>7
    <3>2. row(i).rev = body.commands[i].rev => row(i).deleted = (body.commands[i].kind # "restore")
      BY <1>4, <3>1
    <3> QED BY <3>2 DEF Hopeless
  <2>2. \/ \E code \in Answers : Reject(h, code)
        \/ StartLoop(h, "resolve", field)
    <3> USE <1>1, <1>2 DEF CheckChoices
    <3>1. CASE ~(field.rev = body.fieldRev) \/ field.deleted
      BY <3>1 DEF Answers
    <3> QED BY <3>1 DEF Answers
  <2> QED BY <1>1, <1>2, <2>1, <2>2
<1>8. CASE /\ ~(field.rev = body.fieldRev => field.deleted)
           /\ \A i \in targets : ~(row(i).rev # body.commands[i].rev
                                   \/ (body.commands[i].kind = "update" /\ row(i).deleted))
  <2>1. \/ Reject(h, "notFound") \/ StartLoop(h, "resolve", field)
    BY <1>1, <1>2, <1>4, <1>8 DEF CheckChoices
  <2> QED BY <2>1 DEF Answers, Refused
<1> QED BY <1>6, <1>7, <1>8

(* A refusal of a command in the loop is as final: the Record that it is    *)
(* about has not been written by an earlier command.                        *)
LEMMA CommandRefused ==
  ASSUME Types, NEW h \in Handlers, WorkTrue(handler[h], records, field),
         Sound(handler[h].body, records, field), ApplyUpdate(h) \/ ApplyLifecycle(h),
         handler'[h].pc = "answer"
  PROVE  handler'[h].answer \in Refused => Hopeless(handler[h].body, records, field)
<1>1. InLoop(h, "apply") /\ Current(h).kind \in {"update", "delete", "restore"}
  BY DEF ApplyUpdate, ApplyLifecycle
<1>2. PICK cmd \in Command : cmd = Current(h)
  BY <1>1, CurrentType DEF InLoop, Types
<1>3. PICK x \in Records : x = cmd.target
  BY DEF Command
<1>4. Seen(h, x) = records[x]
  BY <1>1, <1>2, <1>3, CommandFinds
<1>5. PICK row \in Row : row = records[x]
  BY DEF Types, TypeOK
<1>6. PICK q \in HandlerState : q = handler[h]
  BY DEF Types, TypeOK
<1>7. q.next \in Targets(q.body.commands) /\ q.body.commands[q.next] = cmd
  <2>1. q.next \in 1 .. Len(q.body.commands) /\ q.body.commands \in Seq(Command)
    BY <1>1, <1>6 DEF InLoop, HandlerState, Body
  <2> QED BY <1>1, <1>2, <1>6, <2>1 DEF Current, Targets
<1>8. ASSUME row.rev = cmd.rev => row.deleted = (cmd.kind # "restore")
      PROVE  Hopeless(q.body, records, field)
  BY <1>3, <1>5, <1>7, <1>8 DEF Hopeless
<1>9. handler[h].pc = "apply"
  BY <1>1 DEF InLoop
<1>10. ~\E new : Write(h, x, new) \/ LeaveAlone(h, x, new)
  BY <1>9, WritesGoOn
<1>11. row.deleted \in BOOLEAN
  BY DEF Row
<1>12. \/ \E code \in Answers \ Refused : Reject(h, code)
       \/ /\ row.rev = cmd.rev => row.deleted = (cmd.kind # "restore")
          /\ \E code \in Refused : Reject(h, code)
  <2>1. CASE ApplyUpdate(h)
    <3>1. /\ cmd.kind = "update"
          /\ \/ Reject(h, "notFound") \/ Reject(h, "invalid")
             \/ row.rev # cmd.rev /\ Reject(h, "conflict")
             \/ row.deleted /\ Reject(h, "state")
      BY <1>2, <1>3, <1>4, <1>5, <1>10, <2>1, Zenon DEF ApplyUpdate
    <3> QED BY <1>11, <3>1 DEF Answers, Refused
  <2>2. CASE ApplyLifecycle(h)
    <3>1. /\ cmd.kind \in {"delete", "restore"}
          /\ \/ Reject(h, "notFound")
             \/ row.rev # cmd.rev /\ Reject(h, "conflict")
             \/ row.deleted = (cmd.kind = "delete") /\ Reject(h, "state")
      BY <1>2, <1>3, <1>4, <1>5, <1>10, <2>2, Zenon DEF ApplyLifecycle
    <3> QED BY <3>1 DEF Answers, Refused
  <2> QED BY <2>1, <2>2
<1>13. Refused \subseteq Answers
  BY DEF Answers, Refused
<1> QED BY <1>6, <1>8, <1>12, <1>13, RejectAnswers

(* The part of a transaction that holds the Table, up to its commit. *)
LEMMA RunWork ==
  ASSUME Types, HistoryInv, Proper(field), \A r \in Records : records[r].rev = 0 => records[r] = NoRow,
         NEW h \in Handlers, WorkTrue(handler[h], records, field),
         Sound(handler[h].body, records, field),
         \/ LoadFields(h) \/ CheckChoices(h) \/ ResolveChoice(h) \/ SaveOptions(h)
         \/ ApplyCreate(h) \/ ApplyUpdate(h) \/ ApplyLifecycle(h)
  PROVE  /\ WorkTrue(handler'[h], records, field)
         /\ Same(handler'[h], handler[h])
         /\ handler'[h].pc = "answer" /\ handler'[h].answer \in Refused =>
              Hopeless(handler[h].body, records, field)
<1>1. PICK q \in HandlerState : q = handler[h]
  BY DEF Types, TypeOK
<1>2. ASSUME handler'[h].pc = "answer"
      PROVE  WorkTrue(handler'[h], records, field)
  BY <1>2 DEF WorkTrue, Loop
<1>3. ASSUME NEW code \in Answers \ Refused, Reject(h, code)
      PROVE  Same(handler'[h], handler[h]) /\ handler'[h].answer \notin Refused
  BY <1>3, RejectAnswers DEF Same
<1>4. ASSUME NEW pc \in Loop, NEW f, StartLoop(h, pc, f)
      PROVE  handler'[h].pc = pc /\ Same(handler'[h], q)
  <2>1. handler'[h] = [q EXCEPT !.pc = pc, !.next = 1, !.field = f]
    BY <1>1, <1>4 DEF StartLoop, Update, Types, TypeOK
  <2> QED BY <2>1 DEF HandlerState, Same
<1>5. "apply" \in Loop /\ "resolve" \in Loop /\ "answer" \notin Loop
  BY DEF Loop
<1>6. CASE LoadFields(h)
  <2>1. handler'[h].pc = "apply" /\ Same(handler'[h], q)
    BY <1>4, <1>5, <1>6 DEF LoadFields
  <2> QED BY <1>1, <1>6, <2>1, StartWork
<1>7. CASE CheckChoices(h)
  <2>1. \/ handler'[h].pc = "answer" /\ handler'[h].answer \notin Refused
        \/ handler'[h].pc = "resolve"
        \/ handler'[h].pc = "answer" /\ Hopeless(handler[h].body, records, field)
    BY <1>4, <1>5, <1>7, ChoicesRefused, RejectAnswers DEF Same
  <2>2. Same(handler'[h], handler[h])
    BY <1>1, <1>4, <1>5, <1>7, ChoicesRefused, RejectAnswers DEF Same
  <2> QED BY <1>2, <1>7, <2>1, <2>2, StartWork
<1>8. CASE ResolveChoice(h)
  <2>1. \/ Reject(h, "invalid") \/ \E id, f : Pick(h, id, f)
    BY <1>8, Zenon DEF ResolveChoice
  <2>2. ASSUME NEW id, NEW f, Pick(h, id, f)
        PROVE  handler'[h].pc = q.pc /\ Same(handler'[h], q)
    <3>1. handler'[h] = [q EXCEPT !.next = q.next + 1, !.field = f, !.picked = Append(q.picked, id)]
      BY <1>1, <2>2 DEF Pick, Update, Types, TypeOK
    <3> QED BY <3>1 DEF HandlerState, Same
  <2>3. q.pc = "resolve"
    BY <1>1, <1>8 DEF ResolveChoice, InLoop
  <2>4. /\ Same(handler'[h], q)
        /\ handler'[h].pc = "answer" => handler'[h].answer \notin Refused
    BY <1>1, <1>3, <2>1, <2>2, <2>3 DEF Answers, Refused
  <2> QED BY <1>1, <1>2, <1>8, <2>4, ResolveWork
<1>9. CASE SaveOptions(h)
  <2>1. handler'[h].pc = "apply" /\ Same(handler'[h], q)
    <3>1. CASE StartLoop(h, "apply", q.field)
      BY <1>4, <1>5, <3>1
    <3>2. CASE ~StartLoop(h, "apply", q.field)
      <4>1. Update(h, [q EXCEPT !.pc = "apply", !.next = 1,
                         !.field = [q.field EXCEPT !.rev = q.field.rev + 1],
                         !.log = q.log \cup {ChangeOf(h, "field", q.field.rev + 1)}])
        BY <1>1, <1>9, <3>2, Zenon DEF SaveOptions
      <4>2. handler'[h] = [q EXCEPT !.pc = "apply", !.next = 1,
                             !.field = [q.field EXCEPT !.rev = q.field.rev + 1],
                             !.log = q.log \cup {ChangeOf(h, "field", q.field.rev + 1)}]
        BY <4>1 DEF Update, Types, TypeOK
      <4> QED BY <4>2 DEF HandlerState, Same
    <3> QED BY <3>1, <3>2
  <2> QED BY <1>1, <1>9, <2>1, SaveWork
<1>10. CASE ApplyCreate(h)
  <2>1. InLoop(h, "apply") /\ Current(h).kind = "create" /\ handler[h].pc = "apply"
    BY <1>10 DEF ApplyCreate, InLoop
  <2>2. CASE Reject(h, "invalid")
    BY <1>2, <1>3, <2>2, RejectAnswers DEF Answers, Refused
  <2>3. CASE ~Reject(h, "invalid")
    <3>1. PICK x \in Records :
            /\ Valid(h, 0) /\ Seen(h, x).rev = 0
            /\ Write(h, x, [rev |-> 1, value |-> NewValue(h, 0), deleted |-> FALSE])
      BY <1>10, <2>3 DEF ApplyCreate
    <3>2. WorkTrue(handler'[h], records, field)
      BY <2>1, <3>1, CreateWork
    <3>3. handler'[h].pc = "apply" /\ Same(handler'[h], handler[h])
      BY <2>1, <3>1, WritesGoOn
    <3> QED BY <3>2, <3>3
  <2> QED BY <2>2, <2>3
<1>11. CASE ApplyUpdate(h) \/ ApplyLifecycle(h)
  <2>1. Same(handler'[h], handler[h])
    <3>1. \/ Reject(h, "notFound") \/ Reject(h, "conflict") \/ Reject(h, "state") \/ Reject(h, "invalid")
          \/ \E x, row : Write(h, x, row) \/ LeaveAlone(h, x, row)
      BY <1>11, Zenon DEF ApplyUpdate, ApplyLifecycle
    <3> QED BY <3>1, WritesGoOn, RejectAnswers DEF Answers, Same
  <2>2. WorkTrue(handler'[h], records, field)
    BY <1>2, <1>11, UpdateWork, LifecycleWork
  <2> QED BY <1>11, <2>1, <2>2, CommandRefused
<1> QED BY <1>6, <1>7, <1>8, <1>9, <1>10, <1>11

-----------------------------------------------------------------------------
(* The invariant.                                                           *)

StoredTrue ==
  /\ Proper(field) /\ ValuesHaveOptions
  /\ \A r \in Records : records[r].rev = 0 => records[r] = NoRow

(* An editor that holds the Table works from the definition that is stored; *)
(* what it has read before, the Revision still tells.                       *)
EditorTrue(s, f) ==
  s.pc # "idle" =>
    /\ Proper(s.target)
    /\ s.rev <= f.rev
    /\ s.pc = "locked" /\ s.op # "toggleTable" => s.rev = f.rev
    /\ s.rev = f.rev => Ids(f.options \cup f.dropped) \subseteq Ids(s.target.options \cup s.target.dropped)

(* The request was not applied before and will not be. *)
Final(k, body) ==
  Hopeless(body, records, field) /\ (k \notin forgotten => ~Knows(done[k], body))

RequestsTrue ==
  \A k \in Keys : /\ Sound(request[k], records, field)
                  /\ answer[k] \in Refused => Final(k, request[k])

HandlerTrue(q) ==
  /\ WorkTrue(q, records, field) /\ Sound(q.body, records, field)
  /\ q.pc = "answer" /\ q.answer \in Refused => Final(q.key, q.body)

LogInv ==
  /\ StoredTrue /\ RequestsTrue
  /\ \A e \in Editors : EditorTrue(editor[e], field)
  /\ \A h \in Handlers : HandlerTrue(handler[h])

LEMMA NoBodySound == \A rows : \A f \in Field : Sound(NoBody, rows, f)
<1>1. NoBody.commands = <<>> /\ NoBody.fieldRev = 0 /\ DOMAIN NoBody.commands = {}
  BY DEF NoBody
<1>2. Targets(NoBody.commands) = {}
  BY <1>1 DEF Targets
<1> QED BY <1>1, <1>2 DEF Sound, Field

LEMMA LogInit == Init => LogInv
<1> SUFFICES ASSUME Init PROVE LogInv
  OBVIOUS
<1>1. Types
  BY TypesInit
<1>2. StoredTrue
  <2>1. PICK n \in Names :
          field = [rev |-> 1, options |-> {[id |-> 1, name |-> n]}, dropped |-> {}, deleted |-> FALSE]
    BY DEF Init
  <2>2. Proper(field)
    BY <2>1 DEF Proper
  <2>3. \A r \in Records : records[r].value = 0 /\ (records[r].rev = 0 => records[r] = NoRow)
    BY DEF Init, NoRow
  <2> QED BY <2>2, <2>3 DEF StoredTrue, ValuesHaveOptions
<1>3. field \in Field
  BY <1>1 DEF Types, TypeOK
<1>4. RequestsTrue
  BY <1>3, NoBodySound DEF Init, RequestsTrue, Refused
<1>5. \A e \in Editors : EditorTrue(editor[e], field)
  BY DEF Init, EditorTrue, IdleEditor
<1>6. \A h \in Handlers : HandlerTrue(handler[h])
  <2> SUFFICES ASSUME NEW h \in Handlers PROVE HandlerTrue(handler[h])
    OBVIOUS
  <2>1. handler[h].pc = "idle" /\ handler[h].body = NoBody
    BY DEF Init, IdleHandler
  <2> QED BY <1>3, <2>1, NoBodySound DEF HandlerTrue, WorkTrue, Loop
<1> QED BY <1>2, <1>4, <1>5, <1>6 DEF LogInv

(* A handler that refuses a request holds the Actor: nothing was committed  *)
(* under its key, or the receipt has expired since.                         *)
LEMMA RefusalFinal ==
  ASSUME Types, ReceiptsInv, NEW h \in Handlers, handler[h].pc \in TablePhases,
         Hopeless(handler[h].body, records, field)
  PROVE  Final(handler[h].key, handler[h].body)
<1> DEFINE k == handler[h].key
<1>1. k \in Keys
  BY DEF Types, TypeOK, HandlerState
<1>2. ~receipt[k].kept /\ ~guard[k].kept
  BY DEF ReceiptsInv, KeysUnused, TablePhases
<1>3. k \notin forgotten => done[k] = <<>>
  BY <1>1, <1>2 DEF ReceiptsInv, Remembered
<1> QED BY <1>3 DEF Final, Knows

LEMMA QuietLog ==
  ASSUME Everything, LogInv, NEW h \in Handlers, HandlerStep(h), ~Commit(h), ~Deliver(h)
  PROVE  LogInv'
<1>1. Types /\ HistoryInv /\ ReceiptsInv
  BY DEF Everything
<1>2. PICK r \in HandlerState : Update(h, r)
  BY <1>1, HandlerSteps DEF Types, Quiet
<1>3. OnlyHandler
  BY <1>1, HandlerSteps DEF Types, Quiet
<1>4. UNCHANGED <<records, field, done, forgotten, editor, request, answer>>
  BY <1>3 DEF OnlyHandler, Server
<1>5. \A g \in Handlers \ {h} : handler'[g] = handler[g]
  BY <1>1, <1>2, QuietFrame DEF Types
<1>6. HandlerTrue(handler[h]) /\ StoredTrue /\ RequestsTrue
  BY DEF LogInv
<1>7. /\ WorkTrue(handler'[h], records, field) /\ Sound(handler'[h].body, records, field)
      /\ handler'[h].pc = "answer" /\ handler'[h].answer \in Refused =>
           Final(handler'[h].key, handler'[h].body)
  <2>1. CASE BeginTx(h) \/ Replay(h) \/ LockTable(h) \/ Abort(h) \/ LoseAnswer(h)
    <3>1. /\ WorkTrue(handler'[h], records, field)
          /\ handler'[h].body \in {handler[h].body, NoBody} \cup {request[k] : k \in Keys}
          /\ handler'[h].pc = "answer" => handler'[h].answer \notin Refused
      BY <1>1, <1>6, <2>1, EarlyWork DEF HandlerTrue
    <3>2. Sound(NoBody, records, field)
      BY <1>1, NoBodySound DEF Types, TypeOK
    <3> QED BY <1>6, <3>1, <3>2 DEF HandlerTrue, RequestsTrue
  <2>2. CASE \/ LoadFields(h) \/ CheckChoices(h) \/ ResolveChoice(h) \/ SaveOptions(h)
             \/ ApplyCreate(h) \/ ApplyUpdate(h) \/ ApplyLifecycle(h)
    <3>1. /\ WorkTrue(handler'[h], records, field)
          /\ Same(handler'[h], handler[h])
          /\ handler'[h].pc = "answer" /\ handler'[h].answer \in Refused =>
               Hopeless(handler[h].body, records, field)
      BY <1>1, <1>6, <2>2, RunWork DEF HandlerTrue, StoredTrue
    <3>2. handler[h].pc \in TablePhases
      BY <2>2 DEF LoadFields, CheckChoices, ResolveChoice, SaveOptions, ApplyCreate, ApplyUpdate,
                  ApplyLifecycle, InLoop, TablePhases
    <3> QED BY <1>1, <1>6, <3>1, <3>2, RefusalFinal DEF HandlerTrue, Same
  <2> QED BY <2>1, <2>2 DEF HandlerStep, Run
<1>8. \A g \in Handlers : HandlerTrue(handler[g])'
  BY <1>4, <1>5, <1>7 DEF LogInv, HandlerTrue, Final
<1>9. StoredTrue' /\ RequestsTrue' /\ \A e \in Editors : EditorTrue(editor[e], field)'
  BY <1>4 DEF LogInv, StoredTrue, ValuesHaveOptions, RequestsTrue, Final
<1> QED BY <1>8, <1>9 DEF LogInv

(* What was applied gave no Record a value without an Option. *)
LEMMA ValuesKept ==
  ASSUME NEW body \in Body, NEW g \in Field, NEW f \in Field, NEW picked, NEW work \in [Records -> Row],
         NEW result \in Result, NEW rows \in [Records -> Row], NEW rows2 \in [Records -> Row],
         NEW n \in 1 .. Len(body.commands) + 1,
         Resolved(body, g, picked, f, n), Applied(body, g, work, result, rows, n),
         \A r \in Records : rows2[r] = Over(work, rows, r),
         \A r \in Records : rows[r].value \in {0} \cup Ids(f.options \cup f.dropped)
  PROVE  \A r \in Records : rows2[r].value \in {0} \cup Ids(g.options \cup g.dropped)
<1> DEFINE cmds == body.commands
           legal == {0} \cup Ids(g.options \cup g.dropped)
<1>1. Ids(f.options \cup f.dropped) \subseteq Ids(g.options \cup g.dropped)
  BY DEF Resolved, Ids
<1>2. /\ Ids(g.options) \subseteq legal /\ Ids(g.dropped) \subseteq legal /\ 0 \in legal
      /\ \A o \in g.options : o.id \in legal
  BY DEF Ids
<1>3. \A r \in Records : rows[r].value \in legal
  BY <1>1
<1>4. \A i \in 1 .. n - 1 : cmds[i] \in Command
  <2>1. cmds \in Seq(Command) /\ \A i \in 1 .. n - 1 : i \in 1 .. Len(cmds)
    BY DEF Body
  <2> QED BY <2>1
<1> HIDE DEF legal, cmds
<1>5. ASSUME NEW cmd \in Command, NEW old \in legal, NEW v, GivesValue(g, cmd, old, v)
      PROVE  v \in legal
  <2>1. cmd.how \in Hows
    BY DEF Command
  <2>2. CASE cmd.how = "draft"
    BY <1>2, <1>5, <2>2 DEF GivesValue
  <2>3. CASE cmd.how \in {"pick", "set"}
    BY <1>2, <1>5, <2>3 DEF GivesValue
  <2>4. CASE cmd.how \in {"unset", "none"}
    BY <1>2, <1>5, <2>4 DEF GivesValue
  <2> QED BY <2>1, <2>2, <2>3, <2>4 DEF Hows
<1>6. ASSUME NEW r \in Records
      PROVE  rows2[r].value \in legal
  <2>1. CASE work[r] = NoRow
    BY <1>3, <2>1 DEF Over, NoRow
  <2>2. CASE work[r] # NoRow
    <3>1. PICK i \in 1 .. n - 1 : result[i].record = r
      BY <2>2 DEF Applied
    <3>2. Effect(g, cmds[i], result[i], rows[r], rows2[r])
      BY <3>1 DEF Applied, cmds
    <3>3. GivesValue(g, cmds[i], rows[r].value, rows2[r].value)
      BY <3>2 DEF Effect
    <3> QED BY <1>3, <1>4, <1>5, <3>3
  <2> QED BY <2>1, <2>2
<1> QED BY <1>6 DEF legal

(* What a transaction commits. *)
LEMMA CommitWork ==
  ASSUME Types, NEW h \in Handlers, WorkTrue(handler[h], records, field), Commit(h)
  PROVE  LET body == handler[h].body
             all  == Len(handler[h].body.commands) + 1
         IN  /\ Resolved(body, field', handler[h].picked, field, all)
             /\ Applied(body, field', handler[h].rows, handler[h].result, records, all)
             /\ field'.rev = IF field'.options = field.options THEN field.rev ELSE field.rev + 1
             /\ \A r \in Records : records'[r] = Over(handler[h].rows, records, r)
<1>1. PICK q \in HandlerState : q = handler[h]
  BY DEF Types, TypeOK
<1>2. q.pc = "apply" /\ q.next > Len(q.body.commands) /\ field' = q.field
  BY <1>1 DEF Commit
<1>3. q.next \in Nat /\ Len(q.body.commands) \in Nat /\ q.next <= Len(q.body.commands) + 1
  BY <1>1, <1>2 DEF HandlerState, Body, WorkTrue, Loop
<1>4. q.next = Len(q.body.commands) + 1
  BY <1>2, <1>3
<1>5. /\ q.field.rev = IF q.field.options = field.options THEN field.rev ELSE field.rev + 1
      /\ Resolved(q.body, q.field, q.picked, field, Len(q.body.commands) + 1)
      /\ Applied(q.body, q.field, q.rows, q.result, records, q.next)
  BY <1>1, <1>2 DEF WorkTrue
<1>6. \A r \in Records : records'[r] = Over(q.rows, records, r)
  BY <1>1 DEF Commit, Seen, Over
<1> QED BY <1>1, <1>2, <1>4, <1>5, <1>6

(* What is final stays so. *)
LEMMA FinalStays ==
  ASSUME Types, Types', NEW k \in Keys, NEW body \in Body, Sound(body, records, field),
         Later(records, field, records', field'), forgotten \subseteq forgotten'
  PROVE  /\ Sound(body, records', field')
         /\ Hopeless(body, records, field) => Hopeless(body, records', field')
         /\ done'[k] = done[k] => (Final(k, body) => Final(k, body)')
<1>1. /\ records \in [Records -> Row] /\ records' \in [Records -> Row]
      /\ field \in Field /\ field' \in Field
  BY DEF Types, TypeOK
<1>2. Sound(body, records', field') /\ (Hopeless(body, records, field) => Hopeless(body, records', field'))
  BY <1>1, RequestsAge
<1>3. ASSUME done'[k] = done[k], Final(k, body)
      PROVE  Final(k, body)'
  BY <1>2, <1>3 DEF Final
<1> QED BY <1>2, <1>3

LEMMA StaysLater ==
  ASSUME Types, UNCHANGED <<records, field>>
  PROVE  Later(records, field, records', field')
<1>1. field.rev \in Nat /\ \A r \in Records : records[r].rev \in Nat
  BY DEF Types, TypeOK, Field, Row
<1> QED BY <1>1 DEF Later

LEMMA CommitLog ==
  ASSUME Everything, Types', LogInv, NEW h \in Handlers, Commit(h)
  PROVE  LogInv'
<1>0. Types /\ LocksExclusive /\ ReceiptsInv
  BY DEF Everything
<1>1. PICK k \in Keys, body \in Body, result \in Result,
          picked \in Seq({0} \cup Option), work \in [Records -> Row] :
        /\ k = handler[h].key /\ body = handler[h].body /\ result = handler[h].result
        /\ picked = handler[h].picked /\ work = handler[h].rows
  BY <1>0 DEF Types, TypeOK, HandlerState
<1>2. PICK f \in Field, g \in Field, rows \in [Records -> Row], rows2 \in [Records -> Row] :
        f = field /\ g = field' /\ rows = records /\ rows2 = records'
  BY <1>0 DEF Types, TypeOK
<1> DEFINE all == Len(body.commands) + 1
<1>3. all \in Nat /\ all \in 1 .. Len(body.commands) + 1
  BY DEF Body
<1>4. /\ Resolved(body, g, picked, f, all) /\ Applied(body, g, work, result, rows, all)
      /\ g.rev = IF g.options = f.options THEN f.rev ELSE f.rev + 1
      /\ \A r \in Records : rows2[r] = Over(work, rows, r)
  BY <1>0, <1>1, <1>2, CommitWork DEF LogInv, HandlerTrue
<1>5. ~Hopeless(body, rows, f)
  BY <1>4, AppliedHopeful
<1>6. Later(rows, f, rows2, g)
  BY <1>3, <1>4, CommitLater
<1> DEFINE r == [IdleHandler EXCEPT !.pc = "answer", !.key = k, !.body = body, !.result = result]
           entry == [body |-> body, result |-> result]
<1>7. r \in HandlerState /\ r.pc = "answer" /\ r.answer = "applied" /\ r.body = body
  BY IdleHandlerType DEF HandlerState, IdleHandler
<1>8. Update(h, r) /\ handler[h].pc = "apply" /\ UNCHANGED <<editor, request, answer, forgotten>>
  BY <1>1 DEF Commit
<1> HIDE DEF r, all
<1>9. handler'[h] = r /\ \A p \in Handlers \ {h} : handler'[p] = handler[p]
  BY <1>0, <1>7, <1>8, QuietFrame DEF Types
<1>10. /\ done'[k] = Append(done[k], entry) /\ \A j \in Keys \ {k} : done'[j] = done[j]
       /\ done[k] \in Seq([body : Body, result : Result])
  BY <1>0, <1>1 DEF Commit, Types, TypeOK
<1>11. \A b : Knows(done'[k], b) => Knows(done[k], b) \/ b = body
  <2>1. entry.body = body /\ entry \in [body : Body, result : Result]
    OBVIOUS
  <2> HIDE DEF entry
  <2> SUFFICES ASSUME NEW b, Knows(done'[k], b) PROVE Knows(done[k], b) \/ b = body
    OBVIOUS
  <2>2. PICK i \in DOMAIN done'[k] : done'[k][i].body = b
    BY DEF Knows
  <2>3. DOMAIN done'[k] = 1 .. Len(done[k]) + 1 /\ Len(done[k]) \in Nat /\ DOMAIN done[k] = 1 .. Len(done[k])
    BY <1>10, <2>1
  <2>4. CASE i \in 1 .. Len(done[k])
    <3>1. done'[k][i] = done[k][i]
      BY <1>10, <2>1, <2>4
    <3> QED BY <2>2, <2>3, <2>4, <3>1 DEF Knows
  <2>5. CASE i = Len(done[k]) + 1
    BY <1>10, <2>1, <2>2, <2>5
  <2> QED BY <2>2, <2>3, <2>4, <2>5
<1>12. ASSUME NEW j \in Keys, NEW b \in Body, Sound(b, records, field)
       PROVE  Sound(b, records', field') /\ (Final(j, b) => Final(j, b)')
  <2>1. /\ Sound(b, records', field')
        /\ Hopeless(b, records, field) => Hopeless(b, records', field')
        /\ done'[j] = done[j] => (Final(j, b) => Final(j, b)')
    BY <1>0, <1>2, <1>6, <1>8, <1>12, FinalStays
  <2>2. CASE j = k
    <3> SUFFICES ASSUME Final(k, b) PROVE Final(k, b)'
      BY <2>1, <2>2
    <3>1. b # body
      BY <1>2, <1>5 DEF Final
    <3> QED BY <1>8, <1>11, <2>1, <3>1 DEF Final
  <2> QED BY <1>10, <2>1, <2>2
<1>13. StoredTrue'
  <2>1. Proper(field)'
    BY <1>2, <1>4 DEF Resolved
  <2>2. ValuesHaveOptions'
    <3>1. \A x \in Records : rows[x].value \in {0} \cup Ids(f.options \cup f.dropped)
      BY <1>2 DEF LogInv, StoredTrue, ValuesHaveOptions
    <3>2. PICK n \in 1 .. Len(body.commands) + 1 : n = all
      BY <1>3
    <3>3. \A x \in Records : rows2[x].value \in {0} \cup Ids(g.options \cup g.dropped)
      <4>1. Resolved(body, g, picked, f, n) /\ Applied(body, g, work, result, rows, n)
        BY <1>4, <3>2
      <4>2. \A x \in Records : rows2[x] = Over(work, rows, x)
        BY <1>4
      <4> HIDE DEF entry
      <4> QED BY <3>1, <4>1, <4>2, ValuesKept
    <3> QED BY <1>2, <3>3 DEF ValuesHaveOptions
  <2>3. ASSUME NEW x \in Records, records'[x].rev = 0
        PROVE  records'[x] = NoRow
    <3>1. work[x].rev \in Nat /\ rows2[x] = Over(work, rows, x)
      BY <1>4 DEF Row
    <3>2. rows2[x] = rows[x]
      BY <1>2, <2>3, <3>1 DEF Over
    <3> QED BY <1>2, <2>3, <3>2 DEF LogInv, StoredTrue
  <2> QED BY <2>1, <2>2, <2>3 DEF StoredTrue
<1>14. RequestsTrue'
  <2>1. \A j \in Keys : request[j] \in Body
    BY <1>0 DEF Types, TypeOK
  <2> SUFFICES ASSUME NEW j \in Keys
               PROVE  Sound(request[j], records', field') /\ (answer[j] \in Refused => Final(j, request[j])')
    BY <1>8 DEF RequestsTrue
  <2>2. PICK b \in Body : b = request[j] /\ b = request'[j]
    BY <1>8, <2>1
  <2>3. Sound(b, records, field) /\ (answer[j] \in Refused => Final(j, b))
    BY <2>2 DEF LogInv, RequestsTrue
  <2> QED BY <1>12, <2>2, <2>3 DEF Final
<1>15. \A e \in Editors : EditorTrue(editor[e], field)'
  <2> SUFFICES ASSUME NEW e \in Editors PROVE EditorTrue(editor[e], g)
    BY <1>2, <1>8
  <2>1. EditorTrue(editor[e], f) /\ editor[e].rev \in Nat /\ f.rev \in Nat /\ g.rev \in Nat
    BY <1>0, <1>2 DEF LogInv, Types, TypeOK, EditorState, Field
  <2>2. editor[e].pc # "locked"
    BY <1>0, <1>8 DEF LocksExclusive, HandlerHoldsTable, EditorHoldsTable
  <2>3. f.rev <= g.rev /\ (g.rev = f.rev => g = f)
    BY <1>6 DEF Later
  <2>4. CASE g.rev = f.rev
    BY <2>1, <2>3, <2>4
  <2>5. CASE g.rev # f.rev
    <3>1. editor[e].pc # "idle" => editor[e].rev < g.rev /\ Proper(editor[e].target)
      BY <2>1, <2>3, <2>5 DEF EditorTrue
    <3> QED BY <2>1, <2>2, <3>1 DEF EditorTrue
  <2> QED BY <2>4, <2>5
<1>16. \A p \in Handlers : HandlerTrue(handler[p])'
  <2> SUFFICES ASSUME NEW p \in Handlers PROVE HandlerTrue(handler[p])'
    OBVIOUS
  <2>1. CASE p = h
    <3>1. Sound(body, records', field')
      BY <1>1, <1>12 DEF LogInv, HandlerTrue
    <3>2. WorkTrue(r, records', field')
      BY <1>7 DEF WorkTrue, Loop
    <3> QED BY <1>7, <1>9, <2>1, <3>1, <3>2 DEF HandlerTrue, Refused
  <2>2. CASE p # h
    <3>1. PICK q \in HandlerState : q = handler[p] /\ q = handler'[p]
      BY <1>0, <1>9, <2>2 DEF Types, TypeOK
    <3>2. q.body \in Body /\ q.key \in Keys
      BY DEF HandlerState
    <3>3. HandlerTrue(q)
      BY <3>1 DEF LogInv
    <3>4. q.pc \notin Loop
      BY <1>0, <1>8, <2>2, <3>1 DEF LocksExclusive, HoldsActor, Loop
    <3>5. WorkTrue(q, records', field')
      BY <3>3, <3>4 DEF HandlerTrue, WorkTrue, Loop
    <3>6. PICK b \in Body, j \in Keys : b = q.body /\ j = q.key
      BY <3>2
    <3>7. Sound(b, records', field') /\ (Final(j, b) => Final(j, b)')
      BY <1>12, <3>3, <3>6 DEF HandlerTrue
    <3>8. q.pc = "answer" /\ q.answer \in Refused => Final(j, b)'
      BY <3>3, <3>6, <3>7 DEF HandlerTrue
    <3> QED BY <3>1, <3>5, <3>6, <3>7, <3>8 DEF HandlerTrue
  <2> QED BY <2>1, <2>2
<1> QED BY <1>13, <1>14, <1>15, <1>16 DEF LogInv

(* Where what is stored stays, only the parts that move need an argument. *)
LEMMA SameLog ==
  ASSUME LogInv, UNCHANGED <<records, field, done>>, forgotten \subseteq forgotten'
  PROVE  /\ StoredTrue'
         /\ \A k, body : Final(k, body) => Final(k, body)'
         /\ UNCHANGED editor => \A e \in Editors : EditorTrue(editor[e], field)'
         /\ UNCHANGED <<request, answer>> => RequestsTrue'
         /\ UNCHANGED handler => \A h \in Handlers : HandlerTrue(handler[h])'
<1>1. StoredTrue' /\ (UNCHANGED editor => \A e \in Editors : EditorTrue(editor[e], field)')
  BY DEF LogInv, StoredTrue, ValuesHaveOptions
<1>2. \A k, body : Final(k, body) => Final(k, body)'
  BY DEF Final
<1>3. UNCHANGED <<request, answer>> => RequestsTrue'
  BY DEF LogInv, RequestsTrue, Final
<1>4. UNCHANGED handler => \A h \in Handlers : HandlerTrue(handler[h])'
  BY DEF LogInv, HandlerTrue, Final
<1> QED BY <1>1, <1>2, <1>3, <1>4

LEMMA DeliverLog ==
  ASSUME Types, LogInv, NEW h \in Handlers, Deliver(h)
  PROVE  LogInv'
<1>1. handler'[h] = IdleHandler /\ \A g \in Handlers \ {h} : handler'[g] = handler[g]
  BY IdleHandlerType, QuietFrame DEF Deliver, Types
<1>2. UNCHANGED <<records, field, done, forgotten, request, editor>>
  BY DEF Deliver, Server
<1>3. IdleHandler.pc = "idle" /\ IdleHandler.body = NoBody
  BY DEF IdleHandler
<1>4. StoredTrue' /\ \A e \in Editors : EditorTrue(editor[e], field)'
  BY <1>2, SameLog
<1>5. \A g \in Handlers : HandlerTrue(handler[g])'
  <2> SUFFICES ASSUME NEW g \in Handlers PROVE HandlerTrue(handler[g])'
    OBVIOUS
  <2>1. CASE g = h
    <3>1. Sound(NoBody, records, field)
      BY NoBodySound DEF Types, TypeOK
    <3> QED BY <1>1, <1>2, <1>3, <2>1, <3>1 DEF HandlerTrue, WorkTrue, Loop
  <2>2. CASE g # h
    BY <1>1, <1>2, <2>2 DEF LogInv, HandlerTrue, Final
  <2> QED BY <2>1, <2>2
<1>6. RequestsTrue'
  <2> SUFFICES ASSUME NEW k \in Keys, answer'[k] \in Refused
               PROVE  Final(k, request[k])
    BY <1>2 DEF LogInv, RequestsTrue, Final
  <2>1. \/ answer'[k] = answer[k]
        \/ k = handler[h].key /\ request[k] = handler[h].body /\ answer'[k] = handler[h].answer
    BY DEF Deliver, Types, TypeOK
  <2> QED BY <2>1 DEF LogInv, RequestsTrue, HandlerTrue, Deliver
<1> QED BY <1>4, <1>5, <1>6 DEF LogInv

(* validateCommands, and Revisions that the client reads when it composes. *)
LEMMA ComposedSound ==
  ASSUME Types, NEW intent \in Intents,
         \A i \in Targets(intent) : records[intent[i].target].rev \in 1 .. MaxRev - 1
  PROVE  Sound(WithRevisions(intent), records, field)
<1> DEFINE c(i) == [kind |-> intent[i].kind, target |-> intent[i].target, how |-> intent[i].how,
                    name |-> intent[i].name, option |-> intent[i].option,
                    rev |-> IF intent[i].kind = "create" THEN 0 ELSE records[intent[i].target].rev]
           cmds == [i \in DOMAIN intent |-> c(i)]
<1>1. WithRevisions(intent) = [commands |-> cmds, fieldRev |-> field.rev]
  BY DEF WithRevisions
<1>2. /\ \A i \in DOMAIN intent :
           /\ c(i).kind = intent[i].kind /\ c(i).target = intent[i].target
           /\ c(i).how = intent[i].how
           /\ c(i).kind # "create" => c(i).rev = records[intent[i].target].rev
      /\ DOMAIN cmds = DOMAIN intent
  OBVIOUS
<1>3. \A i \in DOMAIN intent :
        /\ cmds[i].kind = intent[i].kind /\ cmds[i].target = intent[i].target
        /\ cmds[i].how = intent[i].how
        /\ cmds[i].kind # "create" => cmds[i].rev = records[intent[i].target].rev
  <2> HIDE DEF c
  <2> QED BY <1>2
<1> HIDE DEF c, cmds
<1>4. Targets(cmds) = Targets(intent) /\ Targets(intent) \subseteq DOMAIN intent
  BY <1>2, <1>3 DEF Targets, cmds
<1>5. /\ \A i, j \in Targets(intent) : intent[i].target = intent[j].target => i = j
      /\ \A i \in DOMAIN intent : intent[i].kind \in {"delete", "restore"} => intent[i].how = "none"
  BY IntentAssumption
<1>6. ASSUME NEW i \in Targets(cmds)
      PROVE  0 < cmds[i].rev /\ cmds[i].rev <= records[cmds[i].target].rev
  <2>1. /\ records[intent[i].target].rev \in 1 .. MaxRev - 1
        /\ cmds[i].rev = records[intent[i].target].rev
    BY <1>3, <1>4 DEF Targets
  <2>2. MaxRev \in Nat
    BY MutationAssumption
  <2> QED BY <1>3, <1>4, <2>1, <2>2
<1>7. field.rev \in Nat
  BY DEF Types, TypeOK, Field
<1>8. \A i, j \in Targets(cmds) : cmds[i].target = cmds[j].target => i = j
  BY <1>3, <1>4, <1>5
<1>9. \A i \in DOMAIN cmds : cmds[i].kind \in {"delete", "restore"} => cmds[i].how = "none"
  BY <1>2, <1>3, <1>5 DEF cmds
<1> QED BY <1>1, <1>6, <1>7, <1>8, <1>9 DEF Sound

LEMMA ComposeLog ==
  ASSUME Types, LogInv, NEW k \in Keys, Compose(k)
  PROVE  LogInv'
<1>1. PICK intent \in Intents :
        /\ \A i \in Targets(intent) : records[intent[i].target].rev \in 1 .. MaxRev - 1
        /\ request' = [request EXCEPT ![k] = WithRevisions(intent)]
  BY DEF Compose
<1>2. Sound(WithRevisions(intent), records, field)
  BY <1>1, ComposedSound
<1>3. /\ answer' = [answer EXCEPT ![k] = "none"] /\ UNCHANGED <<handler, editor>>
      /\ UNCHANGED <<records, field, done, forgotten>>
  BY DEF Compose, Server
<1>4. StoredTrue' /\ \A e \in Editors : EditorTrue(editor[e], field)'
  BY <1>3, SameLog
<1>5. \A h \in Handlers : HandlerTrue(handler[h])'
  BY <1>3, SameLog
<1>6. /\ request'[k] = WithRevisions(intent) /\ answer'[k] = "none"
      /\ \A j \in Keys \ {k} : request'[j] = request[j] /\ answer'[j] = answer[j]
  BY <1>1, <1>3 DEF Types, TypeOK
<1>7. RequestsTrue'
  <2> SUFFICES ASSUME NEW j \in Keys
               PROVE  Sound(request'[j], records, field) /\ (answer'[j] \in Refused => Final(j, request'[j]))
    BY <1>3 DEF RequestsTrue, Final
  <2> QED BY <1>2, <1>6 DEF LogInv, RequestsTrue, Refused
<1> QED BY <1>4, <1>5, <1>7 DEF LogInv

(* normalizeUpdatedSelectConfig keeps every Option, and names unique. *)
LEMMA EditedProper ==
  ASSUME Types, Proper(field), NEW op \in AllEditorOps, NEW g \in Edited(op, field)
  PROVE  Proper(g) /\ Ids(field.options \cup field.dropped) \subseteq Ids(g.options \cup g.dropped)
<1>1. PICK f \in Field : f = field
  BY DEF Types, TypeOK
<1>2. \A o, p \in f.options \cup f.dropped : o.id = p.id => o = p
  BY <1>1 DEF Proper
<1>3. \A o, p \in f.options : o.name = p.name => o = p
  BY <1>1 DEF Proper
<1>4. CASE op = "drop"
  <2>1. PICK o \in f.options : g = [f EXCEPT !.options = f.options \ {o}, !.dropped = f.dropped \cup {o}]
    BY <1>1, <1>4 DEF Edited
  <2>2. g.options = f.options \ {o} /\ g.dropped = f.dropped \cup {o}
    BY <2>1 DEF Field
  <2>3. g.options \cup g.dropped = f.options \cup f.dropped
    BY <2>1, <2>2
  <2> QED BY <1>1, <1>2, <1>3, <2>2, <2>3 DEF Proper
<1>5. CASE op = "revive"
  <2>1. PICK o \in f.dropped :
          /\ g = [f EXCEPT !.options = f.options \cup {o}, !.dropped = f.dropped \ {o}]
          /\ \A a \in f.options : a.name # o.name
    BY <1>1, <1>5 DEF Edited
  <2>2. g.options = f.options \cup {o} /\ g.dropped = f.dropped \ {o}
    BY <2>1 DEF Field
  <2>3. g.options \cup g.dropped = f.options \cup f.dropped
    BY <2>1, <2>2
  <2>4. \A a, b \in g.options : a.name = b.name => a = b
    BY <1>3, <2>1, <2>2
  <2> QED BY <1>1, <1>2, <2>3, <2>4 DEF Proper
<1>6. CASE op = "add"
  <2>1. PICK o \in NamedOption :
          /\ g = [f EXCEPT !.options = f.options \cup {o}]
          /\ Unused(o.id) /\ \A a \in f.options : a.name # o.name
    BY <1>1, <1>6 DEF Edited
  <2>2. g.options = f.options \cup {o} /\ g.dropped = f.dropped
    BY <2>1 DEF Field
  <2>3. \A a \in f.options \cup f.dropped : a.id # o.id
    BY <1>1, <2>1 DEF Unused, Ids
  <2>4. \A a, b \in g.options : a.name = b.name => a = b
    BY <1>3, <2>1, <2>2
  <2>5. \A a, b \in g.options \cup g.dropped : a.id = b.id => a = b
    BY <1>2, <2>2, <2>3
  <2> QED BY <1>1, <2>2, <2>4, <2>5 DEF Proper, Ids
<1>7. CASE op \in {"deleteField", "restoreField", "toggleTable"}
  <2>1. g \in {f, [f EXCEPT !.deleted = TRUE], [f EXCEPT !.deleted = FALSE]}
    BY <1>1, <1>7 DEF Edited
  <2>2. g.options = f.options /\ g.dropped = f.dropped
    BY <2>1 DEF Field
  <2> QED BY <1>1, <2>2 DEF Proper
<1> QED BY <1>4, <1>5, <1>6, <1>7 DEF AllEditorOps

(* An edit of the Field that is committed. *)
LEMMA EditCommits ==
  ASSUME Types, NEW e \in Editors, EditorTrue(editor[e], field), EditorCommit(e),
         editor[e].op # "toggleTable"
  PROVE  /\ field'.rev = field.rev + 1 /\ Proper(field')
         /\ Ids(field.options \cup field.dropped) \subseteq Ids(field'.options \cup field'.dropped)
<1>1. PICK s \in EditorState : s = editor[e]
  BY DEF Types, TypeOK
<1>2. s.pc = "locked" /\ field' = [s.target EXCEPT !.rev = field.rev + 1]
  BY <1>1 DEF EditorCommit
<1>3. s.target \in Field
  BY DEF EditorState
<1>4. /\ field'.rev = field.rev + 1 /\ field'.options = s.target.options
      /\ field'.dropped = s.target.dropped
  BY <1>2, <1>3 DEF Field
<1>5. /\ Proper(s.target)
      /\ Ids(field.options \cup field.dropped) \subseteq Ids(s.target.options \cup s.target.dropped)
  BY <1>1, <1>2 DEF EditorTrue, EditorCommit
<1>6. Proper(field')
  BY <1>4, <1>5 DEF Proper
<1> QED BY <1>4, <1>5, <1>6

LEMMA EditCommitLog ==
  ASSUME Everything, Types', LogInv, NEW e \in Editors, EditorCommit(e), editor[e].op # "toggleTable"
  PROVE  LogInv'
<1>0. Types /\ LocksExclusive
  BY DEF Everything
<1>1. /\ field'.rev = field.rev + 1 /\ Proper(field')
      /\ Ids(field.options \cup field.dropped) \subseteq Ids(field'.options \cup field'.dropped)
  BY <1>0, EditCommits DEF LogInv
<1>2. UNCHANGED <<records, handler, request, answer, done, forgotten>>
  BY DEF EditorCommit
<1>3. field.rev \in Nat /\ \A r \in Records : records[r].rev \in Nat
  BY <1>0 DEF Types, TypeOK, Field, Row
<1>4. Later(records, field, records', field')
  BY <1>1, <1>2, <1>3 DEF Later
<1>5. StoredTrue'
  BY <1>1, <1>2 DEF LogInv, StoredTrue, ValuesHaveOptions
<1>6. ASSUME NEW k \in Keys, NEW b \in Body, Sound(b, records, field)
      PROVE  Sound(b, records', field') /\ (Final(k, b) => Final(k, b)')
  BY <1>0, <1>2, <1>4, <1>6, FinalStays
<1>7. RequestsTrue'
  <2> SUFFICES ASSUME NEW k \in Keys
               PROVE  Sound(request[k], records', field') /\ (answer[k] \in Refused => Final(k, request[k])')
    BY <1>2 DEF RequestsTrue
  <2>1. PICK b \in Body : b = request[k] /\ b = request'[k]
    BY <1>0, <1>2 DEF Types, TypeOK
  <2>2. Sound(b, records, field) /\ (answer[k] \in Refused => Final(k, b))
    BY <2>1 DEF LogInv, RequestsTrue
  <2> QED BY <1>6, <2>1, <2>2 DEF Final
<1>8. \A h \in Handlers : HandlerTrue(handler[h])'
  <2> SUFFICES ASSUME NEW h \in Handlers PROVE HandlerTrue(handler[h])'
    OBVIOUS
  <2>1. PICK q \in HandlerState : q = handler[h] /\ q = handler'[h]
    BY <1>0, <1>2 DEF Types, TypeOK
  <2>2. HandlerTrue(q)
    BY <2>1 DEF LogInv
  <2>3. q.pc \notin Loop
    BY <1>0, <2>1 DEF EditorCommit, LocksExclusive, HandlerHoldsTable, EditorHoldsTable, Loop
  <2>4. WorkTrue(q, records', field')
    BY <2>2, <2>3 DEF HandlerTrue, WorkTrue, Loop
  <2>5. PICK b \in Body, j \in Keys : b = q.body /\ j = q.key
    BY DEF HandlerState
  <2>6. Sound(b, records', field') /\ (Final(j, b) => Final(j, b)')
    BY <1>6, <2>2, <2>5 DEF HandlerTrue
  <2>7. q.pc = "answer" /\ q.answer \in Refused => Final(j, b)'
    BY <2>2, <2>5, <2>6 DEF HandlerTrue
  <2> QED BY <2>1, <2>4, <2>5, <2>6, <2>7 DEF HandlerTrue
<1>9. \A d \in Editors : EditorTrue(editor[d], field)'
  <2> SUFFICES ASSUME NEW d \in Editors PROVE EditorTrue(editor'[d], field')
    OBVIOUS
  <2>1. CASE d = e
    BY <1>0, <2>1 DEF EditorCommit, EditorTrue, IdleEditor, Types, TypeOK
  <2>2. CASE d # e
    <3>1. editor'[d] = editor[d] /\ editor[d].rev \in Nat /\ EditorTrue(editor[d], field)
      BY <1>0, <2>2 DEF EditorCommit, LogInv, Types, TypeOK, EditorState
    <3>2. editor[d].pc # "locked"
      BY <1>0, <2>2 DEF EditorCommit, LocksExclusive, EditorHoldsTable
    <3>3. editor[d].pc # "idle" => editor[d].rev < field'.rev /\ Proper(editor[d].target)
      BY <1>1, <1>3, <3>1 DEF EditorTrue
    <3> QED BY <1>1, <1>3, <3>1, <3>2, <3>3 DEF EditorTrue
  <2> QED BY <2>1, <2>2
<1> QED BY <1>5, <1>7, <1>8, <1>9 DEF LogInv

LEMMA EditorLog ==
  ASSUME Everything, Types', LogInv, NEW e \in Editors, EditorStep(e)
  PROVE  LogInv'
<1>0. Types
  BY DEF Everything
<1>1. CASE EditorCommit(e) /\ editor[e].op # "toggleTable"
  BY <1>1, EditCommitLog
<1>2. CASE ~(EditorCommit(e) /\ editor[e].op # "toggleTable")
  <2>1. UNCHANGED <<records, field, handler, request, answer, done, forgotten>>
    BY <1>2 DEF EditorStep, EditorRead, EditorLock, EditorCommit, EditorAbort, Server
  <2>2. StoredTrue' /\ RequestsTrue' /\ \A h \in Handlers : HandlerTrue(handler[h])'
    BY <2>1, SameLog
  <2>3. \A d \in Editors \ {e} : editor'[d] = editor[d]
    BY <1>0 DEF EditorStep, EditorRead, EditorLock, EditorCommit, EditorAbort, Types, TypeOK
  <2>4. EditorTrue(editor'[e], field)
    <3>1. PICK s \in EditorState : s = editor[e]
      BY <1>0 DEF Types, TypeOK
    <3>2. CASE editor'[e] = IdleEditor
      BY <3>2 DEF EditorTrue, IdleEditor
    <3>3. CASE EditorRead(e)
      <4>0. PICK op \in EditorOps : \E f \in Edited(op, field) :
              editor' = [editor EXCEPT ![e] = [pc |-> "read", op |-> op, rev |-> field.rev, target |-> f]]
        BY <3>3 DEF EditorRead
      <4>1. PICK f \in Edited(op, field) :
              editor' = [editor EXCEPT ![e] = [pc |-> "read", op |-> op, rev |-> field.rev, target |-> f]]
        BY <4>0
      <4>2. op \in AllEditorOps /\ Proper(field)
        BY MutationAssumption DEF LogInv, StoredTrue
      <4>3. Proper(f) /\ Ids(field.options \cup field.dropped) \subseteq Ids(f.options \cup f.dropped)
        BY <1>0, <4>2, EditedProper
      <4>4. editor'[e] = [pc |-> "read", op |-> op, rev |-> field.rev, target |-> f]
        BY <1>0, <4>1 DEF Types, TypeOK
      <4>5. field.rev \in Nat
        BY <1>0 DEF Types, TypeOK, Field
      <4>6. editor'[e].pc = "read" /\ editor'[e].rev = field.rev /\ editor'[e].target = f
        BY <4>4
      <4>7. PICK d : d = editor'[e]
        OBVIOUS
      <4>8. Proper(d.target) /\ d.rev <= field.rev /\ d.pc = "read"
        BY <4>3, <4>5, <4>6, <4>7
      <4>9. Ids(field.options \cup field.dropped) \subseteq Ids(d.target.options \cup d.target.dropped)
        BY <4>3, <4>6, <4>7
      <4> QED BY <4>7, <4>8, <4>9 DEF EditorTrue
    <3>4. CASE EditorLock(e) /\ editor'[e] # IdleEditor
      <4>1. editor'[e] = [s EXCEPT !.pc = "locked"] /\ s.pc = "read"
            /\ (s.op # "toggleTable" => field.rev = s.rev)
        BY <1>0, <3>1, <3>4 DEF EditorLock, Types, TypeOK
      <4>2. EditorTrue(s, field)
        BY <3>1 DEF LogInv
      <4>3. /\ editor'[e].pc = "locked" /\ editor'[e].op = s.op /\ editor'[e].rev = s.rev
            /\ editor'[e].target = s.target
        BY <4>1 DEF EditorState
      <4> QED BY <4>1, <4>2, <4>3 DEF EditorTrue
    <3>5. CASE EditorCommit(e) \/ EditorAbort(e)
      <4>1. editor' = [editor EXCEPT ![e] = IdleEditor]
        BY <3>5 DEF EditorCommit, EditorAbort
      <4>2. editor'[e] = IdleEditor
        BY <1>0, <4>1 DEF Types, TypeOK
      <4> QED BY <3>2, <4>2
    <3> QED BY <3>2, <3>3, <3>4, <3>5 DEF EditorStep
  <2>5. \A d \in Editors : EditorTrue(editor'[d], field)
    BY <2>3, <2>4 DEF LogInv
  <2> QED BY <2>1, <2>2, <2>5 DEF LogInv
<1> QED BY <1>1, <1>2

LEMMA LogStep == Everything /\ Types' /\ LogInv /\ [Next]_vars => LogInv'
<1> SUFFICES ASSUME Everything, Types', LogInv, [Next]_vars
             PROVE  LogInv'
  OBVIOUS
<1>0. Types
  BY DEF Everything
<1>1. ASSUME NEW k \in Keys, Compose(k)
      PROVE  LogInv'
  BY <1>0, <1>1, ComposeLog
<1>2. ASSUME NEW k \in Keys, Expire(k)
      PROVE  LogInv'
  <2>1. UNCHANGED <<records, field, done, handler, editor, request, answer>>
    BY <1>2 DEF Expire
  <2>2. forgotten \subseteq forgotten'
    BY <1>2 DEF Expire
  <2>3. RequestsTrue'
    BY <2>1, <2>2, SameLog
  <2>4. StoredTrue' /\ (\A e \in Editors : EditorTrue(editor[e], field)')
    BY <2>1, <2>2, SameLog
  <2>5. \A h \in Handlers : HandlerTrue(handler[h])'
    BY <2>1, <2>2, SameLog
  <2> QED BY <2>3, <2>4, <2>5 DEF LogInv
<1>3. ASSUME NEW h \in Handlers, HandlerStep(h)
      PROVE  LogInv'
  BY <1>0, <1>3, CommitLog, DeliverLog, QuietLog
<1>4. ASSUME NEW e \in Editors, EditorStep(e)
      PROVE  LogInv'
  BY <1>4, EditorLog
<1>5. CASE UNCHANGED vars
  <2>1. UNCHANGED <<records, field, done, handler, editor, request, answer>> /\ forgotten \subseteq forgotten'
    BY <1>5 DEF vars
  <2> QED BY <2>1, SameLog DEF LogInv
<1> QED BY <1>1, <1>2, <1>3, <1>4, <1>5 DEF Next

LEMMA LogInvariant == Spec => [](Everything /\ LogInv)
<1>1. Init => Everything /\ LogInv
  BY TypesInit, LocksInit, ReceiptsInit, HistoryInit, LogInit DEF Everything
<1>2. Everything /\ LogInv /\ [Next]_vars => (Everything /\ LogInv)'
  <2>1. Everything /\ [Next]_vars => Everything' /\ Types'
    BY TypesStep, LocksStep, ReceiptsStep, HistoryStep DEF Everything
  <2> QED BY <2>1, LogStep
<1> QED BY <1>1, <1>2, PTL DEF Spec

(* Two drafts of one name, in one request or in several that race with each *)
(* other and with edits of the Field, become one Option (resolveChoiceOption *)
(* under the locks of the Table, normalizeUpdatedSelectConfig).             *)
THEOREM MutationOptionNamesUnique == Spec => []OptionNamesUnique
<1>1. LogInv => OptionNamesUnique
  BY DEF LogInv, StoredTrue, Proper, OptionNamesUnique
<1> QED BY <1>1, LogInvariant, PTL

(* No edit of the Options, normalised from a copy read before the lock,     *)
(* takes an Option from under a value, and no value is written without its  *)
(* Option (normalizeFieldValue, UpdateField's compare-and-set).             *)
THEOREM MutationValuesHaveOptions == Spec => []ValuesHaveOptions
<1>1. LogInv => ValuesHaveOptions
  BY DEF LogInv, StoredTrue
<1> QED BY <1>1, LogInvariant, PTL

(* Who is told of a Revision conflict or of an invalid transition may       *)
(* compose a new request: no copy of the old one was applied or can be,     *)
(* however late it arrives (mutation.go validateCommandRevision and the     *)
(* checks of prepareChoiceMutation).                                        *)
THEOREM MutationConflictIsFinal == Spec => []ConflictIsFinal
<1>1. LogInv => ConflictIsFinal
  BY DEF LogInv, RequestsTrue, Final, Knows, Refused, ConflictIsFinal, CommittedAs
<1> QED BY <1>1, LogInvariant, PTL

-----------------------------------------------------------------------------
(* The Table is a log of whole requests and Field edits.                    *)

(* The Options that a committed request created are those that it asked for. *)
LEMMA OptionsMade ==
  ASSUME NEW body \in Body, NEW f \in Field, NEW g \in Field, NEW picked,
         Resolved(body, g, picked, f, Len(body.commands) + 1),
         g.rev = IF g.options = f.options THEN f.rev ELSE f.rev + 1
  PROVE  LET cmds   == body.commands
             drafts == {c \in {cmds[i] : i \in DOMAIN cmds} : c.how = "draft"}
             made   == g.options \ f.options
         IN  /\ HasChoices(body) => f.rev = body.fieldRev /\ ~f.deleted
             /\ NamesOf(made) = NamesOf(drafts) \ NamesOf(f.options)
             /\ \A o, p \in made : o.name = p.name => o = p
             /\ Ids(made) \cap Ids(f.options \cup f.dropped) = {}
             /\ g = [f EXCEPT !.options = f.options \cup made,
                              !.rev = IF made = {} THEN f.rev ELSE f.rev + 1]
<1> DEFINE cmds == body.commands
           drafts == {c \in {cmds[i] : i \in DOMAIN cmds} : c.how = "draft"}
           made == g.options \ f.options
<1>1. NamesOf(drafts) = Drafts(cmds, Len(cmds) + 1)
  <2>1. \A i \in DOMAIN cmds : i < Len(cmds) + 1
    BY DEF Body
  <2> HIDE DEF cmds
  <2> QED BY <2>1 DEF NamesOf, Drafts
<1>2. /\ HasChoices(body) => f.rev = body.fieldRev /\ ~f.deleted
      /\ NamesOf(made) = Drafts(cmds, Len(cmds) + 1) \ NamesOf(f.options)
      /\ Ids(made) \cap Ids(f.options \cup f.dropped) = {}
      /\ f.options \subseteq g.options /\ g.dropped = f.dropped /\ g.deleted = f.deleted
  BY DEF Resolved
<1>3. \A o, p \in made : o.name = p.name => o = p
  BY DEF Resolved, Proper
<1>4. g = [f EXCEPT !.options = f.options \cup made, !.rev = IF made = {} THEN f.rev ELSE f.rev + 1]
  <2>1. f.options \cup made = g.options /\ (made = {} <=> g.options = f.options)
    BY <1>2
  <2>2. g.rev = IF made = {} THEN f.rev ELSE f.rev + 1
    BY <2>1
  <2> DEFINE e == [f EXCEPT !.options = f.options \cup made,
                            !.rev = IF made = {} THEN f.rev ELSE f.rev + 1]
  <2>3. e.options = g.options /\ e.rev = g.rev /\ e.dropped = g.dropped /\ e.deleted = g.deleted
    BY <1>2, <2>1, <2>2 DEF Field
  <2>4. e \in Field
    <3>1. f.rev + 1 \in Nat /\ f.options \cup made \in SUBSET NamedOption
      BY DEF Field
    <3> HIDE DEF made
    <3> QED BY <3>1 DEF Field
  <2> HIDE DEF e
  <2>5. g = e
    BY <2>3, <2>4 DEF Field
  <2> QED BY <2>5 DEF e
<1> QED BY <1>1, <1>2, <1>3, <1>4

(* An effect is what MutationLog means by the command. *)
LEMMA EffectMeans ==
  ASSUME NEW cmd, NEW out, field'.deleted = field.deleted,
         Effect(field', cmd, out, records[out.record], records'[out.record])
  PROVE  Log!MeansCommand(cmd, out)
<1> DEFINE before == records[out.record]
           after == records'[out.record]
<1>1. Log!Ids(field'.options) = Ids(field'.options) /\ Log!Ids(field'.dropped) = Ids(field'.dropped)
  BY DEF Log!Ids, Ids
<1>2. GivesValue(field', cmd, before.value, after.value)
  BY DEF Effect
<1>3. Log!MeansValue(cmd, before.value, after.value)
  <2> HIDE DEF before, after
  <2> QED BY <1>1, <1>2 DEF GivesValue, Log!MeansValue
<1> QED BY <1>3 DEF Effect, Raised, Log!Changed, Log!MeansCommand

LEMMA CommitAccepts ==
  ASSUME Types, Types', NEW h \in Handlers, WorkTrue(handler[h], records, field), Commit(h)
  PROVE  Log!Next
<1>1. PICK k \in Keys, body \in Body, result \in Result,
           picked \in Seq({0} \cup Option), work \in [Records -> Row] :
        /\ k = handler[h].key /\ body = handler[h].body /\ result = handler[h].result
        /\ picked = handler[h].picked /\ work = handler[h].rows
  BY DEF Types, TypeOK, HandlerState
<1>2. PICK f \in Field, g \in Field, rows \in [Records -> Row], rows2 \in [Records -> Row] :
        f = field /\ g = field' /\ rows = records /\ rows2 = records'
  BY DEF Types, TypeOK
<1> DEFINE cmds == body.commands
           entry == [body |-> body, result |-> result]
<1>3. /\ Resolved(body, g, picked, f, Len(cmds) + 1)
      /\ Applied(body, g, work, result, rows, Len(cmds) + 1)
      /\ g.rev = IF g.options = f.options THEN f.rev ELSE f.rev + 1
      /\ \A r \in Records : rows2[r] = Over(work, rows, r)
  BY <1>1, <1>2, CommitWork
<1>4. /\ done' = [done EXCEPT ![k] = Append(done[k], entry)]
      /\ done[k] \in Seq([body : Body, result : Result])
      /\ entry \in [body : Body, result : Result]
      /\ done'[k] = Append(done[k], entry)
  BY <1>1 DEF Commit, Types, TypeOK
<1>5. entry.body = body /\ entry.result = result
  OBVIOUS
<1>6. /\ Len(cmds) \in Nat /\ DOMAIN cmds = 1 .. Len(cmds) /\ (Len(cmds) + 1) - 1 = Len(cmds)
      /\ DOMAIN result = 1 .. Len(result)
  BY DEF Body, Result
<1> HIDE DEF entry, cmds
<1>7. done'[k] # <<>> /\ Log!Newest(k) = entry
  BY <1>4 DEF Log!Newest
<1>8. Log!OptionsOf(body)
  <2>1. LET drafts == {c \in {cmds[i] : i \in DOMAIN cmds} : c.how = "draft"}
            made   == g.options \ f.options
        IN  /\ HasChoices(body) => f.rev = body.fieldRev /\ ~f.deleted
            /\ NamesOf(made) = NamesOf(drafts) \ NamesOf(f.options)
            /\ \A o, p \in made : o.name = p.name => o = p
            /\ Ids(made) \cap Ids(f.options \cup f.dropped) = {}
            /\ g = [f EXCEPT !.options = f.options \cup made,
                             !.rev = IF made = {} THEN f.rev ELSE f.rev + 1]
    BY <1>3, OptionsMade DEF cmds
  <2>2. Log!UsesChoices(body) <=> HasChoices(body)
    BY DEF Log!UsesChoices, HasChoices
  <2> QED BY <1>2, <2>1, <2>2 DEF Log!OptionsOf, Log!Ids, Ids, NamesOf, cmds
<1>9. DOMAIN result = DOMAIN cmds
  BY <1>3, <1>6 DEF Applied
<1>10. \A i \in DOMAIN cmds : Log!MeansCommand(cmds[i], result[i])
  <2> SUFFICES ASSUME NEW i \in DOMAIN cmds PROVE Log!MeansCommand(cmds[i], result[i])
    OBVIOUS
  <2>1. PICK out, cmd : out = result[i] /\ cmd = cmds[i]
    OBVIOUS
  <2>2. Effect(g, cmd, out, rows[out.record], Over(work, rows, out.record))
    BY <1>3, <1>6, <2>1 DEF Applied, cmds
  <2>3. out.record \in Records
    <3>1. result \in Seq(Outcome) /\ i \in DOMAIN result
      BY <1>9 DEF Result
    <3>2. result[i] \in Outcome
      BY <3>1
    <3> QED BY <2>1, <3>2 DEF Outcome
  <2>4. field'.deleted = field.deleted
    BY <1>2, <1>3 DEF Resolved
  <2>5. Effect(field', cmd, out, records[out.record], records'[out.record])
    BY <1>2, <1>3, <2>2, <2>3
  <2> QED BY <2>1, <2>4, <2>5, EffectMeans
<1>11. \A i, j \in DOMAIN cmds : result[i].record = result[j].record => i = j
  BY <1>3, <1>6 DEF Applied, cmds
<1>12. ASSUME NEW r \in Records, records'[r] # records[r]
       PROVE  \E i \in DOMAIN cmds : result[i].record = r
  <2>1. rows2[r] = Over(work, rows, r) /\ rows2[r] # rows[r]
    BY <1>2, <1>3, <1>12
  <2>2. work[r] # NoRow
    BY <2>1 DEF Over, NoRow
  <2>3. \E i \in 1 .. (Len(cmds) + 1) - 1 : result[i].record = r
    BY <1>3, <2>2 DEF Applied
  <2> QED BY <1>6, <2>3
<1>13. Log!Accept(k, entry)
  BY <1>4, <1>5, <1>8, <1>9, <1>10, <1>11, <1>12 DEF Log!Accept, cmds
<1> QED BY <1>7, <1>13 DEF Log!Next

LEMMA LogRefines ==
  ASSUME Everything, Types', LogInv, [Next]_vars
  PROVE  [Log!Next]_<<records, field, done>>
<1>0. Types
  BY DEF Everything
<1>1. ASSUME NEW k \in Keys, Compose(k) \/ Expire(k)
      PROVE  UNCHANGED <<records, field, done>>
  BY <1>1 DEF Compose, Expire, Server
<1>2. ASSUME NEW h \in Handlers, HandlerStep(h)
      PROVE  [Log!Next]_<<records, field, done>>
  <2>1. CASE Commit(h)
    BY <1>0, <2>1, CommitAccepts DEF LogInv, HandlerTrue
  <2>2. CASE Quiet(h) \/ Deliver(h)
    BY <2>2 DEF Quiet, OnlyHandler, Deliver, Server
  <2> QED BY <1>0, <1>2, <2>1, <2>2, HandlerSteps DEF Types
<1>3. ASSUME NEW e \in Editors, EditorStep(e)
      PROVE  [Log!Next]_<<records, field, done>>
  <2>1. CASE EditorCommit(e) /\ editor[e].op # "toggleTable"
    <3>1. /\ field'.rev = field.rev + 1
          /\ Ids(field.options \cup field.dropped) \subseteq Ids(field'.options \cup field'.dropped)
      BY <1>0, <2>1, EditCommits DEF LogInv
    <3>2. Log!EditField
      BY <2>1, <3>1 DEF EditorCommit, Log!EditField, Log!Ids, Ids
    <3> QED BY <3>2 DEF Log!Next
  <2>2. CASE ~(EditorCommit(e) /\ editor[e].op # "toggleTable")
    BY <1>3, <2>2 DEF EditorStep, EditorRead, EditorLock, EditorCommit, EditorAbort, Server
  <2> QED BY <2>1, <2>2
<1>4. CASE UNCHANGED vars
  BY <1>4 DEF vars
<1> QED BY <1>1, <1>2, <1>3, <1>4 DEF Next

(* Record mutation implements MutationLog: a commit is one request, whole,  *)
(* with the effect of its commands on the rows and Options that are stored  *)
(* then, an edit of the Field loses no Option, and nothing else is seen.    *)
THEOREM MutationRefinesLog == Spec => ImplementsMutationLog
<1>1. Init => Log!Init
  BY DEF Init, NoRow, Log!Init
<1>2. Everything /\ LogInv /\ (Everything /\ LogInv)' /\ [Next]_vars => [Log!Next]_<<records, field, done>>
  BY LogRefines DEF Everything
<1> QED BY <1>1, <1>2, LogInvariant, PTL DEF Spec, ImplementsMutationLog, Log!Spec

=============================================================================

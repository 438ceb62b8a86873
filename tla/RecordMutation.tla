--------------------------- MODULE RecordMutation ---------------------------
(***************************************************************************)
(* Record mutations of one Table: all-or-nothing requests that carry a     *)
(* clientMutationId, are checked against Record and Field Revisions, may   *)
(* create Select Options, and leave a receipt (and, with choices, a        *)
(* permanent identity guard) for the client that has to ask again.         *)
(*                                                                         *)
(* A handler is one READ COMMITTED transaction; every statement that waits *)
(* for a lock, or that reads what others may change, is a step of its own. *)
(* Several handlers may run the same request: a client that timed out      *)
(* sends it again while the first one is still waiting for a lock.         *)
(***************************************************************************)
EXTENDS Integers, Sequences, FiniteSets

CONSTANTS
  Records,    \* identities a Record may get
  Existing,   \* Records that exist at the start, active and without a value
  Names,      \* names of Options, up to case folding
  Keys,       \* clientMutationIds
  Intents,    \* what the clients want to do: sequences of commands without revisions
  Handlers,   \* server connections that run MutateRecords
  Editors,    \* clients that edit the Field or the Table
  EditorOps,  \* what the editors do, a subset of AllEditorOps
  Reuse,      \* TRUE if a client may use a key again for another request
  Expiry,     \* TRUE if LOOMTABLE_IDEMPOTENCY_RETENTION is not "forever"
  ActiveLimit, \* active Options a Field may have (500)
  TotalLimit, \* Options a Field may have, deleted ones included (5000)
  MaxOption,  \* bound: Option IDs
  MaxRev,     \* bound: Revision up to which clients and editors go on
  MaxDone     \* bound: commits under one key after which its receipt is kept

AllEditorOps == {"add", "drop", "revive", "deleteField", "restoreField", "toggleTable"}

Kinds == {"create", "update", "delete", "restore"}

(* How a command sets the Select Field: not at all, by a draft name or an    *)
(* Option ID under "choices", by a plain value, or by unsetFieldIds.         *)
Hows == {"none", "draft", "pick", "set", "unset"}

Option == 1 .. MaxOption

Intent == [kind : Kinds, target : Records, how : Hows, name : Names, option : Option]

Targets(cmds) == {i \in DOMAIN cmds : cmds[i].kind # "create"}

ASSUME MutationAssumption ==
  /\ EditorOps \subseteq AllEditorOps
  /\ "field" \notin Records
  /\ Existing \subseteq Records /\ Keys # {}
  /\ {Expiry, Reuse} \subseteq BOOLEAN
  /\ {ActiveLimit, TotalLimit, MaxOption, MaxRev, MaxDone} \subseteq Nat \ {0}

(* validateCommands: at least one command, and no two on one Record; choices *)
(* and values only on createRecord and updateRecord.                         *)
ASSUME IntentAssumption ==
  /\ Intents \subseteq Seq(Intent)
  /\ \A c \in Intents :
       /\ c # <<>>
       /\ \A i, j \in Targets(c) : c[i].target = c[j].target => i = j
       /\ \A i \in DOMAIN c : /\ c[i].kind = "create" => c[i].how # "unset"
                              /\ c[i].kind = "update" => c[i].how # "none"
                              /\ c[i].kind \in {"delete", "restore"} => c[i].how = "none"

VARIABLES
  records,    \* rows of records: revision (0 before the INSERT), value, deleted_at
  field,      \* the Select Field: revision, active and deleted Options, deleted_at
  active,     \* whether the Table's deleted_at is NULL
  changes,    \* committed rows of changes, with the key of their transaction
  receipt,    \* idempotency_keys
  guard,      \* mutation_identity_guards
  handler,
  editor,
  request,    \* the durable request of each client key
  answer,     \* what the client of a key has been told
  done,       \* history: requests committed under each key, in order
  forgotten   \* history: keys whose receipt expired without a guard

vars == <<records, field, active, changes, receipt, guard, handler, editor,
          request, answer, done, forgotten>>

-----------------------------------------------------------------------------
(* Types *)

Row == [rev : Nat, value : {0} \cup Option, deleted : BOOLEAN]

NoRow == [rev |-> 0, value |-> 0, deleted |-> FALSE]

NamedOption == [id : Option, name : Names]

Field == [rev : Nat, options : SUBSET NamedOption, dropped : SUBSET NamedOption, deleted : BOOLEAN]

Command == [kind : Kinds, target : Records, rev : Nat, how : Hows, name : Names, option : Option]

Body == [commands : Seq(Command), fieldRev : Nat]

NoBody == [commands |-> <<>>, fieldRev |-> 0]

Outcome == [status : {"applied", "unchanged"}, record : Records, rev : Nat]

Result == Seq(Outcome)

(* 200, 409 CONFLICT, 409 IDEMPOTENCY_KEY_REUSED, 410 MUTATION_RECEIPT_EXPIRED, *)
(* 422 VALIDATION_ERROR, 422 INVALID_STATE_TRANSITION, 404 NOT_FOUND            *)
Answers == {"applied", "conflict", "reused", "expired", "invalid", "state", "notFound"}

ChangeRow == [object : Records \cup {"field"}, rev : Nat, by : Keys \cup {"editor"}]

HandlerState ==
  [pc     : {"idle", "begun", "actor", "unseen", "fresh", "table", "resolve", "apply", "answer"},
   key    : Keys,
   body   : Body,
   next   : Nat \ {0},               \* command the loop has reached
   field  : Field,                   \* definition the transaction works with
   picked : Seq({0} \cup Option),    \* Option each command resolved to, 0 for none
   rows   : [Records -> Row],        \* uncommitted rows, NoRow for none
   log    : SUBSET ChangeRow,        \* uncommitted Change rows
   result : Result,
   answer : Answers]

EditorState == [pc : {"idle", "read", "locked"}, op : AllEditorOps, rev : Nat, target : Field]

(* The Option budgets, for a definition that is stored or about to be. *)
WithinBudget(f) ==
  /\ IsFiniteSet(f.options \cup f.dropped)
  /\ Cardinality(f.options) <= ActiveLimit
  /\ Cardinality(f.options \cup f.dropped) <= TotalLimit

TypeOK ==
  /\ records \in [Records -> Row]
  /\ field \in Field /\ WithinBudget(field)
  /\ active \in BOOLEAN
  /\ changes \subseteq ChangeRow
  /\ receipt \in [Keys -> [kept : BOOLEAN, body : Body, result : Result]]
  /\ guard \in [Keys -> [kept : BOOLEAN, body : Body]]
  /\ handler \in [Handlers -> HandlerState]
  /\ editor \in [Editors -> EditorState]
  /\ request \in [Keys -> Body]
  /\ answer \in [Keys -> Answers \cup {"none"}]
  /\ done \in [Keys -> Seq([body : Body, result : Result])]
  /\ forgotten \subseteq Keys

NoKey == CHOOSE k \in Keys : TRUE

NoField == [rev |-> 0, options |-> {}, dropped |-> {}, deleted |-> FALSE]

IdleHandler ==
  [pc |-> "idle", key |-> NoKey, body |-> NoBody, next |-> 1, field |-> NoField, picked |-> <<>>,
   rows |-> [r \in Records |-> NoRow], log |-> {}, result |-> <<>>, answer |-> "applied"]

IdleEditor == [pc |-> "idle", op |-> "add", rev |-> 0, target |-> NoField]

(* A Table with some Records and a Select Field with one Option. *)
Init ==
  /\ records = [r \in Records |-> IF r \in Existing THEN [NoRow EXCEPT !.rev = 1] ELSE NoRow]
  /\ \E n \in Names :
       field = [rev |-> 1, options |-> {[id |-> 1, name |-> n]}, dropped |-> {}, deleted |-> FALSE]
  /\ active = TRUE
  /\ changes = [object : Existing \cup {"field"}, rev : {1}, by : {"editor"}]
  /\ receipt = [k \in Keys |-> [kept |-> FALSE, body |-> NoBody, result |-> <<>>]]
  /\ guard = [k \in Keys |-> [kept |-> FALSE, body |-> NoBody]]
  /\ handler = [h \in Handlers |-> IdleHandler]
  /\ editor = [e \in Editors |-> IdleEditor]
  /\ request = [k \in Keys |-> NoBody]
  /\ answer = [k \in Keys |-> "none"]
  /\ done = [k \in Keys |-> <<>>]
  /\ forgotten = {}

Server == <<records, field, active, changes, receipt, guard, done, forgotten>>

-----------------------------------------------------------------------------
(* Clients.  A request is written down, with the Revisions its client has   *)
(* seen, before it is first sent, and is sent unchanged until it is         *)
(* answered.  A client may also reuse a key it has an answer for.           *)

WithRevisions(intent) ==
  [commands |-> [i \in DOMAIN intent |->
     [kind |-> intent[i].kind, target |-> intent[i].target, how |-> intent[i].how,
      name |-> intent[i].name, option |-> intent[i].option,
      rev |-> IF intent[i].kind = "create" THEN 0 ELSE records[intent[i].target].rev]],
   fieldRev |-> field.rev]

Compose(k) ==
  /\ request[k] = NoBody \/ (Reuse /\ answer[k] # "none")
  /\ field.rev < MaxRev
  /\ \E intent \in Intents :
       /\ \A i \in Targets(intent) : records[intent[i].target].rev \in 1 .. MaxRev - 1
       /\ WithRevisions(intent) # request[k]
       /\ request' = [request EXCEPT ![k] = WithRevisions(intent)]
  /\ answer' = [answer EXCEPT ![k] = "none"]
  /\ UNCHANGED <<Server, handler, editor>>

HasChoices(body) ==
  \E i \in DOMAIN body.commands : body.commands[i].how \in {"draft", "pick"}

-----------------------------------------------------------------------------
(* Handlers.  The Actor row is locked FOR NO KEY UPDATE from LockActor to   *)
(* the end of the transaction, the Table row FOR UPDATE from LockTable.     *)

HoldsActor(h) == handler[h].pc \in {"actor", "unseen", "fresh", "table", "resolve", "apply"}

HandlerHoldsTable(h) == handler[h].pc \in {"table", "resolve", "apply"}

Update(h, r) == handler' = [handler EXCEPT ![h] = r]

(* Every error rolls the transaction back and is answered. *)
Reject(h, code) ==
  Update(h, [IdleHandler EXCEPT !.pc = "answer", !.key = handler[h].key,
                                 !.body = handler[h].body, !.answer = code])

OnlyHandler == UNCHANGED <<Server, editor, request, answer>>

BeginTx(h) ==
  /\ handler[h].pc = "idle"
  /\ \E k \in Keys :
       /\ request[k] # NoBody /\ answer[k] = "none"
       /\ Update(h, [IdleHandler EXCEPT !.pc = "begun", !.key = k, !.body = request[k]])
  /\ OnlyHandler

LockActor(h) ==
  /\ handler[h].pc = "begun"
  /\ \A g \in Handlers : ~HoldsActor(g)
  /\ Update(h, [handler[h] EXCEPT !.pc = "actor"])
  /\ OnlyHandler

(* Mutant: whatever is stored under the key is the answer. *)
ReadReceiptAnyBody(h) ==
  /\ handler[h].pc = "actor"
  /\ LET found == receipt[handler[h].key] IN
       IF found.kept
       THEN Update(h, [IdleHandler EXCEPT !.pc = "answer", !.key = handler[h].key,
                         !.body = handler[h].body, !.result = found.result])
       ELSE Update(h, [handler[h] EXCEPT !.pc = "unseen"])
  /\ OnlyHandler

(* replayIdempotent: the receipt first ... *)
ReadReceipt(h) ==
  /\ handler[h].pc = "actor"
  /\ LET found == receipt[handler[h].key] IN
       \/ /\ found.kept /\ found.body = handler[h].body
          /\ Update(h, [IdleHandler EXCEPT !.pc = "answer", !.key = handler[h].key,
                          !.body = handler[h].body, !.result = found.result])
       \/ /\ found.kept /\ found.body # handler[h].body
          /\ Reject(h, "reused")
       \/ /\ ~found.kept
          /\ Update(h, [handler[h] EXCEPT !.pc = "unseen"])
  /\ OnlyHandler

(* Mutant: without a receipt the key counts as new. *)
ReadGuardSkipped(h) ==
  /\ handler[h].pc = "unseen"
  /\ Update(h, [handler[h] EXCEPT !.pc = "fresh"])
  /\ OnlyHandler

(* ... and in a second statement the guard. *)
ReadGuard(h) ==
  /\ handler[h].pc = "unseen"
  /\ LET found == guard[handler[h].key] IN
       \/ /\ found.kept
          /\ Reject(h, IF found.body = handler[h].body THEN "expired" ELSE "reused")
       \/ /\ ~found.kept
          /\ Update(h, [handler[h] EXCEPT !.pc = "fresh"])
  /\ OnlyHandler

EditorHoldsTable(e) == editor[e].pc = "locked"

TableFree == ~(\E h \in Handlers : HandlerHoldsTable(h)) /\ ~(\E e \in Editors : EditorHoldsTable(e))

(* Mutant: the Table is read without FOR UPDATE. *)
LockTableShared(h) ==
  /\ handler[h].pc = "fresh"
  /\ IF active THEN Update(h, [handler[h] EXCEPT !.pc = "table"]) ELSE Reject(h, "notFound")
  /\ OnlyHandler

LockTable(h) ==
  /\ handler[h].pc = "fresh"
  /\ TableFree
  /\ IF active THEN Update(h, [handler[h] EXCEPT !.pc = "table"]) ELSE Reject(h, "notFound")
  /\ OnlyHandler

-----------------------------------------------------------------------------
(* Choices: the Field is locked and checked, then the Records, before any   *)
(* Option is resolved.                                                      *)

Ids(options) == {o.id : o \in options}

(* lockRecord sees committed rows and those of its own transaction. *)
Seen(h, r) == IF handler[h].rows[r].rev > 0 THEN handler[h].rows[r] ELSE records[r]

StartLoop(h, pc, f) ==
  Update(h, [handler[h] EXCEPT !.pc = pc, !.next = 1, !.field = f])

LoadFields(h) ==
  /\ handler[h].pc = "table"
  /\ ~HasChoices(handler[h].body)
  /\ StartLoop(h, "apply", field)
  /\ OnlyHandler

CheckChoices(h) ==
  LET body     == handler[h].body
      targets  == Targets(body.commands)
      row(i)   == Seen(h, body.commands[i].target)
      stale(i) == row(i).rev # body.commands[i].rev
      dead(i)  == body.commands[i].kind = "update" /\ row(i).deleted
      missing  == \E i \in targets : row(i).rev = 0
      current  == field.rev = body.fieldRev
  IN  /\ handler[h].pc = "table"
      /\ HasChoices(body)
      /\ \/ ~current /\ Reject(h, "conflict")
         \/ current /\ field.deleted /\ Reject(h, "state")
         \/ current /\ ~field.deleted /\ missing /\ Reject(h, "notFound")
         \/ /\ current /\ ~field.deleted /\ ~missing
            /\ \E i \in targets :
                 /\ stale(i) \/ dead(i)
                 /\ \A j \in targets : j < i => ~stale(j) /\ ~dead(j)
                 /\ Reject(h, IF stale(i) THEN "conflict" ELSE "state")
         \/ /\ current /\ ~field.deleted /\ ~missing
            /\ \A i \in targets : ~stale(i) /\ ~dead(i)
            /\ StartLoop(h, "resolve", field)
      /\ OnlyHandler

Current(h) == handler[h].body.commands[handler[h].next]

InLoop(h, pc) == handler[h].pc = pc /\ handler[h].next <= Len(handler[h].body.commands)

Pick(h, id, f) ==
  Update(h, [handler[h] EXCEPT !.next = handler[h].next + 1, !.field = f,
                               !.picked = Append(handler[h].picked, id)])

(* An ID that id.New could draw: one that was never in use. *)
Unused(id) ==
  /\ id \in Option
  /\ id \notin Ids(field.options \cup field.dropped)
  /\ \A r \in Records : records[r].value # id
  /\ \A h \in Handlers : id \notin Ids(handler[h].field.options)
  /\ \A e \in Editors : id \notin Ids(editor[e].target.options)

OverBudget(f) ==
  \/ Cardinality(f.options) >= ActiveLimit
  \/ Cardinality(f.options \cup f.dropped) >= TotalLimit

(* Mutant: draft names are looked up among the committed Options only. *)
ResolveChoiceCommitted(h) ==
  LET cmd == Current(h)
      f   == handler[h].field
      old == IF cmd.kind = "create" THEN 0 ELSE Seen(h, cmd.target).value
      same == {o \in field.options : o.name = cmd.name}
      known == cmd.option \in Ids(f.options) \/ (cmd.option \in Ids(f.dropped) /\ old = cmd.option)
  IN  /\ InLoop(h, "resolve")
      /\ \/ cmd.how \notin {"draft", "pick"} /\ Pick(h, 0, f)
         \/ cmd.how = "pick" /\ known /\ Pick(h, cmd.option, f)
         \/ cmd.how = "pick" /\ ~known /\ Reject(h, "invalid")
         \/ cmd.how = "draft" /\ \E o \in same : Pick(h, o.id, f)
         \/ cmd.how = "draft" /\ same = {} /\ OverBudget(f) /\ Reject(h, "invalid")
         \/ /\ cmd.how = "draft" /\ same = {} /\ ~OverBudget(f)
            /\ \E id \in Option :
                 /\ Unused(id)
                 /\ Pick(h, id, [f EXCEPT !.options = f.options \cup {[id |-> id, name |-> cmd.name]}])
      /\ OnlyHandler

(* resolveChoiceOption: a draft name is first looked up among the active    *)
(* Options, those that this request has created included; an Option ID may  *)
(* be a deleted one only where the Record already has it.                   *)
ResolveChoice(h) ==
  LET cmd == Current(h)
      f   == handler[h].field
      old == IF cmd.kind = "create" THEN 0 ELSE Seen(h, cmd.target).value
      same == {o \in f.options : o.name = cmd.name}
      known == cmd.option \in Ids(f.options) \/ (cmd.option \in Ids(f.dropped) /\ old = cmd.option)
  IN  /\ InLoop(h, "resolve")
      /\ \/ cmd.how \notin {"draft", "pick"} /\ Pick(h, 0, f)
         \/ cmd.how = "pick" /\ known /\ Pick(h, cmd.option, f)
         \/ cmd.how = "pick" /\ ~known /\ Reject(h, "invalid")
         \/ cmd.how = "draft" /\ \E o \in same : Pick(h, o.id, f)
         \/ cmd.how = "draft" /\ same = {} /\ OverBudget(f) /\ Reject(h, "invalid")
         \/ /\ cmd.how = "draft" /\ same = {} /\ ~OverBudget(f)
            /\ \E id \in Option :
                 /\ Unused(id)
                 /\ Pick(h, id, [f EXCEPT !.options = f.options \cup {[id |-> id, name |-> cmd.name]}])
      /\ OnlyHandler

ChangeOf(h, object, rev) == [object |-> object, rev |-> rev, by |-> handler[h].key]

(* However many Options a request creates, the Field's Revision moves once. *)
SaveOptions(h) ==
  LET f == handler[h].field IN
  /\ handler[h].pc = "resolve"
  /\ handler[h].next > Len(handler[h].body.commands)
  /\ IF f = field
     THEN StartLoop(h, "apply", f)
     ELSE Update(h, [handler[h] EXCEPT !.pc = "apply", !.next = 1,
                       !.field = [f EXCEPT !.rev = f.rev + 1],
                       !.log = handler[h].log \cup {ChangeOf(h, "field", f.rev + 1)}])
  /\ OnlyHandler

-----------------------------------------------------------------------------
(* The commands, one by one. *)

(* normalizeFieldValue for a Select value: an active Option, or a deleted   *)
(* one that the Record already has.                                         *)
Writable(f, id, old) ==
  /\ ~f.deleted
  /\ id \in Ids(f.options) \/ (id \in Ids(f.dropped) /\ id = old)

(* The value a command leaves in the Record, 0 for none. *)
NewValue(h, old) ==
  CASE Current(h).how \in {"draft", "pick"} -> handler[h].picked[handler[h].next]
    [] Current(h).how = "set"   -> Current(h).option
    [] Current(h).how = "unset" -> 0
    [] Current(h).how = "none"  -> old

Valid(h, old) ==
  IF Current(h).how \in {"unset", "none"}
  THEN Current(h).how = "unset" => ~handler[h].field.deleted
  ELSE Writable(handler[h].field, NewValue(h, old), old)

Outcomes(h, status, r, rev) ==
  Append(handler[h].result, [status |-> status, record |-> r, rev |-> rev])

Write(h, r, row) ==
  Update(h, [handler[h] EXCEPT !.next = handler[h].next + 1,
               !.rows = [handler[h].rows EXCEPT ![r] = row],
               !.log = handler[h].log \cup {ChangeOf(h, r, row.rev)},
               !.result = Outcomes(h, "applied", r, row.rev)])

(* Mutant: an unchanged Record is touched. *)
LeaveAloneTouched(h, r, row) ==
  Update(h, [handler[h] EXCEPT !.next = handler[h].next + 1,
               !.rows = [handler[h].rows EXCEPT ![r] = [row EXCEPT !.rev = row.rev + 1]],
               !.result = Outcomes(h, "unchanged", r, row.rev)])

LeaveAlone(h, r, row) ==
  Update(h, [handler[h] EXCEPT !.next = handler[h].next + 1,
               !.result = Outcomes(h, "unchanged", r, row.rev)])

ApplyCreate(h) ==
  /\ InLoop(h, "apply")
  /\ Current(h).kind = "create"
  /\ \/ ~Valid(h, 0) /\ Reject(h, "invalid")
     \/ /\ Valid(h, 0)
        /\ \E r \in Records :
             /\ Seen(h, r).rev = 0
             /\ Write(h, r, [rev |-> 1, value |-> NewValue(h, 0), deleted |-> FALSE])
  /\ OnlyHandler

(* Mutant: the last writer wins. *)
ApplyUpdateBlind(h) ==
  LET cmd == Current(h)
      row == Seen(h, cmd.target)
      new == NewValue(h, row.value)
  IN  /\ InLoop(h, "apply")
      /\ cmd.kind = "update"
      /\ IF row.rev = 0 THEN Reject(h, "notFound")
         ELSE IF row.deleted THEN Reject(h, "state")
         ELSE IF ~Valid(h, row.value) THEN Reject(h, "invalid")
         ELSE IF new = row.value THEN LeaveAlone(h, cmd.target, row)
         ELSE Write(h, cmd.target, [rev |-> row.rev + 1, value |-> new, deleted |-> FALSE])
      /\ OnlyHandler

ApplyUpdate(h) ==
  LET cmd == Current(h)
      row == Seen(h, cmd.target)
      new == NewValue(h, row.value)
  IN  /\ InLoop(h, "apply")
      /\ cmd.kind = "update"
      /\ IF row.rev = 0 THEN Reject(h, "notFound")
         ELSE IF row.rev # cmd.rev THEN Reject(h, "conflict")
         ELSE IF row.deleted THEN Reject(h, "state")
         ELSE IF ~Valid(h, row.value) THEN Reject(h, "invalid")
         ELSE IF new = row.value THEN LeaveAlone(h, cmd.target, row)
         ELSE Write(h, cmd.target, [rev |-> row.rev + 1, value |-> new, deleted |-> FALSE])
      /\ OnlyHandler

ApplyLifecycle(h) ==
  LET cmd == Current(h)
      row == Seen(h, cmd.target)
      deleting == cmd.kind = "delete"
  IN  /\ InLoop(h, "apply")
      /\ cmd.kind \in {"delete", "restore"}
      /\ IF row.rev = 0 THEN Reject(h, "notFound")
         ELSE IF row.rev # cmd.rev THEN Reject(h, "conflict")
         ELSE IF row.deleted = deleting THEN Reject(h, "state")
         ELSE Write(h, cmd.target, [row EXCEPT !.rev = row.rev + 1, !.deleted = deleting])
      /\ OnlyHandler

(* Mutant: a request that changed nothing leaves no receipt. *)
CommitUnchangedUnsaved(h) ==
  LET k == handler[h].key
      body == handler[h].body
  IN  /\ handler[h].pc = "apply"
      /\ handler[h].next > Len(body.commands)
      /\ ~receipt[k].kept /\ (HasChoices(body) => ~guard[k].kept)
      /\ records' = [r \in Records |-> Seen(h, r)]
      /\ field' = handler[h].field
      /\ changes' = changes \cup handler[h].log
      /\ receipt' = IF records' = records /\ field' = field THEN receipt ELSE [receipt EXCEPT ![k] = [kept |-> TRUE, body |-> body, result |-> handler[h].result]]
      /\ guard' = IF HasChoices(body) THEN [guard EXCEPT ![k] = [kept |-> TRUE, body |-> body]]
                                      ELSE guard
      /\ done' = [done EXCEPT ![k] = Append(done[k], [body |-> body, result |-> handler[h].result])]
      /\ Update(h, [IdleHandler EXCEPT !.pc = "answer", !.key = k, !.body = body,
                                        !.result = handler[h].result])
      /\ UNCHANGED <<active, editor, request, answer, forgotten>>

(* Rows, Options, Change rows, the receipt and, for a request with choices, *)
(* the guard become visible together.  Receipt and guard have the key as    *)
(* their primary key: a second INSERT fails, and the transaction (Abort).   *)
Commit(h) ==
  LET k == handler[h].key
      body == handler[h].body
  IN  /\ handler[h].pc = "apply"
      /\ handler[h].next > Len(body.commands)
      /\ ~receipt[k].kept /\ (HasChoices(body) => ~guard[k].kept)
      /\ records' = [r \in Records |-> Seen(h, r)]
      /\ field' = handler[h].field
      /\ changes' = changes \cup handler[h].log
      /\ receipt' = [receipt EXCEPT ![k] = [kept |-> TRUE, body |-> body, result |-> handler[h].result]]
      /\ guard' = IF HasChoices(body) THEN [guard EXCEPT ![k] = [kept |-> TRUE, body |-> body]]
                                      ELSE guard
      /\ done' = [done EXCEPT ![k] = Append(done[k], [body |-> body, result |-> handler[h].result])]
      /\ Update(h, [IdleHandler EXCEPT !.pc = "answer", !.key = k, !.body = body,
                                        !.result = handler[h].result])
      /\ UNCHANGED <<active, editor, request, answer, forgotten>>

(* A crash, a timeout, a deadlock or a cancelled request before COMMIT. *)
Abort(h) ==
  /\ handler[h].pc \notin {"idle", "answer"}
  /\ Update(h, IdleHandler)
  /\ OnlyHandler

(* The answer reaches a client that is still waiting for this request ... *)
Deliver(h) ==
  /\ handler[h].pc = "answer"
  /\ LET k == handler[h].key IN
       answer' = IF request[k] = handler[h].body /\ answer[k] = "none"
                 THEN [answer EXCEPT ![k] = handler[h].answer] ELSE answer
  /\ Update(h, IdleHandler)
  /\ UNCHANGED <<Server, editor, request>>

(* ... or is lost, and the client cannot tell what became of the request. *)
LoseAnswer(h) ==
  /\ handler[h].pc = "answer"
  /\ Update(h, IdleHandler)
  /\ OnlyHandler

(* cleanupRetentionTable on idempotency_keys. *)
Expire(k) ==
  /\ Expiry
  /\ receipt[k].kept
  /\ Len(done[k]) < MaxDone
  /\ receipt' = [receipt EXCEPT ![k] = [kept |-> FALSE, body |-> NoBody, result |-> <<>>]]
  /\ forgotten' = IF guard[k].kept THEN forgotten ELSE forgotten \cup {k}
  /\ UNCHANGED <<records, field, active, changes, guard, handler, editor, request, answer, done>>

-----------------------------------------------------------------------------
(* Editors.  PATCH on the Field is normalised against the Field as the      *)
(* service read it, and written under the Table lock if the Revision is     *)
(* still the one that was read.                                             *)

(* normalizeUpdatedSelectConfig: an Option that is left out is kept as a    *)
(* deleted one; active names stay unique.  One Option per PATCH: new names  *)
(* for Options and several changes at once are left out.                    *)
Edited(op, f) ==
  CASE op = "drop" ->
         {[f EXCEPT !.options = f.options \ {o}, !.dropped = f.dropped \cup {o}] : o \in f.options}
    [] op = "revive" ->
         {[f EXCEPT !.options = f.options \cup {o}, !.dropped = f.dropped \ {o}] :
            o \in {d \in f.dropped : Cardinality(f.options) < ActiveLimit /\
                     \A a \in f.options : a.name # d.name}}
    [] op = "add" ->
         {[f EXCEPT !.options = f.options \cup {o}] :
            o \in {n \in NamedOption : Unused(n.id) /\ ~OverBudget(f) /\
                     \A a \in f.options : a.name # n.name}}
    [] op = "deleteField"  -> {[f EXCEPT !.deleted = TRUE]}
    [] op = "restoreField" -> {[f EXCEPT !.deleted = FALSE]}
    [] op = "toggleTable"  -> {f}

DeletedBefore(op) == op = "restoreField"

EditorRead(e) ==
  /\ editor[e].pc = "idle"
  /\ field.rev < MaxRev
  /\ \E op \in EditorOps :
       /\ op # "toggleTable" => active /\ (field.deleted <=> DeletedBefore(op))
       /\ \E f \in Edited(op, field) :
            editor' = [editor EXCEPT ![e] = [pc |-> "read", op |-> op, rev |-> field.rev, target |-> f]]
  /\ UNCHANGED <<Server, handler, request, answer>>

(* Mutant: the Revision is only checked before the transaction. *)
EditorLockUnchecked(e) ==
  LET op == editor[e].op IN
  /\ editor[e].pc = "read"
  /\ TableFree
  /\ IF op = "toggleTable" \/ (active /\ (field.deleted <=> DeletedBefore(op)))
     THEN editor' = [editor EXCEPT ![e] = [@ EXCEPT !.pc = "locked"]]
     ELSE editor' = [editor EXCEPT ![e] = IdleEditor]
  /\ UNCHANGED <<Server, handler, request, answer>>

EditorLock(e) ==
  LET op == editor[e].op IN
  /\ editor[e].pc = "read"
  /\ TableFree
  /\ IF op = "toggleTable" \/ (active /\ field.rev = editor[e].rev /\ (field.deleted <=> DeletedBefore(op)))
     THEN editor' = [editor EXCEPT ![e] = [@ EXCEPT !.pc = "locked"]]
     ELSE editor' = [editor EXCEPT ![e] = IdleEditor]
  /\ UNCHANGED <<Server, handler, request, answer>>

EditorCommit(e) ==
  /\ editor[e].pc = "locked"
  /\ IF editor[e].op = "toggleTable"
     THEN active' = ~active /\ UNCHANGED <<field, changes>>
     ELSE /\ field' = [editor[e].target EXCEPT !.rev = field.rev + 1]
          /\ changes' = changes \cup {[object |-> "field", rev |-> field.rev + 1, by |-> "editor"]}
          /\ UNCHANGED active
  /\ editor' = [editor EXCEPT ![e] = IdleEditor]
  /\ UNCHANGED <<records, receipt, guard, handler, request, answer, done, forgotten>>

EditorAbort(e) ==
  /\ editor[e].pc # "idle"
  /\ editor' = [editor EXCEPT ![e] = IdleEditor]
  /\ UNCHANGED <<Server, handler, request, answer>>

-----------------------------------------------------------------------------
Replay(h) == LockActor(h) \/ ReadReceipt(h) \/ ReadGuard(h)

Run(h) ==
  \/ LockTable(h) \/ LoadFields(h) \/ CheckChoices(h) \/ ResolveChoice(h) \/ SaveOptions(h)
  \/ ApplyCreate(h) \/ ApplyUpdate(h) \/ ApplyLifecycle(h) \/ Commit(h)

HandlerStep(h) ==
  BeginTx(h) \/ Replay(h) \/ Run(h) \/ Abort(h) \/ Deliver(h) \/ LoseAnswer(h)

EditorStep(e) == EditorRead(e) \/ EditorLock(e) \/ EditorCommit(e) \/ EditorAbort(e)

Next ==
  \/ \E k \in Keys : Compose(k) \/ Expire(k)
  \/ \E h \in Handlers : HandlerStep(h)
  \/ \E e \in Editors : EditorStep(e)

Spec == Init /\ [][Next]_vars

-----------------------------------------------------------------------------
(* Properties *)

(* A request is applied once, however often it is sent, whoever crashes and *)
(* whatever is lost, unless its receipt expired and it had no choices.      *)
(* (replayIdempotent under lockActor, saveIdempotent in the transaction.)   *)
AppliedOnce == \A k \in Keys : k \notin forgotten => Len(done[k]) <= 1

CommittedAs(k, body) == {i \in DOMAIN done[k] : done[k][i].body = body}

(* Who is told that a request was applied, with its result or by an expired *)
(* receipt, is told the truth, and a repeated request gets the first result *)
(* (sync-model.md:51).                                                      *)
AppliedIsTrue ==
  /\ \A h \in Handlers : handler[h].pc = "answer" /\ handler[h].answer = "applied" =>
       \E i \in CommittedAs(handler[h].key, handler[h].body) :
         done[handler[h].key][i].result = handler[h].result
  /\ \A k \in Keys : answer[k] \in {"applied", "expired"} => CommittedAs(k, request[k]) # {}

(* A Revision conflict or an invalid state transition is final: no copy of  *)
(* the request that is still under way can be applied afterwards, and none  *)
(* was before.                                                              *)
ConflictIsFinal ==
  \A k \in Keys \ forgotten :
    answer[k] \in {"conflict", "state"} => CommittedAs(k, request[k]) = {}

(* The Change rows cs tell the whole history of object x up to revision n. *)
CompleteUpTo(cs, x, n) ==
  /\ \A c \in cs : c.object = x => c.rev \in 1 .. n
  /\ \A i \in 1 .. n : \E c \in cs : c.object = x /\ c.rev = i
  /\ \A c, d \in cs : c.object = x /\ d.object = x /\ c.rev = d.rev => c = d

(* Every Revision of every Record, and of the Field, has exactly one Change *)
(* row: no update is lost under another and nothing changes silently.       *)
RevisionsHaveChanges ==
  /\ CompleteUpTo(changes, "field", field.rev)
  /\ \A r \in Records : CompleteUpTo(changes, r, records[r].rev)

(* A value refers to an Option of the Field, active or deleted, although     *)
(* the Options are edited from a copy read before the lock.                  *)
ValuesHaveOptions ==
  \A r \in Records : records[r].value \in {0} \cup Ids(field.options \cup field.dropped)

(* Two drafts of one name, in one request or in two, become one Option.     *)
OptionNamesUnique ==
  \A o, p \in field.options \cup field.dropped :
    (o.id = p.id \/ (o.name = p.name /\ {o, p} \subseteq field.options)) => o = p

-----------------------------------------------------------------------------
(* Why: the inductive invariant. *)

(* At most one handler is between lockActor and COMMIT, and at most one     *)
(* transaction holds the Table.                                             *)
LocksExclusive ==
  /\ \A g, h \in Handlers : HoldsActor(g) /\ HoldsActor(h) => g = h
  /\ \A h \in Handlers, e \in Editors : ~(HandlerHoldsTable(h) /\ EditorHoldsTable(e))
  /\ \A d, e \in Editors : EditorHoldsTable(d) /\ EditorHoldsTable(e) => d = e

(* What a handler has read stays true while it holds the Actor, so that its *)
(* INSERTs of receipt and guard find the key free.                          *)
KeysUnused ==
  \A h \in Handlers :
    /\ handler[h].pc \in {"unseen", "fresh", "table", "resolve", "apply"} =>
         ~receipt[handler[h].key].kept
    /\ handler[h].pc \in {"fresh", "table", "resolve", "apply"} => ~guard[handler[h].key].kept

Remembered ==
  \A k \in Keys \ forgotten : done[k] # <<>> => receipt[k].kept \/ guard[k].kept

(* A receipt or guard vouches for a commit of the request that it names. *)
ReceiptsTrue ==
  \A k \in Keys :
    /\ receipt[k].kept => \E i \in CommittedAs(k, receipt[k].body) : done[k][i].result = receipt[k].result
    /\ guard[k].kept => CommittedAs(k, guard[k].body) # {}

ExpiredIsTrue ==
  \A h \in Handlers : handler[h].pc = "answer" /\ handler[h].answer = "expired" =>
    CommittedAs(handler[h].key, handler[h].body) # {}

(* A handler has written nothing before its commands run, and then a Change *)
(* row for every Revision that it has raised.                               *)
WritesHaveChanges ==
  \A h \in Handlers :
    /\ handler[h].pc \in {"begun", "actor", "unseen", "fresh", "table"} =>
         handler[h].log = {} /\ \A r \in Records : handler[h].rows[r] = NoRow
    /\ handler[h].pc \in {"resolve", "apply"} =>
         /\ CompleteUpTo(changes \cup handler[h].log, "field", handler[h].field.rev)
         /\ \A r \in Records : CompleteUpTo(changes \cup handler[h].log, r, Seen(h, r).rev)

(* The budgets of active and of all Options hold in the copy of the Field   *)
(* that a handler or an editor is about to write, with the Options that the *)
(* commands before the present one have added (resolveChoiceOption,         *)
(* normalizeUpdatedSelectConfig).                                           *)
WorkWithinBudget ==
  /\ \A h \in Handlers : handler[h].pc \in {"resolve", "apply"} => WithinBudget(handler[h].field)
  /\ \A e \in Editors : editor[e].pc # "idle" => WithinBudget(editor[e].target)

(* Together: each commit starts from what the locks have kept still, and    *)
(* the history it appends to never misses a step.                           *)
MutationInv ==
  /\ LocksExclusive /\ KeysUnused /\ Remembered /\ ReceiptsTrue /\ ExpiredIsTrue
  /\ WritesHaveChanges /\ WorkWithinBudget

(* All of it at once: the Table is a sequential log of whole requests and    *)
(* Field edits, each with the effect its commands describe (MutationLog).   *)
Log == INSTANCE MutationLog WITH rows <- records, log <- done

ImplementsMutationLog == Log!Spec

=============================================================================

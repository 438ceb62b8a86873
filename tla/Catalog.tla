------------------------------ MODULE Catalog ------------------------------
(***************************************************************************)
(* Workspaces, Bases and Tables, the transactions that create, rename,     *)
(* delete and restore them, and what the triggers of migration 010 capture *)
(* of these transactions and of a Record mutation: audit events, and the   *)
(* Changes that they name.  A transaction is begun, waits for its locks,   *)
(* draws numbers and commits or is rolled back; nothing is seen before.    *)
(*                                                                         *)
(* One counter stands for the sequences of audit events and of Changes and *)
(* for operation IDs: an event and its Change are drawn one after the      *)
(* other while the Table is locked, and an operation ID is only ever       *)
(* compared.  The initial Field and View of a Table are part of its        *)
(* creation.                                                               *)
(***************************************************************************)
EXTENDS Naturals, FiniteSets, FiniteSetsExt, Functions, Sequences, TLC

CONSTANTS Workspaces, Bases, Tables, Records,  \* numbers, in the order of their IDs
          Names,
          Slots,            \* transactions that may be in flight at once
          Keys,             \* idempotency keys
          WorkspaceLimit, BaseLimit, TableLimit,
          MaxNumber,        \* bound: no transaction begins when this number has been drawn
          None              \* no Slot, no Name, no answer

Objects == Workspaces \cup Bases \cup Tables \cup Records

\* The parent of a Workspace, and the lock on the row of the Actor.
Actor == 0

ASSUME CatalogAssumption ==
  /\ Objects \subseteq Nat \ {Actor}
  /\ Workspaces \cap (Bases \cup Tables \cup Records) = {}
  /\ Bases \cap (Tables \cup Records) = {} /\ Tables \cap Records = {}
  /\ {WorkspaceLimit, BaseLimit, TableLimit, MaxNumber} \subseteq Nat
  /\ IsFiniteSet(Objects)

ASSUME NoneAssumption == None \notin Slots \cup Names \cup Keys \cup Nat

VARIABLES row,        \* of every object: the committed row
          lock,       \* the Slot whose transaction has locked the row
          tx,         \* of every Slot: its transaction
          nextNumber,
          events,     \* audit_events
          changes,
          receipt,    \* idempotency_keys: of every key, the object that its creation committed
          request     \* of every key: the parent of what clients ask for under it

catalogVars == <<row, lock, tx, nextNumber, events, changes, receipt, request>>

Absent == [parent |-> Actor, name |-> None, revision |-> 0, deleted |-> FALSE]

\* The row of an object when it is created: its content is not told apart.
InitialRow(x) ==
  [parent |-> CASE x \in Workspaces -> Actor [] x \in Bases -> Min(Workspaces)
                [] x \in Tables -> Min(Bases) [] x \in Records -> Min(Tables),
   name |-> CHOOSE name \in Names : TRUE, revision |-> 1, deleted |-> FALSE]

Exists(x) == row[x].revision > 0

Idle == [stage |-> "idle", object |-> Actor, parent |-> Actor, key |-> None,
         todo |-> {}, operation |-> 0, rows |-> <<>>, events |-> {}, changes |-> {}]

TableOf(x) == IF x \in Records THEN row[x].parent ELSE x

\* The Tables that the statement in the trigger finds below a Workspace or a Base,
\* deleted ones included.
Below(x) == {t \in Tables : Exists(t) /\ (row[t].parent = x \/ row[row[t].parent].parent = x)}

(***************************************************************************)
(* What a trigger writes.                                                  *)
(***************************************************************************)

\* The row of an audit event: the change of object x from one row to another, in the
\* trail of a Table.
Captured(number, t, x, operation, before, after) ==
  [number |-> number, table |-> t, object |-> x, operation |-> operation,
   category |-> IF x \in Records THEN "record" ELSE "metadata",
   before |-> before, after |-> after, changes |-> {}]

\* Mutant: a Change is attached to every event of the operation.
AssociatedWithOperation(e, inserted) ==
  [e EXCEPT !.changes = {c.number : c \in {d \in inserted : d.operation = e.operation}}]

\* An event after the Changes of its transaction have been inserted.
Associated(e, inserted) ==
  LET own == {c \in inserted : c.operation = e.operation /\ c.table = e.table /\ c.object = e.object}
  IN [e EXCEPT !.changes = {c.number : c \in own}]

\* A row after an update.
Raised(r) == [r EXCEPT !.revision = r.revision + 1]

\* Transaction r after it has updated some objects to new rows and inserted a Change
\* for each, under the numbers given.
Effects(r, new, number) ==
  LET updated == [x \in DOMAIN new |-> Raised(new[x])]
      inserted == {[number |-> number[x], table |-> TableOf(x), object |-> x,
                    operation |-> r.operation] : x \in DOMAIN new}
      captured == {Captured(number[x], TableOf(x), x, r.operation, row[x], updated[x]) : x \in DOMAIN new}
  IN [r EXCEPT !.rows = updated, !.events = {Associated(e, inserted) : e \in captured}, !.changes = inserted]

(***************************************************************************)
(* Transactions.                                                           *)
(***************************************************************************)

Available(s) == tx[s].stage = "idle" /\ nextNumber <= MaxNumber

Held(s) == {x \in DOMAIN lock : lock[x] = s}

Released(s) == [x \in DOMAIN lock |-> IF lock[x] = s THEN None ELSE lock[x]]

\* A transaction with a new operation ID.
Begun(stage, x) == [Idle EXCEPT !.stage = stage, !.object = x, !.operation = nextNumber]

Unchanged == UNCHANGED <<row, events, changes, receipt>>

\* Mutant: creations do not wait for each other.
ActorUnlocked == TRUE

ActorFree == lock[Actor] = None

\* POST of a Workspace, a Base or a Table: the Actor is locked before the receipt is
\* read, so that the receipt of a creation under way is seen.
LockActor(s, k, p) ==
  /\ Available(s)
  /\ request[k] \in {None, p}
  /\ p # Actor => Exists(p)
  /\ ActorFree
  /\ lock' = [lock EXCEPT ![Actor] = s]
  /\ tx' = [tx EXCEPT ![s] = [Begun("actor", Actor) EXCEPT !.parent = p, !.key = k]]
  /\ request' = [request EXCEPT ![k] = p]
  /\ nextNumber' = nextNumber + 1
  /\ Unchanged

\* The same request again, while the receipt that it has committed is kept: the answer
\* is the stored one, and nothing is written.  A creation leaves no identity guard:
\* once retention has removed its receipt, the request counts as a new one.
ReplayIdempotent(s) ==
  /\ tx[s].stage = "actor" /\ receipt[tx[s].key] # None
  /\ lock' = Released(s)
  /\ tx' = [tx EXCEPT ![s] = Idle]
  /\ UNCHANGED <<nextNumber, request>> /\ Unchanged

\* The row of a new object, unless its parent has as many as it may have (deleted
\* ones count); the receipt is inserted with it.  A Workspace has only the Actor to
\* lock, a Base its Workspace, a Table its Base.
InsertChild(s, p, kind, limit) ==
  LET unused == {x \in kind : ~Exists(x) /\ \A other \in Slots : tx[other].object # x}
      x == Min(unused)
      new == [InitialRow(x) EXCEPT !.parent = p]
  IN /\ tx[s].stage = "actor" /\ tx[s].parent = p /\ receipt[tx[s].key] = None
     /\ lock[p] \in {None, s}
     /\ unused # {}
     /\ Cardinality({y \in kind : Exists(y) /\ row[y].parent = p}) < limit
     /\ lock' = [lock EXCEPT ![p] = s]
     /\ tx' = [tx EXCEPT ![s] = [tx[s] EXCEPT !.stage = "written", !.object = x, !.rows = [y \in {x} |-> new],
                 !.events = IF kind # Tables THEN {}
                            ELSE {Captured(nextNumber, x, x, tx[s].operation, Absent, new)}]]
     /\ nextNumber' = nextNumber + 1
     /\ UNCHANGED request /\ Unchanged

CreateWorkspace(s) == InsertChild(s, Actor, Workspaces, WorkspaceLimit)

CreateBase(s) == \E w \in Workspaces : InsertChild(s, w, Bases, BaseLimit)

CreateTable(s) == \E b \in Bases : InsertChild(s, b, Tables, TableLimit)

\* A new name for a Workspace or a Base whose Revision the client knows; other
\* requests end without an effect.
Rename(s, x, name) ==
  /\ Available(s)
  /\ lock[x] = None /\ Exists(x) /\ row[x].name # name
  /\ lock' = [lock EXCEPT ![x] = s]
  /\ tx' = [tx EXCEPT ![s] = [Begun("ancestor", x) EXCEPT !.todo = Below(x),
              !.rows = [y \in {x} |-> Raised([row[y] EXCEPT !.name = name])]]]
  /\ nextNumber' = nextNumber + 1
  /\ UNCHANGED request /\ Unchanged

UpdateWorkspace(s, name) == \E w \in Workspaces : Rename(s, w, name)

UpdateBase(s, name) == \E b \in Bases : Rename(s, b, name)

DescendantFree(t) == lock[t] = None

\* The trigger on the row of a Workspace or a Base goes through the Tables below it,
\* locks each and writes to its trail.
CaptureAncestor(s) ==
  LET t == Min(tx[s].todo)
      x == tx[s].object
  IN /\ tx[s].stage = "ancestor" /\ tx[s].todo # {}
     /\ DescendantFree(t)
     /\ lock' = [lock EXCEPT ![t] = s]
     /\ tx' = [tx EXCEPT ![s] = [tx[s] EXCEPT !.todo = tx[s].todo \ {t},
                 !.events = tx[s].events \cup
                   {Captured(nextNumber, t, x, tx[s].operation, row[x], tx[s].rows[x])}]]
     /\ nextNumber' = nextNumber + 1
     /\ UNCHANGED request /\ Unchanged

\* Mutant: the Table is read without FOR UPDATE.
TableUnlocked(t) == Exists(t)

lockAccessibleTable(t) == Exists(t) /\ lock[t] = None

\* A transaction that locks a Table and updates some objects of it, one after the
\* other, each to the row that "new" gives it, in the order of the request.
WriteTable(s, t, new) ==
  LET count == Cardinality(DOMAIN new)
  IN /\ Available(s)
     /\ lockAccessibleTable(t)
     /\ lock' = [lock EXCEPT ![t] = s]
     /\ \E number \in Injection(DOMAIN new, nextNumber + 1 .. nextNumber + count) :
          tx' = [tx EXCEPT ![s] = Effects(Begun("written", t), new, number)]
     /\ nextNumber' = nextNumber + 1 + count
     /\ UNCHANGED request /\ Unchanged

UpdateTable(s, name) ==
  \E t \in Tables : /\ ~row[t].deleted /\ row[t].name # name
                    /\ WriteTable(s, t, [x \in {t} |-> [row[x] EXCEPT !.name = name]])

DeleteTable(s) ==
  \E t \in Tables : ~row[t].deleted /\ WriteTable(s, t, [x \in {t} |-> [row[x] EXCEPT !.deleted = TRUE]])

RestoreTable(s) ==
  \E t \in Tables : row[t].deleted /\ WriteTable(s, t, [x \in {t} |-> [row[x] EXCEPT !.deleted = FALSE]])

\* A Record mutation with one command for every Record of the Table: its value is
\* the name of its row.
MutateRecords(s, value) ==
  \E t \in Tables : LET rs == {r \in Records : row[r].parent = t /\ row[r].name # value} IN
    /\ ~row[t].deleted /\ rs # {}
    /\ WriteTable(s, t, [r \in rs |-> [row[r] EXCEPT !.name = value]])

\* COMMIT: rows, events, Changes and receipt appear at once.  The answer may be lost.
Commit(s) ==
  LET r == tx[s]
  IN /\ r.stage = "written" \/ (r.stage = "ancestor" /\ r.todo = {})
     /\ row' = [x \in Objects |-> IF x \in DOMAIN r.rows THEN r.rows[x] ELSE row[x]]
     /\ events' = events \cup r.events
     /\ changes' = changes \cup r.changes
     /\ receipt' = IF r.key = None THEN receipt ELSE [receipt EXCEPT ![r.key] = r.object]
     /\ lock' = Released(s)
     /\ tx' = [tx EXCEPT ![s] = Idle]
     /\ UNCHANGED <<nextNumber, request>>

\* A refusal, an error, a cancelled request, a deadline or a crash: nothing remains,
\* except that the numbers are not drawn again.
Rollback(s) ==
  /\ tx[s].stage # "idle"
  /\ lock' = Released(s)
  /\ tx' = [tx EXCEPT ![s] = Idle]
  /\ UNCHANGED <<row, nextNumber, events, changes, receipt, request>>

Create(s) ==
  \/ \E k \in Keys, p \in {Actor} \cup Workspaces \cup Bases : LockActor(s, k, p)
  \/ ReplayIdempotent(s)
  \/ CreateWorkspace(s)
  \/ CreateBase(s)
  \/ CreateTable(s)

Write(s) ==
  \/ \E name \in Names : UpdateWorkspace(s, name) \/ UpdateBase(s, name) \/ UpdateTable(s, name)
  \/ CaptureAncestor(s)
  \/ DeleteTable(s)
  \/ RestoreTable(s)
  \/ \E value \in Names : MutateRecords(s, value)

CatalogNext ==
  \E s \in Slots : Create(s) \/ Write(s) \/ Commit(s) \/ Rollback(s)

(***************************************************************************)
(* The initial states: a Workspace, a Base, Tables and the Records of one, *)
(* older than migration 010, which has imported the one Change that is     *)
(* retained: no snapshot of that time is invented, both are absent.        *)
(***************************************************************************)
Imported(t) == [Captured(1, t, t, None, Absent, Absent) EXCEPT !.changes = {1}]

Initial == {Min(Workspaces), Min(Bases)} \cup (Tables \ {Max(Tables)})

\* They exist, and are within the limits.
ASSUME InitialAssumption ==
  /\ Workspaces # {} /\ Bases # {} /\ Names # {} /\ Cardinality(Tables) > 1
  /\ WorkspaceLimit > 0 /\ BaseLimit > 0 /\ TableLimit >= Cardinality(Tables) - 1

CatalogInit ==
  /\ row = [x \in Objects |-> IF x \in Records \cup Initial THEN InitialRow(x) ELSE Absent]
  /\ lock = [x \in Objects \cup {Actor} |-> None]
  /\ tx = [s \in Slots |-> Idle]
  /\ nextNumber = 2
  /\ events = {Imported(Min(Tables))}
  /\ changes = {[number |-> 1, table |-> Min(Tables), object |-> Min(Tables), operation |-> None]}
  /\ receipt = [k \in Keys |-> None]
  /\ request = [k \in Keys |-> None]
=============================================================================

----------------------------- MODULE TableAudit -----------------------------
(***************************************************************************)
(* The readers of what Catalog writes: the Audit of a Table, in pages      *)
(* below one bound (ReadAudit), and its history of Changes, newest first   *)
(* (PullHistory), while transactions commit and retention removes the      *)
(* oldest events and Changes, and receipts.                                *)
(***************************************************************************)
EXTENDS Catalog, SequencesExt

CONSTANTS PageLimit

ASSUME PageAssumption == PageLimit \in Nat \ {0}

VARIABLES generation,  \* of every Table: audit_retention_watermarks.generation, 0 without a row
          expired,     \* of every Table: change_retention_watermarks.expired_through
          forgotten,   \* history, of every key: the objects that removed receipts named
          reading      \* what a client reads

auditVars == <<generation, expired, forgotten, reading>>
vars == <<catalogVars, auditVars>>

Nothing == [kind |-> "nothing"]

Number(e) == e.number

\* The numbers of some rows, and the greatest one, 0 if there is none.
Numbers(rows) == {e.number : e \in rows}

MaxOf(rows) == Max({0} \cup Numbers(rows))

\* A finite set of numbers, ORDER BY ... DESC.
Descending(S) ==
  CHOOSE q \in [1 .. Cardinality(S) -> S] : \A i, j \in DOMAIN q : i < j => q[i] > q[j]

\* The first rows of a page that goes down from a number.
Page(rows, before) ==
  LET below == Descending({n \in Numbers(rows) : n < before})
  IN SubSeq(below, 1, IF Len(below) < PageLimit THEN Len(below) ELSE PageLimit)

HasMore(rows, before) == Cardinality({n \in Numbers(rows) : n < before}) > PageLimit

Visible(t) == Exists(t) /\ ~row[t].deleted

EventsOf(t) == {e \in events : e.table = t}

ChangesOf(t) == {c \in changes : c.table = t}

\* The predicate of a filter on the category.
Matching(t, filter, high) ==
  {e \in EventsOf(t) : e.number <= high /\ (filter = "record" => e.category = "record")}

(***************************************************************************)
(* Audit.  Every page is one REPEATABLE READ transaction.                  *)
(***************************************************************************)

\* The reading after a page, and what it has been told so far.
AuditPage(r) ==
  LET found == Matching(r.table, r.filter, r.high)
      items == Page(found, r.before)
  IN [r EXCEPT !.listed = @ \o items,
               !.counts = @ \cup {Cardinality(found)},
               !.done = ~HasMore(found, r.before),
               !.before = IF items = <<>> THEN @ ELSE Last(items)]

\* The first page fixes the bound and the generation; what it could see of the
\* filter's events is kept as history.
Audit(t, filter) ==
  LET high == MaxOf(EventsOf(t))
  IN /\ reading = Nothing
     /\ Visible(t)
     /\ reading' = AuditPage([kind |-> "audit", table |-> t, filter |-> filter, high |-> high,
                              before |-> high + 1, generation |-> generation[t], listed |-> <<>>,
                              counts |-> {}, done |-> FALSE, first |-> Matching(t, filter, high)])
     /\ UNCHANGED <<generation, expired, forgotten>>

\* Mutant: a continuation does not look at the generation.
GenerationIgnored(r) == TRUE

GenerationKept(r) == r.generation = generation[r.table]

\* A continuation: its cursor expires when retention has run on the Table.
ReadAudit ==
  /\ reading.kind = "audit" /\ ~reading.done
  /\ reading' = IF Visible(reading.table) /\ GenerationKept(reading) THEN AuditPage(reading) ELSE Nothing
  /\ UNCHANGED <<generation, expired, forgotten>>

(***************************************************************************)
(* History.  The tail, the watermark and the page are statements of their  *)
(* own; the tail becomes the change cursor that comes with the page.       *)
(***************************************************************************)

\* Mutant: the first page has no upper bound of its own.
Unbounded(tail) == MaxNumber + 10

FirstBefore(tail) == tail + 1

History(t) ==
  LET tail == MaxOf(ChangesOf(t))
  IN /\ reading = Nothing
     /\ Visible(t)
     /\ reading' = [kind |-> "history", table |-> t, tail |-> tail, before |-> FirstBefore(tail),
                    stage |-> "watermark", listed |-> <<>>, done |-> FALSE]
     /\ UNCHANGED <<generation, expired, forgotten>>

\* A later page of the same reading, from its cursor.
ContinueHistory ==
  /\ reading.kind = "history" /\ ~reading.done /\ reading.stage = "page"
  /\ reading' = IF Visible(reading.table) THEN [reading EXCEPT !.stage = "watermark"] ELSE Nothing
  /\ UNCHANGED <<generation, expired, forgotten>>

ReadWatermark ==
  /\ reading.kind = "history" /\ reading.stage = "watermark"
  /\ reading' = IF Visible(reading.table) /\ reading.before > expired[reading.table]
                THEN [reading EXCEPT !.stage = "rows"] ELSE Nothing
  /\ UNCHANGED <<generation, expired, forgotten>>

PullHistory ==
  /\ reading.kind = "history" /\ reading.stage = "rows"
  /\ LET items == Page(ChangesOf(reading.table), reading.before)
     IN reading' = [reading EXCEPT !.stage = "page", !.listed = @ \o items,
                      !.done = ~HasMore(ChangesOf(reading.table), reading.before),
                      !.before = IF items = <<>> THEN @ ELSE Last(items)]
  /\ UNCHANGED <<generation, expired, forgotten>>

\* The client goes away, or its cursor is too old.
Close ==
  /\ reading # Nothing
  /\ reading' = Nothing
  /\ UNCHANGED <<generation, expired, forgotten>>

(***************************************************************************)
(* Retention, a batch of one row, oldest first, of all Tables.  A Table's  *)
(* first watermark refers to its row and waits for whoever has locked it.  *)
(***************************************************************************)
cleanupAudit ==
  \E e \in events :
    /\ \A f \in events : e.number <= f.number
    /\ generation[e.table] > 0 \/ lock[e.table] = None
    /\ events' = events \ {e}
    /\ generation' = [generation EXCEPT ![e.table] = @ + 1]
    /\ UNCHANGED <<row, lock, tx, nextNumber, changes, receipt, request, expired, forgotten, reading>>

cleanupChanges ==
  \E c \in changes :
    /\ \A d \in changes : c.number <= d.number
    /\ expired[c.table] > 0 \/ lock[c.table] = None
    /\ changes' = changes \ {c}
    /\ expired' = [expired EXCEPT ![c.table] = IF @ > c.number THEN @ ELSE c.number]
    /\ UNCHANGED <<row, lock, tx, nextNumber, events, receipt, request, generation, forgotten, reading>>

\* Receipts go by the age that is configured for them, whoever waits for them.
cleanupReceipts ==
  \E k \in Keys :
    /\ receipt[k] # None
    /\ receipt' = [receipt EXCEPT ![k] = None]
    /\ forgotten' = [forgotten EXCEPT ![k] = @ \cup {receipt[k]}]
    /\ UNCHANGED <<row, lock, tx, nextNumber, events, changes, request, generation, expired, reading>>

Read ==
  \/ \E t \in Tables, filter \in {"all", "record"} : Audit(t, filter)
  \/ \E t \in Tables : History(t)
  \/ ReadAudit \/ ContinueHistory \/ ReadWatermark \/ PullHistory \/ Close

Init ==
  /\ CatalogInit
  /\ generation = [t \in Tables |-> 0] /\ expired = [t \in Tables |-> 0]
  /\ forgotten = [k \in Keys |-> {}]
  /\ reading = Nothing

Next ==
  \/ CatalogNext /\ UNCHANGED auditVars
  \/ Read /\ UNCHANGED catalogVars
  \/ cleanupAudit
  \/ cleanupChanges
  \/ cleanupReceipts

Spec == Init /\ [][Next]_vars

(***************************************************************************)
(* Properties.                                                             *)
(***************************************************************************)

Rows == [parent : Nat, name : Names \cup {None}, revision : Nat, deleted : BOOLEAN]
Events == [number : Nat, table : Tables, object : Objects, operation : Nat \cup {None},
           category : {"record", "metadata"}, before : Rows, after : Rows, changes : SUBSET Nat]
Changes == [number : Nat, table : Tables, object : Objects, operation : Nat \cup {None}]

\* Types of the variables; every lock is one of a transaction in flight.
TypeOK ==
  /\ row \in [Objects -> Rows]
  /\ lock \in [Objects \cup {Actor} -> Slots \cup {None}]
  /\ \A s \in Slots :
       /\ tx[s].stage \in {"idle", "actor", "ancestor", "written"}
       /\ tx[s].todo \subseteq Tables /\ DOMAIN tx[s].rows \subseteq Objects
       /\ tx[s].events \subseteq Events /\ tx[s].changes \subseteq Changes
       /\ tx[s].stage = "idle" => Held(s) = {}
  /\ nextNumber \in Nat
  /\ events \subseteq Events /\ changes \subseteq Changes
  /\ receipt \in [Keys -> Objects \cup {None}] /\ request \in [Keys -> Objects \cup {Actor, None}]
  /\ generation \in [Tables -> Nat] /\ expired \in [Tables -> Nat]
  /\ forgotten \in [Keys -> SUBSET Objects]
  /\ reading.kind \in {"nothing", "audit", "history"}

\* The pages of an Audit that did not end in CURSOR_EXPIRED tile what was there when
\* its first page was read, each event once and in order, and every page counts the
\* same (ReadAudit): no transaction adds an event at or below the bound afterwards,
\* and retention takes none away unnoticed.
AuditComplete ==
  reading.kind = "audit" =>
    /\ reading.listed = Descending({n \in Numbers(reading.first) : n >= reading.before \/ reading.done})
    /\ reading.counts = {Cardinality(reading.first)}

\* The history and the Change feed meet: what a finished reading did not list, of the
\* Changes that still exist, comes after the change cursor of its first page
\* (Service.History, PullHistory).
HistoryMeetsFeed ==
  (reading.kind = "history" /\ reading.done) =>
    \A n \in Numbers(ChangesOf(reading.table)) : (n > reading.tail) # (n \in ToSet(reading.listed))

\* In the trail of a Table the snapshots that the triggers have captured of an object
\* form a chain that ends in its row: what one event left is what the next one found
\* (loomtable_capture_audit and the locks of every writer).  Imported events have no
\* snapshots, and an object without a captured event has no chain.
SnapshotsChain ==
  TypeOK /\ \A e \in {f \in events : f.operation # None} :
    LET later == {f \in EventsOf(e.table) : f.object = e.object /\ f.number > e.number}
    IN e.after = IF later = {} THEN row[e.object] ELSE (CHOOSE f \in later : \A g \in later : f.number <= g.number).before

\* A Change is named by the event of its own effect and by no other, in the Audit of
\* its Table (loomtable_associate_audit_change; the import of migration 010).
ChangesAssociated ==
  \A c \in changes :
    LET naming == {e \in events : c.number \in e.changes}
    IN /\ naming = {e \in EventsOf(c.table) : e.operation = c.operation /\ e.object = c.object}
       /\ Cardinality(naming) <= 1
       /\ naming = {} => generation[c.table] > 0

\* The objects that have been answered to a key: by its receipt, and by those that
\* retention has removed.
AnswersOf(k) == forgotten[k] \cup ({receipt[k]} \ {None})

\* However many creations run at once, no parent has more children than its limit (the
\* counts in CreateWorkspace, CreateBase and CreateTable, and the locks before them).
\* What there is, beyond what there was, is what has been answered to one key, below
\* the parent that was asked for, and nothing is answered to two keys or twice: a
\* request creates a second object only after retention has removed the receipt of
\* the first (replayIdempotent, saveIdempotent).
CreatedOnce ==
  /\ \A kl \in {<<Workspaces, WorkspaceLimit>>, <<Bases, BaseLimit>>, <<Tables, TableLimit>>} :
       \A p \in {Actor} \cup Workspaces \cup Bases :
         Cardinality({x \in kl[1] : Exists(x) /\ row[x].parent = p}) <= kl[2]
  /\ \A k \in Keys :
       /\ \A x \in AnswersOf(k) : row[x].parent = request[k]
       /\ receipt[k] \notin forgotten[k]
       /\ \A j \in Keys \ {k} : AnswersOf(j) \cap AnswersOf(k) = {}
  /\ {x \in Workspaces \cup Bases \cup Tables : Exists(x)} \ Initial = UNION {AnswersOf(k) : k \in Keys}
=============================================================================

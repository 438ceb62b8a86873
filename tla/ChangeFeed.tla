----------------------------- MODULE ChangeFeed -----------------------------
(***************************************************************************)
(* The per-Table Change feed: what a transaction publishes, what retention *)
(* cleanup removes, and what a client that follows a Change Cursor is told.*)
(*                                                                         *)
(* Every statement that other sessions can observe is a step of its own.   *)
(* Writers run READ COMMITTED transactions; a pull is four autocommit      *)
(* statements, with any commit possible between two of them.  Rows carry   *)
(* the start time of their transaction (changes.occurred_at DEFAULT        *)
(* CURRENT_TIMESTAMP) and a number from one sequence shared by all Tables, *)
(* drawn inside the transaction and never given back.                      *)
(***************************************************************************)
EXTENDS Integers, FiniteSets

CONSTANTS
  Tables,     \* Tables of one Actor
  Writers,    \* sessions that run one writing transaction at a time
  Readers,    \* clients that follow one Table's feed
  Ops,        \* kinds of transaction the writers run, a subset of AllOps
  Age,        \* LOOMTABLE_CHANGE_RETENTION in clock ticks; 0 is "forever"
  Limit,      \* page size of a pull
  BatchSize,  \* rows one cleanup batch may delete
  MaxBatches, \* batches of one cleanup run
  MaxRows,    \* bound: change rows of one transaction
  MaxSeq,     \* bound: last sequence number drawn
  MaxClock    \* bound: last clock tick

AllOps == {"mutate", "lifecycle"}

ASSUME FeedAssumption ==
  /\ Ops \subseteq AllOps
  /\ Tables # {}
  /\ {Age, MaxClock} \subseteq Nat
  /\ {Limit, BatchSize, MaxBatches, MaxRows, MaxSeq} \subseteq Nat \ {0}

VARIABLES
  clock,      \* the database clock
  nextSeq,    \* next value of changes_change_sequence_seq
  changes,    \* committed rows of changes
  purged,     \* history: committed rows that cleanup has deleted
  watermark,  \* change_retention_watermarks.expired_through, 0 without a row
  active,     \* Tables whose deleted_at is NULL
  txn,        \* the transaction of each writer
  cleaner,    \* the cleanup run
  reader      \* the cursor and the request in flight of each client

vars == <<clock, nextSeq, changes, purged, watermark, active, txn, cleaner, reader>>

Row == [seq : Nat, table : Tables, at : Nat]

SeqsOf(rows, t) == {r.seq : r \in {q \in rows : q.table = t}}
Live(t) == SeqsOf(changes, t)
Gone(t) == SeqsOf(purged, t)
Published(t) == Live(t) \cup Gone(t)

IsGreatest(x, S) == x \in S /\ \A y \in S : y <= x

(* COALESCE(MAX(change_sequence), 0) over the rows a statement can see. *)
IsTail(x, seqs) == IsGreatest(x, {0} \cup seqs)

-----------------------------------------------------------------------------
(* Types *)

Transaction ==
  [pc    : {"idle", "begun", "locked", "tailRead", "done"},
   op    : AllOps,
   table : Tables,
   at    : Nat,           \* start of the transaction, stamped on its rows
   rows  : SUBSET Nat,    \* numbers of its uncommitted rows
   tail  : Nat]           \* changeCursor of its response

Follower ==
  [pc     : {"new", "idle", "tailRead", "checked", "page", "expired", "invalid"},
   table  : Tables,
   cursor : Nat,          \* last cursor the client holds
   base   : Nat,          \* cursor it started to follow from
   got    : SUBSET Nat,   \* history: changes delivered since base
   tail   : Nat,          \* tail the request has read
   gone   : SUBSET Nat,   \* history: rows purged before the request arrived
   page   : SUBSET Nat,
   next   : Nat,
   more   : BOOLEAN]

TypeOK ==
  /\ clock \in Nat
  /\ nextSeq \in Nat \ {0}
  /\ changes \subseteq Row
  /\ purged \subseteq Row
  /\ watermark \in [Tables -> Nat]
  /\ active \subseteq Tables
  /\ txn \in [Writers -> Transaction]
  /\ cleaner \in [pc : {"idle", "running", "deleted"}, batch : 0 .. MaxBatches - 1, doomed : SUBSET Row]
  /\ reader \in [Readers -> Follower]

NoTable == CHOOSE t \in Tables : TRUE

IdleTxn == [pc |-> "idle", op |-> "mutate", table |-> NoTable, at |-> 0, rows |-> {}, tail |-> 0]

NewFollower == [pc |-> "new", table |-> NoTable, cursor |-> 0, base |-> 0, got |-> {}, tail |-> 0,
                gone |-> {}, page |-> {}, next |-> 0, more |-> FALSE]

Init ==
  /\ clock = 0
  /\ nextSeq = 1
  /\ changes = {}
  /\ purged = {}
  /\ watermark = [t \in Tables |-> 0]
  /\ active = Tables
  /\ txn = [w \in Writers |-> IdleTxn]
  /\ cleaner = [pc |-> "idle", batch |-> 0, doomed |-> {}]
  /\ reader = [c \in Readers |-> NewFollower]

-----------------------------------------------------------------------------
(* Writers.  Every transaction that adds rows for a Table first locks that *)
(* Table's row FOR UPDATE and holds it until it ends.                      *)

HoldsTable(w, t) == txn[w].pc \in {"locked", "tailRead"} /\ txn[w].table = t

BeginTx(w) ==
  /\ txn[w].pc \in {"idle", "done"}
  /\ \E t \in Tables, op \in Ops :
       txn' = [txn EXCEPT ![w] = [pc |-> "begun", op |-> op, table |-> t,
                                  at |-> clock, rows |-> {}, tail |-> 0]]
  /\ UNCHANGED <<clock, nextSeq, changes, purged, watermark, active, cleaner, reader>>

(* Mutant: the writer does not wait for the holder of the Table row. *)
LockTableUnshared(w) ==
  /\ txn[w].pc = "begun"
  /\ txn[w].op = "mutate" => txn[w].table \in active
  /\ txn' = [txn EXCEPT ![w] = [@ EXCEPT !.pc = "locked"]]
  /\ UNCHANGED <<clock, nextSeq, changes, purged, watermark, active, cleaner, reader>>

(* lockActiveTable answers NotFound for a deleted Table, and the transaction *)
(* rolls back (RollbackTx); lockAccessibleTable locks a deleted Table too.   *)
LockTable(w) ==
  /\ txn[w].pc = "begun"
  /\ \A v \in Writers : ~HoldsTable(v, txn[w].table)
  /\ txn[w].op = "mutate" => txn[w].table \in active
  /\ txn' = [txn EXCEPT ![w] = [@ EXCEPT !.pc = "locked"]]
  /\ UNCHANGED <<clock, nextSeq, changes, purged, watermark, active, cleaner, reader>>

RowLimit(op) == IF op = "lifecycle" THEN 1 ELSE MaxRows

InsertChange(w) ==
  /\ txn[w].pc = "locked"
  /\ Cardinality(txn[w].rows) < RowLimit(txn[w].op)
  /\ nextSeq <= MaxSeq
  /\ txn' = [txn EXCEPT ![w] = [@ EXCEPT !.rows = txn[w].rows \cup {nextSeq}]]
  /\ nextSeq' = nextSeq + 1
  /\ UNCHANGED <<clock, changes, purged, watermark, active, cleaner, reader>>

(* The statement sees committed rows and the transaction's own. *)
ReadTail(w) ==
  /\ txn[w].pc = "locked"
  /\ txn[w].op = "mutate"
  /\ \E n \in {0} \cup Live(txn[w].table) \cup txn[w].rows :
       /\ IsTail(n, Live(txn[w].table) \cup txn[w].rows)
       /\ txn' = [txn EXCEPT ![w] = [@ EXCEPT !.pc = "tailRead", !.tail = n]]
  /\ UNCHANGED <<clock, nextSeq, changes, purged, watermark, active, cleaner, reader>>

RowsOf(w) == [seq : txn[w].rows, table : {txn[w].table}, at : {txn[w].at}]

CommitMutation(w) ==
  /\ txn[w].pc = "tailRead"
  /\ changes' = changes \cup RowsOf(w)
  /\ txn' = [txn EXCEPT ![w] = [IdleTxn EXCEPT !.pc = "done", !.table = txn[w].table,
                                                !.tail = txn[w].tail]]
  /\ UNCHANGED <<clock, nextSeq, purged, watermark, active, cleaner, reader>>

(* DeleteTable of an active Table, RestoreTable of a deleted one. *)
CommitLifecycle(w) ==
  /\ txn[w].pc = "locked"
  /\ txn[w].op = "lifecycle"
  /\ txn[w].rows # {}
  /\ changes' = changes \cup RowsOf(w)
  /\ active' = IF txn[w].table \in active THEN active \ {txn[w].table}
                                          ELSE active \cup {txn[w].table}
  /\ txn' = [txn EXCEPT ![w] = IdleTxn]
  /\ UNCHANGED <<clock, nextSeq, purged, watermark, cleaner, reader>>

(* Any error, a lost connection or a crash of the server: the numbers drawn *)
(* are never used again.                                                    *)
RollbackTx(w) ==
  /\ txn[w].pc \in {"begun", "locked", "tailRead"}
  /\ txn' = [txn EXCEPT ![w] = IdleTxn]
  /\ UNCHANGED <<clock, nextSeq, changes, purged, watermark, active, cleaner, reader>>

-----------------------------------------------------------------------------
(* Retention cleanup: one run, in batches of one transaction each.  The     *)
(* run holds an advisory lock, so there is one run at a time.               *)

Expired == {r \in changes : r.at + Age < clock}

(* ORDER BY occurred_at ASC, change_sequence ASC *)
Before(r, s) == r.at < s.at \/ (r.at = s.at /\ r.seq < s.seq)

IsBatch(D) ==
  /\ Cardinality(D) <= BatchSize
  /\ D # Expired => Cardinality(D) = BatchSize
  /\ \A d \in D, e \in Expired \ D : Before(d, e)

StartCleanup ==
  /\ Age > 0
  /\ cleaner.pc = "idle"
  /\ cleaner' = [pc |-> "running", batch |-> 0, doomed |-> {}]
  /\ UNCHANGED <<clock, nextSeq, changes, purged, watermark, active, txn, reader>>

DeleteBatch ==
  /\ cleaner.pc = "running"
  /\ \E D \in SUBSET Expired :
       /\ IsBatch(D)
       /\ cleaner' = [cleaner EXCEPT !.pc = "deleted", !.doomed = D]
  /\ UNCHANGED <<clock, nextSeq, changes, purged, watermark, active, txn, reader>>

(* The first watermark of a Table is an INSERT whose foreign key takes KEY  *)
(* SHARE on the Table row, so it waits for a writer that holds it.          *)
WatermarkUnblocked(D) ==
  \A d \in D : watermark[d.table] = 0 => \A w \in Writers : ~HoldsTable(w, d.table)

(* Mutant: the watermark is taken for the first number that is kept. *)
RaisedWatermarkExclusive(D) ==
  {wm \in [Tables -> 0 .. nextSeq] :
     \A t \in Tables : IsGreatest(wm[t], {watermark[t]} \cup {s - 1 : s \in SeqsOf(D, t)})}

RaisedWatermark(D) ==
  {wm \in [Tables -> 0 .. nextSeq] :
     \A t \in Tables : IsGreatest(wm[t], {watermark[t]} \cup SeqsOf(D, t))}

(* The deletion and the watermarks become visible together; a short batch   *)
(* or the last one ends the run.                                            *)
CommitBatch ==
  /\ cleaner.pc = "deleted"
  /\ WatermarkUnblocked(cleaner.doomed)
  /\ changes' = changes \ cleaner.doomed
  /\ purged' = purged \cup cleaner.doomed
  /\ watermark' \in RaisedWatermark(cleaner.doomed)
  /\ cleaner' =
       IF Cardinality(cleaner.doomed) < BatchSize \/ cleaner.batch + 1 = MaxBatches
       THEN [pc |-> "idle", batch |-> 0, doomed |-> {}]
       ELSE [pc |-> "running", batch |-> cleaner.batch + 1, doomed |-> {}]
  /\ UNCHANGED <<clock, nextSeq, active, txn, reader>>

(* An error, a cancelled context or a crash rolls the batch back. *)
AbortCleanup ==
  /\ cleaner.pc # "idle"
  /\ cleaner' = [pc |-> "idle", batch |-> 0, doomed |-> {}]
  /\ UNCHANGED <<clock, nextSeq, changes, purged, watermark, active, txn, reader>>

Tick ==
  /\ clock < MaxClock
  /\ clock' = clock + 1
  /\ UNCHANGED <<nextSeq, changes, purged, watermark, active, txn, cleaner, reader>>

-----------------------------------------------------------------------------
(* Readers.  A request for a deleted Table answers NotFound and changes     *)
(* nothing, which is a stuttering step.                                     *)

FeedUnchanged == UNCHANGED <<clock, nextSeq, changes, purged, watermark, active, txn, cleaner>>

Follow(c, t, n) ==
  reader' = [reader EXCEPT ![c] =
    [NewFollower EXCEPT !.pc = "idle", !.table = t, !.cursor = n, !.base = n]]

(* GET changes without a cursor, or the changeCursor of a query: the tail   *)
(* of the rows committed at that instant.                                   *)
Subscribe(c) ==
  /\ reader[c].pc = "new"
  /\ \E t \in active : \E n \in {0} \cup Live(t) :
       IsTail(n, Live(t)) /\ Follow(c, t, n)
  /\ FeedUnchanged

(* A client continues from the changeCursor of a mutation response. *)
Adopt(c, w) ==
  /\ reader[c].pc \in {"new", "idle"}
  /\ txn[w].pc = "done"
  /\ Follow(c, txn[w].table, txn[w].tail)
  /\ txn' = [txn EXCEPT ![w] = IdleTxn]
  /\ UNCHANGED <<clock, nextSeq, changes, purged, watermark, active, cleaner>>

(* PullChanges: activeTableVisible and the first MAX ... *)
PullTail(c) ==
  /\ reader[c].pc = "idle"
  /\ reader[c].table \in active
  /\ \E n \in {0} \cup Live(reader[c].table) :
       /\ IsTail(n, Live(reader[c].table))
       /\ reader' = [reader EXCEPT ![c] =
                        [@ EXCEPT !.pc = "tailRead", !.tail = n, !.gone = Gone(reader[c].table)]]
  /\ FeedUnchanged

(* Mutant: expiry is not checked. *)
VerdictUnexpired(after, tail, expiredThrough) ==
  IF after > tail /\ after > expiredThrough THEN "invalid" ELSE "checked"

(* ... then the watermark and the two cursor checks ... *)
Verdict(after, tail, expiredThrough) ==
  IF after > tail /\ after > expiredThrough THEN "invalid"
  ELSE IF after < expiredThrough THEN "expired"
  ELSE "checked"

PullWatermark(c) ==
  /\ reader[c].pc = "tailRead"
  /\ reader' = [reader EXCEPT ![c] = [@ EXCEPT !.pc =
       Verdict(reader[c].cursor, reader[c].tail, watermark[reader[c].table])]]
  /\ FeedUnchanged

(* Mutant: the next cursor is taken before the extra row is cut off. *)
IsPageUncut(page, after, n, more, seqs) ==
  \E m \in {after} \cup seqs :
    /\ page = {s \in seqs : after < s /\ s <= m}
    /\ m = after \/ m \in page
    /\ Cardinality(page) <= Limit
    /\ more <=> \E s \in seqs : m < s
    /\ more => Cardinality(page) = Limit
    /\ IF more THEN m < n /\ n \in seqs /\ ~\E s \in seqs : m < s /\ s < n
               ELSE n = m

(* Mutant: the cursor itself is read again (>= for >). *)
IsPageInclusive(page, after, n, more, seqs) ==
  /\ page = {s \in seqs : after <= s /\ s <= n}
  /\ n = after \/ n \in page
  /\ more <=> \E s \in seqs : n < s

(* Mutant: a page that is not the last answers the cursor it was given. *)
IsPageStuck(page, after, n, more, seqs) ==
  \E m \in {after} \cup seqs :
    /\ page = {s \in seqs : after < s /\ s <= m}
    /\ m = after \/ m \in page
    /\ Cardinality(page) <= Limit
    /\ more <=> \E s \in seqs : m < s
    /\ more => Cardinality(page) = Limit
    /\ n = IF more THEN after ELSE m

(* ... and the first Limit rows after the cursor, with one more to tell      *)
(* whether any are left.                                                    *)
IsPage(page, after, n, more, seqs) ==
  /\ page = {s \in seqs : after < s /\ s <= n}
  /\ n = after \/ n \in page
  /\ Cardinality(page) <= Limit
  /\ more <=> \E s \in seqs : n < s
  /\ more => Cardinality(page) = Limit

PullRows(c) ==
  /\ reader[c].pc = "checked"
  /\ LET seqs  == Live(reader[c].table)
         after == reader[c].cursor
     IN  \E n \in {after} \cup seqs, page \in SUBSET seqs, more \in BOOLEAN :
           /\ IsPage(page, after, n, more, seqs)
           /\ reader' = [reader EXCEPT ![c] =
                          [@ EXCEPT !.pc = "page", !.page = page, !.next = n, !.more = more]]
  /\ FeedUnchanged

AfterRequest(r) == [r EXCEPT !.pc = "idle", !.tail = 0, !.gone = {}, !.page = {},
                             !.next = 0, !.more = FALSE]

DeliverPage(c) ==
  /\ reader[c].pc = "page"
  /\ reader' = [reader EXCEPT ![c] =
       AfterRequest([reader[c] EXCEPT !.cursor = reader[c].next,
                                      !.got = @ \cup reader[c].page])]
  /\ FeedUnchanged

(* The response is lost, which a client cannot tell from a request that     *)
(* failed earlier: it pulls again with the cursor it has.                   *)
LosePage(c) ==
  /\ reader[c].pc = "page"
  /\ reader' = [reader EXCEPT ![c] = AfterRequest(reader[c])]
  /\ FeedUnchanged

(* After CURSOR_EXPIRED the client reloads and starts from a new tail. *)
StartOver(c) ==
  /\ reader[c].pc = "expired"
  /\ reader' = [reader EXCEPT ![c] = NewFollower]
  /\ FeedUnchanged

-----------------------------------------------------------------------------
WriterStep(w) ==
  \/ BeginTx(w) \/ LockTable(w) \/ InsertChange(w) \/ ReadTail(w)
  \/ CommitMutation(w) \/ CommitLifecycle(w) \/ RollbackTx(w)

CleanerStep == StartCleanup \/ DeleteBatch \/ CommitBatch \/ AbortCleanup

ReaderStep(c) ==
  \/ Subscribe(c) \/ (\E w \in Writers : Adopt(c, w))
  \/ PullTail(c) \/ PullWatermark(c) \/ PullRows(c)
  \/ DeliverPage(c) \/ LosePage(c) \/ StartOver(c)

Next ==
  \/ \E w \in Writers : WriterStep(w)
  \/ CleanerStep
  \/ \E c \in Readers : ReaderStep(c)
  \/ Tick

Spec == Init /\ [][Next]_vars

(* A client polls while it is open, the statements of a request complete,   *)
(* and a client that keeps asking is answered in the end.  Nothing obliges  *)
(* writers, cleanup or the clock to go on.                                  *)
FairSpec ==
  /\ Spec
  /\ \A c \in Readers :
       /\ WF_vars(PullTail(c)) /\ WF_vars(PullWatermark(c)) /\ WF_vars(PullRows(c))
       /\ SF_vars(DeliverPage(c))

-----------------------------------------------------------------------------
(* Properties *)

(* A row never becomes visible at or below a position a client has passed:  *)
(* the numbers of one Table commit in the order they were drawn, although   *)
(* the sequence is shared and drawn inside the transactions.  (lockActive-  *)
(* Table before the first insertRecordChange or insertMetadataChange.)      *)
NoLateCommit ==
  [][\A c \in Readers, t \in Tables :
       reader[c].pc # "new" /\ reader[c].table = t =>
         \A s \in Published(t)' \ Published(t) : reader[c].cursor < s]_vars

(* Cleanup never deletes a row without telling the readers: what is purged  *)
(* is behind its Table's watermark at every instant.  (cleanupChanges saves *)
(* the watermark in the transaction of the deletion.)                       *)
PurgedBehindWatermark ==
  \A t \in Tables : \A s \in Gone(t) : s <= watermark[t]

(* A cursor the server has issued is never answered with INVALID_CURSOR,    *)
(* whatever cleanup removes while PullChanges runs: it reads the tail       *)
(* before the watermark, and both only when the cursor already exists.      *)
IssuedCursorAccepted == \A c \in Readers : reader[c].pc # "invalid"

(* A page never bridges a gap that was there when its request arrived: had  *)
(* a row after the cursor been purged by then, the answer is                *)
(* CURSOR_EXPIRED.  (PullChanges checks the watermark before it reads rows.)*)
GapReported ==
  \A c \in Readers : reader[c].pc = "page" =>
    \A s \in reader[c].gone : ~(reader[c].cursor < s /\ s <= reader[c].next)

(* A client has every change between the position it started from and the  *)
(* one it holds: Change Pull decides expiry by the watermark alone, and     *)
(* gaps left in the sequence by other Tables are not lost data              *)
(* (storage-model.md:143).                                                  *)
FollowerComplete ==
  \A c \in Readers : reader[c].pc # "new" =>
    \A s \in Published(reader[c].table) :
      reader[c].base < s /\ s <= reader[c].cursor => s \in reader[c].got

(* A pull without a cursor answers the current tail (sync-model.md:75), a   *)
(* position from which the next pull can go on: not so once all Changes of  *)
(* a Table have been purged, when the tail is 0 and expired already.        *)
TailNotExpired ==
  \A t \in active, n \in 0 .. nextSeq : IsTail(n, Live(t)) => watermark[t] <= n

(* A client only moves forward: one delivery never takes it back, and it is *)
(* never handed a change twice, however often it repeats a lost request.    *)
OnceInOrder ==
  [][\A c \in Readers : DeliverPage(c) =>
       /\ reader[c].page \cap reader[c].got = {}
       /\ reader[c].cursor <= reader'[c].cursor]_vars

(* A client that polls a Table which stays active from some time on is      *)
(* given every change published after the position it started from.         *)
EveryChangeArrives ==
  \A c \in Readers, t \in Tables, s \in 1 .. MaxSeq :
    <>[](t \in active) =>
      (/\ reader[c].pc # "new" /\ reader[c].table = t
       /\ s \in Published(t) /\ reader[c].base < s
       ~> \/ s \in reader[c].got
          \/ reader[c].table # t \/ s <= reader[c].base)  \* it started elsewhere since

-----------------------------------------------------------------------------
(* The inductive invariant behind the theorems of ChangeFeedProofs. *)

(* Every number in use was drawn from the sequence. *)
Numbered ==
  /\ \A t \in Tables : \A s \in Published(t) : 0 < s /\ s < nextSeq
  /\ \A w \in Writers : \A s \in txn[w].rows : 0 < s /\ s < nextSeq

(* Row locks are exclusive, and only their holder has rows to publish. *)
LocksExclusive ==
  /\ \A v, w \in Writers, t \in Tables : HoldsTable(v, t) /\ HoldsTable(w, t) => v = w
  /\ \A w \in Writers : txn[w].pc \notin {"locked", "tailRead"} => txn[w].rows = {}

(* The rows of the lock holder follow everything its Table has published. *)
RowsAhead ==
  \A w \in Writers, t \in Tables : HoldsTable(w, t) =>
    \A s \in txn[w].rows, p \in Published(t) : p < s

(* Every cursor in use, or about to be, is 0 or a row published for its Table. *)
CursorsPublished ==
  /\ \A c \in Readers : reader[c].pc # "new" =>
       reader[c].cursor \in {0} \cup Published(reader[c].table)
  /\ \A c \in Readers : reader[c].pc = "page" =>
       reader[c].next \in {0} \cup Published(reader[c].table)
  /\ \A w \in Writers : txn[w].pc = "tailRead" =>
       txn[w].tail \in {0} \cup Published(txn[w].table) \cup txn[w].rows
  /\ \A w \in Writers : txn[w].pc = "done" =>
       txn[w].tail \in {0} \cup Published(txn[w].table)

(* Once PullChanges has read the tail, the cursor is covered by that tail or *)
(* by a watermark it has yet to read.                                        *)
CursorsCovered ==
  \A c \in Readers : reader[c].pc = "tailRead" =>
    \/ reader[c].cursor <= reader[c].tail
    \/ reader[c].cursor <= watermark[reader[c].table]

FeedInv ==
  /\ Numbered
  /\ LocksExclusive
  /\ RowsAhead
  /\ CursorsPublished
  /\ CursorsCovered
  /\ PurgedBehindWatermark
  /\ IssuedCursorAccepted
  /\ cleaner.doomed \subseteq changes

(* The feed implements ChangeLog: what is published is one growing log per  *)
(* Table, the watermark is its horizon, and a client that is given a page   *)
(* is given everything it passes that retention has not forgotten.          *)
Log == INSTANCE ChangeLog WITH
  log     <- [t \in Tables |-> Published(t)],
  horizon <- watermark,
  held    <- [c \in Readers |-> IF reader[c].pc = "new" THEN [table |-> "none", seq |-> 0]
                                ELSE [table |-> reader[c].table, seq |-> reader[c].cursor]],
  seen    <- [c \in Readers |-> reader[c].got]

ImplementsChangeLog == Log!Spec

=============================================================================

-------------------------- MODULE ChangeFeedProofs ---------------------------
(***************************************************************************)
(* Theorems about ChangeFeed, for every value of its constants.            *)
(***************************************************************************)
EXTENDS ChangeFeed, TLAPS

LEMMA NoTableType == NoTable \in Tables
  BY FeedAssumption DEF NoTable

LEMMA IdleTxnType == IdleTxn \in Transaction
  BY NoTableType DEF IdleTxn, Transaction, AllOps

LEMMA NewFollowerType == NewFollower \in Follower
  BY NoTableType DEF NewFollower, Follower

LEMMA LiveType == ASSUME TypeOK, NEW t \in Tables
                  PROVE  Live(t) \subseteq Nat
  BY DEF TypeOK, Live, SeqsOf, Row

(* What a writer does to its own transaction is a transaction again. *)
LEMMA WriterTypeOK ==
  ASSUME TypeOK, NEW w \in Writers, WriterStep(w)
  PROVE  TypeOK'
<1> USE DEF TypeOK
<1>1. CASE BeginTx(w)
  <2>1. PICK t \in Tables, op \in Ops :
          txn' = [txn EXCEPT ![w] = [pc |-> "begun", op |-> op, table |-> t,
                                     at |-> clock, rows |-> {}, tail |-> 0]]
    BY <1>1 DEF BeginTx
  <2>2. [pc |-> "begun", op |-> op, table |-> t, at |-> clock, rows |-> {}, tail |-> 0]
          \in Transaction
    BY FeedAssumption DEF Transaction
  <2>3. txn' \in [Writers -> Transaction]
    BY <2>1, <2>2
  <2> QED BY <1>1, <2>3 DEF BeginTx
<1>2. CASE LockTable(w)
  <2>1. [txn[w] EXCEPT !.pc = "locked"] \in Transaction
    BY DEF Transaction
  <2> QED BY <1>2, <2>1 DEF LockTable
<1>3. CASE InsertChange(w)
  <2>1. [txn[w] EXCEPT !.rows = txn[w].rows \cup {nextSeq}] \in Transaction
    BY DEF Transaction
  <2>2. txn' \in [Writers -> Transaction]
    BY <1>3, <2>1 DEF InsertChange
  <2>3. nextSeq' \in Nat \ {0}
    BY <1>3 DEF InsertChange
  <2> QED BY <1>3, <2>2, <2>3 DEF InsertChange
<1>4. CASE ReadTail(w)
  <2>1. txn[w].table \in Tables /\ txn[w].rows \subseteq Nat
    BY DEF Transaction
  <2>2. PICK n \in {0} \cup Live(txn[w].table) \cup txn[w].rows :
          txn' = [txn EXCEPT ![w] = [@ EXCEPT !.pc = "tailRead", !.tail = n]]
    BY <1>4 DEF ReadTail
  <2>3. n \in Nat
    BY <2>1, <2>2, LiveType
  <2>4. [txn[w] EXCEPT !.pc = "tailRead", !.tail = n] \in Transaction
    BY <2>3 DEF Transaction
  <2>5. txn' = [txn EXCEPT ![w] = [txn[w] EXCEPT !.pc = "tailRead", !.tail = n]]
    BY <2>2
  <2>6. txn' \in [Writers -> Transaction]
    BY <2>4, <2>5
  <2> QED BY <1>4, <2>6 DEF ReadTail
<1>5. RowsOf(w) \subseteq Row
  BY DEF RowsOf, Row, Transaction
<1>6. CASE CommitMutation(w)
  BY <1>5, <1>6, IdleTxnType DEF CommitMutation, Transaction
<1>7. CASE CommitLifecycle(w)
  BY <1>5, <1>7, IdleTxnType DEF CommitLifecycle, Transaction
<1>8. CASE RollbackTx(w)
  BY <1>8, IdleTxnType DEF RollbackTx
<1> QED BY <1>1, <1>2, <1>3, <1>4, <1>6, <1>7, <1>8 DEF WriterStep

LEMMA CleanerTypeOK ==
  ASSUME TypeOK, CleanerStep
  PROVE  TypeOK'
<1> USE DEF TypeOK
<1>0. MaxBatches \in Nat \ {0}
  BY FeedAssumption
<1>1. CASE StartCleanup
  BY <1>0, <1>1 DEF StartCleanup
<1>2. CASE DeleteBatch
  BY <1>2 DEF DeleteBatch, Expired
<1>3. CASE CommitBatch
  <2>1. watermark' \in [Tables -> Nat]
    BY <1>3 DEF CommitBatch, RaisedWatermark
  <2>2. changes' \subseteq Row /\ purged' \subseteq Row
    BY <1>3 DEF CommitBatch
  <2>3. cleaner' \in [pc : {"idle", "running", "deleted"}, batch : 0 .. MaxBatches - 1,
                      doomed : SUBSET Row]
    BY <1>0, <1>3 DEF CommitBatch
  <2> QED BY <1>3, <2>1, <2>2, <2>3 DEF CommitBatch
<1>4. CASE AbortCleanup
  BY <1>0, <1>4 DEF AbortCleanup
<1> QED BY <1>1, <1>2, <1>3, <1>4 DEF CleanerStep

LEMMA ReaderTypeOK ==
  ASSUME TypeOK, NEW c \in Readers, ReaderStep(c)
  PROVE  TypeOK'
<1> USE DEF TypeOK, FeedUnchanged
<1>0. reader[c] \in Follower /\ reader[c].table \in Tables
  BY DEF Follower
<1>1. CASE Subscribe(c)
  <2>1. PICK t \in active : \E n \in {0} \cup Live(t) : Follow(c, t, n)
    BY <1>1 DEF Subscribe
  <2>2. PICK n \in {0} \cup Live(t) : Follow(c, t, n)
    BY <2>1
  <2>3. n \in Nat /\ t \in Tables
    BY LiveType, <2>1, <2>2
  <2>4. reader' \in [Readers -> Follower]
    BY <2>2, <2>3, NewFollowerType DEF Follow, Follower
  <2> QED BY <1>1, <2>4 DEF Subscribe
<1>2. ASSUME NEW w \in Writers, Adopt(c, w)
      PROVE  TypeOK'
  <2>1. txn[w].table \in Tables /\ txn[w].tail \in Nat
    BY DEF Transaction
  <2>2. reader' \in [Readers -> Follower]
    BY <1>2, <2>1, NewFollowerType DEF Adopt, Follow, Follower
  <2> QED BY <1>2, <2>2, IdleTxnType DEF Adopt
<1>3. CASE PullTail(c)
  <2>1. PICK n \in {0} \cup Live(reader[c].table) :
          reader' = [reader EXCEPT ![c] =
                       [@ EXCEPT !.pc = "tailRead", !.tail = n, !.gone = Gone(reader[c].table)]]
    BY <1>3 DEF PullTail
  <2>2. n \in Nat /\ Gone(reader[c].table) \subseteq Nat
    BY <1>0, <2>1, LiveType DEF Gone, SeqsOf, Row
  <2>3. [reader[c] EXCEPT !.pc = "tailRead", !.tail = n, !.gone = Gone(reader[c].table)]
          \in Follower
    BY <1>0, <2>2 DEF Follower
  <2> QED BY <1>3, <2>1, <2>3 DEF PullTail
<1>4. CASE PullWatermark(c)
  BY <1>4 DEF PullWatermark, Verdict, Follower
<1>5. CASE PullRows(c)
  <2>1. PICK n \in {reader[c].cursor} \cup Live(reader[c].table),
             page \in SUBSET Live(reader[c].table), more \in BOOLEAN :
          reader' = [reader EXCEPT ![c] =
                       [@ EXCEPT !.pc = "page", !.page = page, !.next = n, !.more = more]]
    BY <1>5 DEF PullRows
  <2>2. n \in Nat /\ page \subseteq Nat
    BY <1>0, <2>1, LiveType DEF Follower
  <2>3. [reader[c] EXCEPT !.pc = "page", !.page = page, !.next = n, !.more = more] \in Follower
    BY <1>0, <2>2 DEF Follower
  <2> QED BY <1>5, <2>1, <2>3 DEF PullRows
<1>6. CASE DeliverPage(c)
  <2> DEFINE r == AfterRequest([reader[c] EXCEPT !.cursor = reader[c].next,
                                                 !.got = @ \cup reader[c].page])
  <2>1. r \in Follower
    BY <1>0 DEF AfterRequest, Follower
  <2> QED BY <1>6, <2>1 DEF DeliverPage
<1>7. CASE LosePage(c)
  <2>1. AfterRequest(reader[c]) \in Follower
    BY <1>0 DEF AfterRequest, Follower
  <2> QED BY <1>7, <2>1 DEF LosePage
<1>8. CASE StartOver(c)
  BY <1>8, NewFollowerType DEF StartOver
<1> QED BY <1>1, <1>2, <1>3, <1>4, <1>5, <1>6, <1>7, <1>8 DEF ReaderStep

(* Every variable keeps its type: the program counters of writers, cleanup  *)
(* and readers take the values the code reaches, and a cleanup run never    *)
(* counts past its last batch.                                              *)
THEOREM FeedTypeOK == Spec => []TypeOK
<1>1. Init => TypeOK
  BY FeedAssumption, IdleTxnType, NewFollowerType DEF Init, TypeOK
<1>2. TypeOK /\ [Next]_vars => TypeOK'
  <2> SUFFICES ASSUME TypeOK, [Next]_vars PROVE TypeOK'
    OBVIOUS
  <2>1. ASSUME NEW w \in Writers, WriterStep(w) PROVE TypeOK'
    BY <2>1, WriterTypeOK
  <2>2. CASE CleanerStep
    BY <2>2, CleanerTypeOK
  <2>3. ASSUME NEW c \in Readers, ReaderStep(c) PROVE TypeOK'
    BY <2>3, ReaderTypeOK
  <2>4. CASE Tick
    BY <2>4 DEF Tick, TypeOK
  <2>5. CASE UNCHANGED vars
    BY <2>5 DEF vars, TypeOK
  <2> QED BY <2>1, <2>2, <2>3, <2>4, <2>5 DEF Next
<1> QED BY <1>1, <1>2, PTL DEF Spec

-----------------------------------------------------------------------------
(* What a step does to the published numbers.                               *)

LEMMA PublishedIs ==
  ASSUME NEW t
  PROVE  Published(t) = SeqsOf(changes \cup purged, t)
BY DEF Published, Live, Gone, SeqsOf

LEMMA PublishedSame ==
  ASSUME changes' \cup purged' = changes \cup purged
  PROVE  \A t \in Tables : Published(t)' = Published(t)
<1> TAKE t \in Tables
<1>1. Published(t)' = SeqsOf(changes' \cup purged', t)
  BY DEF Published, Live, Gone, SeqsOf
<1> QED BY <1>1, PublishedIs

(* A commit publishes the transaction's rows in its own Table, no others. *)
LEMMA PublishedGrows ==
  ASSUME TypeOK, NEW w \in Writers, changes' = changes \cup RowsOf(w), purged' = purged,
         NEW t \in Tables
  PROVE  Published(t)' = Published(t) \cup (IF txn[w].table = t THEN txn[w].rows ELSE {})
<1>1. SeqsOf(RowsOf(w), t) = IF txn[w].table = t THEN txn[w].rows ELSE {}
  <2>1. \A s \in txn[w].rows : [seq |-> s, table |-> txn[w].table, at |-> txn[w].at] \in RowsOf(w)
    BY DEF RowsOf
  <2>2. \A r \in RowsOf(w) : r.seq \in txn[w].rows /\ r.table = txn[w].table
    BY DEF RowsOf
  <2>3. \A s : s \in SeqsOf(RowsOf(w), t) => txn[w].table = t /\ s \in txn[w].rows
    BY <2>2 DEF SeqsOf
  <2>4. \A s \in txn[w].rows : txn[w].table = t => s \in SeqsOf(RowsOf(w), t)
    <3> SUFFICES ASSUME NEW s \in txn[w].rows, txn[w].table = t
                 PROVE  s \in SeqsOf(RowsOf(w), t)
      OBVIOUS
    <3> DEFINE r == [seq |-> s, table |-> txn[w].table, at |-> txn[w].at]
    <3>1. r \in {q \in RowsOf(w) : q.table = t} /\ r.seq = s
      BY <2>1
    <3> HIDE DEF r
    <3> QED BY <3>1 DEF SeqsOf
  <2> QED BY <2>3, <2>4
<1>2. Published(t)' = Published(t) \cup SeqsOf(RowsOf(w), t)
  BY DEF Published, Live, Gone, SeqsOf
<1> QED BY <1>1, <1>2

LEMMA PublishedType ==
  ASSUME TypeOK, NEW t \in Tables
  PROVE  Published(t) \subseteq Nat /\ Live(t) \subseteq Published(t) /\ Gone(t) \subseteq Published(t)
BY DEF TypeOK, Published, Live, Gone, SeqsOf, Row

LEMMA GoneSame ==
  ASSUME purged' = purged
  PROVE  \A t \in Tables : Gone(t)' = Gone(t)
BY DEF Gone, SeqsOf

LEMMA LiveIn == \A t \in Tables : Live(t) \subseteq Published(t)
BY DEF Published

-----------------------------------------------------------------------------
(* The inductive step.                                                      *)

(* A writer that does not commit changes only its own transaction. *)
LEMMA WriterLocalInv ==
  ASSUME TypeOK, FeedInv, NEW w \in Writers,
         BeginTx(w) \/ LockTable(w) \/ RollbackTx(w)
  PROVE  FeedInv'
<1>1. /\ UNCHANGED <<clock, nextSeq, changes, purged, watermark, active, cleaner, reader>>
      /\ \A v \in Writers \ {w} : txn'[v] = txn[v]
      /\ txn'[w].rows = {}
      /\ txn'[w].pc \notin {"tailRead", "done"}
      /\ txn'[w].pc = "locked" => \A v \in Writers : ~HoldsTable(v, txn'[w].table)
  <2>1. txn \in [Writers -> Transaction]
    BY DEF TypeOK
  <2>2. CASE BeginTx(w)
    BY <2>1, <2>2 DEF BeginTx
  <2>3. CASE LockTable(w)
    BY <2>1, <2>3 DEF LockTable, FeedInv, LocksExclusive, Transaction
  <2>4. CASE RollbackTx(w)
    BY <2>1, <2>4 DEF RollbackTx, IdleTxn
  <2> QED BY <2>2, <2>3, <2>4
<1>2. \A t \in Tables : Published(t)' = Published(t) /\ Gone(t)' = Gone(t)
  BY <1>1, PublishedSame, GoneSame
<1>3. Numbered'
  BY <1>1, <1>2 DEF FeedInv, Numbered
<1>4. LocksExclusive'
  BY <1>1 DEF FeedInv, LocksExclusive, HoldsTable
<1>5. RowsAhead'
  BY <1>1, <1>2 DEF FeedInv, RowsAhead, HoldsTable
<1>6. CursorsPublished'
  BY <1>1, <1>2 DEF FeedInv, CursorsPublished, TypeOK, Transaction, Follower
<1>7. (CursorsCovered /\ PurgedBehindWatermark /\ IssuedCursorAccepted
        /\ cleaner.doomed \subseteq changes)'
  BY <1>1, <1>2 DEF FeedInv, CursorsCovered, PurgedBehindWatermark, IssuedCursorAccepted
<1> QED BY <1>3, <1>4, <1>5, <1>6, <1>7 DEF FeedInv

(* The number a row draws is greater than all in use. *)
LEMMA InsertInv ==
  ASSUME TypeOK, FeedInv, NEW w \in Writers, InsertChange(w)
  PROVE  FeedInv'
<1>1. /\ UNCHANGED <<clock, changes, purged, watermark, active, cleaner, reader>>
      /\ nextSeq' = nextSeq + 1 /\ nextSeq \in Nat \ {0}
      /\ txn[w].pc = "locked"
      /\ txn \in [Writers -> Transaction]
      /\ txn' = [txn EXCEPT ![w] = [txn[w] EXCEPT !.rows = txn[w].rows \cup {nextSeq}]]
  BY DEF InsertChange, TypeOK
<1>2. \A t \in Tables : Published(t)' = Published(t) /\ Gone(t)' = Gone(t)
  BY <1>1, PublishedSame, GoneSame
<1>3. /\ \A v \in Writers : /\ txn'[v].pc = txn[v].pc /\ txn'[v].table = txn[v].table
                            /\ txn'[v].tail = txn[v].tail
      /\ \A v \in Writers \ {w} : txn'[v].rows = txn[v].rows
      /\ txn'[w].rows = txn[w].rows \cup {nextSeq}
  BY <1>1 DEF Transaction
<1>4. \A v \in Writers, t \in Tables : HoldsTable(v, t)' = HoldsTable(v, t)
  BY <1>3 DEF HoldsTable
<1>5. Numbered'
  <2>1. \A t \in Tables : \A s \in Published(t) : s \in Nat /\ 0 < s /\ s < nextSeq + 1
    BY <1>1, PublishedType DEF FeedInv, Numbered
  <2>2. \A v \in Writers : \A s \in txn[v].rows : s \in Nat /\ 0 < s /\ s < nextSeq + 1
    BY <1>1 DEF FeedInv, Numbered, Transaction
  <2> QED BY <1>1, <1>2, <1>3, <2>1, <2>2 DEF Numbered
<1>6. LocksExclusive'
  BY <1>1, <1>3, <1>4 DEF FeedInv, LocksExclusive
<1>7. RowsAhead'
  BY <1>2, <1>3, <1>4 DEF FeedInv, RowsAhead, Numbered
<1>8. CursorsPublished'
  BY <1>1, <1>2, <1>3 DEF FeedInv, CursorsPublished, TypeOK, Transaction, Follower
<1>9. (CursorsCovered /\ PurgedBehindWatermark /\ IssuedCursorAccepted
        /\ cleaner.doomed \subseteq changes)'
  BY <1>1, <1>2 DEF FeedInv, CursorsCovered, PurgedBehindWatermark, IssuedCursorAccepted
<1> QED BY <1>5, <1>6, <1>7, <1>8, <1>9 DEF FeedInv

(* The tail of a response is a published row or one of the transaction. *)
LEMMA ReadTailInv ==
  ASSUME TypeOK, FeedInv, NEW w \in Writers, ReadTail(w)
  PROVE  FeedInv'
<1>1. PICK n \in {0} \cup Live(txn[w].table) \cup txn[w].rows :
        txn' = [txn EXCEPT ![w] = [@ EXCEPT !.pc = "tailRead", !.tail = n]]
  BY DEF ReadTail
<1>2. /\ UNCHANGED <<clock, nextSeq, changes, purged, watermark, active, cleaner, reader>>
      /\ txn[w].pc = "locked"
      /\ txn \in [Writers -> Transaction]
  BY DEF ReadTail, TypeOK
<1>3. \A t \in Tables : Published(t)' = Published(t) /\ Gone(t)' = Gone(t)
  BY <1>2, PublishedSame, GoneSame
<1>4. /\ \A v \in Writers : txn'[v].table = txn[v].table /\ txn'[v].rows = txn[v].rows
      /\ \A v \in Writers \ {w} : txn'[v] = txn[v]
      /\ txn'[w].pc = "tailRead" /\ txn'[w].tail = n
  BY <1>1, <1>2 DEF Transaction
<1>5. \A v \in Writers, t \in Tables : HoldsTable(v, t)' = HoldsTable(v, t)
  BY <1>2, <1>4 DEF HoldsTable
<1>6. Numbered'
  BY <1>2, <1>3, <1>4 DEF FeedInv, Numbered
<1>7. LocksExclusive'
  BY <1>2, <1>4, <1>5 DEF FeedInv, LocksExclusive
<1>8. RowsAhead'
  BY <1>3, <1>4, <1>5 DEF FeedInv, RowsAhead
<1>9. CursorsPublished'
  <2>1. txn[w].table \in Tables /\ Live(txn[w].table) \subseteq Published(txn[w].table)
    BY <1>2, LiveIn DEF Transaction
  <2> QED BY <1>2, <1>3, <1>4, <2>1 DEF FeedInv, CursorsPublished, TypeOK, Transaction, Follower
<1>10. (CursorsCovered /\ PurgedBehindWatermark /\ IssuedCursorAccepted
        /\ cleaner.doomed \subseteq changes)'
  BY <1>2, <1>3 DEF FeedInv, CursorsCovered, PurgedBehindWatermark, IssuedCursorAccepted
<1> QED BY <1>6, <1>7, <1>8, <1>9, <1>10 DEF FeedInv

(* A commit publishes rows that follow all that was published: nobody else  *)
(* held the Table meanwhile.                                                *)
LEMMA CommitInv ==
  ASSUME TypeOK, FeedInv, NEW w \in Writers, CommitMutation(w) \/ CommitLifecycle(w)
  PROVE  FeedInv'
<1>0. PICK u \in Tables : u = txn[w].table
  BY DEF TypeOK, Transaction
<1>1. /\ UNCHANGED <<clock, nextSeq, purged, watermark, cleaner, reader>>
      /\ changes' = changes \cup RowsOf(w)
      /\ HoldsTable(w, u)
      /\ txn \in [Writers -> Transaction]
  <2>1. txn \in [Writers -> Transaction]
    BY DEF TypeOK
  <2> QED BY <1>0, <2>1 DEF CommitMutation, CommitLifecycle, HoldsTable
<1>2. /\ \A v \in Writers \ {w} : txn'[v] = txn[v]
      /\ txn'[w].rows = {}
      /\ txn'[w].pc \in {"idle", "done"}
      /\ txn'[w].pc = "done" => /\ txn'[w].table = u /\ txn'[w].tail = txn[w].tail
                                /\ txn[w].pc = "tailRead"
  <2>1. CASE CommitMutation(w)
    <3>1. txn' = [txn EXCEPT ![w] = [IdleTxn EXCEPT !.pc = "done", !.table = u,
                                                    !.tail = txn[w].tail]]
      BY <1>0, <2>1 DEF CommitMutation
    <3>2. txn[w].pc = "tailRead"
      BY <2>1 DEF CommitMutation
    <3> QED BY <1>1, <3>1, <3>2 DEF IdleTxn
  <2>2. CASE CommitLifecycle(w)
    BY <1>1, <2>2 DEF CommitLifecycle, IdleTxn
  <2> QED BY <2>1, <2>2
<1>3. \A t \in Tables :
        Published(t)' = Published(t) \cup (IF u = t THEN txn[w].rows ELSE {})
  BY <1>0, <1>1, PublishedGrows
<1>4. \A t \in Tables : Gone(t)' = Gone(t)
  BY <1>1, GoneSame
<1>5. Numbered'
  BY <1>1, <1>2, <1>3 DEF FeedInv, Numbered
<1>6. LocksExclusive'
  BY <1>1, <1>2 DEF FeedInv, LocksExclusive, HoldsTable
<1>7. RowsAhead'
  <2> SUFFICES ASSUME NEW v \in Writers, NEW t \in Tables, HoldsTable(v, t)',
                      NEW s \in txn'[v].rows, NEW p \in Published(t)'
               PROVE  p < s
    BY DEF RowsAhead
  <2>1. v # w /\ HoldsTable(v, t) /\ s \in txn[v].rows
    BY <1>2 DEF HoldsTable
  <2>2. t # u
    BY <1>1, <2>1 DEF FeedInv, LocksExclusive
  <2> QED BY <1>3, <2>1, <2>2 DEF FeedInv, RowsAhead
<1>8. CursorsPublished'
  <2>1. \A c \in Readers : reader[c].table \in Tables
    BY DEF TypeOK, Follower
  <2>2. \A v \in Writers : txn[v].table \in Tables
    BY <1>1 DEF Transaction
  <2>3. \A t \in Tables : Published(t) \subseteq Published(t)'
    BY <1>3
  <2>4. (\A c \in Readers : reader[c].pc # "new" =>
           reader[c].cursor \in {0} \cup Published(reader[c].table))'
    BY <1>1, <2>1, <2>3 DEF FeedInv, CursorsPublished
  <2>5. (\A c \in Readers : reader[c].pc = "page" =>
           reader[c].next \in {0} \cup Published(reader[c].table))'
    BY <1>1, <2>1, <2>3 DEF FeedInv, CursorsPublished
  <2>6. (\A v \in Writers : txn[v].pc = "tailRead" =>
           txn[v].tail \in {0} \cup Published(txn[v].table) \cup txn[v].rows)'
    BY <1>2, <2>2, <2>3 DEF FeedInv, CursorsPublished
  <2>7. ASSUME NEW v \in Writers, txn'[v].pc = "done"
        PROVE  (txn[v].tail \in {0} \cup Published(txn[v].table))'
    <3>1. CASE v = w
      <4>1. txn[w].tail \in {0} \cup Published(u) \cup txn[w].rows
        BY <1>0, <1>2, <2>7, <3>1 DEF FeedInv, CursorsPublished
      <4>2. Published(u)' = Published(u) \cup txn[w].rows
        BY <1>3
      <4>3. txn'[w].table = u /\ txn'[w].tail = txn[w].tail
        BY <1>2, <2>7, <3>1
      <4> QED BY <3>1, <4>1, <4>2, <4>3
    <3>2. CASE v # w
      BY <1>2, <2>2, <2>3, <2>7, <3>2 DEF FeedInv, CursorsPublished
    <3> QED BY <3>1, <3>2
  <2> QED BY <2>4, <2>5, <2>6, <2>7 DEF CursorsPublished
<1>9. (CursorsCovered /\ PurgedBehindWatermark /\ IssuedCursorAccepted
        /\ cleaner.doomed \subseteq changes)'
  BY <1>1, <1>4 DEF FeedInv, CursorsCovered, PurgedBehindWatermark, IssuedCursorAccepted
<1> QED BY <1>5, <1>6, <1>7, <1>8, <1>9 DEF FeedInv

(* Cleanup moves rows behind the watermark and publishes none. *)
LEMMA CleanerInv ==
  ASSUME TypeOK, FeedInv, CleanerStep
  PROVE  FeedInv'
<1>1. /\ UNCHANGED <<nextSeq, txn, reader>>
      /\ changes' \cup purged' = changes \cup purged
      /\ cleaner'.doomed \subseteq changes'
  <2>1. cleaner.doomed \subseteq changes /\ cleaner \in [pc : {"idle", "running", "deleted"},
                                          batch : 0 .. MaxBatches - 1, doomed : SUBSET Row]
    BY DEF FeedInv, TypeOK
  <2>2. CASE StartCleanup
    BY <2>2 DEF StartCleanup
  <2>3. CASE DeleteBatch
    BY <2>1, <2>3 DEF DeleteBatch, Expired
  <2>4. CASE CommitBatch
    <3>1. cleaner'.doomed = {}
      BY <2>4 DEF CommitBatch
    <3> QED BY <2>1, <2>4, <3>1 DEF CommitBatch
  <2>5. CASE AbortCleanup
    BY <2>5 DEF AbortCleanup
  <2> QED BY <2>2, <2>3, <2>4, <2>5 DEF CleanerStep
<1>2. \A t \in Tables : Published(t)' = Published(t)
  BY <1>1, PublishedSame
<1>3. Numbered' /\ LocksExclusive' /\ RowsAhead' /\ CursorsPublished' /\ IssuedCursorAccepted'
  <2>1. /\ \A c \in Readers : reader[c].table \in Tables
        /\ \A v \in Writers : txn[v].table \in Tables
    BY DEF TypeOK, Follower, Transaction
  <2>2. Numbered' /\ LocksExclusive' /\ RowsAhead'
    BY <1>1, <1>2 DEF FeedInv, Numbered, LocksExclusive, RowsAhead, HoldsTable
  <2>3. CursorsPublished' /\ IssuedCursorAccepted'
    BY <1>1, <1>2, <2>1 DEF FeedInv, CursorsPublished, IssuedCursorAccepted
  <2> QED BY <2>2, <2>3
<1>4. /\ \A t \in Tables : watermark[t] <= watermark'[t] /\ watermark'[t] \in Nat
      /\ PurgedBehindWatermark'
  <2>1. CASE CommitBatch
    <3>1. \A t \in Tables : /\ watermark[t] <= watermark'[t] /\ watermark'[t] \in Nat
                            /\ \A s \in SeqsOf(cleaner.doomed, t) : s <= watermark'[t]
      <4>1. \A t \in Tables : /\ watermark'[t] \in 0 .. nextSeq
                              /\ IsGreatest(watermark'[t], {watermark[t]} \cup SeqsOf(cleaner.doomed, t))
        BY <2>1 DEF CommitBatch, RaisedWatermark
      <4>2. nextSeq \in Nat
        BY DEF TypeOK
      <4> QED BY <4>1, <4>2 DEF IsGreatest
    <3>2. \A t \in Tables : Gone(t)' = Gone(t) \cup SeqsOf(cleaner.doomed, t)
      BY <2>1 DEF CommitBatch, Gone, SeqsOf
    <3>3. \A t \in Tables : Gone(t) \subseteq Nat /\ watermark[t] \in Nat
      BY PublishedType DEF TypeOK
    <3> QED BY <3>1, <3>2, <3>3 DEF FeedInv, PurgedBehindWatermark
  <2>2. CASE ~CommitBatch
    <3>1. UNCHANGED <<purged, watermark>>
      BY <2>2 DEF CleanerStep, StartCleanup, DeleteBatch, AbortCleanup
    <3>2. \A t \in Tables : Gone(t)' = Gone(t)
      BY <3>1, GoneSame
    <3> QED BY <3>1, <3>2 DEF FeedInv, PurgedBehindWatermark, TypeOK
  <2> QED BY <2>1, <2>2
<1>5. CursorsCovered'
  <2>1. \A c \in Readers : reader[c].table \in Tables /\ reader[c].cursor \in Nat
    BY DEF TypeOK, Follower
  <2>2. \A t \in Tables : watermark[t] \in Nat
    BY DEF TypeOK
  <2> QED BY <1>1, <1>4, <2>1, <2>2 DEF FeedInv, CursorsCovered
<1> QED BY <1>1, <1>3, <1>4, <1>5 DEF FeedInv

(* A reader takes its positions from rows it has seen published. *)
LEMMA ReaderInv ==
  ASSUME TypeOK, FeedInv, NEW c \in Readers, ReaderStep(c)
  PROVE  FeedInv'
<1>1. /\ UNCHANGED <<clock, nextSeq, changes, purged, watermark, active, cleaner>>
      /\ reader \in [Readers -> Follower] /\ txn \in [Writers -> Transaction]
      /\ reader[c].table \in Tables
  BY DEF ReaderStep, Subscribe, Adopt, PullTail, PullWatermark, PullRows, DeliverPage,
         LosePage, StartOver, FeedUnchanged, TypeOK, Follower
<1>2. \A t \in Tables : Published(t)' = Published(t) /\ Gone(t)' = Gone(t)
  BY <1>1, PublishedSame, GoneSame
<1>3. \A d \in Readers \ {c} : reader'[d] = reader[d]
  BY <1>1 DEF ReaderStep, Subscribe, Adopt, Follow, PullTail, PullWatermark, PullRows,
              DeliverPage, LosePage, StartOver
<1>4. \A v \in Writers : txn'[v] = txn[v] \/ (txn'[v] = IdleTxn /\ txn[v].pc = "done")
  BY <1>1 DEF ReaderStep, Subscribe, Adopt, PullTail, PullWatermark, PullRows, DeliverPage,
              LosePage, StartOver, FeedUnchanged
<1>5. Numbered' /\ LocksExclusive' /\ RowsAhead'
  BY <1>1, <1>2, <1>4 DEF FeedInv, Numbered, LocksExclusive, RowsAhead, HoldsTable, IdleTxn
<1>6. PurgedBehindWatermark' /\ cleaner'.doomed \subseteq changes'
  BY <1>1, <1>2 DEF FeedInv, PurgedBehindWatermark
<1> DEFINE Sound ==
      /\ reader'[c].pc # "new" => reader'[c].cursor \in {0} \cup Published(reader'[c].table)
      /\ reader'[c].pc = "page" => reader'[c].next \in {0} \cup Published(reader'[c].table)
      /\ reader'[c].pc = "tailRead" => \/ reader'[c].cursor <= reader'[c].tail
                                       \/ reader'[c].cursor <= watermark[reader'[c].table]
      /\ reader'[c].pc # "invalid"
      /\ reader'[c].table \in Tables
<1>7. Sound
  <2>0. /\ reader[c].pc # "new" => reader[c].cursor \in {0} \cup Published(reader[c].table)
        /\ reader[c].pc = "page" => reader[c].next \in {0} \cup Published(reader[c].table)
        /\ reader[c].pc = "tailRead" => \/ reader[c].cursor <= reader[c].tail
                                        \/ reader[c].cursor <= watermark[reader[c].table]
    BY DEF FeedInv, CursorsPublished, CursorsCovered
  <2>1. CASE Subscribe(c)
    <3>1. PICK t \in active : \E n \in {0} \cup Live(t) : Follow(c, t, n)
      BY <2>1 DEF Subscribe
    <3>2. PICK n \in {0} \cup Live(t) : Follow(c, t, n)
      BY <3>1
    <3>3. t \in Tables /\ n \in {0} \cup Published(t)
      BY <3>1, <3>2, LiveIn DEF TypeOK
    <3> QED BY <1>1, <3>2, <3>3 DEF Follow, NewFollower
  <2>2. ASSUME NEW w \in Writers, Adopt(c, w)
        PROVE  Sound
    <3>1. /\ txn[w].table \in Tables
          /\ txn[w].tail \in {0} \cup Published(txn[w].table)
      BY <1>1, <2>2 DEF Adopt, FeedInv, CursorsPublished, Transaction
    <3> QED BY <1>1, <2>2, <3>1 DEF Adopt, Follow, NewFollower
  <2>3. CASE PullTail(c)
    <3>1. PICK n \in {0} \cup Live(reader[c].table) :
            /\ IsTail(n, Live(reader[c].table))
            /\ reader' = [reader EXCEPT ![c] =
                 [@ EXCEPT !.pc = "tailRead", !.tail = n, !.gone = Gone(reader[c].table)]]
      BY <2>3 DEF PullTail
    <3>2. reader[c].cursor <= n \/ reader[c].cursor <= watermark[reader[c].table]
      <4>1. reader[c].cursor \in {0} \cup Live(reader[c].table) \cup Gone(reader[c].table)
        BY <2>0, <2>3 DEF PullTail, Published
      <4>2. reader[c].cursor \in {0} \cup Live(reader[c].table) => reader[c].cursor <= n
        BY <3>1 DEF IsTail, IsGreatest
      <4>3. reader[c].cursor \in Gone(reader[c].table) =>
              reader[c].cursor <= watermark[reader[c].table]
        BY <1>1 DEF FeedInv, PurgedBehindWatermark
      <4> QED BY <4>1, <4>2, <4>3
    <3>3. /\ reader'[c].pc = "tailRead" /\ reader'[c].tail = n
          /\ reader'[c].cursor = reader[c].cursor /\ reader'[c].table = reader[c].table
      BY <1>1, <3>1 DEF Follower
    <3> QED BY <1>1, <2>0, <2>3, <3>2, <3>3 DEF PullTail
  <2>4. CASE PullWatermark(c)
    <3> DEFINE v == Verdict(reader[c].cursor, reader[c].tail, watermark[reader[c].table])
    <3>1. reader[c].cursor \in Nat /\ reader[c].tail \in Nat /\ watermark[reader[c].table] \in Nat
      BY <1>1 DEF TypeOK, Follower
    <3>2. v \in {"expired", "checked"}
      BY <2>0, <2>4, <3>1 DEF PullWatermark, Verdict
    <3>3. /\ reader'[c].pc = v
          /\ reader'[c].cursor = reader[c].cursor /\ reader'[c].table = reader[c].table
      BY <1>1, <2>4 DEF PullWatermark, Follower
    <3> HIDE DEF v
    <3> QED BY <1>1, <2>0, <2>4, <3>2, <3>3 DEF PullWatermark
  <2>5. CASE PullRows(c)
    <3>1. PICK n \in {reader[c].cursor} \cup Live(reader[c].table),
               page \in SUBSET Live(reader[c].table), more \in BOOLEAN :
            reader' = [reader EXCEPT ![c] =
              [@ EXCEPT !.pc = "page", !.page = page, !.next = n, !.more = more]]
      BY <2>5 DEF PullRows
    <3>2. /\ reader'[c].pc = "page" /\ reader'[c].next = n
          /\ reader'[c].cursor = reader[c].cursor /\ reader'[c].table = reader[c].table
      BY <1>1, <3>1 DEF Follower
    <3>3. n \in {0} \cup Published(reader[c].table)
      BY <1>1, <2>0, <2>5, <3>1, LiveIn DEF PullRows
    <3> QED BY <1>1, <2>0, <2>5, <3>2, <3>3 DEF PullRows
  <2>6. CASE DeliverPage(c)
    <3>1. /\ reader'[c].pc = "idle" /\ reader'[c].cursor = reader[c].next
          /\ reader'[c].table = reader[c].table
      BY <1>1, <2>6 DEF DeliverPage, AfterRequest, Follower
    <3> QED BY <1>1, <2>0, <2>6, <3>1 DEF DeliverPage
  <2>7. CASE LosePage(c)
    <3>1. /\ reader'[c].pc = "idle" /\ reader'[c].cursor = reader[c].cursor
          /\ reader'[c].table = reader[c].table
      BY <1>1, <2>7 DEF LosePage, AfterRequest, Follower
    <3> QED BY <1>1, <2>0, <2>7, <3>1 DEF LosePage
  <2>8. CASE StartOver(c)
    BY <1>1, <2>8, NoTableType DEF StartOver, NewFollower
  <2> HIDE DEF Sound
  <2> QED BY <2>1, <2>2, <2>3, <2>4, <2>5, <2>6, <2>7, <2>8 DEF ReaderStep
<1>8. CursorsPublished'
  <2>1. \A d \in Readers : reader'[d].table \in Tables
    BY <1>1, <1>3, <1>7 DEF Follower
  <2>2. (\A d \in Readers : reader[d].pc # "new" =>
           reader[d].cursor \in {0} \cup Published(reader[d].table))'
    BY <1>2, <1>3, <1>7, <2>1 DEF FeedInv, CursorsPublished
  <2>3. (\A d \in Readers : reader[d].pc = "page" =>
           reader[d].next \in {0} \cup Published(reader[d].table))'
    BY <1>2, <1>3, <1>7, <2>1 DEF FeedInv, CursorsPublished
  <2>4. \A v \in Writers : txn[v].table \in Tables
    BY <1>1 DEF Transaction
  <2>5. (\A v \in Writers : txn[v].pc = "tailRead" =>
           txn[v].tail \in {0} \cup Published(txn[v].table) \cup txn[v].rows)'
    BY <1>2, <1>4, <2>4 DEF FeedInv, CursorsPublished, IdleTxn
  <2>6. (\A v \in Writers : txn[v].pc = "done" =>
           txn[v].tail \in {0} \cup Published(txn[v].table))'
    BY <1>2, <1>4, <2>4 DEF FeedInv, CursorsPublished, IdleTxn
  <2> QED BY <2>2, <2>3, <2>5, <2>6 DEF CursorsPublished
<1>9. CursorsCovered' /\ IssuedCursorAccepted'
  BY <1>1, <1>3, <1>7 DEF FeedInv, CursorsCovered, IssuedCursorAccepted
<1> QED BY <1>5, <1>6, <1>8, <1>9 DEF FeedInv

THEOREM FeedInvariant == Spec => []FeedInv
<1>1. Init => FeedInv
  <2> SUFFICES ASSUME Init PROVE FeedInv
    OBVIOUS
  <2>1. \A t \in Tables : Published(t) = {} /\ Gone(t) = {}
    BY DEF Init, Published, Live, Gone, SeqsOf
  <2>2. \A w \in Writers : txn[w].pc = "idle" /\ txn[w].rows = {}
    BY DEF Init, IdleTxn
  <2>3. \A c \in Readers : reader[c].pc = "new"
    BY DEF Init, NewFollower
  <2>4. cleaner.doomed = {}
    BY DEF Init
  <2> QED BY <2>1, <2>2, <2>3, <2>4
      DEF FeedInv, Numbered, LocksExclusive, RowsAhead, HoldsTable, CursorsPublished,
          CursorsCovered, PurgedBehindWatermark, IssuedCursorAccepted
<1>2. TypeOK /\ FeedInv /\ [Next]_vars => FeedInv'
  <2> SUFFICES ASSUME TypeOK, FeedInv, [Next]_vars PROVE FeedInv'
    OBVIOUS
  <2>1. ASSUME NEW w \in Writers, WriterStep(w) PROVE FeedInv'
    BY <2>1, WriterLocalInv, InsertInv, ReadTailInv, CommitInv DEF WriterStep
  <2>2. CASE CleanerStep
    BY <2>2, CleanerInv
  <2>3. ASSUME NEW c \in Readers, ReaderStep(c) PROVE FeedInv'
    BY <2>3, ReaderInv
  <2>4. CASE Tick \/ UNCHANGED vars
    BY <2>4
    DEF Tick, vars, FeedInv, Numbered, LocksExclusive, RowsAhead, HoldsTable, CursorsPublished,
        CursorsCovered, PurgedBehindWatermark, IssuedCursorAccepted, Published, Live, Gone
  <2> QED BY <2>1, <2>2, <2>3, <2>4 DEF Next
<1> QED BY <1>1, <1>2, FeedTypeOK, PTL DEF Spec

(* What cleanup has deleted is behind its Table's watermark, however its    *)
(* batches interleave with the writers.                                     *)
THEOREM PurgeIsAnnounced == Spec => []PurgedBehindWatermark
<1>1. FeedInv => PurgedBehindWatermark
  BY DEF FeedInv
<1> QED BY <1>1, FeedInvariant, PTL

(* PullChanges never answers INVALID_CURSOR to a cursor the server issued. *)
THEOREM CursorsStayValid == Spec => []IssuedCursorAccepted
<1>1. FeedInv => IssuedCursorAccepted
  BY DEF FeedInv
<1> QED BY <1>1, FeedInvariant, PTL

(* Rows become visible by a commit and by nothing else; cleanup moves them. *)
LEMMA OnlyCommitsPublish ==
  ASSUME TypeOK, FeedInv, [Next]_vars
  PROVE  \/ changes' \cup purged' = changes \cup purged
         \/ \E w \in Writers : CommitMutation(w) \/ CommitLifecycle(w)
<1>1. CASE CleanerStep
  <2>1. cleaner.doomed \subseteq changes
    BY DEF FeedInv
  <2> QED BY <1>1, <2>1 DEF CleanerStep, StartCleanup, DeleteBatch, CommitBatch, AbortCleanup
<1>2. ASSUME NEW d \in Readers, ReaderStep(d) PROVE UNCHANGED <<changes, purged>>
  BY <1>2 DEF ReaderStep, Subscribe, Adopt, PullTail, PullWatermark, PullRows, DeliverPage,
              LosePage, StartOver, FeedUnchanged
<1>3. ASSUME NEW w \in Writers, WriterStep(w)
      PROVE  UNCHANGED <<changes, purged>> \/ CommitMutation(w) \/ CommitLifecycle(w)
  BY <1>3 DEF WriterStep, BeginTx, LockTable, InsertChange, ReadTail, RollbackTx
<1>4. CASE Tick \/ UNCHANGED vars
  BY <1>4 DEF Tick, vars
<1> QED BY <1>1, <1>2, <1>3, <1>4 DEF Next

(* No transaction commits a row at or below a cursor that a client follows  *)
(* for its Table.                                                           *)
THEOREM CommitsFollowCursors == Spec => NoLateCommit
<1> DEFINE Late == \A c \in Readers, t \in Tables :
             reader[c].pc # "new" /\ reader[c].table = t =>
               \A s \in Published(t)' \ Published(t) : reader[c].cursor < s
<1>1. TypeOK /\ FeedInv /\ [Next]_vars => Late
  <2> SUFFICES ASSUME TypeOK, FeedInv, [Next]_vars,
                      NEW c \in Readers, NEW t \in Tables,
                      reader[c].pc # "new", reader[c].table = t,
                      NEW s \in Published(t)' \ Published(t)
               PROVE  reader[c].cursor < s
    OBVIOUS
  <2>1. reader[c].cursor \in {0} \cup Published(t)
    BY DEF FeedInv, CursorsPublished
  <2>2. ASSUME NEW w \in Writers, CommitMutation(w) \/ CommitLifecycle(w)
        PROVE  reader[c].cursor < s
    <3>1. changes' = changes \cup RowsOf(w) /\ purged' = purged
      BY <2>2 DEF CommitMutation, CommitLifecycle
    <3>2. txn[w].table = t /\ s \in txn[w].rows
      BY <3>1, PublishedGrows
    <3>3. HoldsTable(w, t)
      BY <2>2, <3>2 DEF CommitMutation, CommitLifecycle, HoldsTable
    <3> QED BY <2>1, <3>2, <3>3 DEF FeedInv, RowsAhead, Numbered
  <2>3. CASE changes' \cup purged' = changes \cup purged
    BY <2>3, PublishedSame
  <2>4. \/ changes' \cup purged' = changes \cup purged
        \/ \E w \in Writers : CommitMutation(w) \/ CommitLifecycle(w)
    BY OnlyCommitsPublish
  <2> QED BY <2>2, <2>3, <2>4
<1>2. [][TypeOK /\ FeedInv /\ [Next]_vars => Late]_vars
  BY <1>1, PTL
<1> QED BY <1>1, FeedTypeOK, FeedInvariant, PTL DEF Spec, NoLateCommit

-----------------------------------------------------------------------------
(* What a client has been given.                                            *)

(* The page in flight holds all of what it passes that retention keeps; what *)
(* had been purged when the request arrived is behind the cursor.            *)
FollowTrue(c) ==
  LET r == reader[c]
      t == reader[c].table
  IN
  /\ r.pc # "new" =>
       /\ \A s \in Published(t) : r.base < s /\ s <= r.cursor /\ watermark[t] < s => s \in r.got
       /\ \A s \in r.got : s <= r.cursor
  /\ r.pc = "tailRead" => r.gone \subseteq Gone(t)
  /\ r.pc \in {"checked", "page"} => \A s \in r.gone : s <= r.cursor
  /\ r.pc = "page" =>
       /\ r.cursor <= r.next
       /\ r.page \subseteq {s \in Published(t) : r.cursor < s /\ s <= r.next}
       /\ \A s \in Published(t) : r.cursor < s /\ s <= r.next /\ watermark[t] < s => s \in r.page

FollowInv == \A c \in Readers : FollowTrue(c)

(* Retention "forever" never deletes a row. *)
KeptForever == Age = 0 => cleaner.pc = "idle" /\ purged = {} /\ \A t \in Tables : watermark[t] = 0

(* The watermark of a Table is raised to a row that the batch deletes. *)
LEMMA WatermarkGrows ==
  ASSUME TypeOK, FeedInv, [Next]_vars, NEW t \in Tables
  PROVE  /\ watermark[t] <= watermark'[t] /\ watermark'[t] \in {watermark[t]} \cup Published(t)
         /\ watermark'[t] \in Nat
<1>1. watermark[t] \in Nat /\ nextSeq \in Nat
  BY DEF TypeOK
<1>2. CASE CommitBatch
  <2>1. /\ watermark'[t] \in 0 .. nextSeq
        /\ IsGreatest(watermark'[t], {watermark[t]} \cup SeqsOf(cleaner.doomed, t))
    BY <1>2 DEF CommitBatch, RaisedWatermark
  <2>2. SeqsOf(cleaner.doomed, t) \subseteq Published(t)
    BY DEF FeedInv, SeqsOf, Published, Live
  <2> QED BY <1>1, <2>1, <2>2 DEF IsGreatest
<1>3. CASE UNCHANGED watermark
  BY <1>1, <1>3
<1>4. UNCHANGED watermark \/ CommitBatch
  <2>1. ASSUME NEW d \in Readers, ReaderStep(d) PROVE UNCHANGED watermark
    BY <2>1 DEF ReaderStep, Subscribe, Adopt, PullTail, PullWatermark, PullRows, DeliverPage,
                LosePage, StartOver, FeedUnchanged
  <2>2. ASSUME NEW w \in Writers, WriterStep(w) PROVE UNCHANGED watermark
    BY <2>2 DEF WriterStep, BeginTx, LockTable, InsertChange, ReadTail, CommitMutation, CommitLifecycle, RollbackTx
  <2>3. CASE CleanerStep \/ Tick \/ UNCHANGED vars
    BY <2>3 DEF CleanerStep, StartCleanup, DeleteBatch, AbortCleanup, Tick, vars
  <2> QED BY <2>1, <2>2, <2>3 DEF Next
<1> QED BY <1>2, <1>3, <1>4

(* The log of a Table grows at its end only. *)
LEMMA LogGrows ==
  ASSUME TypeOK, FeedInv, [Next]_vars, NEW t \in Tables
  PROVE  /\ Published(t) \subseteq Published(t)'
         /\ \A s \in Published(t)' \ Published(t) : 0 < s /\ \A p \in Published(t) : p < s
         /\ Gone(t) \subseteq Gone(t)'
<1>1. ASSUME changes' \cup purged' = changes \cup purged PROVE Published(t)' = Published(t)
  BY <1>1, PublishedSame
<1>2. ASSUME NEW w \in Writers, CommitMutation(w) \/ CommitLifecycle(w)
      PROVE  /\ Published(t) \subseteq Published(t)'
             /\ \A s \in Published(t)' \ Published(t) : 0 < s /\ \A p \in Published(t) : p < s
  <2>1. changes' = changes \cup RowsOf(w) /\ purged' = purged
    BY <1>2 DEF CommitMutation, CommitLifecycle
  <2>2. Published(t)' = Published(t) \cup (IF txn[w].table = t THEN txn[w].rows ELSE {})
    BY <2>1, PublishedGrows
  <2>3. txn[w].table = t => HoldsTable(w, t)
    BY <1>2 DEF CommitMutation, CommitLifecycle, HoldsTable
  <2> QED BY <2>2, <2>3 DEF FeedInv, RowsAhead, Numbered
<1>3. purged \subseteq purged'
  <2>1. ASSUME NEW d \in Readers, ReaderStep(d) PROVE UNCHANGED purged
    BY <2>1 DEF ReaderStep, Subscribe, Adopt, PullTail, PullWatermark, PullRows, DeliverPage,
                LosePage, StartOver, FeedUnchanged
  <2>2. ASSUME NEW w \in Writers, WriterStep(w) PROVE UNCHANGED purged
    BY <2>2 DEF WriterStep, BeginTx, LockTable, InsertChange, ReadTail, CommitMutation, CommitLifecycle, RollbackTx
  <2>3. CASE CleanerStep \/ Tick \/ UNCHANGED vars
    BY <2>3 DEF CleanerStep, StartCleanup, DeleteBatch, CommitBatch, AbortCleanup, Tick, vars
  <2> QED BY <2>1, <2>2, <2>3 DEF Next
<1>4. Gone(t) \subseteq Gone(t)'
  BY <1>3 DEF Gone, SeqsOf
<1> QED BY <1>1, <1>2, <1>4, OnlyCommitsPublish

(* A client that does nothing stays told. *)
LEMMA FollowStays ==
  ASSUME TypeOK, TypeOK', FeedInv, [Next]_vars, NEW c \in Readers, FollowTrue(c), reader'[c] = reader[c]
  PROVE  FollowTrue(c)'
<1> DEFINE r == reader[c]
           t == reader[c].table
<1>1. /\ r \in Follower /\ t \in Tables /\ r.cursor \in Nat /\ r.next \in Nat /\ r.base \in Nat
      /\ Published(t) \subseteq Nat
  BY PublishedType DEF TypeOK, Follower
<1>2. /\ Published(t) \subseteq Published(t)' /\ Gone(t) \subseteq Gone(t)'
      /\ \A s \in Published(t)' \ Published(t) : 0 < s /\ \A p \in Published(t) : p < s
  BY <1>1, LogGrows
<1>3. watermark[t] <= watermark'[t] /\ watermark'[t] \in Nat /\ watermark[t] \in Nat
  BY <1>1, WatermarkGrows DEF TypeOK
<1>4. Published(t)' \subseteq Nat
  BY DEF TypeOK, Published, Live, Gone, SeqsOf, Row
<1> QED BY <1>1, <1>2, <1>3, <1>4 DEF FollowTrue, FeedInv, CursorsPublished

(* A client that begins anew has been given nothing, and has passed nothing. *)
LEMMA FollowBegins ==
  ASSUME TypeOK, NEW c \in Readers, NEW t \in Tables, NEW n, Follow(c, t, n), n \in Nat, Published(t)' \subseteq Nat
  PROVE  FollowTrue(c)'
<1>1. /\ reader'[c].pc = "idle" /\ reader'[c].table = t /\ reader'[c].cursor = n /\ reader'[c].base = n
      /\ reader'[c].got = {}
  BY DEF TypeOK, Follow, NewFollower
<1> QED BY <1>1 DEF FollowTrue

(* One request of a client, from its tail to its page. *)
LEMMA PullTrue ==
  ASSUME TypeOK, FeedInv, NEW c \in Readers, FollowTrue(c), FeedUnchanged,
         PullTail(c) \/ PullWatermark(c) \/ PullRows(c) \/ DeliverPage(c) \/ LosePage(c)
  PROVE  FollowTrue(c)'
<1>1. PICK r \in Follower : r = reader[c] /\ r.table \in Tables
  BY DEF TypeOK, Follower
<1> PICK t \in Tables : t = r.table
  BY <1>1
<1>2. /\ r.cursor \in Nat /\ r.next \in Nat /\ r.base \in Nat /\ r.tail \in Nat /\ watermark[t] \in Nat
      /\ Published(t) \subseteq Nat /\ Live(t) \subseteq Published(t) /\ Gone(t) \subseteq Published(t)
      /\ Published(t) = Live(t) \cup Gone(t)
  BY <1>1, PublishedType DEF TypeOK, Follower, Published
<1>3. Published(t)' = Published(t) /\ Gone(t)' = Gone(t) /\ UNCHANGED watermark
      /\ \A s \in Gone(t) : s <= watermark[t]
  <2>1. changes' = changes /\ purged' = purged /\ watermark' = watermark
    BY DEF FeedUnchanged
  <2> QED BY <1>1, <2>1, PublishedSame, GoneSame DEF FeedInv, PurgedBehindWatermark
<1> DEFINE Known(q) == /\ \A s \in Published(t) : q.base < s /\ s <= q.cursor /\ watermark[t] < s => s \in q.got
                       /\ \A s \in q.got : s <= q.cursor
<1>4. r.pc # "new" => Known(r)
  BY <1>1 DEF FollowTrue
<1>5. SUFFICES ASSUME NEW q \in Follower, q = reader'[c], q.table = t
               PROVE  FollowTrue(c)'
  <2>1. reader'[c] \in Follower /\ reader'[c].table = t
    <3>1. TypeOK'
      BY ReaderTypeOK DEF ReaderStep
    <3>2. reader'[c].table = t
      <4>1. CASE PullTail(c)
        <5>1. PICK n : reader' = [reader EXCEPT ![c] = [r EXCEPT !.pc = "tailRead", !.tail = n, !.gone = Gone(t)]]
          BY <1>1, <4>1 DEF PullTail
        <5>2. reader'[c] = [r EXCEPT !.pc = "tailRead", !.tail = n, !.gone = Gone(t)]
          BY <5>1 DEF TypeOK
        <5> QED BY <5>2 DEF Follower
      <4>2. CASE PullWatermark(c)
        <5>1. PICK pc : reader' = [reader EXCEPT ![c] = [r EXCEPT !.pc = pc]]
          BY <1>1, <4>2 DEF PullWatermark
        <5>2. reader'[c] = [r EXCEPT !.pc = pc]
          BY <5>1 DEF TypeOK
        <5> QED BY <5>2 DEF Follower
      <4>3. CASE PullRows(c)
        <5>1. PICK n, page, more : reader' = [reader EXCEPT ![c] =
                [r EXCEPT !.pc = "page", !.page = page, !.next = n, !.more = more]]
          BY <1>1, <4>3 DEF PullRows
        <5>2. reader'[c] = [r EXCEPT !.pc = "page", !.page = page, !.next = n, !.more = more]
          BY <5>1 DEF TypeOK
        <5> QED BY <5>2 DEF Follower
      <4>4. CASE DeliverPage(c)
        <5>1. reader'[c] = AfterRequest([r EXCEPT !.cursor = r.next, !.got = @ \cup r.page])
          BY <1>1, <4>4 DEF TypeOK, DeliverPage
        <5> QED BY <5>1 DEF AfterRequest, Follower
      <4>5. CASE LosePage(c)
        <5>1. reader'[c] = AfterRequest(r)
          BY <1>1, <4>5 DEF TypeOK, LosePage
        <5> QED BY <5>1 DEF AfterRequest, Follower
      <4> QED BY <4>1, <4>2, <4>3, <4>4, <4>5
    <3> QED BY <3>1, <3>2 DEF TypeOK
  <2> QED BY <2>1
<1>6. CASE PullTail(c)
  <2>1. PICK n : reader' = [reader EXCEPT ![c] = [@ EXCEPT !.pc = "tailRead", !.tail = n, !.gone = Gone(t)]]
    BY <1>1, <1>6 DEF PullTail
  <2>2. /\ q.pc = "tailRead" /\ q.gone = Gone(t) /\ q.base = r.base /\ q.cursor = r.cursor /\ q.got = r.got
        /\ r.pc = "idle"
    BY <1>1, <1>5, <1>6, <2>1 DEF TypeOK, Follower, PullTail
  <2> QED BY <1>3, <1>4, <1>5, <2>2 DEF FollowTrue
<1>7. CASE PullWatermark(c)
  <2>1. /\ q.pc = Verdict(r.cursor, r.tail, watermark[t]) /\ r.pc = "tailRead"
        /\ q.gone = r.gone /\ q.base = r.base /\ q.cursor = r.cursor /\ q.got = r.got
    BY <1>1, <1>5, <1>7 DEF TypeOK, Follower, PullWatermark
  <2>2. q.pc \in {"invalid", "expired", "checked"} /\ (q.pc = "checked" => r.cursor >= watermark[t])
    BY <1>2, <2>1 DEF Verdict
  <2>3. q.pc = "checked" => \A s \in r.gone : s <= r.cursor
    <3>1. r.gone \subseteq Gone(t)
      BY <1>1, <2>1 DEF FollowTrue
    <3> QED BY <1>2, <1>3, <2>2, <3>1
  <2> QED BY <1>3, <1>4, <1>5, <2>1, <2>2, <2>3 DEF FollowTrue
<1>8. CASE PullRows(c)
  <2>1. PICK n \in {r.cursor} \cup Live(t), page \in SUBSET Live(t), more \in BOOLEAN :
          /\ IsPage(page, r.cursor, n, more, Live(t))
          /\ reader' = [reader EXCEPT ![c] = [@ EXCEPT !.pc = "page", !.page = page, !.next = n, !.more = more]]
    <3>1. PICK n \in {reader[c].cursor} \cup Live(reader[c].table), page \in SUBSET Live(reader[c].table),
               more \in BOOLEAN :
            /\ IsPage(page, reader[c].cursor, n, more, Live(reader[c].table))
            /\ reader' = [reader EXCEPT ![c] = [@ EXCEPT !.pc = "page", !.page = page, !.next = n, !.more = more]]
      BY <1>8 DEF PullRows
    <3> QED BY <1>1, <3>1
  <2>2. /\ q.pc = "page" /\ q.page = page /\ q.next = n /\ r.pc = "checked"
        /\ q.gone = r.gone /\ q.base = r.base /\ q.cursor = r.cursor /\ q.got = r.got
    BY <1>1, <1>5, <1>8, <2>1 DEF TypeOK, Follower, PullRows
  <2>3. page = {s \in Live(t) : r.cursor < s /\ s <= n} /\ (n = r.cursor \/ n \in page)
    BY <2>1 DEF IsPage
  <2>4. r.cursor <= n
    BY <1>2, <2>3
  <2>5. \A s \in r.gone : s <= r.cursor
    BY <1>1, <2>2 DEF FollowTrue
  <2>6. \A s \in Published(t) : watermark[t] < s => s \in Live(t)
    BY <1>2, <1>3
  <2> QED BY <1>2, <1>3, <1>4, <1>5, <2>2, <2>3, <2>4, <2>5, <2>6 DEF FollowTrue
<1>9. CASE DeliverPage(c)
  <2>1. q = AfterRequest([r EXCEPT !.cursor = r.next, !.got = @ \cup r.page]) /\ r.pc = "page"
    BY <1>1, <1>5, <1>9 DEF TypeOK, DeliverPage
  <2>2. q.pc = "idle" /\ q.cursor = r.next /\ q.got = r.got \cup r.page /\ q.base = r.base
    BY <2>1 DEF AfterRequest, Follower
  <2>3. /\ r.cursor <= r.next
        /\ r.page \subseteq {s \in Published(t) : r.cursor < s /\ s <= r.next}
        /\ \A s \in Published(t) : r.cursor < s /\ s <= r.next /\ watermark[t] < s => s \in r.page
    BY <1>1, <2>1 DEF FollowTrue
  <2>4. Known(q)
    <3>1. r.got \subseteq Nat
      BY DEF Follower
    <3> QED BY <1>2, <1>4, <2>1, <2>2, <2>3, <3>1
  <2> QED BY <1>3, <1>5, <2>2, <2>4 DEF FollowTrue
<1>10. CASE LosePage(c)
  <2>1. q = AfterRequest(r) /\ r.pc = "page"
    BY <1>1, <1>5, <1>10 DEF TypeOK, LosePage
  <2>2. q.pc = "idle" /\ q.cursor = r.cursor /\ q.got = r.got /\ q.base = r.base
    BY <2>1 DEF AfterRequest, Follower
  <2> QED BY <1>3, <1>4, <1>5, <2>1, <2>2 DEF FollowTrue
<1> QED BY <1>6, <1>7, <1>8, <1>9, <1>10

(* Another actor leaves a client alone. *)
LEMMA OthersFollow ==
  ASSUME TypeOK, [Next]_vars, NEW c \in Readers, ~ReaderStep(c)
  PROVE  reader'[c] = reader[c]
<1>1. ASSUME NEW d \in Readers, ReaderStep(d) PROVE reader'[c] = reader[c]
  <2>1. c # d
    BY <1>1
  <2>2. \E q : reader' = [reader EXCEPT ![d] = q]
    <3>1. CASE Subscribe(d) \/ StartOver(d) \/ \E w \in Writers : Adopt(d, w)
      BY <3>1 DEF Subscribe, Adopt, StartOver, Follow
    <3>2. CASE PullTail(d) \/ PullWatermark(d)
      BY <3>2 DEF PullTail, PullWatermark
    <3>3. CASE PullRows(d)
      BY <3>3 DEF PullRows
    <3>4. CASE DeliverPage(d) \/ LosePage(d)
      BY <3>4 DEF DeliverPage, LosePage
    <3> QED BY <1>1, <3>1, <3>2, <3>3, <3>4 DEF ReaderStep
  <2> QED BY <2>1, <2>2 DEF TypeOK
<1>2. ASSUME NEW w \in Writers, WriterStep(w) PROVE reader' = reader
  BY <1>2 DEF WriterStep, BeginTx, LockTable, InsertChange, ReadTail, CommitMutation, CommitLifecycle, RollbackTx
<1>3. CASE CleanerStep \/ Tick \/ UNCHANGED vars
  BY <1>3 DEF CleanerStep, StartCleanup, DeleteBatch, CommitBatch, AbortCleanup, Tick, vars
<1> QED BY <1>1, <1>2, <1>3 DEF Next

LEMMA FollowStep ==
  ASSUME TypeOK, TypeOK', FeedInv, FollowInv, [Next]_vars
  PROVE  FollowInv'
<1> SUFFICES ASSUME NEW c \in Readers PROVE FollowTrue(c)'
  BY DEF FollowInv
<1>1. FollowTrue(c)
  BY DEF FollowInv
<1>2. \A t \in Tables : Published(t)' \subseteq Nat
  BY DEF TypeOK, Published, Live, Gone, SeqsOf, Row
<1>3. CASE Subscribe(c)
  <2>1. PICK t \in active : \E n \in {0} \cup Live(t) : Follow(c, t, n)
    BY <1>3 DEF Subscribe
  <2>2. PICK n \in {0} \cup Live(t) : Follow(c, t, n)
    BY <2>1
  <2>3. t \in Tables /\ n \in Nat
    BY <2>1, <2>2, LiveType DEF TypeOK
  <2> QED BY <1>2, <2>2, <2>3, FollowBegins
<1>4. ASSUME NEW w \in Writers, Adopt(c, w) PROVE FollowTrue(c)'
  <2>1. txn[w].table \in Tables /\ txn[w].tail \in Nat
    BY DEF TypeOK, Transaction
  <2>2. Follow(c, txn[w].table, txn[w].tail)
    BY <1>4 DEF Adopt
  <2>3. PICK t \in Tables, n \in Nat : Follow(c, t, n)
    BY <2>1, <2>2
  <2> QED BY <1>2, <2>3, FollowBegins
<1>5. CASE StartOver(c)
  <2>1. reader'[c] = NewFollower
    BY <1>5 DEF StartOver, TypeOK
  <2> QED BY <2>1 DEF FollowTrue, NewFollower
<1>6. CASE PullTail(c) \/ PullWatermark(c) \/ PullRows(c) \/ DeliverPage(c) \/ LosePage(c)
  <2>1. FeedUnchanged
    BY <1>6 DEF PullTail, PullWatermark, PullRows, DeliverPage, LosePage
  <2> QED BY <1>1, <1>6, <2>1, PullTrue
<1>7. CASE ~ReaderStep(c)
  BY <1>1, <1>7, OthersFollow, FollowStays
<1> QED BY <1>3, <1>4, <1>5, <1>6, <1>7 DEF ReaderStep

THEOREM ClientsAreTold == Spec => []FollowInv
<1>1. Init => FollowInv
  BY DEF Init, NewFollower, FollowInv, FollowTrue
<1>2. TypeOK /\ TypeOK' /\ FeedInv /\ FollowInv /\ [Next]_vars => FollowInv'
  BY FollowStep
<1> QED BY <1>1, <1>2, FeedTypeOK, FeedInvariant, PTL DEF Spec

(* PullChanges reads the watermark after the tail and the rows after both:   *)
(* no page passes a row that had been purged when its request arrived.       *)
THEOREM GapsAreReported == Spec => []GapReported
<1>1. TypeOK /\ FollowInv => GapReported
  <2> SUFFICES ASSUME TypeOK, FollowInv, NEW c \in Readers, reader[c].pc = "page",
                      NEW s \in reader[c].gone, reader[c].cursor < s
               PROVE  FALSE
    BY DEF GapReported
  <2>1. s <= reader[c].cursor /\ s \in Nat /\ reader[c].cursor \in Nat
    BY DEF FollowInv, FollowTrue, TypeOK, Follower
  <2> QED BY <2>1
<1> QED BY <1>1, ClientsAreTold, FeedTypeOK, PTL

LEMMA ForeverStep ==
  ASSUME KeptForever, [Next]_vars
  PROVE  KeptForever'
<1> SUFFICES ASSUME Age = 0 PROVE (cleaner.pc = "idle" /\ purged = {} /\ \A t \in Tables : watermark[t] = 0)'
  BY DEF KeptForever
<1>1. cleaner.pc = "idle" /\ purged = {} /\ \A t \in Tables : watermark[t] = 0
  BY DEF KeptForever
<1>2. UNCHANGED <<cleaner, purged, watermark>>
  <2>1. ASSUME NEW d \in Readers, ReaderStep(d) PROVE UNCHANGED <<cleaner, purged, watermark>>
    BY <2>1 DEF ReaderStep, Subscribe, Adopt, PullTail, PullWatermark, PullRows, DeliverPage,
                LosePage, StartOver, FeedUnchanged
  <2>2. ASSUME NEW w \in Writers, WriterStep(w) PROVE UNCHANGED <<cleaner, purged, watermark>>
    BY <2>2 DEF WriterStep, BeginTx, LockTable, InsertChange, ReadTail, CommitMutation, CommitLifecycle, RollbackTx
  <2>3. CASE CleanerStep
    BY <1>1, <2>3 DEF CleanerStep, StartCleanup, DeleteBatch, CommitBatch, AbortCleanup
  <2>4. CASE Tick \/ UNCHANGED vars
    BY <2>4 DEF Tick, vars
  <2> QED BY <2>1, <2>2, <2>3, <2>4 DEF Next
<1> QED BY <1>1, <1>2

(* With retention "forever" a client has every change between the position  *)
(* it started from and the one it holds, whatever other Tables draw from the *)
(* sequence that they share.                                                *)
THEOREM FollowersComplete == ASSUME Age = 0 PROVE Spec => []FollowerComplete
<1>1. Init => KeptForever
  BY DEF Init, KeptForever
<1>2. KeptForever /\ [Next]_vars => KeptForever'
  BY ForeverStep
<1>3. TypeOK /\ FeedInv /\ FollowInv /\ KeptForever => FollowerComplete
  <2> SUFFICES ASSUME TypeOK, FeedInv, FollowInv, KeptForever, NEW c \in Readers, reader[c].pc # "new",
                      NEW s \in Published(reader[c].table), reader[c].base < s, s <= reader[c].cursor
               PROVE  s \in reader[c].got
    BY DEF FollowerComplete
  <2>1. reader[c].table \in Tables
    BY DEF TypeOK, Follower
  <2>2. watermark[reader[c].table] = 0 /\ 0 < s
    BY <2>1 DEF KeptForever, FeedInv, Numbered
  <2> QED BY <2>2 DEF FollowInv, FollowTrue
<1> QED BY <1>1, <1>2, <1>3, FeedTypeOK, FeedInvariant, ClientsAreTold, PTL DEF Spec

(* One page follows another: none goes back, and none repeats a change,     *)
(* however often the client asks again for a page that was lost.            *)
THEOREM PagesFollow == Spec => OnceInOrder
<1>1. TypeOK /\ FollowInv =>
        \A c \in Readers : DeliverPage(c) => /\ reader[c].page \cap reader[c].got = {}
                                             /\ reader[c].cursor <= reader'[c].cursor
  <2> SUFFICES ASSUME TypeOK, FollowInv, NEW c \in Readers, DeliverPage(c)
               PROVE  reader[c].page \cap reader[c].got = {} /\ reader[c].cursor <= reader'[c].cursor
    OBVIOUS
  <2>1. PICK r \in Follower : r = reader[c] /\ r.pc = "page"
    BY DEF TypeOK, DeliverPage
  <2>2. /\ \A s \in r.got : s <= r.cursor
        /\ \A s \in r.page : r.cursor < s
        /\ r.cursor <= r.next
    BY <2>1 DEF FollowInv, FollowTrue
  <2>3. reader'[c] = AfterRequest([r EXCEPT !.cursor = r.next, !.got = @ \cup r.page])
    BY <2>1 DEF TypeOK, DeliverPage
  <2>4. reader'[c].cursor = r.next
    BY <2>3 DEF AfterRequest, Follower
  <2>5. r.got \subseteq Nat /\ r.page \subseteq Nat /\ r.cursor \in Nat
    BY DEF Follower
  <2> QED BY <2>1, <2>2, <2>4, <2>5
<1> QED BY <1>1, FeedTypeOK, ClientsAreTold, PTL DEF OnceInOrder

-----------------------------------------------------------------------------
(* The feed implements ChangeLog.                                           *)

(* The position of a client, as ChangeLog has it. *)
Position(c) == IF reader[c].pc = "new" THEN Log!Nowhere
               ELSE [table |-> reader[c].table, seq |-> reader[c].cursor]

Entries == [t \in Tables |-> Published(t)]

Positions == [c \in Readers |-> Position(c)]

Given == [c \in Readers |-> reader[c].got]

LEMMA LogStutters ==
  ASSUME Entries' = Entries, UNCHANGED watermark, Positions' = Positions, Given' = Given
  PROVE  UNCHANGED Log!vars
BY DEF Log!vars, Entries, Positions, Position, Given, Log!Nowhere

LEMMA EntriesSame ==
  ASSUME changes' \cup purged' = changes \cup purged
  PROVE  Entries' = Entries
BY PublishedSame DEF Entries

LEMMA PositionsSame ==
  ASSUME reader' = reader
  PROVE  Positions' = Positions /\ Given' = Given
BY DEF Positions, Position, Given, Log!Nowhere

(* A commit appends to the log of the Table that it holds. *)
LEMMA CommitAppends ==
  ASSUME TypeOK, FeedInv, [Next]_vars, NEW w \in Writers, CommitMutation(w) \/ CommitLifecycle(w)
  PROVE  \E t \in Tables : Log!Append(t)
<1>1. PICK t \in Tables : t = txn[w].table
  BY DEF TypeOK, Transaction
<1>2. changes' = changes \cup RowsOf(w) /\ UNCHANGED <<purged, watermark, reader>>
  BY DEF CommitMutation, CommitLifecycle
<1>3. \A u \in Tables \ {t} : Published(u)' = Published(u)
  BY <1>1, <1>2, PublishedGrows
<1>4. /\ Published(t) \subseteq Published(t)'
      /\ \A s \in Published(t)' \ Published(t) : 0 < s /\ \A p \in Published(t) : p < s
  BY LogGrows
<1>5. \A c \in Readers : Position(c).table = t => Position(c).seq \in {0} \cup Published(t)
  BY DEF Position, Log!Nowhere, FeedInv, CursorsPublished
<1>6. /\ Entries[t] \subseteq Entries'[t]
      /\ \A s \in Entries'[t] \ Entries[t] :
           /\ \A r \in Entries[t] : r < s
           /\ \A c \in Readers : Positions[c].table = t => Positions[c].seq < s
      /\ \A u \in Tables \ {t} : Entries'[u] = Entries[u]
  BY <1>3, <1>4, <1>5 DEF Entries, Positions
<1>7. Positions' = Positions /\ Given' = Given
  BY <1>2, PositionsSame
<1>8. Log!Append(t)
  BY <1>2, <1>6, <1>7 DEF Log!Append, Entries, Positions, Position, Given, Log!Nowhere
<1> QED BY <1>8

(* Cleanup forgets, and nothing else. *)
LEMMA CleanupForgets ==
  ASSUME TypeOK, FeedInv, [Next]_vars, CleanerStep
  PROVE  Log!Forget
<1>1. changes' \cup purged' = changes \cup purged /\ reader' = reader
  <2>1. cleaner.doomed \subseteq changes
    BY DEF FeedInv
  <2> QED BY <2>1 DEF CleanerStep, StartCleanup, DeleteBatch, CommitBatch, AbortCleanup
<1>2. \A t \in Tables : watermark[t] <= watermark'[t] /\ watermark'[t] \in {watermark[t]} \cup Entries[t]
  BY WatermarkGrows DEF Entries
<1>3. Entries' = Entries /\ Positions' = Positions /\ Given' = Given
  BY <1>1, EntriesSame, PositionsSame
<1> QED BY <1>2, <1>3 DEF Log!Forget, Entries, Positions, Position, Given, Log!Nowhere

(* What a client's step leaves alone. *)
LEMMA OthersStay ==
  ASSUME TypeOK, NEW c \in Readers, ReaderStep(c)
  PROVE  /\ Entries' = Entries /\ UNCHANGED watermark
         /\ \A d \in Readers \ {c} : reader'[d] = reader[d]
<1>1. UNCHANGED <<changes, purged, watermark>>
  BY DEF ReaderStep, Subscribe, Adopt, PullTail, PullWatermark, PullRows, DeliverPage,
         LosePage, StartOver, FeedUnchanged
<1>2. \A d \in Readers \ {c} : reader'[d] = reader[d]
  BY DEF TypeOK, ReaderStep, Subscribe, Adopt, Follow, PullTail, PullWatermark, PullRows,
         DeliverPage, LosePage, StartOver
<1> QED BY <1>1, <1>2, EntriesSame

LEMMA StartRefined ==
  ASSUME TypeOK, NEW c \in Readers, ReaderStep(c), reader'[c].got = {},
         \/ reader'[c].pc = "new"
         \/ \E t \in Tables : \E n \in {0} \cup Entries[t] :
              reader'[c].pc # "new" /\ reader'[c].table = t /\ reader'[c].cursor = n
  PROVE  Log!Start(c)
<1>1. /\ Entries' = Entries /\ UNCHANGED watermark
      /\ \A d \in Readers \ {c} : Positions'[d] = Positions[d] /\ Given'[d] = Given[d]
  BY OthersStay DEF Positions, Position, Given, Log!Nowhere
<1>2. Given'[c] = {}
  BY DEF Given
<1>3. \/ Positions'[c] = Log!Nowhere
      \/ \E t \in Tables : \E n \in {0} \cup Entries[t] : Positions'[c] = [table |-> t, seq |-> n]
  BY DEF Positions, Position, Log!Nowhere
<1> QED BY <1>1, <1>2, <1>3 DEF Log!Start, Log!OthersUnchanged, Entries, Positions, Position, Given, Log!Nowhere

(* A delivery moves the client to the end of its page and gives it what it passes. *)
LEMMA AdvanceRefined ==
  ASSUME TypeOK, FeedInv, FollowInv, NEW c \in Readers, DeliverPage(c)
  PROVE  Log!Advance(c)
<1>1. PICK r \in Follower : r = reader[c] /\ r.pc = "page"
  BY DEF TypeOK, DeliverPage
<1>2. PICK t \in Tables : t = r.table
  BY DEF Follower
<1>3. reader'[c] = AfterRequest([r EXCEPT !.cursor = r.next, !.got = @ \cup r.page])
  BY <1>1 DEF TypeOK, DeliverPage
<1>4. /\ reader'[c].pc = "idle" /\ reader'[c].table = t /\ reader'[c].cursor = r.next
      /\ reader'[c].got = r.got \cup r.page
  BY <1>2, <1>3 DEF AfterRequest, Follower
<1>5. /\ r.cursor <= r.next
      /\ r.page \subseteq {s \in Entries[t] : r.cursor < s /\ s <= r.next}
      /\ \A s \in Entries[t] : r.cursor < s /\ s <= r.next /\ watermark[t] < s => s \in r.page
  BY <1>1, <1>2 DEF FollowInv, FollowTrue, Entries
<1>6. r.next \in {r.cursor} \cup Entries[t]
  <2>1. r.next \in {0} \cup Published(t)
    BY <1>1, <1>2 DEF FeedInv, CursorsPublished
  <2>2. r.next = 0 => r.cursor = 0
    BY <1>5 DEF Follower
  <2> QED BY <2>1, <2>2 DEF Entries
<1>7. /\ Entries' = Entries /\ UNCHANGED watermark
      /\ \A d \in Readers \ {c} : Positions'[d] = Positions[d] /\ Given'[d] = Given[d]
  <2>1. ReaderStep(c)
    BY DEF ReaderStep
  <2> QED BY <2>1, OthersStay DEF Positions, Position, Given, Log!Nowhere
<1>8. /\ Positions[c] = [table |-> t, seq |-> r.cursor] /\ Given[c] = r.got
      /\ Positions'[c] = [table |-> t, seq |-> r.next] /\ Given'[c] = r.got \cup r.page
  BY <1>1, <1>2, <1>4 DEF Positions, Position, Given
<1>9. Log!OthersUnchanged(c)
  BY <1>7 DEF Log!OthersUnchanged, Entries, Positions, Position, Given, Log!Nowhere
<1> DEFINE passed == {s \in Entries[t] : Positions[c].seq < s /\ s <= Positions'[c].seq}
<1>10. /\ Positions[c].table \in Tables /\ Positions'[c].table = Positions[c].table
       /\ Positions[c].seq <= Positions'[c].seq
       /\ Positions'[c].seq \in {Positions[c].seq} \cup Entries[t]
       /\ {s \in passed : watermark[t] < s} \subseteq Given'[c]
       /\ Given[c] \subseteq Given'[c]
       /\ Given'[c] \subseteq Given[c] \cup passed
  BY <1>5, <1>6, <1>8
<1>11. Positions[c].table = t
  BY <1>8
<1> QED BY <1>9, <1>10, <1>11 DEF Log!Advance, Entries, Positions, Position, Given, Log!Nowhere

(* Each statement of a pull, and a lost response, leave the log alone. *)
LEMMA ReaderRefined ==
  ASSUME TypeOK, TypeOK', FeedInv, FollowInv, NEW c \in Readers, ReaderStep(c)
  PROVE  Log!Start(c) \/ Log!Advance(c) \/ UNCHANGED Log!vars
<1>1. PICK r \in Follower : r = reader[c]
  BY DEF TypeOK
<1>2. ASSUME NEW t \in Tables, NEW n \in {0} \cup Published(t), Follow(c, t, n) PROVE Log!Start(c)
  <2>1. reader'[c] = [NewFollower EXCEPT !.pc = "idle", !.table = t, !.cursor = n, !.base = n]
    BY <1>2 DEF Follow, TypeOK
  <2>2. reader'[c].pc = "idle" /\ reader'[c].table = t /\ reader'[c].cursor = n /\ reader'[c].got = {}
    BY <2>1 DEF NewFollower
  <2>3. n \in {0} \cup Entries[t]
    BY DEF Entries
  <2> QED BY <2>2, <2>3, StartRefined
<1>3. CASE Subscribe(c)
  <2>1. PICK t \in Tables : \E n \in {0} \cup Live(t) : Follow(c, t, n)
    BY <1>3 DEF Subscribe, TypeOK
  <2> QED BY <1>2, <2>1, LiveIn
<1>4. ASSUME NEW w \in Writers, Adopt(c, w) PROVE Log!Start(c)
  <2>1. txn[w].table \in Tables /\ txn[w].tail \in {0} \cup Published(txn[w].table)
    BY <1>4 DEF Adopt, FeedInv, CursorsPublished, TypeOK, Transaction
  <2>2. Follow(c, txn[w].table, txn[w].tail)
    BY <1>4 DEF Adopt
  <2> QED BY <1>2, <2>1, <2>2
<1>5. CASE StartOver(c)
  <2>1. reader'[c] = NewFollower
    BY <1>5 DEF StartOver, TypeOK
  <2>2. reader'[c].pc = "new" /\ reader'[c].got = {}
    BY <2>1 DEF NewFollower
  <2> QED BY <2>2, StartRefined
<1>6. CASE DeliverPage(c)
  BY <1>6, AdvanceRefined
<1>7. CASE PullTail(c) \/ PullWatermark(c) \/ PullRows(c) \/ LosePage(c)
  <2>1. /\ r.pc # "new" /\ reader'[c].pc # "new" /\ reader'[c].table = r.table
        /\ reader'[c].cursor = r.cursor /\ reader'[c].got = r.got
    <3>1. CASE PullTail(c)
      BY <1>1, <3>1 DEF PullTail, TypeOK, Follower
    <3>2. CASE PullWatermark(c)
      <4>1. PICK pc \in {"invalid", "expired", "checked"} :
              reader' = [reader EXCEPT ![c] = [r EXCEPT !.pc = pc]]
        BY <1>1, <3>2 DEF PullWatermark, Verdict
      <4>2. r.pc = "tailRead"
        BY <1>1, <3>2 DEF PullWatermark
      <4> QED BY <4>1, <4>2 DEF TypeOK, Follower
    <3>3. CASE PullRows(c)
      BY <1>1, <3>3 DEF PullRows, TypeOK, Follower
    <3>4. CASE LosePage(c)
      <4>1. reader'[c] = AfterRequest(r) /\ r.pc = "page"
        BY <1>1, <3>4 DEF LosePage, TypeOK
      <4> QED BY <4>1 DEF AfterRequest, Follower
    <3> QED BY <1>7, <3>1, <3>2, <3>3, <3>4
  <2>2. Positions'[c] = Positions[c] /\ Given'[c] = Given[c]
    BY <1>1, <2>1 DEF Positions, Position, Given
  <2>3. /\ Entries' = Entries /\ UNCHANGED watermark
        /\ \A d \in Readers \ {c} : Positions'[d] = Positions[d] /\ Given'[d] = Given[d]
    BY OthersStay DEF Positions, Position, Given, Log!Nowhere
  <2>4. Positions' = Positions /\ Given' = Given
    BY <2>2, <2>3 DEF Positions, Given
  <2> QED BY <2>3, <2>4, LogStutters
<1> QED BY <1>3, <1>4, <1>5, <1>6, <1>7 DEF ReaderStep

(* Every step of the feed is a step of the log or leaves it alone. *)
LEMMA StepRefined ==
  ASSUME TypeOK, TypeOK', FeedInv, FollowInv, [Next]_vars
  PROVE  [Log!Next]_(Log!vars)
<1>1. ASSUME NEW c \in Readers, ReaderStep(c) PROVE [Log!Next]_(Log!vars)
  BY <1>1, ReaderRefined DEF Log!Next
<1>2. CASE CleanerStep
  BY <1>2, CleanupForgets DEF Log!Next
<1>3. ASSUME NEW w \in Writers, CommitMutation(w) \/ CommitLifecycle(w) PROVE [Log!Next]_(Log!vars)
  BY <1>3, CommitAppends DEF Log!Next
<1>4. CASE UNCHANGED <<changes, purged, watermark, reader>>
  BY <1>4, EntriesSame, PositionsSame, LogStutters
<1>5. ASSUME NEW w \in Writers, WriterStep(w)
      PROVE  UNCHANGED <<changes, purged, watermark, reader>> \/ CommitMutation(w) \/ CommitLifecycle(w)
  BY <1>5 DEF WriterStep, BeginTx, LockTable, InsertChange, ReadTail, RollbackTx
<1>6. CASE Tick \/ UNCHANGED vars
  BY <1>4, <1>6 DEF Tick, vars
<1> QED BY <1>1, <1>2, <1>3, <1>4, <1>5, <1>6 DEF Next

(* The feed keeps the promise of ChangeLog: the log of a Table grows at its *)
(* end and beyond every cursor handed out, retention forgets published rows *)
(* only, and a pull gives a client all it passes that is not forgotten.     *)
THEOREM FeedRefinesLog == Spec => ImplementsChangeLog
<1>1. Init => Log!Init
  BY DEF Init, Log!Init, Log!Nowhere, NewFollower, Published, Live, Gone, SeqsOf
<1>2. TypeOK /\ TypeOK' /\ FeedInv /\ FollowInv /\ [Next]_vars => [Log!Next]_(Log!vars)
  BY StepRefined
<1> QED BY <1>1, <1>2, FeedTypeOK, FeedInvariant, ClientsAreTold, PTL DEF Spec, ImplementsChangeLog, Log!Spec

=============================================================================

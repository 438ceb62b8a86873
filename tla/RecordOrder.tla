---------------------------- MODULE RecordOrder ----------------------------
(***************************************************************************)
(* The manual order of the Records of a Table: every Record has a position,*)
(* a floating-point number, a move gives it the midpoint of two others,    *)
(* and a client reads the Table in that order page by page.                *)
(*                                                                         *)
(* Every writer holds the Table FOR UPDATE until it commits, and a page is *)
(* read in one snapshot, so that each is one step.  Positions are multiples*)
(* of the distance between two adjacent floating-point numbers.            *)
(***************************************************************************)
EXTENDS Integers, FiniteSets, Sequences, FiniteSetsExt

CONSTANTS
  Records,   \* identities of Records, numbered as they sort
  Step,      \* 1024.0, in units of the resolution
  PageSize,  \* QueryPlan.Limit
  Readers,   \* clients that read the Table
  MaxTail,   \* bound: Changes
  None

ASSUME OrderAssumption ==
  /\ Records \subseteq Nat /\ IsFiniteSet(Records)
  /\ Step \in Nat \ {0, 1} /\ PageSize \in Nat \ {0} /\ MaxTail \in Nat
  /\ None \notin Records

VARIABLES
  row,   \* Records of the Table
  log,   \* Changes of the Table: the Record that each is about
  last,  \* history: what the last step was asked to do
  read   \* readings under way

vars == <<row, log, last, read>>

-----------------------------------------------------------------------------
Row == [state : {"none", "live", "deleted"}, position : Int, revision : Nat]

NoRow == [state |-> "none", position |-> 0, revision |-> 0]

Request == [op : {"none", "append", "move"}, record : Records \cup {None},
            before : Records \cup {None}, after : Records \cup {None}]

NoRequest == [op |-> "none", record |-> None, before |-> None, after |-> None]

Seen == [record : Records, position : Int, revision : Nat]

Idle == [pc |-> "idle", seen |-> <<>>, cursor |-> 0]

Live == {r \in Records : row[r].state = "live"}

Stored == {r \in Records : row[r].state # "none"}

Positions(rs) == {row[r].position : r \in rs}

(* No Change widens the range of the positions by more than one step, so    *)
(* that they stay where floating-point numbers are dense.                   *)
TypeOK ==
  /\ row \in [Records -> Row]
  /\ Positions(Stored) \subseteq -(Step * Len(log)) .. Step * (Cardinality(Records) + Len(log))
  /\ log \in Seq(Records)
  /\ last \in Request
  /\ \A c \in Readers : /\ read[c].pc \in {"idle", "more", "done"}
                       /\ read[c].seen \in Seq(Seen) /\ read[c].cursor \in 0 .. Len(log)

(* Some Records have been created, one after the other. *)
Init ==
  /\ \E n \in 0 .. Cardinality(Records) :
       row = [r \in Records |-> IF r <= n THEN [state |-> "live", position |-> r * Step, revision |-> 1] ELSE NoRow]
  /\ log = <<>>
  /\ last = NoRequest
  /\ read = [c \in Readers |-> Idle]

-----------------------------------------------------------------------------
(* The manual order; ties are decided by identity.                          *)
Before(k1, k2) == k1.position < k2.position \/ (k1.position = k2.position /\ k1.record < k2.record)

Key(r) == [record |-> r, position |-> row[r].position, revision |-> row[r].revision]

Precedes(r, s) == Before(Key(r), Key(s))

(* The mean of two floating-point numbers, rounded to the even one. *)
Mid(a, b) ==
  LET m == (a + b) \div 2 IN IF (a + b) % 2 = 0 \/ m % 2 = 0 THEN m ELSE m + 1

Write(r, new, request) ==
  /\ Len(log) < MaxTail
  /\ row' = [row EXCEPT ![r] = new]
  /\ log' = Append(log, r)
  /\ last' = request
  /\ UNCHANGED read

-----------------------------------------------------------------------------
(* insertRecord, for a command of MutateRecords and for DuplicateRecord.    *)

(* Deleted Records count, too. *)
LastPosition == IF Stored = {} THEN Step ELSE Max(Positions(Stored)) + Step

Appended(r) ==
  /\ row[r].state = "none"
  /\ Write(r, [state |-> "live", position |-> LastPosition, revision |-> 1],
           [op |-> "append", record |-> r, before |-> None, after |-> None])

CreateRecord == \E r \in Records : Appended(r)

DuplicateRecord(original) == original \in Live /\ \E r \in Records : Appended(r)

UpdateRecord(r) == r \in Live /\ Write(r, [row[r] EXCEPT !.revision = @ + 1], NoRequest)

DeleteRecord(r) == r \in Live /\ Write(r, [row[r] EXCEPT !.state = "deleted", !.revision = @ + 1], NoRequest)

RestoreRecord(r) ==
  row[r].state = "deleted" /\ Write(r, [row[r] EXCEPT !.state = "live", !.revision = @ + 1], NoRequest)

-----------------------------------------------------------------------------
(* MoveRecord *)

(* Mutant: the comparison is not strict. *)
LowerLoose(r, position) == {p \in Positions(Live \ {r}) : p <= position}

(* The positions before and after another, but for that of r.               *)
Lower(r, position) == {p \in Positions(Live \ {r}) : p < position}

Upper(r, position) == {p \in Positions(Live \ {r}) : p > position}

BeforePosition(r, before) ==
  LET p == row[before].position IN
  Mid(IF Lower(r, p) = {} THEN p - Step ELSE Max(Lower(r, p)), p)

AfterPosition(r, after) ==
  LET p == row[after].position IN
  Mid(p, IF Upper(r, p) = {} THEN p + Step ELSE Min(Upper(r, p)))

moveTargetPosition(r, before, after) ==
  IF before = None /\ after = None THEN Max(Positions(Live)) + Step
  ELSE IF after = None THEN BeforePosition(r, before)
  ELSE IF before = None THEN AfterPosition(r, after)
  ELSE Mid(row[after].position, row[before].position)

MoveRecord(r, before, after) ==
  /\ r \in Live
  /\ {before, after} \subseteq Live \cup {None} /\ r \notin {before, after}
  /\ before # None /\ after # None => row[after].position < row[before].position
  /\ Write(r, [row[r] EXCEPT !.position = moveTargetPosition(r, before, after)],
           [op |-> "move", record |-> r, before |-> before, after |-> after])

-----------------------------------------------------------------------------
(* QueryRecords, with manualSort.                                           *)

(* Mutant: the keyset has no identity to decide a tie. *)
BeyondPosition(key) == {r \in Live : row[r].position > key.position}

(* buildKeysetCondition *)
Beyond(key) == {r \in Live : Before(key, Key(r))}

(* ORDER BY r.position, r.id *)
InOrder(rs) ==
  CHOOSE q \in [1 .. Cardinality(rs) -> rs] : \A i, j \in DOMAIN q : i < j => Precedes(q[i], q[j])

ReadPage(c) ==
  /\ read[c].pc # "done"
  /\ LET seen == read[c].seen
         rest == IF seen = <<>> THEN Live ELSE Beyond(seen[Len(seen)])
         page == InOrder(rest)
         n    == IF Len(page) < PageSize THEN Len(page) ELSE PageSize
     IN  read' = [read EXCEPT ![c] =
                    [pc |-> IF Len(page) > n THEN "more" ELSE "done",
                     seen |-> seen \o [i \in 1 .. n |-> Key(page[i])],
                     cursor |-> IF @.pc = "idle" THEN Len(log) ELSE @.cursor]]
  /\ last' = NoRequest
  /\ UNCHANGED <<row, log>>

(* The client starts again, or its cursor has expired. *)
Restart(c) ==
  /\ read[c].pc # "idle"
  /\ read' = [read EXCEPT ![c] = Idle] /\ last' = NoRequest
  /\ UNCHANGED <<row, log>>

-----------------------------------------------------------------------------
Next ==
  \/ CreateRecord
  \/ \E r \in Records : DuplicateRecord(r) \/ UpdateRecord(r) \/ DeleteRecord(r) \/ RestoreRecord(r)
  \/ \E r \in Records : \E before, after \in Records \cup {None} : MoveRecord(r, before, after)
  \/ \E c \in Readers : ReadPage(c) \/ Restart(c)

Spec == Init /\ [][Next]_vars

-----------------------------------------------------------------------------
(* Properties *)

(* The pages of a reading and the Changes after its first page together tell *)
(* everything: a Record that the client read twice, missed, or has in an old *)
(* version or at an old place is one that a Change names (change.go,         *)
(* QueryRecords).                                                            *)
PagesAndChangesComplete ==
  /\ TypeOK
  /\ \A c \in Readers : read[c].pc = "done" =>
       LET changed == {log[i] : i \in read[c].cursor + 1 .. Len(log)} IN
       \A r \in Records \ changed :
         LET places == {i \in DOMAIN read[c].seen : read[c].seen[i].record = r} IN
         /\ Cardinality(places) = (IF r \in Live THEN 1 ELSE 0)
         /\ \A i \in places : read[c].seen[i] = Key(r)

Others == Live \ {last.record}

Distinct == \A r, s \in Others : r # s => row[r].position # row[s].position

(* There is a number between those of the other Records. *)
Room == \A p, q \in Positions(Others) : p < q => p + 1 < q

Between(r, lower, upper) == (lower # None => Precedes(lower, r)) /\ (upper # None => Precedes(r, upper))

Adjacent(r, s) == Precedes(r, s) /\ ~\E o \in Live \ {r, s} : Precedes(r, o) /\ Precedes(o, s)

(* What the request of a move, a creation or a duplication says. *)
AsAsked ==
  LET r == last.record IN
  IF last.before = None /\ last.after = None THEN \A s \in Others : Precedes(s, r)
  ELSE IF last.before # None /\ last.after # None THEN Between(r, last.after, last.before)
  ELSE IF last.before # None THEN Adjacent(r, last.before) ELSE Adjacent(last.after, r)

(* A Record is placed as it was asked, at the edges and beside deleted       *)
(* Records, too, if the others are apart (moveTargetPosition).               *)
PlacedAsAsked == last.op # "none" /\ Distinct /\ Room => AsAsked

=============================================================================

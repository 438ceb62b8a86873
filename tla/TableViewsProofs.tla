-------------------------- MODULE TableViewsProofs --------------------------
(***************************************************************************)
(* Theorems about TableViews, for every value of its constants: any number *)
(* of Views, clients, keys and connections, and any limit.                 *)
(***************************************************************************)
EXTENDS TableViews, FiniteSetTheorems, SequenceTheorems, TLAPS

(***************************************************************************)
(* The inductive invariant.                                                *)
(***************************************************************************)

Distinct(s) == \A i, j \in DOMAIN s : s[i] = s[j] => i = j

\* What a listing compares: the order holds every active View once.
Agrees(ids, rows) == Elems(ids) = Live(rows) /\ Distinct(ids)

\* CreateTx counts the Views that exist, deleted or not.
ViewsCounted == IsFiniteSet(Existing) /\ Cardinality(Existing) <= ViewLimit

DefaultAlone == \A v, w \in Defaults : v = w

LiveExist == \A v \in Views : view[v].live => view[v].rev > 0

\* Order and Views of one snapshot agree.
SnapshotsAgree ==
  \A c \in Clients :
    /\ list[c].pc # "failed"
    /\ list[c].pc \in {"begun", "ordered"} => Agrees(list[c].snapOrder.ids, list[c].snapView)
    /\ list[c].pc = "ordered" => list[c].order = list[c].snapOrder

\* An order of the past has a smaller Revision.
Past(rev, ids) == rev <= order.rev /\ (rev = order.rev => ids = order.ids)

OrdersPast ==
  /\ order.rev > 1
  /\ \A c \in Clients : /\ Past(list[c].order.rev, list[c].order.ids)
                        /\ Past(list[c].snapOrder.rev, list[c].snapOrder.ids)
  /\ \A k \in Keys : request[k].op = "reorder" => Past(request[k].rev, request[k].saw)

\* So has a row of the past.
RowPast(v, r) == r.rev <= view[v].rev /\ (r.rev = view[v].rev /\ r.rev > 0 => r = view[v])

RowsPast == \A c \in Clients, v \in Views : RowPast(v, list[c].view[v]) /\ RowPast(v, list[c].snapView[v])

\* What a client edits is what it has listed.
EditsListed ==
  \A c \in Clients : edit[c].at # None =>
    /\ list[c].pc = "done" /\ edit[c].rev > 0
    /\ list[c].view[edit[c].at].rev = edit[c].rev

HandlersHaveRequests ==
  \A h \in Handlers : handler[h] # None => request[handler[h]] # NoRequest

\* A key that is new has left nothing, and what a reorder has left is one answer.
KeyTrue(k) ==
  /\ request[k] = NoRequest => told[k] = {} /\ receipt[k] = "none" /\ ~guard[k]
  /\ request[k].op = "reorder" =>
       /\ receipt[k] \in {"none", "applied", "unchanged"}
       /\ receipt[k] # "none" => guard[k] /\ told[k] \subseteq {receipt[k]}
       /\ ~guard[k] => told[k] = {}
       /\ told[k] \subseteq {"applied", "unchanged", "expired"}
       /\ \A x, y \in told[k] \ {"expired"} : x = y

KeysTrue == \A k \in Keys : KeyTrue(k)

RowsInv == Agrees(order.ids, view) /\ ViewsCounted /\ DefaultAlone /\ LiveExist

ClientsInv == SnapshotsAgree /\ OrdersPast /\ RowsPast /\ EditsListed

TableViewsInv == TypeOK /\ RowsInv /\ ClientsInv /\ HandlersHaveRequests /\ KeysTrue

(***************************************************************************)
(* Orders.                                                                 *)
(***************************************************************************)

\* A sequence is as long as it has members exactly when it has none twice.
LEMMA DistinctLength ==
  ASSUME NEW s \in Seq(Views)
  PROVE  /\ IsFiniteSet(Elems(s)) /\ Cardinality(Elems(s)) \in Nat
         /\ Cardinality(Elems(s)) = Len(s) <=> Distinct(s)
<1>1. s \in Surjection(1..Len(s), Elems(s))
  <2>1. s \in [1..Len(s) -> Elems(s)]
    BY DEF Elems
  <2>2. \A t \in Elems(s) : \E i \in 1..Len(s) : s[i] = t
    BY DEF Elems
  <2> QED BY <2>1, <2>2 DEF Surjection
<1>2. IsFiniteSet(1..Len(s)) /\ Cardinality(1..Len(s)) = Len(s)
  <2>1. Len(s) \in Nat /\ 1 \in Int /\ Len(s) \in Int
    BY LenProperties
  <2>2. IsFiniteSet(1..Len(s)) /\ Cardinality(1..Len(s)) = IF 1 > Len(s) THEN 0 ELSE Len(s) - 1 + 1
    BY <2>1, FS_Interval
  <2> QED BY <2>1, <2>2
<1>3. s \in Injection(1..Len(s), Elems(s)) <=> Distinct(s)
  <2>1. s \in [1..Len(s) -> Elems(s)] /\ DOMAIN s = 1..Len(s)
    BY <1>1 DEF Surjection
  <2> QED BY <2>1 DEF Injection, IsInjective, Distinct
<1> QED BY <1>1, <1>2, <1>3, FS_Surjection, FS_CardinalityType

\* What is left when a View is taken from an order.
LEMMA WithoutOne ==
  ASSUME NEW ids \in Seq(Views), NEW v \in Views, Distinct(ids)
  PROVE  /\ Without(ids, v) \in Seq(Views) /\ Distinct(Without(ids, v))
         /\ Elems(Without(ids, v)) = Elems(ids) \ {v}
<1>1. CASE v \notin Elems(ids)
  BY <1>1 DEF Without
<1>2. CASE v \in Elems(ids)
  <2>1. PICK n \in Nat : n = Len(ids) /\ ids \in [1..n -> Views] /\ DOMAIN ids = 1..n
    BY LenProperties
  <2>2. PICK i \in 1..n : ids[i] = v /\ i = CHOOSE j \in DOMAIN ids : ids[j] = v
    BY <1>2, <2>1 DEF Elems
  <2>3. PICK a \in Seq(Views) : a = SubSeq(ids, 1, i - 1) /\ Len(a) = i - 1
                                /\ \A j \in 1..(i - 1) : a[j] = ids[j]
    <3>1. \A j \in 1..(i - 1) : ids[j] \in Views
      BY <2>1, <2>2
    <3>2. 1 \in Int /\ i - 1 \in Int
      BY <2>2
    <3>3. /\ SubSeq(ids, 1, i - 1) \in Seq(Views)
          /\ Len(SubSeq(ids, 1, i - 1)) = IF 1 <= i - 1 THEN (i - 1) - 1 + 1 ELSE 0
          /\ \A j \in 1..((i - 1) - 1 + 1) : SubSeq(ids, 1, i - 1)[j] = ids[1 + j - 1]
      BY <3>1, <3>2, SubSeqProperties
    <3>4. /\ Len(SubSeq(ids, 1, i - 1)) = i - 1
          /\ \A j \in 1..(i - 1) : SubSeq(ids, 1, i - 1)[j] = ids[j]
      BY <2>1, <2>2, <3>3
    <3> QED BY <3>3, <3>4
  <2>4. PICK b \in Seq(Views) : b = SubSeq(ids, i + 1, n) /\ Len(b) = n - i
                                /\ \A j \in 1..(n - i) : b[j] = ids[i + j]
    <3>1. \A j \in (i + 1)..n : ids[j] \in Views
      BY <2>1, <2>2
    <3>2. i + 1 \in Int /\ n \in Int
      BY <2>1, <2>2
    <3>3. /\ SubSeq(ids, i + 1, n) \in Seq(Views)
          /\ Len(SubSeq(ids, i + 1, n)) = IF i + 1 <= n THEN n - (i + 1) + 1 ELSE 0
          /\ \A j \in 1..(n - (i + 1) + 1) : SubSeq(ids, i + 1, n)[j] = ids[(i + 1) + j - 1]
      BY <3>1, <3>2, SubSeqProperties
    <3>4. n - (i + 1) + 1 = n - i /\ \A j \in 1..(n - i) : (i + 1) + j - 1 = i + j
      BY <2>1, <2>2
    <3>5. /\ Len(SubSeq(ids, i + 1, n)) = n - i
          /\ \A j \in 1..(n - i) : SubSeq(ids, i + 1, n)[j] = ids[i + j]
      <4>1. i \in Int /\ n \in Int /\ i <= n
        BY <2>1, <2>2
      <4>3. Len(SubSeq(ids, i + 1, n)) = n - i
        BY <3>3, <4>1
      <4>2. ASSUME NEW j \in 1..(n - i) PROVE SubSeq(ids, i + 1, n)[j] = ids[i + j]
        BY <3>3, <3>4
      <4> QED BY <4>2, <4>3
    <3> QED BY <3>3, <3>5
  <2>5. Without(ids, v) = a \o b
    BY <1>2, <2>1, <2>2, <2>3, <2>4 DEF Without, RemoveAt
  <2>6. PICK w \in Seq(Views) :
          /\ w = a \o b /\ w \in [1..(n - 1) -> Views] /\ DOMAIN w = 1..(n - 1)
          /\ \A j \in 1..(n - 1) : w[j] = ids[IF j < i THEN j ELSE j + 1]
    <3>1. /\ a \o b \in Seq(Views) /\ Len(a \o b) = Len(a) + Len(b)
          /\ \A j \in 1..(Len(a) + Len(b)) : (a \o b)[j] = IF j <= Len(a) THEN a[j] ELSE b[j - Len(a)]
      BY ConcatProperties
    <3>2. Len(a) + Len(b) = n - 1 /\ Len(a) = i - 1
      <4>1. Len(a) = i - 1 /\ Len(b) = n - i /\ i \in Int /\ n \in Int
        BY <2>1, <2>2, <2>3, <2>4
      <4> QED BY <4>1
    <3>3. ASSUME NEW j \in 1..(n - 1) PROVE (a \o b)[j] = ids[IF j < i THEN j ELSE j + 1]
      <4>1. CASE j < i
        <5>1. j <= i - 1 /\ j \in 1..(i - 1)
          BY <2>2, <4>1
        <5> QED BY <2>3, <3>1, <3>2, <4>1, <5>1
      <4>2. CASE ~(j < i)
        <5>1. ~(j <= i - 1) /\ j - (i - 1) \in 1..(n - i) /\ i + (j - (i - 1)) = j + 1
          BY <2>1, <2>2, <4>2
        <5>2. (a \o b)[j] = b[j - (i - 1)]
          BY <3>1, <3>2, <5>1
        <5> QED BY <2>4, <4>2, <5>1, <5>2
      <4> QED BY <4>1, <4>2
    <3>4. a \o b \in [1..(n - 1) -> Views] /\ DOMAIN (a \o b) = 1..(n - 1)
      BY <3>1, <3>2, LenProperties
    <3> QED BY <3>1, <3>3, <3>4
  <2>7. \A j \in 1..(n - 1) : (IF j < i THEN j ELSE j + 1) \in (1..n) \ {i}
    <3> TAKE j \in 1..(n - 1)
    <3>0. j \in Int /\ 1 <= j /\ j <= n - 1 /\ n \in Int /\ i \in Int /\ 1 <= i /\ i <= n
      OBVIOUS
    <3>1. CASE j < i
      <4>1. j \in 1..n /\ j # i
        BY <3>0, <3>1
      <4> QED BY <3>1, <4>1
    <3>2. CASE ~(j < i)
      <4>1. j + 1 \in 1..n /\ j + 1 # i
        BY <3>0, <3>2
      <4> QED BY <3>2, <4>1
    <3> QED BY <3>1, <3>2
  <2>8. \A k \in (1..n) \ {i} : \E j \in 1..(n - 1) : w[j] = ids[k]
    <3> TAKE k \in (1..n) \ {i}
    <3>1. CASE k < i
      <4>1. k \in 1..(n - 1)
        BY <2>1, <2>2, <3>1
      <4> QED BY <2>6, <3>1, <4>1
    <3>2. CASE ~(k < i)
      <4>1. k - 1 \in 1..(n - 1) /\ ~(k - 1 < i) /\ (k - 1) + 1 = k
        BY <2>1, <2>2, <3>2
      <4>2. w[k - 1] = ids[k]
        BY <2>6, <4>1
      <4> QED BY <4>1, <4>2
    <3> QED BY <3>1, <3>2
  <2>9. Distinct(w)
    <3> SUFFICES ASSUME NEW x \in 1..(n - 1), NEW y \in 1..(n - 1), w[x] = w[y] PROVE x = y
      BY <2>6 DEF Distinct
    <3>1. ids[IF x < i THEN x ELSE x + 1] = ids[IF y < i THEN y ELSE y + 1]
      BY <2>6
    <3>2. (IF x < i THEN x ELSE x + 1) = (IF y < i THEN y ELSE y + 1)
      BY <2>1, <2>7, <3>1 DEF Distinct
    <3> QED BY <2>1, <2>2, <3>2
  <2>10. Elems(w) = Elems(ids) \ {v}
    <3>1. \A x \in Elems(w) : x \in Elems(ids) \ {v}
      <4> TAKE x \in Elems(w)
      <4>1. PICK j \in 1..(n - 1) : x = w[j]
        BY <2>6 DEF Elems
      <4>2. PICK k \in (1..n) \ {i} : x = ids[k]
        BY <2>6, <2>7, <4>1
      <4> QED BY <2>1, <2>2, <4>2 DEF Elems, Distinct
    <3>2. \A x \in Elems(ids) \ {v} : x \in Elems(w)
      <4> TAKE x \in Elems(ids) \ {v}
      <4>1. PICK k \in (1..n) \ {i} : x = ids[k]
        BY <2>1, <2>2 DEF Elems
      <4>2. PICK j \in 1..(n - 1) : x = w[j]
        BY <2>8, <4>1
      <4> QED BY <2>6, <4>2 DEF Elems
    <3> QED BY <3>1, <3>2
  <2> QED BY <2>5, <2>6, <2>9, <2>10
<1> QED BY <1>1, <1>2

\* The trigger adds and removes one View, and raises the Revision of the order if it has
\* changed.
LEMMA MaintainedOrder ==
  ASSUME order \in Order, Distinct(order.ids), NEW v \in Views, NEW live \in BOOLEAN
  PROVE  /\ Maintained(v, live) \in Order /\ Distinct(Maintained(v, live).ids)
         /\ Elems(Maintained(v, live).ids) =
              IF live THEN Elems(order.ids) \cup {v} ELSE Elems(order.ids) \ {v}
         /\ \/ Maintained(v, live).rev = order.rev /\ Maintained(v, live).ids = order.ids
            \/ Maintained(v, live).rev = order.rev + 1
<1>1. order.rev \in Nat \ {0} /\ order.ids \in Seq(Views)
  BY DEF Order
<1>2. ASSUME v \notin Elems(order.ids)
      PROVE  LET ids == Append(order.ids, v)
             IN  /\ ids \in Seq(Views) /\ Distinct(ids) /\ Elems(ids) = Elems(order.ids) \cup {v}
  <2>1. PICK n \in Nat : n = Len(order.ids) /\ DOMAIN order.ids = 1..n
    BY <1>1
  <2>2. PICK ids \in Seq(Views) : /\ ids = Append(order.ids, v) /\ DOMAIN ids = 1..(n + 1)
                                  /\ \A j \in 1..n : ids[j] = order.ids[j]
                                  /\ ids[n + 1] = v
    <3>1. /\ Append(order.ids, v) \in Seq(Views) /\ Len(Append(order.ids, v)) = n + 1
          /\ \A j \in 1..n : Append(order.ids, v)[j] = order.ids[j]
          /\ Append(order.ids, v)[n + 1] = v
      BY <1>1, <2>1, AppendProperties
    <3>2. DOMAIN Append(order.ids, v) = 1..(n + 1)
      BY <3>1, LenProperties
    <3> QED BY <3>1, <3>2
  <2>3. \A j \in 1..n : ids[j] # v
    BY <1>2, <2>1, <2>2 DEF Elems
  <2>4. Distinct(ids)
    BY <2>1, <2>2, <2>3 DEF Distinct
  <2>5. Elems(ids) = Elems(order.ids) \cup {v}
    <3>1. \A x \in Elems(ids) : x \in Elems(order.ids) \cup {v}
      BY <2>1, <2>2 DEF Elems
    <3>2. Elems(order.ids) \subseteq Elems(ids)
      BY <2>1, <2>2 DEF Elems
    <3>3. v \in Elems(ids)
      BY <2>2 DEF Elems
    <3> QED BY <3>1, <3>2, <3>3
  <2> QED BY <2>2, <2>4, <2>5
<1>3. PICK ids \in Seq(Views) :
        /\ Distinct(ids)
        /\ Elems(ids) = IF live THEN Elems(order.ids) \cup {v} ELSE Elems(order.ids) \ {v}
        /\ Maintained(v, live) = [rev |-> IF ids = order.ids THEN order.rev ELSE order.rev + 1, ids |-> ids]
  <2>1. CASE live /\ v \in Elems(order.ids)
    BY <1>1, <2>1 DEF Maintained
  <2>2. CASE live /\ v \notin Elems(order.ids)
    BY <1>2, <2>2 DEF Maintained
  <2>3. CASE ~live
    BY <1>1, <2>3, WithoutOne DEF Maintained
  <2> QED BY <2>1, <2>2, <2>3
<1> QED BY <1>1, <1>3 DEF Order

(***************************************************************************)
(* Rows of Views.                                                          *)
(***************************************************************************)

\* The limit on Views is one on the order, too.
LEMMA OrderFits ==
  ASSUME NEW ids \in Seq(Views), NEW rows \in [Views -> View], Agrees(ids, rows),
         NEW existing, existing = {v \in Views : rows[v].rev > 0},
         IsFiniteSet(existing), Cardinality(existing) <= ViewLimit
  PROVE  Len(ids) <= ViewLimit
<1>1. Live(rows) \in SUBSET existing
  BY DEF Live
<1>2. Cardinality(Elems(ids)) <= Cardinality(existing)
  BY <1>1, FS_Subset DEF Agrees
<1>3. Cardinality(Elems(ids)) = Len(ids) /\ Cardinality(Elems(ids)) \in Nat
  BY DistinctLength DEF Agrees
<1>4. Cardinality(existing) \in Nat /\ ViewLimit \in Nat
  BY FS_CardinalityType, ViewsAssumption
<1> QED BY <1>2, <1>3, <1>4

\* One View is created, changed, deleted or restored, with its order.
LEMMA RowKeepsRows ==
  ASSUME view \in [Views -> View], order \in Order, RowsInv, NEW v \in Views, NEW r \in View,
         view' = [view EXCEPT ![v] = r], r.rev = view[v].rev + 1,
         \/ order' = Maintained(v, r.live)
         \/ order' = order /\ r.live = view[v].live /\ view[v].rev > 0,
         view[v].rev = 0 => Cardinality(Existing) < ViewLimit,
         r.isDefault /\ r.live => v \in Defaults
  PROVE  /\ view' \in [Views -> View] /\ order' \in Order /\ RowsInv'
         /\ Len(order'.ids) <= ViewLimit
         /\ \A w \in Views : view'[w] = view[w] \/ view'[w].rev = view[w].rev + 1
         /\ order' = order \/ order'.rev = order.rev + 1
<1>1. /\ view' \in [Views -> View]
      /\ \A w \in Views : view'[w] = IF w = v THEN r ELSE view[w]
  OBVIOUS
<1>2. Agrees(order.ids, view) /\ ViewsCounted /\ DefaultAlone /\ LiveExist
  BY DEF RowsInv
<1>3. view[v].rev \in Nat /\ r.rev > 0 /\ r.live \in BOOLEAN
  BY DEF View
<1>4. Live(view') = IF r.live THEN Live(view) \cup {v} ELSE Live(view) \ {v}
  BY <1>1, <1>3 DEF Live
<1>5. /\ order' \in Order /\ Agrees(order'.ids, view')
      /\ order' = order \/ order'.rev = order.rev + 1
  <2>1. CASE order' = Maintained(v, r.live)
    <3>1. PICK m \in Order : m = Maintained(v, r.live)
      BY <1>2, <1>3, MaintainedOrder DEF Agrees
    <3>2. /\ Distinct(m.ids)
          /\ Elems(m.ids) = IF r.live THEN Elems(order.ids) \cup {v} ELSE Elems(order.ids) \ {v}
          /\ (m.rev = order.rev /\ m.ids = order.ids) \/ m.rev = order.rev + 1
      BY <1>2, <1>3, <3>1, MaintainedOrder DEF Agrees
    <3>3. m = order \/ m.rev = order.rev + 1
      BY <3>1, <3>2 DEF Order
    <3>4. Agrees(m.ids, view')
      BY <1>2, <1>3, <1>4, <3>2 DEF Agrees
    <3> QED BY <2>1, <3>1, <3>3, <3>4
  <2>2. CASE order' = order /\ r.live = view[v].live /\ view[v].rev > 0
    <3>1. Live(view') = Live(view)
      BY <1>4, <2>2 DEF Live
    <3> QED BY <1>2, <2>2, <3>1 DEF Agrees
  <2> QED BY <2>1, <2>2
<1>6. Existing' = Existing \cup {v}
  BY <1>1, <1>3 DEF Existing
<1>7. ViewsCounted'
  <2>1. IsFiniteSet(Existing \cup {v}) /\ Cardinality(Existing) \in Nat /\ ViewLimit \in Nat
        /\ Cardinality(Existing \cup {v}) = IF v \in Existing THEN Cardinality(Existing)
                                            ELSE Cardinality(Existing) + 1
    BY <1>2, FS_AddElement, FS_CardinalityType, ViewsAssumption DEF ViewsCounted
  <2>2. v \in Existing \/ Cardinality(Existing) < ViewLimit
    BY <1>3 DEF Existing
  <2>3. Cardinality(Existing \cup {v}) <= ViewLimit
    BY <1>2, <2>1, <2>2 DEF ViewsCounted
  <2> QED BY <1>6, <2>1, <2>3 DEF ViewsCounted
<1>8. DefaultAlone'
  <2>1. Defaults' \subseteq Defaults
    BY <1>1 DEF Defaults
  <2> QED BY <1>2, <2>1 DEF DefaultAlone
<1>9. Len(order'.ids) <= ViewLimit
  <2>1. order'.ids \in Seq(Views)
    BY <1>5 DEF Order
  <2>2. Existing' = {w \in Views : view'[w].rev > 0}
    BY DEF Existing
  <2>3. IsFiniteSet(Existing') /\ Cardinality(Existing') <= ViewLimit
    BY <1>7 DEF ViewsCounted
  <2> QED BY <1>1, <1>5, <2>1, <2>2, <2>3, OrderFits
<1>10. \A w \in Views : view'[w] = view[w] \/ view'[w].rev = view[w].rev + 1
  BY <1>1
<1>11. LiveExist'
  BY <1>1, <1>2, <1>3 DEF LiveExist
<1> QED BY <1>1, <1>5, <1>7, <1>8, <1>9, <1>10, <1>11 DEF RowsInv

\* The flag of a View is set or taken.
LEMMA FlagChange ==
  ASSUME NEW q \in View, NEW flag \in BOOLEAN, NEW r,
         r = [q EXCEPT !.rev = q.rev + 1, !.isDefault = flag]
  PROVE  /\ r \in View /\ r.rev = q.rev + 1 /\ r.live = q.live /\ r.uses = q.uses
         /\ r.isDefault = flag
<1>1. q.rev + 1 \in Nat /\ q.live \in BOOLEAN /\ q.uses \in BOOLEAN
  BY DEF View
<1>2. r = [rev |-> q.rev + 1, live |-> q.live, isDefault |-> flag, uses |-> q.uses]
  BY DEF View
<1> QED BY <1>1, <1>2 DEF View

\* The configuration is changed.
LEMMA UsesChange ==
  ASSUME NEW q \in View, NEW uses \in BOOLEAN
  PROVE  \E r \in View : /\ r = [q EXCEPT !.rev = q.rev + 1, !.uses = uses]
                         /\ r.rev = q.rev + 1 /\ r.live = q.live /\ r.isDefault = q.isDefault
<1>1. PICK r : r = [q EXCEPT !.rev = q.rev + 1, !.uses = uses]
  OBVIOUS
<1>2. q.rev + 1 \in Nat /\ q.live \in BOOLEAN /\ q.isDefault \in BOOLEAN
  BY DEF View
<1>3. r = [rev |-> q.rev + 1, live |-> q.live, isDefault |-> q.isDefault, uses |-> uses]
  BY <1>1 DEF View
<1> QED BY <1>1, <1>2, <1>3 DEF View

\* A View is deleted, which leaves the flag alone.
LEMMA Deletion ==
  ASSUME NEW q \in View
  PROVE  \E r \in View : /\ r = [q EXCEPT !.rev = q.rev + 1, !.live = FALSE]
                         /\ r.rev = q.rev + 1 /\ r.live = FALSE /\ r.uses = q.uses
<1>1. PICK r : r = [q EXCEPT !.rev = q.rev + 1, !.live = FALSE]
  OBVIOUS
<1>2. q.rev + 1 \in Nat /\ q.isDefault \in BOOLEAN /\ q.uses \in BOOLEAN
  BY DEF View
<1>3. r = [rev |-> q.rev + 1, live |-> FALSE, isDefault |-> q.isDefault, uses |-> q.uses]
  BY <1>1 DEF View
<1> QED BY <1>1, <1>2, <1>3 DEF View

\* A View comes back, which takes the flag.
LEMMA Restoration ==
  ASSUME NEW q \in View
  PROVE  \E r \in View : /\ r = [q EXCEPT !.rev = q.rev + 1, !.live = TRUE, !.isDefault = FALSE]
                         /\ r.rev = q.rev + 1 /\ r.live = TRUE /\ r.isDefault = FALSE /\ r.uses = q.uses
<1>1. PICK r : r = [q EXCEPT !.rev = q.rev + 1, !.live = TRUE, !.isDefault = FALSE]
  OBVIOUS
<1>2. q.rev + 1 \in Nat /\ q.uses \in BOOLEAN
  BY DEF View
<1>3. r = [rev |-> q.rev + 1, live |-> TRUE, isDefault |-> FALSE, uses |-> q.uses]
  BY <1>1 DEF View
<1> QED BY <1>1, <1>2, <1>3 DEF View

\* The previous default View gives the flag up.
LEMMA DefaultKeepsRows ==
  ASSUME view \in [Views -> View], order \in Order, RowsInv,
         NEW c \in Clients, NEW v \in Views, SetDefaultView(c, v)
  PROVE  /\ view' \in [Views -> View] /\ RowsInv'
         /\ \A w \in Views : /\ view'[w] = view[w] \/ view'[w].rev = view[w].rev + 1
                             /\ view'[w].live = view[w].live /\ view'[w].uses = view[w].uses
<1>1. ASSUME NEW w \in Views
      PROVE  /\ view'[w] \in View
             /\ view'[w] = view[w] \/ (view'[w].rev = view[w].rev + 1 /\ view[w].live)
             /\ view'[w].live = view[w].live /\ view'[w].uses = view[w].uses
             /\ view'[w].isDefault /\ view'[w].live => w = v
  <2>1. PICK q \in View : q = view[w]
    OBVIOUS
  <2>2. CASE w = v
    <3>1. view'[w] = [q EXCEPT !.rev = q.rev + 1, !.isDefault = TRUE]
      BY <2>1, <2>2 DEF SetDefaultView
    <3>2. view[w].live
      BY <2>2 DEF SetDefaultView
    <3>3. /\ view'[w] \in View /\ view'[w].rev = q.rev + 1 /\ view'[w].live = q.live
          /\ view'[w].uses = q.uses /\ view'[w].isDefault = TRUE
      BY <3>1, FlagChange
    <3> QED BY <2>1, <2>2, <3>2, <3>3
  <2>3. CASE w # v /\ w \in Defaults
    <3>1. view'[w] = [q EXCEPT !.rev = q.rev + 1, !.isDefault = FALSE]
      BY <2>1, <2>3 DEF SetDefaultView
    <3>2. view[w].live
      BY <2>3 DEF Defaults
    <3>3. /\ view'[w] \in View /\ view'[w].rev = q.rev + 1 /\ view'[w].live = q.live
          /\ view'[w].uses = q.uses /\ view'[w].isDefault = FALSE
      BY <3>1, FlagChange
    <3> QED BY <2>1, <3>2, <3>3
  <2>4. CASE w # v /\ w \notin Defaults
    <3>1. view'[w] = view[w]
      BY <2>4 DEF SetDefaultView
    <3> QED BY <2>1, <2>4, <3>1 DEF Defaults
  <2> QED BY <2>2, <2>3, <2>4
<1>2. view' \in [Views -> View]
  <2>1. view' = [w \in Views |-> view'[w]]
    BY DEF SetDefaultView
  <2> QED BY <1>1, <2>1
<1>3. \A w \in Views : view[w].rev \in Nat /\ (view'[w].rev > 0 <=> view[w].rev > 0)
                     /\ (view'[w].live => view'[w].rev > 0)
  <2> TAKE w \in Views
  <2>1. view[w].rev \in Nat
    BY DEF View
  <2>2. view[w].live => view[w].rev > 0
    BY DEF RowsInv, LiveExist
  <2>3. CASE view'[w] = view[w]
    BY <2>1, <2>2, <2>3
  <2>4. CASE view'[w].rev = view[w].rev + 1 /\ view[w].live
    BY <2>1, <2>2, <2>4
  <2> QED BY <1>1, <2>3, <2>4
<1>4. Live(view') = Live(view) /\ Existing' = Existing /\ LiveExist'
  BY <1>1, <1>3 DEF Live, Existing, LiveExist
<1>5. Agrees(order'.ids, view') /\ ViewsCounted'
  BY <1>4 DEF RowsInv, Agrees, ViewsCounted, SetDefaultView
<1>6. DefaultAlone'
  BY <1>1 DEF DefaultAlone, Defaults
<1> QED BY <1>1, <1>2, <1>4, <1>5, <1>6 DEF RowsInv

(***************************************************************************)
(* What clients have seen.                                                 *)
(***************************************************************************)

\* What was seen stays seen when Views and order change.
LEMMA RowsChange ==
  ASSUME TypeOK, ClientsInv, view' \in [Views -> View], order' \in Order,
         order' = order \/ order'.rev = order.rev + 1,
         \A w \in Views : view'[w] = view[w] \/ view'[w].rev = view[w].rev + 1,
         UNCHANGED <<list, request>>,
         \A c \in Clients : edit'[c] = edit[c] \/ edit'[c] = NoEdit
  PROVE  ClientsInv'
<1>1. ASSUME NEW rev \in Nat, NEW ids, Past(rev, ids)
      PROVE  Past(rev, ids)'
  <2>1. order.rev \in Nat /\ order'.rev \in Nat
    BY DEF TypeOK, Order
  <2>2. CASE order' = order
    BY <1>1, <2>2 DEF Past
  <2>3. CASE order'.rev = order.rev + 1
    BY <1>1, <2>1, <2>3 DEF Past
  <2> QED BY <2>2, <2>3
<1>2. ASSUME NEW w \in Views, NEW r, r.rev \in Nat, RowPast(w, r)
      PROVE  RowPast(w, r)'
  <2>1. view[w].rev \in Nat /\ view'[w].rev \in Nat
    BY DEF TypeOK, View
  <2>2. CASE view'[w] = view[w]
    BY <1>2, <2>2 DEF RowPast
  <2>3. CASE view'[w].rev = view[w].rev + 1
    BY <1>2, <2>1, <2>3 DEF RowPast
  <2> QED BY <2>2, <2>3
<1>3. SnapshotsAgree'
  BY DEF ClientsInv, SnapshotsAgree, Agrees, Live
<1>4. OrdersPast'
  <2>1. ASSUME NEW c \in Clients
        PROVE  /\ list[c].order.rev \in Nat /\ list[c].snapOrder.rev \in Nat
               /\ Past(list[c].order.rev, list[c].order.ids)
               /\ Past(list[c].snapOrder.rev, list[c].snapOrder.ids)
    BY DEF TypeOK, Listing, Order, ClientsInv, OrdersPast
  <2>2. ASSUME NEW c \in Clients
        PROVE  /\ Past(list[c].order.rev, list[c].order.ids)'
               /\ Past(list[c].snapOrder.rev, list[c].snapOrder.ids)'
    <3>1. Past(list[c].order.rev, list[c].order.ids)'
      BY <1>1, <2>1 DEF Past
    <3>2. Past(list[c].snapOrder.rev, list[c].snapOrder.ids)'
      BY <1>1, <2>1 DEF Past
    <3> QED BY <3>1, <3>2
  <2>3. ASSUME NEW k \in Keys, request[k].op = "reorder"
        PROVE  Past(request[k].rev, request[k].saw)'
    <3>1. request[k].rev \in Nat /\ Past(request[k].rev, request[k].saw)
      BY <2>3 DEF TypeOK, Request, ClientsInv, OrdersPast
    <3> QED BY <1>1, <3>1 DEF Past
  <2>4. order'.rev > 1
    BY DEF TypeOK, Order, ClientsInv, OrdersPast
  <2> QED BY <2>2, <2>3, <2>4 DEF OrdersPast
<1>5. RowsPast'
  <2> SUFFICES ASSUME NEW c \in Clients, NEW w \in Views
      PROVE  RowPast(w, list[c].view[w])' /\ RowPast(w, list[c].snapView[w])'
    BY DEF RowsPast
  <2>1. list[c].view[w].rev \in Nat /\ list[c].snapView[w].rev \in Nat
    BY DEF TypeOK, Listing, View
  <2>2. RowPast(w, list[c].view[w]) /\ RowPast(w, list[c].snapView[w])
    BY DEF ClientsInv, RowsPast
  <2>3. RowPast(w, list[c].view[w])'
    BY <1>2, <2>1, <2>2 DEF RowPast
  <2>4. RowPast(w, list[c].snapView[w])'
    BY <1>2, <2>1, <2>2 DEF RowPast
  <2> QED BY <2>3, <2>4
<1>6. EditsListed'
  BY DEF ClientsInv, EditsListed, NoEdit
<1> QED BY <1>3, <1>4, <1>5, <1>6 DEF ClientsInv

\* A listing goes on.
LEMMA ListingChange ==
  ASSUME TableViewsInv, NEW c \in Clients, NEW l \in Listing, list' = [list EXCEPT ![c] = l],
         OnlyList, edit[c].at = None, l.pc # "failed",
         l.pc \in {"begun", "ordered"} => Agrees(l.snapOrder.ids, l.snapView),
         l.pc = "ordered" => l.order = l.snapOrder,
         Past(l.order.rev, l.order.ids), Past(l.snapOrder.rev, l.snapOrder.ids),
         \A v \in Views : RowPast(v, l.view[v]) /\ RowPast(v, l.snapView[v])
  PROVE  TableViewsInv'
<1>1. TypeOK /\ RowsInv /\ ClientsInv /\ HandlersHaveRequests /\ KeysTrue
  BY DEF TableViewsInv
<1>2. /\ list' \in [Clients -> Listing]
      /\ \A d \in Clients : list'[d] = IF d = c THEN l ELSE list[d]
  BY <1>1 DEF TypeOK
<1>3. TypeOK'
  BY <1>1, <1>2 DEF TypeOK, OnlyList
<1>4. RowsInv'
  BY <1>1 DEF RowsInv, Agrees, ViewsCounted, DefaultAlone, LiveExist, Existing, Defaults, Live, OnlyList
<1>5. SnapshotsAgree'
  <2> SUFFICES ASSUME NEW d \in Clients
      PROVE  /\ list'[d].pc # "failed"
             /\ list'[d].pc \in {"begun", "ordered"} => Agrees(list'[d].snapOrder.ids, list'[d].snapView)
             /\ list'[d].pc = "ordered" => list'[d].order = list'[d].snapOrder
    BY DEF SnapshotsAgree, Agrees, Live
  <2> QED BY <1>1, <1>2 DEF ClientsInv, SnapshotsAgree
<1>6. OrdersPast'
  <2>1. ASSUME NEW d \in Clients
        PROVE  /\ Past(list[d].order.rev, list[d].order.ids)'
               /\ Past(list[d].snapOrder.rev, list[d].snapOrder.ids)'
    BY <1>1, <1>2 DEF ClientsInv, OrdersPast, Past, OnlyList
  <2>2. ASSUME NEW k \in Keys, request'[k].op = "reorder"
        PROVE  Past(request[k].rev, request[k].saw)'
    BY <1>1, <2>2 DEF ClientsInv, OrdersPast, Past, OnlyList
  <2>3. order'.rev > 1
    BY <1>1 DEF ClientsInv, OrdersPast, OnlyList
  <2> QED BY <2>1, <2>2, <2>3 DEF OrdersPast
<1>7. RowsPast'
  <2> SUFFICES ASSUME NEW d \in Clients, NEW w \in Views
      PROVE  RowPast(w, list[d].view[w])' /\ RowPast(w, list[d].snapView[w])'
    BY DEF RowsPast
  <2> QED BY <1>1, <1>2 DEF ClientsInv, RowsPast, RowPast, OnlyList
<1>8. EditsListed'
  BY <1>1, <1>2 DEF ClientsInv, EditsListed, OnlyList
<1>9. HandlersHaveRequests' /\ KeysTrue'
  BY <1>1 DEF HandlersHaveRequests, KeysTrue, KeyTrue, OnlyList
<1> QED BY <1>3, <1>4, <1>5, <1>6, <1>7, <1>8, <1>9 DEF TableViewsInv, ClientsInv

LEMMA NoListType ==
  /\ NoList \in Listing /\ NoView \in View
  /\ NoList.order.rev = 1 /\ NoList.snapOrder.rev = 1
  /\ \A v \in Views : NoList.view[v].rev = 0 /\ NoList.snapView[v].rev = 0
<1>1. NoView \in View /\ NoView.rev = 0
  BY DEF NoView, View
<1>2. [rev |-> 1, ids |-> <<>>] \in Order
  BY DEF Order
<1>3. [v \in Views |-> NoView] \in [Views -> View]
  BY <1>1
<1> QED BY <1>1, <1>2, <1>3 DEF NoList, Listing

\* ListViewsSnapshot: its transaction begins, reads the order, reads the Views.
LEMMA ListStep ==
  ASSUME TableViewsInv, NEW c \in Clients, BeginList(c) \/ ReadOrder(c) \/ ReadViews(c)
  PROVE  TableViewsInv'
<1>1. TypeOK /\ RowsInv /\ ClientsInv
  BY DEF TableViewsInv
<1>2. order \in Order /\ order.rev > 1 /\ view \in [Views -> View] /\ list[c] \in Listing
  BY <1>1 DEF TypeOK, ClientsInv, OrdersPast
<1>3. /\ Past(NoList.order.rev, NoList.order.ids) /\ Past(NoList.snapOrder.rev, NoList.snapOrder.ids)
      /\ \A v \in Views : RowPast(v, NoList.view[v]) /\ RowPast(v, NoList.snapView[v])
  <2>1. order.rev \in Nat /\ \A v \in Views : view[v].rev \in Nat
    BY <1>2 DEF Order, View
  <2>2. 1 <= order.rev /\ order.rev # 1
    BY <1>2, <2>1
  <2> QED BY <2>1, <2>2, NoListType DEF Past, RowPast
<1>4. ASSUME BeginList(c) PROVE TableViewsInv'
  <2>1. PICK l \in Listing : l = [NoList EXCEPT !.pc = "begun", !.snapOrder = order, !.snapView = view]
    BY <1>2, NoListType DEF Listing
  <2>2. /\ l.pc = "begun" /\ l.order = NoList.order /\ l.view = NoList.view
        /\ l.snapOrder = order /\ l.snapView = view
    BY <2>1, NoListType DEF Listing
  <2>3. list' = [list EXCEPT ![c] = l] /\ OnlyList /\ edit[c].at = None
    BY <1>4, <2>1 DEF BeginList, NoEdit
  <2>4. Past(order.rev, order.ids) /\ \A v \in Views : RowPast(v, view[v])
    BY <1>2 DEF Past, RowPast, Order, View
  <2> QED BY <1>1, <1>3, <2>2, <2>3, <2>4, ListingChange DEF RowsInv
<1>5. ASSUME ReadOrder(c) PROVE TableViewsInv'
  <2>1. PICK q \in Listing : q = list[c]
    BY <1>2
  <2>2. PICK l \in Listing : l = [q EXCEPT !.pc = "ordered", !.order = q.snapOrder]
    BY <2>1 DEF Listing
  <2>3. /\ l.pc = "ordered" /\ l.order = q.snapOrder /\ l.snapOrder = q.snapOrder
        /\ l.view = q.view /\ l.snapView = q.snapView
    BY <2>2 DEF Listing
  <2>4. list' = [list EXCEPT ![c] = l] /\ OnlyList /\ q.pc = "begun"
    BY <1>5, <2>1, <2>2 DEF ReadOrder
  <2>5. /\ edit[c].at = None /\ Agrees(q.snapOrder.ids, q.snapView)
        /\ Past(q.snapOrder.rev, q.snapOrder.ids)
        /\ \A v \in Views : RowPast(v, q.view[v]) /\ RowPast(v, q.snapView[v])
    BY <1>1, <2>1, <2>4 DEF ClientsInv, SnapshotsAgree, OrdersPast, RowsPast, EditsListed
  <2> QED BY <2>3, <2>4, <2>5, ListingChange
<1>6. ASSUME ReadViews(c) PROVE TableViewsInv'
  <2>1. PICK q \in Listing : q = list[c]
    BY <1>2
  <2>2. q.pc = "ordered" /\ OnlyList
    BY <1>6, <2>1 DEF ReadViews
  <2>3. /\ edit[c].at = None /\ Agrees(q.order.ids, q.snapView)
        /\ Past(q.order.rev, q.order.ids)
        /\ \A v \in Views : RowPast(v, q.view[v]) /\ RowPast(v, q.snapView[v])
    BY <1>1, <2>1, <2>2 DEF ClientsInv, SnapshotsAgree, OrdersPast, RowsPast, EditsListed
  <2>4. q.order.ids \in Seq(Views)
    BY <2>1 DEF Listing, Order
  <2>5. Len(q.order.ids) = Cardinality(Live(q.snapView)) /\ Elems(q.order.ids) = Live(q.snapView)
    BY <2>3, <2>4, DistinctLength DEF Agrees
  <2>6. PICK l \in Listing : l = [NoList EXCEPT !.pc = "done", !.order = q.order, !.view = q.snapView]
    BY NoListType DEF Listing
  <2>7. /\ l.pc = "done" /\ l.order = q.order /\ l.snapOrder = NoList.snapOrder
        /\ l.view = q.snapView /\ l.snapView = NoList.snapView
    BY <2>6, NoListType DEF Listing
  <2>8. list' = [list EXCEPT ![c] = l]
    BY <1>6, <2>1, <2>5, <2>6 DEF ReadViews, Listed
  <2> QED BY <1>3, <2>2, <2>3, <2>7, <2>8, ListingChange
<1> QED BY <1>4, <1>5, <1>6

(***************************************************************************)
(* Requests without a key.                                                 *)
(***************************************************************************)

Change == [object : Views \cup {"order"}, rev : Nat]

LEMMA ChangeTyped ==
  ASSUME NEW v \in Views \cup {"order"}, NEW rev \in Nat
  PROVE  ChangeOf(v, rev) \in Change
BY DEF ChangeOf, Change

\* Requests and their answers are left alone.
LEMMA WriteStep ==
  ASSUME TableViewsInv, view' \in [Views -> View], order' \in Order, RowsInv',
         Len(order'.ids) <= ViewLimit, order' = order \/ order'.rev = order.rev + 1,
         \A w \in Views : view'[w] = view[w] \/ view'[w].rev = view[w].rev + 1,
         changes' \subseteq Change, edit' \in [Clients -> Edit],
         \A c \in Clients : edit'[c] = edit[c] \/ edit'[c] = NoEdit,
         UNCHANGED <<tableLive, fieldLive, receipt, guard, list, request, handler, told>>
  PROVE  TableViewsInv'
<1>1. TypeOK /\ ClientsInv /\ HandlersHaveRequests /\ KeysTrue
  BY DEF TableViewsInv
<1>2. TypeOK'
  BY <1>1 DEF TypeOK, Change
<1>3. ClientsInv'
  BY <1>1, RowsChange
<1>4. HandlersHaveRequests' /\ KeysTrue'
  BY <1>1 DEF HandlersHaveRequests, KeysTrue, KeyTrue
<1> QED BY <1>2, <1>3, <1>4 DEF TableViewsInv

\* UpdateView is between the service and the store.
LEMMA StartUpdateStep ==
  ASSUME TableViewsInv, NEW c \in Clients, StartUpdate(c)
  PROVE  TableViewsInv'
<1>1. TypeOK /\ RowsInv /\ ClientsInv /\ HandlersHaveRequests /\ KeysTrue
  BY DEF TableViewsInv
<1>2. PICK v \in Views, uses \in BOOLEAN :
        /\ edit[c] = NoEdit /\ AsSeen(c, v) /\ view[v].live
        /\ edit' = [edit EXCEPT ![c] = [at |-> v, rev |-> view[v].rev, uses |-> uses]]
  BY DEF StartUpdate
<1>3. PICK e \in Edit : e = [at |-> v, rev |-> view[v].rev, uses |-> uses]
  <2>1. view[v].rev \in Nat
    BY <1>1 DEF TypeOK, View
  <2> QED BY <2>1 DEF Edit
<1>4. /\ edit' \in [Clients -> Edit]
      /\ \A d \in Clients : edit'[d] = IF d = c THEN e ELSE edit[d]
  BY <1>1, <1>2, <1>3 DEF TypeOK
<1>5. UNCHANGED <<view, order, tableLive, fieldLive, changes, receipt, guard, list, request, handler, told>>
  BY DEF StartUpdate
<1>6. TypeOK'
  BY <1>1, <1>4, <1>5 DEF TypeOK
<1>7. RowsInv' /\ HandlersHaveRequests' /\ KeysTrue'
  BY <1>1, <1>5 DEF RowsInv, Agrees, ViewsCounted, DefaultAlone, LiveExist, Existing, Defaults, Live,
                    HandlersHaveRequests, KeysTrue, KeyTrue
<1>8. SnapshotsAgree' /\ OrdersPast' /\ RowsPast'
  BY <1>1, <1>5 DEF ClientsInv, SnapshotsAgree, Agrees, Live, OrdersPast, Past, RowsPast, RowPast
<1>9. EditsListed'
  <2>1. e.at = v /\ e.rev = view[v].rev /\ list[c].pc = "done" /\ view[v].rev > 0
        /\ view[v].rev = list[c].view[v].rev
    BY <1>2, <1>3 DEF AsSeen
  <2> QED BY <1>1, <1>4, <1>5, <2>1 DEF ClientsInv, EditsListed
<1> QED BY <1>6, <1>7, <1>8, <1>9 DEF TableViewsInv, ClientsInv

\* UpdateView: no other property of the View than its Revision and its configuration.
LEMMA UpdateStep ==
  ASSUME TableViewsInv, NEW c \in Clients, UpdateView(c)
  PROVE  TableViewsInv'
<1>1. TypeOK /\ RowsInv /\ ClientsInv
  BY DEF TableViewsInv
<1>2. PICK v \in Views : v = edit[c].at
  BY <1>1 DEF UpdateView, TypeOK, Edit
<1>3. /\ edit' \in [Clients -> Edit]
      /\ \A d \in Clients : edit'[d] = edit[d] \/ edit'[d] = NoEdit
      /\ UNCHANGED <<order, tableLive, fieldLive, receipt, guard, list, request, handler, told>>
  <2>1. NoEdit \in Edit
    BY DEF NoEdit, Edit
  <2> QED BY <1>1, <2>1 DEF UpdateView, TypeOK
<1>4. order \in Order /\ Len(order.ids) <= ViewLimit /\ view \in [Views -> View] /\ changes \subseteq Change
  BY <1>1 DEF TypeOK, Change
<1>5. CASE UNCHANGED <<view, changes>>
  <2>1. RowsInv'
    BY <1>1, <1>3, <1>5 DEF RowsInv, Agrees, ViewsCounted, DefaultAlone, LiveExist, Existing, Defaults, Live
  <2> QED BY <1>3, <1>4, <1>5, <2>1, WriteStep
<1>6. CASE /\ view[v].live /\ view[v].rev = edit[c].rev
           /\ view' = [view EXCEPT ![v] = [@ EXCEPT !.rev = view[v].rev + 1, !.uses = edit[c].uses]]
           /\ changes' = changes \cup {ChangeOf(v, view[v].rev + 1)}
  <2>1. PICK q \in View : q = view[v]
    BY <1>4
  <2>2. PICK r \in View :
          /\ r = [q EXCEPT !.rev = q.rev + 1, !.uses = edit[c].uses]
          /\ r.rev = q.rev + 1 /\ r.live = q.live /\ r.isDefault = q.isDefault
    <3>1. edit[c].uses \in BOOLEAN
      BY <1>1 DEF TypeOK, Edit
    <3> QED BY <3>1, UsesChange
  <2>3. view' = [view EXCEPT ![v] = r]
    BY <1>6, <2>1, <2>2
  <2>4. q.rev \in Nat /\ view[v].rev > 0 /\ view[v].live
    BY <1>1, <1>6, <2>1 DEF RowsInv, LiveExist, View
  <2>5. /\ r.rev = view[v].rev + 1
        /\ order' = order /\ view[v].rev > 0
        /\ view[v].rev = 0 => Cardinality(Existing) < ViewLimit
    BY <1>3, <2>1, <2>2, <2>4
  <2>9. r.live = view[v].live
    BY <2>1, <2>2
  <2>8. r.isDefault /\ r.live => v \in Defaults
    BY <2>1, <2>2, <2>4 DEF Defaults
  <2>6. /\ view' \in [Views -> View] /\ RowsInv'
        /\ \A w \in Views : view'[w] = view[w] \/ view'[w].rev = view[w].rev + 1
    BY <1>1, <1>4, <2>3, <2>5, <2>8, <2>9, RowKeepsRows
  <2>7. changes' \subseteq Change
    BY <1>4, <1>6, <2>1, <2>4, ChangeTyped
  <2> QED BY <1>3, <1>4, <2>6, <2>7, WriteStep
<1> QED BY <1>2, <1>5, <1>6 DEF UpdateView

\* DeleteView and RestoreView: the trigger changes the order in the same transaction.
LEMMA DeleteStep ==
  ASSUME TableViewsInv, NEW c \in Clients, NEW v \in Views, DeleteView(c, v) \/ RestoreView(c, v)
  PROVE  TableViewsInv'
<1>1. TypeOK /\ RowsInv
  BY DEF TableViewsInv
<1>2. order \in Order /\ view \in [Views -> View] /\ changes \subseteq Change /\ edit \in [Clients -> Edit]
  BY <1>1 DEF TypeOK, Change
<1>3. PICK q \in View : q = view[v]
  BY <1>2
<1>4. q.rev \in Nat /\ q.rev > 0
  BY <1>3 DEF DeleteView, RestoreView, AsSeen, View
<1>5. /\ UNCHANGED <<tableLive, fieldLive, receipt, guard, list, edit, request, handler, told>>
      /\ changes' = changes \cup {ChangeOf(v, q.rev + 1)}
  BY <1>3 DEF DeleteView, RestoreView, OnlyRows
<1>6. changes' \subseteq Change
  BY <1>2, <1>4, <1>5, ChangeTyped
<1>7. PICK r \in View :
        /\ view' = [view EXCEPT ![v] = r] /\ r.rev = q.rev + 1 /\ order' = Maintained(v, r.live)
        /\ r.live => ~r.isDefault
  <2>1. CASE DeleteView(c, v)
    <3>1. PICK r \in View : r = [q EXCEPT !.rev = q.rev + 1, !.live = FALSE] /\ r.rev = q.rev + 1 /\ r.live = FALSE
      BY Deletion
    <3>2. view' = [view EXCEPT ![v] = r]
      BY <1>3, <2>1, <3>1 DEF DeleteView
    <3> QED BY <2>1, <3>1, <3>2 DEF DeleteView
  <2>2. CASE RestoreView(c, v)
    <3>1. PICK r \in View : /\ r = [q EXCEPT !.rev = q.rev + 1, !.live = TRUE, !.isDefault = FALSE]
                            /\ r.rev = q.rev + 1 /\ r.live = TRUE /\ r.isDefault = FALSE
      BY Restoration
    <3>2. view' = [view EXCEPT ![v] = r]
      BY <1>3, <2>2, <3>1 DEF RestoreView
    <3> QED BY <2>2, <3>1, <3>2 DEF RestoreView
  <2> QED BY <2>1, <2>2
<1>8. /\ r.rev = view[v].rev + 1
      /\ view[v].rev = 0 => Cardinality(Existing) < ViewLimit
      /\ r.isDefault /\ r.live => v \in Defaults
  BY <1>3, <1>4, <1>7
<1>9. /\ view' \in [Views -> View] /\ order' \in Order /\ RowsInv'
      /\ Len(order'.ids) <= ViewLimit
      /\ \A w \in Views : view'[w] = view[w] \/ view'[w].rev = view[w].rev + 1
      /\ order' = order \/ order'.rev = order.rev + 1
  BY <1>1, <1>2, <1>7, <1>8, RowKeepsRows
<1> QED BY <1>2, <1>5, <1>6, <1>9, WriteStep

\* SetDefaultView: two Views change, no order does.
LEMMA DefaultStep ==
  ASSUME TableViewsInv, NEW c \in Clients, NEW v \in Views, SetDefaultView(c, v)
  PROVE  TableViewsInv'
<1>1. TypeOK /\ RowsInv
  BY DEF TableViewsInv
<1>2. /\ order \in Order /\ view \in [Views -> View] /\ changes \subseteq Change
      /\ edit \in [Clients -> Edit] /\ Len(order.ids) <= ViewLimit
  BY <1>1 DEF TypeOK, Change
<1>3. /\ UNCHANGED <<order, tableLive, fieldLive, receipt, guard, list, edit, request, handler, told>>
      /\ changes' = changes \cup {ChangeOf(w, view[w].rev + 1) : w \in Defaults \cup {v}}
  BY DEF SetDefaultView, OnlyRows
<1>4. changes' \subseteq Change
  <2>1. \A w \in Views : view[w].rev + 1 \in Nat
    BY <1>2 DEF View
  <2>2. \A w \in Views : ChangeOf(w, view[w].rev + 1) \in Change
    BY <2>1, ChangeTyped
  <2>3. Defaults \cup {v} \subseteq Views
    BY DEF Defaults
  <2> QED BY <1>2, <1>3, <2>2, <2>3
<1>5. /\ view' \in [Views -> View] /\ RowsInv'
      /\ \A w \in Views : view'[w] = view[w] \/ view'[w].rev = view[w].rev + 1
  BY <1>1, <1>2, DefaultKeepsRows
<1> QED BY <1>2, <1>3, <1>4, <1>5, WriteStep

(***************************************************************************)
(* Requests with a key.                                                    *)
(***************************************************************************)

\* One key at a time.
LEMMA OneKey ==
  ASSUME KeysTrue, NEW k \in Keys, KeyTrue(k)',
         \A p \in Keys \ {k} : /\ request'[p] = request[p] /\ told'[p] = told[p]
                               /\ receipt'[p] = receipt[p] /\ guard'[p] = guard[p]
  PROVE  KeysTrue'
<1> SUFFICES ASSUME NEW p \in Keys \ {k} PROVE KeyTrue(p)'
  BY DEF KeysTrue
<1>1. KeyTrue(p)
  BY DEF KeysTrue
<1> QED BY <1>1 DEF KeyTrue

LEMMA ComposeStep ==
  ASSUME TableViewsInv, NEW k \in Keys, Compose(k)
  PROVE  TableViewsInv'
<1>1. TypeOK /\ RowsInv /\ ClientsInv /\ HandlersHaveRequests /\ KeysTrue
  BY DEF TableViewsInv
<1>2. /\ request[k] = NoRequest
      /\ UNCHANGED <<view, order, tableLive, fieldLive, changes, receipt, guard, list, edit, handler, told>>
  BY DEF Compose
<1>3. PICK r \in Request : /\ request' = [request EXCEPT ![k] = r]
                           /\ r.op = "reorder" => Past(r.rev, r.saw)
                           /\ r.op # "none"
  <2>1. ASSUME NEW uses \in BOOLEAN, request' = [request EXCEPT ![k] = [NoRequest EXCEPT !.op = "create", !.uses = uses]]
        PROVE  \E r \in Request : /\ request' = [request EXCEPT ![k] = r]
                                  /\ r.op = "reorder" => Past(r.rev, r.saw)
                                  /\ r.op # "none"
    <3>0. PICK r : r = [NoRequest EXCEPT !.op = "create", !.uses = uses]
      OBVIOUS
    <3>1. r = [op |-> "create", uses |-> uses, rev |-> 0, ids |-> <<>>, saw |-> <<>>]
      BY <3>0 DEF NoRequest
    <3>2. [op |-> "create", uses |-> uses, rev |-> 0, ids |-> <<>>, saw |-> <<>>] \in Request
      BY DEF Request
    <3>3. r \in Request /\ r.op = "create"
      BY <3>1, <3>2
    <3> QED BY <2>1, <3>0, <3>3
  <2>2. ASSUME NEW c \in Clients, NEW saw, saw = list[c].order.ids, list[c].pc = "done",
               NEW ids \in [1 .. Len(saw) -> Elems(saw)],
               request' = [request EXCEPT ![k] = [op |-> "reorder", uses |-> FALSE,
                             rev |-> list[c].order.rev, ids |-> ids, saw |-> saw]]
        PROVE  \E r \in Request : /\ request' = [request EXCEPT ![k] = r]
                                  /\ r.op = "reorder" => Past(r.rev, r.saw)
                                  /\ r.op # "none"
    <3>1. list[c].order.rev \in Nat /\ saw \in Seq(Views) /\ Past(list[c].order.rev, saw)
      BY <1>1, <2>2 DEF TypeOK, Listing, Order, ClientsInv, OrdersPast
    <3>2. Len(saw) \in Nat /\ Elems(saw) \subseteq Views
      BY <3>1 DEF Elems
    <3>3. ids \in Seq(Views)
      BY <3>2
    <3>4. [op |-> "reorder", uses |-> FALSE, rev |-> list[c].order.rev, ids |-> ids, saw |-> saw] \in Request
      BY <3>1, <3>3 DEF Request
    <3> QED BY <2>2, <3>1, <3>4
  <2>3. \/ \E uses \in BOOLEAN :
             request' = [request EXCEPT ![k] = [NoRequest EXCEPT !.op = "create", !.uses = uses]]
        \/ \E c \in Clients :
             /\ list[c].pc = "done"
             /\ \E ids \in [1 .. Len(list[c].order.ids) -> Elems(list[c].order.ids)] :
                  request' = [request EXCEPT ![k] = [op |-> "reorder", uses |-> FALSE,
                                rev |-> list[c].order.rev, ids |-> ids, saw |-> list[c].order.ids]]
    BY DEF Compose
  <2>4. CASE \E uses \in BOOLEAN :
               request' = [request EXCEPT ![k] = [NoRequest EXCEPT !.op = "create", !.uses = uses]]
    BY <2>1, <2>4
  <2>5. CASE \E c \in Clients :
               /\ list[c].pc = "done"
               /\ \E ids \in [1 .. Len(list[c].order.ids) -> Elems(list[c].order.ids)] :
                    request' = [request EXCEPT ![k] = [op |-> "reorder", uses |-> FALSE,
                                  rev |-> list[c].order.rev, ids |-> ids, saw |-> list[c].order.ids]]
    BY <2>2, <2>5
  <2> QED BY <2>3, <2>4, <2>5
<1>4. /\ request' \in [Keys -> Request]
      /\ request'[k] = r
      /\ \A p \in Keys \ {k} : request'[p] = request[p]
  <2>1. request \in [Keys -> Request] /\ request' = [request EXCEPT ![k] = r]
    BY <1>1, <1>3 DEF TypeOK
  <2> QED BY <2>1
<1>5. TypeOK'
  BY <1>1, <1>2, <1>4 DEF TypeOK
<1>6. RowsInv'
  BY <1>1, <1>2 DEF RowsInv, Agrees, ViewsCounted, DefaultAlone, LiveExist, Existing, Defaults, Live
<1>7. SnapshotsAgree' /\ RowsPast' /\ EditsListed'
  BY <1>1, <1>2 DEF ClientsInv, SnapshotsAgree, Agrees, Live, RowsPast, RowPast, EditsListed
<1>8. OrdersPast'
  <2>1. ASSUME NEW c \in Clients
        PROVE  /\ Past(list[c].order.rev, list[c].order.ids)'
               /\ Past(list[c].snapOrder.rev, list[c].snapOrder.ids)'
    BY <1>1, <1>2 DEF ClientsInv, OrdersPast, Past
  <2>2. ASSUME NEW p \in Keys, request'[p].op = "reorder"
        PROVE  Past(request[p].rev, request[p].saw)'
    <3>1. order' = order
      BY <1>2
    <3>2. CASE p = k
      <4>1. r.op = "reorder"
        BY <1>4, <2>2, <3>2
      <4>2. Past(r.rev, r.saw)
        BY <1>3, <4>1
      <4> QED BY <1>4, <3>1, <3>2, <4>2 DEF Past
    <3>3. CASE p # k
      BY <1>1, <1>4, <2>2, <3>1, <3>3 DEF ClientsInv, OrdersPast, Past
    <3> QED BY <3>2, <3>3
  <2>3. order'.rev > 1
    BY <1>1, <1>2 DEF ClientsInv, OrdersPast
  <2> QED BY <2>1, <2>2, <2>3 DEF OrdersPast
<1>9. HandlersHaveRequests'
  BY <1>1, <1>2, <1>4 DEF HandlersHaveRequests, TypeOK
<1>10. KeysTrue'
  <2>1. KeyTrue(k)
    BY <1>1 DEF KeysTrue
  <2>2. told[k] = {} /\ receipt[k] = "none" /\ ~guard[k]
    BY <1>2, <2>1 DEF KeyTrue
  <2>3. KeyTrue(k)'
    BY <1>2, <2>2 DEF KeyTrue
  <2> QED BY <1>1, <1>2, <1>4, <2>3, OneKey
<1> QED BY <1>5, <1>6, <1>7, <1>8, <1>9, <1>10 DEF TableViewsInv, ClientsInv

\* A request is answered, or dies; the Views may have changed.
LEMMA AnswerStep ==
  ASSUME TableViewsInv, view' \in [Views -> View], order' \in Order, RowsInv',
         Len(order'.ids) <= ViewLimit, order' = order \/ order'.rev = order.rev + 1,
         \A w \in Views : view'[w] = view[w] \/ view'[w].rev = view[w].rev + 1,
         changes' \subseteq Change,
         UNCHANGED <<tableLive, fieldLive, list, edit, request>>,
         NEW k \in Keys, NEW code \in Answers \cup {"none"}, NEW kept \in BOOLEAN, NEW said \in SUBSET Answers,
         receipt' = [receipt EXCEPT ![k] = code], guard' = [guard EXCEPT ![k] = kept],
         told' = [told EXCEPT ![k] = said],
         NEW h \in Handlers, NEW t \in Keys \cup {None}, handler' = [handler EXCEPT ![h] = t],
         t # None => request[t] # NoRequest,
         KeyTrue(k)'
  PROVE  TableViewsInv'
<1>1. TypeOK /\ RowsInv /\ ClientsInv /\ HandlersHaveRequests /\ KeysTrue
  BY DEF TableViewsInv
<1>2. /\ receipt' \in [Keys -> Answers \cup {"none"}] /\ guard' \in [Keys -> BOOLEAN]
      /\ told' \in [Keys -> SUBSET Answers] /\ handler' \in [Handlers -> Keys \cup {None}]
  BY <1>1 DEF TypeOK
<1>3. TypeOK'
  BY <1>1, <1>2 DEF TypeOK, Change
<1>4. ClientsInv'
  BY <1>1, RowsChange
<1>5. HandlersHaveRequests'
  BY <1>1 DEF HandlersHaveRequests, TypeOK
<1>6. KeysTrue'
  <2>1. \A p \in Keys \ {k} : /\ request'[p] = request[p] /\ told'[p] = told[p]
                              /\ receipt'[p] = receipt[p] /\ guard'[p] = guard[p]
    BY <1>1 DEF TypeOK
  <2> QED BY <1>1, <2>1, OneKey
<1> QED BY <1>3, <1>4, <1>5, <1>6 DEF TableViewsInv

\* Views and their order are left alone.
LEMMA QuietStep ==
  ASSUME TableViewsInv, UNCHANGED <<view, order, changes, tableLive, fieldLive, list, edit, request>>,
         NEW k \in Keys, NEW code \in Answers \cup {"none"}, NEW kept \in BOOLEAN, NEW said \in SUBSET Answers,
         receipt' = [receipt EXCEPT ![k] = code], guard' = [guard EXCEPT ![k] = kept],
         told' = [told EXCEPT ![k] = said],
         NEW h \in Handlers, NEW t \in Keys \cup {None}, handler' = [handler EXCEPT ![h] = t],
         t # None => request[t] # NoRequest,
         KeyTrue(k)'
  PROVE  TableViewsInv'
<1>1. TypeOK /\ RowsInv
  BY DEF TableViewsInv
<1>2. /\ view' \in [Views -> View] /\ order' \in Order /\ Len(order'.ids) <= ViewLimit
      /\ changes' \subseteq Change
  BY <1>1 DEF TypeOK, Change
<1>3. RowsInv'
  BY <1>1 DEF RowsInv, Agrees, ViewsCounted, DefaultAlone, LiveExist, Existing, Defaults, Live
<1> QED BY <1>2, <1>3, AnswerStep

\* A refusal is told when something has been told before.
LEMMA RefusalTold ==
  ASSUME told \in [Keys -> SUBSET Answers], NEW k \in Keys, NEW code \in Answers, TellRefused(k, code)
  PROVE  \E said \in SUBSET Answers : told' = [told EXCEPT ![k] = said] /\ (told[k] = {} => said = {})
<1>1. CASE told[k] = {}
  BY <1>1 DEF TellRefused
<1>2. CASE told[k] # {}
  <2>1. told' = [told EXCEPT ![k] = told[k] \cup {code}]
    BY <1>2 DEF TellRefused, Tell
  <2> QED BY <1>2, <2>1
<1> QED BY <1>1, <1>2

\* The service takes a request, or refuses it.
LEMMA AcceptStep ==
  ASSUME TableViewsInv, NEW h \in Handlers, NEW k \in Keys, Accept(h, k)
  PROVE  TableViewsInv'
<1>1. TypeOK /\ KeyTrue(k)
  BY DEF TableViewsInv, KeysTrue
<1>2. /\ request[k] # NoRequest
      /\ UNCHANGED <<view, order, tableLive, fieldLive, changes, receipt, guard, list, edit, request>>
      /\ receipt' = [receipt EXCEPT ![k] = receipt[k]] /\ guard' = [guard EXCEPT ![k] = guard[k]]
      /\ receipt[k] \in Answers \cup {"none"} /\ guard[k] \in BOOLEAN
  BY <1>1 DEF Accept, TypeOK
<1>3. CASE request[k].op = "create" /\ UNCHANGED handler /\ \E code \in Answers : TellRefused(k, code)
  <2>1. PICK said \in SUBSET Answers : told' = [told EXCEPT ![k] = said]
    BY <1>1, <1>3, RefusalTold DEF TypeOK
  <2>2. KeyTrue(k)'
    BY <1>2, <1>3 DEF KeyTrue
  <2>3. handler' = [handler EXCEPT ![h] = handler[h]] /\ handler[h] = None
    BY <1>1, <1>3 DEF TypeOK, Accept
  <2> QED BY <1>2, <2>1, <2>2, <2>3, QuietStep
<1>4. CASE handler' = [handler EXCEPT ![h] = k] /\ UNCHANGED told
  <2>1. told' = [told EXCEPT ![k] = told[k]] /\ told[k] \in SUBSET Answers
    BY <1>1, <1>4 DEF TypeOK
  <2>2. KeyTrue(k)'
    BY <1>1, <1>2, <1>4 DEF KeyTrue
  <2> QED BY <1>2, <1>4, <2>1, <2>2, QuietStep
<1>5. "notFound" \in Answers /\ "invalid" \in Answers
  BY DEF Answers
<1> QED BY <1>3, <1>4, <1>5 DEF Accept

\* The first answer, or the guard of an expired receipt.
LEMMA ReplayStep ==
  ASSUME TableViewsInv, NEW h \in Handlers, ReplayTx(h)
  PROVE  TableViewsInv'
<1>1. TypeOK /\ HandlersHaveRequests /\ KeysTrue
  BY DEF TableViewsInv
<1>2. PICK k \in Keys : k = handler[h] /\ KeyTrue(k) /\ request[k] # NoRequest
  BY <1>1 DEF ReplayTx, TypeOK, KeysTrue, HandlersHaveRequests
<1>3. /\ Committed(k) /\ handler' = [handler EXCEPT ![h] = None]
      /\ UNCHANGED <<view, order, tableLive, fieldLive, changes, receipt, guard, list, edit, request>>
      /\ receipt' = [receipt EXCEPT ![k] = receipt[k]] /\ guard' = [guard EXCEPT ![k] = guard[k]]
      /\ receipt[k] \in Answers \cup {"none"} /\ guard[k] \in BOOLEAN /\ told[k] \in SUBSET Answers
  BY <1>1, <1>2 DEF ReplayTx, Done, TypeOK
<1>4. PICK code \in Answers : /\ code = IF receipt[k] # "none" THEN receipt[k] ELSE "expired"
                             /\ told' = [told EXCEPT ![k] = told[k] \cup {code}]
  BY <1>2, <1>3 DEF ReplayTx, Tell, Answers
<1>5. told'[k] = told[k] \cup {code} /\ told[k] \cup {code} \in SUBSET Answers
  BY <1>1, <1>3, <1>4 DEF TypeOK
<1>6. KeyTrue(k)'
  <2>1. CASE request[k].op = "reorder" /\ receipt[k] # "none"
    BY <1>2, <1>3, <1>4, <1>5, <2>1 DEF KeyTrue
  <2>2. CASE request[k].op = "reorder" /\ receipt[k] = "none"
    BY <1>2, <1>3, <1>4, <1>5, <2>2 DEF KeyTrue, Committed
  <2>3. CASE request[k].op # "reorder"
    BY <1>2, <1>3, <2>3 DEF KeyTrue
  <2> QED BY <2>1, <2>2, <2>3
<1> QED BY <1>3, <1>4, <1>5, <1>6, QuietStep

\* An error after the receipt was looked for.
LEMMA RefuseStep ==
  ASSUME TableViewsInv, NEW h \in Handlers, handler[h] # None, ~Committed(handler[h]), Refuse(h),
         UNCHANGED <<tableLive, fieldLive, list, edit, request>>
  PROVE  TableViewsInv'
<1>1. TypeOK /\ HandlersHaveRequests /\ KeysTrue
  BY DEF TableViewsInv
<1>2. PICK k \in Keys : k = handler[h] /\ KeyTrue(k) /\ request[k] # NoRequest
  BY <1>1 DEF TypeOK, KeysTrue, HandlersHaveRequests
<1>3. /\ ~Committed(k) /\ handler' = [handler EXCEPT ![h] = None]
      /\ UNCHANGED <<view, order, changes, receipt, guard>>
      /\ receipt' = [receipt EXCEPT ![k] = receipt[k]] /\ guard' = [guard EXCEPT ![k] = guard[k]]
      /\ receipt[k] \in Answers \cup {"none"} /\ guard[k] \in BOOLEAN
  BY <1>1, <1>2 DEF Refuse, Done, TypeOK
<1>4. PICK said \in SUBSET Answers : told' = [told EXCEPT ![k] = said] /\ (told[k] = {} => said = {})
  <2>1. TellRefused(k, "refused") /\ "refused" \in Answers
    BY <1>2 DEF Refuse, Answers
  <2> QED BY <1>1, <2>1, RefusalTold DEF TypeOK
<1>5. told'[k] = said
  BY <1>1, <1>4 DEF TypeOK
<1>6. KeyTrue(k)'
  BY <1>2, <1>3, <1>4, <1>5 DEF KeyTrue, Committed
<1> QED BY <1>3, <1>4, <1>6, QuietStep

\* CreateView: the View, its place in the order and the receipt, in one transaction.
LEMMA CreateStep ==
  ASSUME TableViewsInv, NEW h \in Handlers, CreateTx(h)
  PROVE  TableViewsInv'
<1>1. TypeOK /\ RowsInv /\ HandlersHaveRequests /\ KeysTrue
  BY DEF TableViewsInv
<1>2. PICK k \in Keys : k = handler[h] /\ KeyTrue(k) /\ request[k] # NoRequest
  BY <1>1 DEF CreateTx, TypeOK, KeysTrue, HandlersHaveRequests
<1>3. /\ request[k].op = "create" /\ ~Committed(k) /\ k # None
      /\ UNCHANGED <<tableLive, fieldLive, list, edit, request>>
  BY <1>2 DEF CreateTx
<1>4. CASE Refuse(h)
  BY <1>2, <1>3, <1>4, RefuseStep
<1>5. CASE ~Refuse(h)
  <2>1. PICK v \in Views \ Existing :
          /\ view' = [view EXCEPT ![v] = [NoView EXCEPT !.rev = 1, !.live = TRUE, !.uses = request[k].uses]]
          /\ order' = Maintained(v, TRUE)
          /\ changes' = changes \cup {ChangeOf(v, 1)}
    BY <1>2, <1>5 DEF CreateTx
  <2>2. /\ ~Full /\ receipt' = [receipt EXCEPT ![k] = "created"] /\ Tell(k, "created")
        /\ handler' = [handler EXCEPT ![h] = None] /\ UNCHANGED guard
    BY <1>2, <1>5 DEF CreateTx, Done
  <2>3. /\ order \in Order /\ view \in [Views -> View] /\ changes \subseteq Change
        /\ request[k].uses \in BOOLEAN /\ told[k] \in SUBSET Answers
        /\ guard' = [guard EXCEPT ![k] = guard[k]] /\ guard[k] \in BOOLEAN
    BY <1>1, <2>2 DEF TypeOK, Change, Request
  <2>4. PICK r \in View : /\ r = [NoView EXCEPT !.rev = 1, !.live = TRUE, !.uses = request[k].uses]
                         /\ r.rev = 1 /\ r.live = TRUE /\ r.isDefault = FALSE
    <3>1. PICK uses \in BOOLEAN : uses = request[k].uses
      BY <2>3
    <3>2. PICK r : r = [NoView EXCEPT !.rev = 1, !.live = TRUE, !.uses = uses]
      OBVIOUS
    <3>3. r = [rev |-> 1, live |-> TRUE, isDefault |-> FALSE, uses |-> uses]
      BY <3>2 DEF NoView
    <3>4. r \in View /\ r.rev = 1 /\ r.live = TRUE /\ r.isDefault = FALSE
      BY <3>3 DEF View
    <3> QED BY <3>1, <3>2, <3>4
  <2>5. view[v].rev = 0 /\ view[v].rev + 1 = 1
    BY <2>3 DEF Existing, View
  <2>6. Cardinality(Existing) < ViewLimit
    BY <1>1, <2>2, FS_CardinalityType, ViewsAssumption DEF Full, RowsInv, ViewsCounted
  <2>7. /\ view' = [view EXCEPT ![v] = r] /\ r.rev = view[v].rev + 1 /\ order' = Maintained(v, r.live)
        /\ ~r.isDefault
    BY <2>1, <2>4, <2>5
  <2>8. /\ view' \in [Views -> View] /\ order' \in Order /\ RowsInv'
        /\ Len(order'.ids) <= ViewLimit
        /\ \A w \in Views : view'[w] = view[w] \/ view'[w].rev = view[w].rev + 1
        /\ order' = order \/ order'.rev = order.rev + 1
    BY <1>1, <2>3, <2>6, <2>7, RowKeepsRows
  <2>9. changes' \subseteq Change
    BY <2>1, <2>3, ChangeTyped
  <2>10. told' = [told EXCEPT ![k] = told[k] \cup {"created"}] /\ told[k] \cup {"created"} \in SUBSET Answers
    BY <2>2, <2>3 DEF Tell, Answers
  <2>11. KeyTrue(k)'
    BY <1>2, <1>3 DEF KeyTrue
  <2>12. "created" \in Answers
    BY DEF Answers
  <2> QED BY <1>3, <2>2, <2>3, <2>8, <2>9, <2>10, <2>11, <2>12, AnswerStep
<1> QED BY <1>4, <1>5

\* ReorderViews: a permutation of the very order that is there.
LEMMA ReorderStep ==
  ASSUME TableViewsInv, NEW h \in Handlers, ReorderTx(h)
  PROVE  TableViewsInv'
<1>1. TypeOK /\ RowsInv /\ HandlersHaveRequests /\ KeysTrue
  BY DEF TableViewsInv
<1>2. PICK k \in Keys : k = handler[h] /\ KeyTrue(k) /\ request[k] # NoRequest
  BY <1>1 DEF ReorderTx, TypeOK, KeysTrue, HandlersHaveRequests
<1>3. /\ request[k].op = "reorder" /\ ~Committed(k) /\ k # None
      /\ UNCHANGED <<tableLive, fieldLive, list, edit, request>>
  BY <1>2 DEF ReorderTx
<1>4. CASE Refuse(h)
  BY <1>2, <1>3, <1>4, RefuseStep
<1>5. CASE ~Refuse(h)
  <2>1. PICK ids \in Seq(Views) : ids = request[k].ids
    BY <1>1 DEF TypeOK, Request
  <2>2. PICK code \in Answers : code = IF ids = order.ids THEN "unchanged" ELSE "applied"
    BY DEF Answers
  <2>3. /\ IsPermutation(ids) /\ receipt' = [receipt EXCEPT ![k] = code] /\ Tell(k, code)
        /\ guard' = [guard EXCEPT ![k] = TRUE] /\ handler' = [handler EXCEPT ![h] = None]
        /\ UNCHANGED view
        /\ IF ids = order.ids THEN UNCHANGED <<order, changes>> ELSE Reorder(ids)
    BY <1>2, <1>5, <2>1, <2>2 DEF ReorderTx, Done
  <2>4. /\ order \in Order /\ view \in [Views -> View] /\ changes \subseteq Change
        /\ told[k] \in SUBSET Answers /\ Len(order.ids) <= ViewLimit
        /\ receipt'[k] = code /\ guard'[k] = TRUE
    BY <1>1, <2>3 DEF TypeOK, Change
  <2>5. order.ids \in Seq(Views) /\ order.rev \in Nat
    BY <2>4 DEF Order
  <2>6. Agrees(ids, view)
    <3>1. Agrees(order.ids, view)
      BY <1>1 DEF RowsInv
    <3>2. Len(ids) = Len(order.ids) /\ Elems(ids) = Elems(order.ids)
      BY <2>3 DEF IsPermutation
    <3>3. Cardinality(Elems(order.ids)) = Len(order.ids)
      BY <2>5, <3>1, DistinctLength DEF Agrees
    <3>4. Distinct(ids)
      BY <3>2, <3>3, DistinctLength
    <3> QED BY <3>1, <3>2, <3>4 DEF Agrees
  <2>7. /\ order' \in Order /\ Len(order'.ids) <= ViewLimit /\ order'.ids = ids
        /\ order' = order \/ order'.rev = order.rev + 1
        /\ changes' \subseteq Change
    <3>1. CASE ids = order.ids
      BY <2>3, <2>4, <3>1
    <3>2. CASE ids # order.ids
      <4>1. /\ order' = [rev |-> order.rev + 1, ids |-> ids]
            /\ changes' = changes \cup {ChangeOf("order", order.rev + 1)}
        BY <2>3, <3>2 DEF Reorder
      <4>2. order.rev + 1 \in Nat /\ order.rev + 1 \in Nat \ {0} /\ Len(ids) <= ViewLimit
        BY <2>3, <2>4, <2>5 DEF IsPermutation
      <4>3. changes' \subseteq Change
        BY <2>4, <4>1, <4>2, ChangeTyped
      <4> QED BY <4>1, <4>2, <4>3 DEF Order
    <3> QED BY <3>1, <3>2
  <2>8. RowsInv'
    BY <1>1, <2>3, <2>6, <2>7 DEF RowsInv, Agrees, ViewsCounted, DefaultAlone, LiveExist, Existing, Defaults, Live
  <2>9. told' = [told EXCEPT ![k] = told[k] \cup {code}] /\ told[k] \cup {code} \in SUBSET Answers
    BY <2>3, <2>4 DEF Tell
  <2>10. told[k] = {} /\ told'[k] = {code}
    <3>1. told[k] = {}
      BY <1>2, <1>3 DEF KeyTrue, Committed
    <3> QED BY <1>1, <2>9, <3>1 DEF TypeOK
  <2>11. KeyTrue(k)'
    <3>1. code \in {"applied", "unchanged"}
      BY <2>2
    <3> QED BY <1>2, <1>3, <2>4, <2>10, <3>1 DEF KeyTrue
  <2>12. view' \in [Views -> View] /\ \A w \in Views : view'[w] = view[w]
    BY <2>3, <2>4
  <2> QED BY <1>3, <2>3, <2>4, <2>7, <2>8, <2>9, <2>11, <2>12, AnswerStep
<1> QED BY <1>4, <1>5

\* A connection is lost.
LEMMA AbortStep ==
  ASSUME TableViewsInv, NEW h \in Handlers, Abort(h)
  PROVE  TableViewsInv'
<1>1. TypeOK /\ KeysTrue
  BY DEF TableViewsInv
<1>2. PICK k \in Keys : KeyTrue(k)
  BY <1>1 DEF Abort, TypeOK, KeysTrue
<1>3. /\ handler' = [handler EXCEPT ![h] = None]
      /\ UNCHANGED <<view, order, tableLive, fieldLive, changes, receipt, guard, list, edit, request, told>>
      /\ receipt' = [receipt EXCEPT ![k] = receipt[k]] /\ guard' = [guard EXCEPT ![k] = guard[k]]
      /\ told' = [told EXCEPT ![k] = told[k]] /\ told[k] \in SUBSET Answers
      /\ receipt[k] \in Answers \cup {"none"} /\ guard[k] \in BOOLEAN
  BY <1>1 DEF Abort, Done, TypeOK
<1>4. KeyTrue(k)'
  BY <1>2, <1>3 DEF KeyTrue
<1> QED BY <1>3, <1>4, QuietStep

\* Cleanup takes the receipt and leaves the guard; a Field or the Table goes or comes back.
LEMMA OtherStep ==
  ASSUME TableViewsInv, Toggle \/ \E k \in Keys : Expire(k)
  PROVE  TableViewsInv'
<1>1. TypeOK /\ RowsInv /\ ClientsInv /\ HandlersHaveRequests /\ KeysTrue
  BY DEF TableViewsInv
<1>2. UNCHANGED <<view, order, changes, guard, list, edit, request, handler, told>>
  BY DEF Toggle, Expire
<1>3. TypeOK'
  <2>1. CASE Toggle
    BY <1>1, <1>2, <2>1 DEF TypeOK, Toggle
  <2>2. CASE \E k \in Keys : Expire(k)
    BY <1>1, <1>2, <2>2 DEF TypeOK, Expire
  <2> QED BY <2>1, <2>2
<1>4. RowsInv' /\ HandlersHaveRequests'
  BY <1>1, <1>2 DEF RowsInv, Agrees, ViewsCounted, DefaultAlone, LiveExist, Existing, Defaults, Live,
                    HandlersHaveRequests
<1>5. ClientsInv'
  BY <1>1, <1>2 DEF ClientsInv, SnapshotsAgree, Agrees, Live, OrdersPast, Past, RowsPast, RowPast, EditsListed
<1>6. KeysTrue'
  <2>1. CASE Toggle
    BY <1>1, <1>2, <2>1 DEF KeysTrue, KeyTrue, Toggle
  <2>2. ASSUME NEW k \in Keys, Expire(k) PROVE KeysTrue'
    <3>1. receipt'[k] = "none" /\ \A p \in Keys \ {k} : receipt'[p] = receipt[p]
      BY <1>1, <2>2 DEF Expire, TypeOK
    <3>2. KeyTrue(k)'
      BY <1>1, <1>2, <3>1 DEF KeysTrue, KeyTrue
    <3> QED BY <1>1, <1>2, <3>1, <3>2, OneKey
  <2> QED BY <2>1, <2>2
<1> QED BY <1>3, <1>4, <1>5, <1>6 DEF TableViewsInv

(***************************************************************************)
(* The inductive invariant holds.                                          *)
(***************************************************************************)

\* CreateTable and CreateView: one of the first Views is the default one.
LEMMA InitialRows ==
  ASSUME Init
  PROVE  /\ view \in [Views -> View] /\ order \in Order /\ Len(order.ids) <= ViewLimit
         /\ order.rev > 1 /\ RowsInv
<1>1. PICK n, ids :
        /\ n \in 1 .. ViewLimit /\ ids \in [1..n -> Views] /\ Distinct(ids)
        /\ view = [v \in Views |->
             IF v \in Elems(ids) THEN [NoView EXCEPT !.rev = 1, !.live = TRUE, !.isDefault = (v = ids[1])]
             ELSE NoView]
        /\ order = [rev |-> Len(ids) + 1, ids |-> ids]
  <2>1. PICK ids \in UNION {[1 .. n -> Views] : n \in 1 .. ViewLimit} :
          /\ Distinct(ids)
          /\ view = [v \in Views |->
               IF v \in Elems(ids) THEN [NoView EXCEPT !.rev = 1, !.live = TRUE, !.isDefault = (v = ids[1])]
               ELSE NoView]
          /\ order = [rev |-> Len(ids) + 1, ids |-> ids]
    BY DEF Init, Distinct
  <2>2. PICK n \in 1 .. ViewLimit : ids \in [1..n -> Views]
    OBVIOUS
  <2> QED BY <2>1, <2>2
<1>2. ViewLimit \in Nat /\ n \in Nat /\ n > 0 /\ n <= ViewLimit
  <2>1. ViewLimit \in Nat /\ n \in 1 .. ViewLimit
    BY <1>1, ViewsAssumption
  <2> QED BY <2>1
<1>3. ids \in Seq(Views) /\ Len(ids) = n
  <2>1. ids \in [1..n -> Views]
    BY <1>1
  <2> QED BY <1>2, <2>1
<1>4. ASSUME NEW v \in Views
      PROVE  /\ view[v] \in View
             /\ v \in Elems(ids) => view[v].rev = 1 /\ view[v].live
             /\ v \notin Elems(ids) => view[v].rev = 0 /\ ~view[v].live
             /\ view[v].live /\ view[v].isDefault => v = ids[1]
  <2>1. CASE v \in Elems(ids)
    <3>1. PICK flag \in BOOLEAN : flag = (v = ids[1])
      OBVIOUS
    <3>2. PICK r : r = [NoView EXCEPT !.rev = 1, !.live = TRUE, !.isDefault = flag]
      OBVIOUS
    <3>3. r = [rev |-> 1, live |-> TRUE, isDefault |-> flag, uses |-> FALSE]
      BY <3>2 DEF NoView
    <3>4. view[v] = r
      BY <1>1, <2>1, <3>1, <3>2
    <3>5. r \in View /\ r.rev = 1 /\ r.live = TRUE /\ r.isDefault = flag
      BY <3>3 DEF View
    <3> QED BY <2>1, <3>1, <3>4, <3>5
  <2>2. CASE v \notin Elems(ids)
    <3>1. view[v] = NoView
      BY <1>1, <2>2
    <3> QED BY <2>2, <3>1 DEF NoView, View
  <2> QED BY <2>1, <2>2
<1>5. view \in [Views -> View]
  <2>1. view = [v \in Views |-> view[v]]
    BY <1>1
  <2> QED BY <1>4, <2>1
<1>6. Elems(ids) \subseteq Views
  BY <1>3 DEF Elems
<1>7. Live(view) = Elems(ids) /\ Existing = Elems(ids) /\ LiveExist /\ DefaultAlone
  <2>1. Live(view) = Elems(ids) /\ Existing = Elems(ids)
    BY <1>4, <1>6 DEF Live, Existing
  <2>2. LiveExist /\ DefaultAlone
    BY <1>4 DEF LiveExist, DefaultAlone, Defaults
  <2> QED BY <2>1, <2>2
<1>8. IsFiniteSet(Elems(ids)) /\ Cardinality(Elems(ids)) = n
  BY <1>1, <1>3, DistinctLength
<1>9. ViewsCounted
  BY <1>2, <1>7, <1>8 DEF ViewsCounted
<1>10. order \in Order /\ order.ids = ids /\ Len(order.ids) <= ViewLimit /\ order.rev > 1
  <2>1. order = [rev |-> n + 1, ids |-> ids]
    <3>1. order = [rev |-> Len(ids) + 1, ids |-> ids]
      BY <1>1
    <3> QED BY <1>3, <3>1
  <2>2. n + 1 \in Nat \ {0} /\ n + 1 > 1
    BY <1>2
  <2> QED BY <1>2, <1>3, <2>1, <2>2 DEF Order
<1> QED BY <1>1, <1>5, <1>7, <1>9, <1>10 DEF RowsInv, Agrees

LEMMA InitInv == Init => TableViewsInv
<1> SUFFICES ASSUME Init PROVE TableViewsInv
  OBVIOUS
<1>1. /\ view \in [Views -> View] /\ order \in Order /\ Len(order.ids) <= ViewLimit
      /\ order.rev > 1 /\ RowsInv
  BY InitialRows
<1>2. /\ tableLive = TRUE /\ fieldLive = TRUE /\ changes = {}
      /\ receipt = [k \in Keys |-> "none"] /\ guard = [k \in Keys |-> FALSE]
      /\ list = [c \in Clients |-> NoList] /\ edit = [c \in Clients |-> NoEdit]
      /\ request = [k \in Keys |-> NoRequest] /\ handler = [h \in Handlers |-> None]
      /\ told = [k \in Keys |-> {}]
  BY DEF Init
<1>3. NoRequest \in Request /\ NoRequest.op = "none" /\ NoEdit \in Edit /\ NoEdit.at = None
  BY DEF NoRequest, Request, NoEdit, Edit
<1>4. TypeOK
  BY <1>1, <1>2, <1>3, NoListType DEF TypeOK
<1>5. SnapshotsAgree /\ EditsListed
  BY <1>2, <1>3 DEF SnapshotsAgree, EditsListed, NoList
<1>6. OrdersPast
  <2>1. order.rev \in Nat /\ 1 <= order.rev /\ order.rev # 1
    BY <1>1 DEF Order
  <2> QED BY <1>1, <1>2, <1>3, <2>1, NoListType DEF OrdersPast, Past
<1>7. RowsPast
  <2>1. \A v \in Views : view[v].rev \in Nat
    BY <1>1 DEF View
  <2> QED BY <1>2, <2>1, NoListType DEF RowsPast, RowPast
<1>8. HandlersHaveRequests
  BY <1>2 DEF HandlersHaveRequests
<1>9. KeysTrue
  BY <1>2, <1>3 DEF KeysTrue, KeyTrue
<1> QED BY <1>1, <1>4, <1>5, <1>6, <1>7, <1>8, <1>9 DEF TableViewsInv, ClientsInv

LEMMA NextInv == TableViewsInv /\ [Next]_vars => TableViewsInv'
<1> SUFFICES ASSUME TableViewsInv, [Next]_vars PROVE TableViewsInv'
  OBVIOUS
<1>1. ASSUME NEW c \in Clients, ClientStep(c) PROVE TableViewsInv'
  BY <1>1, ListStep, StartUpdateStep, UpdateStep, DeleteStep, DefaultStep DEF ClientStep
<1>2. ASSUME NEW h \in Handlers, HandlerStep(h) PROVE TableViewsInv'
  BY <1>2, AcceptStep, ReplayStep, CreateStep, ReorderStep, AbortStep DEF HandlerStep
<1>3. ASSUME NEW k \in Keys, Compose(k) PROVE TableViewsInv'
  BY <1>3, ComposeStep
<1>4. CASE Toggle \/ \E k \in Keys : Expire(k)
  BY <1>4, OtherStep
<1>5. CASE UNCHANGED vars
  BY <1>5 DEF vars, TableViewsInv, TypeOK, RowsInv, Agrees, ViewsCounted, DefaultAlone, LiveExist, Existing,
              Defaults, Live, ClientsInv, SnapshotsAgree, OrdersPast, Past, RowsPast, RowPast, EditsListed,
              HandlersHaveRequests, KeysTrue, KeyTrue
<1> QED BY <1>1, <1>2, <1>3, <1>4, <1>5 DEF Next

LEMMA AlwaysInv == Spec => []TableViewsInv
BY InitInv, NextInv, PTL DEF Spec

(***************************************************************************)
(* The theorems.                                                           *)
(***************************************************************************)

\* A set that does not have two different members.
LEMMA AtMostOne ==
  ASSUME NEW S, \A a, b \in S : a = b
  PROVE  Cardinality(S) <= 1
<1>1. CASE S = {}
  BY <1>1, FS_EmptySet
<1>2. CASE S # {}
  <2>1. PICK a \in S : S = {a}
    BY <1>2
  <2>2. Cardinality(S) = 1
    BY <2>1, FS_Singleton
  <2> QED BY <2>2
<1> QED BY <1>1, <1>2

\* The trigger of migration 008 keeps the order equal to the active Views, ReorderViews
\* only permutes it, and SetDefaultView takes the flag from the View that had it, while
\* RestoreView brings none back: a listing never finds a mismatch, and a Table never has
\* two default Views.
THEOREM ViewsAgree == Spec => []ViewsInv
<1>1. TableViewsInv => ViewsInv
  <2> SUFFICES ASSUME TableViewsInv PROVE ViewsInv
    OBVIOUS
  <2>1. OrderIsActive
    BY DEF TableViewsInv, RowsInv, Agrees, Distinct, OrderIsActive
  <2>2. ListNeverFails
    BY DEF TableViewsInv, ClientsInv, SnapshotsAgree, ListNeverFails
  <2>3. OneDefault
    BY AtMostOne DEF TableViewsInv, RowsInv, DefaultAlone, OneDefault
  <2> QED BY <2>1, <2>2, <2>3 DEF TableViewsInv, ViewsInv
<1> QED BY <1>1, AlwaysInv, PTL

\* A reorder leaves a guard beside its receipt, in one transaction (ReorderViews): it is
\* looked for before anything else, so that no later answer contradicts the first one.
THEOREM ReordersReplay == Spec => []ReorderReplayed
<1>1. TableViewsInv => ReorderReplayed
  <2> SUFFICES ASSUME TableViewsInv, NEW k \in Keys, request[k].op = "reorder"
      PROVE  /\ Cardinality(told[k] \ {"expired"}) <= 1
             /\ told[k] \subseteq {"applied", "unchanged", "expired"}
    BY DEF ReorderReplayed
  <2>1. /\ told[k] \subseteq {"applied", "unchanged", "expired"}
        /\ \A x, y \in told[k] \ {"expired"} : x = y
    BY DEF TableViewsInv, KeysTrue, KeyTrue
  <2> QED BY <2>1, AtMostOne
<1> QED BY <1>1, AlwaysInv, PTL

\* Revisions are compared under the Table lock (ReorderViews, checkViewRevision): equal
\* Revisions mean the same order, and the same row, since each change raises them by one.
THEOREM ChangesAreSeen == Spec => WrittenAsSeen
<1>1. TableViewsInv /\ [Next]_vars =>
        [/\ \A k \in Keys : guard'[k] /\ ~guard[k] => request[k].saw = order.ids
         /\ \A v \in Views : view[v].rev > 0 /\
              <<view'[v].live, view'[v].uses>> # <<view[v].live, view[v].uses>> =>
                \E c \in Clients : list[c].view[v] = view[v]]_<<guard, view>>
  <2> SUFFICES ASSUME TableViewsInv, Next
      PROVE  /\ \A k \in Keys : guard'[k] /\ ~guard[k] => request[k].saw = order.ids
             /\ \A v \in Views : view[v].rev > 0 /\
                  <<view'[v].live, view'[v].uses>> # <<view[v].live, view[v].uses>> =>
                    \E c \in Clients : list[c].view[v] = view[v]
    BY DEF vars
  <2>1. TypeOK /\ RowsInv /\ ClientsInv
    BY DEF TableViewsInv
  <2>2. ASSUME NEW k \in Keys, guard'[k], ~guard[k] PROVE request[k].saw = order.ids
    <3>1. PICK h \in Handlers : handler[h] = k /\ ReorderTx(h)
      <4>1. \A h \in Handlers : guard'[k] # guard[k] /\ ReorderTx(h) => handler[h] = k
        BY <2>1 DEF ReorderTx, Refuse, TypeOK
      <4>2. guard' # guard
        BY <2>2
      <4>3. ~Toggle /\ \A p \in Keys : ~Compose(p) /\ ~Expire(p)
        BY <4>2 DEF Toggle, Compose, Expire
      <4>4. \A c \in Clients : ~ClientStep(c)
        BY <4>2 DEF ClientStep, BeginList, ReadOrder, ReadViews, OnlyList, StartUpdate, UpdateView,
                    DeleteView, RestoreView, SetDefaultView, OnlyRows
      <4>5. \A h \in Handlers : HandlerStep(h) => ReorderTx(h)
        BY <4>2 DEF HandlerStep, Accept, ReplayTx, CreateTx, Refuse, Abort
      <4> QED BY <2>2, <4>1, <4>3, <4>4, <4>5 DEF Next
    <3>2. request[k].op = "reorder" /\ order.rev = request[k].rev
      BY <2>2, <3>1 DEF ReorderTx, Refuse, OrderUnchanged
    <3> QED BY <2>1, <3>2 DEF ClientsInv, OrdersPast, Past
  <2>3. ASSUME NEW v \in Views, view[v].rev > 0,
               <<view'[v].live, view'[v].uses>> # <<view[v].live, view[v].uses>>
        PROVE  \E c \in Clients : list[c].view[v] = view[v]
    <3>1. ASSUME NEW c \in Clients, list[c].view[v].rev = view[v].rev
          PROVE  list[c].view[v] = view[v]
      BY <2>1, <2>3, <3>1 DEF ClientsInv, RowsPast, RowPast
    <3>2. view' # view
      BY <2>3
    <3>3. ~Toggle /\ \A p \in Keys : ~Compose(p) /\ ~Expire(p)
      BY <3>2 DEF Toggle, Compose, Expire
    <3>4. ASSUME NEW h \in Handlers, HandlerStep(h) PROVE FALSE
      <4>1. CreateTx(h) /\ ~Refuse(h)
        BY <3>2, <3>4 DEF HandlerStep, Accept, ReplayTx, CreateTx, ReorderTx, Refuse, Abort
      <4>2. PICK w, r : w \in Views \ Existing /\ view' = [view EXCEPT ![w] = r]
        BY <4>1 DEF CreateTx
      <4>3. w # v
        BY <2>3, <4>2 DEF Existing
      <4>4. view'[v] = view[v]
        BY <2>1, <4>2, <4>3 DEF TypeOK
      <4> QED BY <2>3, <4>4
    <3>5. ASSUME NEW c \in Clients, ClientStep(c) PROVE list[c].view[v].rev = view[v].rev
      <4>1. CASE UpdateView(c)
        <5>1. PICK r : view' = [view EXCEPT ![edit[c].at] = r]
          BY <3>2, <4>1 DEF UpdateView
        <5>2. edit[c].at = v /\ edit[c].at # None /\ view[v].rev = edit[c].rev
          BY <2>1, <2>3, <3>2, <4>1, <5>1 DEF UpdateView, TypeOK
        <5> QED BY <2>1, <5>2 DEF ClientsInv, EditsListed
      <4>2. ASSUME NEW w \in Views, DeleteView(c, w) \/ RestoreView(c, w)
            PROVE  list[c].view[v].rev = view[v].rev
        <5>1. PICK r : view' = [view EXCEPT ![w] = r]
          BY <4>2 DEF DeleteView, RestoreView
        <5>2. v = w
          BY <2>1, <2>3, <5>1 DEF TypeOK
        <5> QED BY <4>2, <5>2 DEF DeleteView, RestoreView, AsSeen
      <4>3. ASSUME NEW w \in Views, SetDefaultView(c, w)
            PROVE  FALSE
        BY <2>1, <2>3, <4>3, DefaultKeepsRows DEF TypeOK
      <4>4. ~BeginList(c) /\ ~ReadOrder(c) /\ ~ReadViews(c) /\ ~StartUpdate(c)
        BY <3>2 DEF BeginList, ReadOrder, ReadViews, OnlyList, StartUpdate
      <4> QED BY <3>5, <4>1, <4>2, <4>3, <4>4 DEF ClientStep
    <3> QED BY <3>1, <3>3, <3>4, <3>5 DEF Next
  <2> QED BY <2>2, <2>3
<1> QED BY <1>1, AlwaysInv, PTL DEF Spec, WrittenAsSeen

=============================================================================

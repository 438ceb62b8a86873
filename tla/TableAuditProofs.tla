-------------------------- MODULE TableAuditProofs --------------------------
(***************************************************************************)
(* Theorems about Catalog and TableAudit, for every value of their         *)
(* constants: any number of Workspaces, Bases, Tables, Records, keys and   *)
(* transactions in flight, any limits and any size of a page.              *)
(***************************************************************************)
EXTENDS TableAudit, FiniteSetTheorems, SequenceTheorems, WellFoundedInduction, TLAPS

(***************************************************************************)
(* Numbers, and the descending sequence of a finite set of them.  The      *)
(* induction is about sets: a set of numbers that is not empty has a least *)
(* element, because < is well-founded.                                     *)
(***************************************************************************)

LessThan == {pair \in Nat \X Nat : pair[1] < pair[2]}

\* The order of the numbers is well-founded.
LEMMA LessThanWellFounded == IsWellFoundedOn(LessThan, Nat)
  BY NatLessThanWellFounded DEF OpToRel, LessThan

\* What Min chooses exists.
LEMMA LeastNumber ==
  ASSUME NEW S \in SUBSET Nat, S # {}
  PROVE  \E x \in S : \A y \in S : x <= y
<1>1. PICK x \in S : \A y \in S : ~ (<<y, x>> \in LessThan)
  BY WFMin, LessThanWellFounded
<1>2. ASSUME NEW y \in S PROVE x <= y
  <2>1. <<y, x>> \in Nat \X Nat
    OBVIOUS
  <2>2. <<y, x>>[1] = y /\ <<y, x>>[2] = x
    OBVIOUS
  <2>3. ~ (y < x)
    BY <1>1, <2>1, <2>2 DEF LessThan
  <2>. QED
    BY <2>3
<1>. QED
  BY <1>2

\* Induction over the numbers.
LEMMA AllNumbers ==
  ASSUME NEW S \in SUBSET Nat, 0 \in S, \A n \in S : n + 1 \in S
  PROVE  S = Nat
<1>1. SUFFICES ASSUME Nat \ S # {} PROVE FALSE
  OBVIOUS
<1>2. PICK x \in Nat \ S : \A y \in Nat \ S : x <= y
  BY <1>1, LeastNumber
<1>. QED
  BY <1>2

\* What Max chooses exists.
LEMMA GreatestNumber ==
  ASSUME NEW S \in SUBSET Nat, S # {}, NEW bound \in Nat, \A y \in S : y <= bound
  PROVE  \E x \in S : \A y \in S : x >= y
<1>. DEFINE Bounds == {b \in Nat : \A y \in S : y <= b}
<1>1. PICK b \in Bounds : \A c \in Bounds : b <= c
  <2>1. Bounds \in SUBSET Nat /\ Bounds # {}
    OBVIOUS
  <2>. HIDE DEF Bounds
  <2>. QED
    BY <2>1, LeastNumber
<1>2. b \in S
  <2>1. SUFFICES ASSUME b \notin S PROVE FALSE
    OBVIOUS
  <2>2. PICK x \in S : TRUE
    OBVIOUS
  <2>3. b > 0 /\ b - 1 \in Nat
    BY <1>1, <2>1, <2>2
  <2>4. b - 1 \in Bounds
    BY <1>1, <2>1, <2>3
  <2>. QED
    BY <1>1, <2>3, <2>4
<1>. QED
  BY <1>1, <1>2

LEMMA MinOf ==
  ASSUME NEW S \in SUBSET Nat, S # {}
  PROVE  Min(S) \in S /\ \A y \in S : Min(S) <= y
<1>1. \E x \in S : \A y \in S : x <= y
  BY LeastNumber
<1>. QED
  BY <1>1 DEF Min

LEMMA MaxOfBounded ==
  ASSUME NEW S \in SUBSET Nat, S # {}, NEW bound \in Nat, \A y \in S : y <= bound
  PROVE  Max(S) \in S /\ \A y \in S : Max(S) >= y
<1>1. \E x \in S : \A y \in S : x >= y
  BY GreatestNumber
<1>. QED
  BY <1>1 DEF Max

IsDescending(q) == \A i, j \in DOMAIN q : i < j => q[i] > q[j]

\* Every finite set of numbers has a descending sequence.
LEMMA DescendingExists ==
  ASSUME NEW S \in SUBSET Nat, IsFiniteSet(S)
  PROVE  \E q \in [1 .. Cardinality(S) -> S] : IsDescending(q) /\ ToSet(q) = S
<1>. DEFINE Good(n) == \A T \in SUBSET Nat : IsFiniteSet(T) /\ Cardinality(T) = n =>
                          \E q \in [1 .. n -> T] : IsDescending(q) /\ ToSet(q) = T
            Sizes == {n \in Nat : Good(n)}
<1>1. 0 \in Sizes
  <2>1. ASSUME NEW T \in SUBSET Nat, IsFiniteSet(T), Cardinality(T) = 0
        PROVE  \E q \in [1 .. 0 -> T] : IsDescending(q) /\ ToSet(q) = T
    <3>1. T = {}
      BY <2>1, FS_EmptySet
    <3>2. PICK q : q = [i \in 1 .. 0 |-> 0]
      OBVIOUS
    <3>3. q \in [1 .. 0 -> T] /\ IsDescending(q) /\ ToSet(q) = T
      BY <3>1, <3>2 DEF IsDescending, ToSet
    <3>. QED
      BY <3>3
  <2>. QED
    BY <2>1
<1>2. ASSUME NEW n \in Sizes PROVE n + 1 \in Sizes
  <2>1. ASSUME NEW T \in SUBSET Nat, IsFiniteSet(T), Cardinality(T) = n + 1
        PROVE  \E q \in [1 .. n + 1 -> T] : IsDescending(q) /\ ToSet(q) = T
    <3>1. T # {}
      BY <2>1, FS_EmptySet
    <3>2. PICK m \in T : \A y \in T : m <= y
      BY <3>1, LeastNumber
    <3>3. PICK U : U = T \ {m}
      OBVIOUS
    <3>4. U \in SUBSET Nat /\ IsFiniteSet(U) /\ Cardinality(U) = n
      BY <2>1, <3>2, <3>3, FS_RemoveElement
    <3>5. PICK p \in [1 .. n -> U] : IsDescending(p) /\ ToSet(p) = U
      BY <3>4
    <3>6. PICK q : q = [i \in 1 .. n + 1 |-> IF i = n + 1 THEN m ELSE p[i]]
      OBVIOUS
    <3>7. q \in [1 .. n + 1 -> T]
      BY <3>2, <3>3, <3>5, <3>6
    <3>8. IsDescending(q)
      <4>1. ASSUME NEW i \in 1 .. n + 1, NEW j \in 1 .. n + 1, i < j PROVE q[i] > q[j]
        <5>1. i \in 1 .. n /\ q[i] = p[i] /\ p[i] \in U
          BY <3>5, <3>6, <4>1
        <5>2. CASE j = n + 1
          <6>1. q[j] = m /\ p[i] \in Nat /\ m \in Nat /\ p[i] # m /\ m <= p[i]
            BY <5>1, <5>2, <3>2, <3>3, <3>4, <3>6
          <6>. QED
            BY <5>1, <6>1
        <5>3. CASE j \in 1 .. n
          BY <5>1, <5>3, <4>1, <3>5, <3>6 DEF IsDescending
        <5>. QED
          BY <5>2, <5>3
      <4>. QED
        BY <4>1, <3>7 DEF IsDescending
    <3>9. ToSet(q) = T
      <4>1. ASSUME NEW x \in T PROVE x \in ToSet(q)
        <5>1. CASE x = m
          BY <5>1, <3>6 DEF ToSet
        <5>2. CASE x # m
          <6>1. PICK i \in 1 .. n : p[i] = x
            BY <5>2, <3>3, <3>5 DEF ToSet
          <6>2. i \in 1 .. n + 1 /\ q[i] = x
            BY <6>1, <3>6
          <6>. QED
            BY <6>2, <3>6 DEF ToSet
        <5>. QED
          BY <5>1, <5>2
      <4>2. ToSet(q) \subseteq T
        BY <3>7 DEF ToSet
      <4>. QED
        BY <4>1, <4>2
    <3>. QED
      BY <3>7, <3>8, <3>9
  <2>. QED
    BY <2>1
<1>3. Sizes = Nat
  <2>1. Sizes \in SUBSET Nat
    OBVIOUS
  <2>. HIDE DEF Sizes
  <2>. QED
    BY <1>1, <1>2, <2>1, AllNumbers
<1>4. Cardinality(S) \in Nat
  BY FS_CardinalityType
<1>5. Cardinality(S) \in Sizes
  BY <1>3, <1>4
<1>. QED
  BY <1>5

\* A descending sequence of a set has as many members.
LEMMA DescendingLength ==
  ASSUME NEW S \in SUBSET Nat, NEW n \in Nat, NEW q \in [1 .. n -> S], IsDescending(q), ToSet(q) = S
  PROVE  IsFiniteSet(S) /\ Cardinality(S) = n
<1>1. IsInjective(q)
  <2>1. ASSUME NEW i \in 1 .. n, NEW j \in 1 .. n, q[i] = q[j] PROVE i = j
    <3>1. q[i] \in Nat /\ q[j] \in Nat
      OBVIOUS
    <3>2. ~(i < j) /\ ~(j < i)
      BY <2>1, <3>1 DEF IsDescending
    <3>. QED
      BY <3>2
  <2>. QED
    BY <2>1 DEF IsInjective
<1>2. \A x \in S : \E i \in 1 .. n : q[i] = x
  BY DEF ToSet
<1>3. q \in Bijection(1 .. n, S)
  BY <1>1, <1>2 DEF Bijection, Injection, Surjection
<1>4. IsFiniteSet(1 .. n) /\ Cardinality(1 .. n) = n
  BY FS_Interval
<1>5. ExistsBijection(1 .. n, S)
  BY <1>3 DEF ExistsBijection
<1>. QED
  BY <1>4, <1>5, FS_Bijection

\* A set has one descending sequence.
LEMMA DescendingUnique ==
  ASSUME NEW S \in SUBSET Nat, NEW n \in Nat, NEW p \in [1 .. n -> S], NEW q \in [1 .. n -> S],
         IsDescending(p), IsDescending(q), ToSet(p) = S, ToSet(q) = S
  PROVE  p = q
<1>. DEFINE Differ == {i \in 1 .. n : p[i] # q[i]}
<1>1. SUFFICES ASSUME Differ # {} PROVE FALSE
  OBVIOUS
<1>2. PICK i \in Differ : \A j \in Differ : i <= j
  <2>1. Differ \in SUBSET Nat
    OBVIOUS
  <2>. HIDE DEF Differ
  <2>. QED
    BY <1>1, <2>1, LeastNumber
<1>3. i \in 1 .. n /\ p[i] # q[i] /\ p[i] \in Nat /\ q[i] \in Nat
  OBVIOUS
<1>4. \A j \in 1 .. n : j < i => p[j] = q[j]
  BY <1>2
<1>5. CASE p[i] > q[i]
  <2>1. PICK j \in 1 .. n : q[j] = p[i]
    BY <1>3 DEF ToSet
  <2>2. CASE j < i
    BY <1>3, <1>4, <2>1, <2>2 DEF IsDescending
  <2>3. CASE i < j
    BY <1>3, <1>5, <2>1, <2>3 DEF IsDescending
  <2>. QED
    BY <1>3, <2>1, <2>2, <2>3
<1>6. CASE q[i] > p[i]
  <2>1. PICK j \in 1 .. n : p[j] = q[i]
    BY <1>3 DEF ToSet
  <2>2. CASE j < i
    BY <1>3, <1>4, <2>1, <2>2 DEF IsDescending
  <2>3. CASE i < j
    BY <1>3, <1>6, <2>1, <2>3 DEF IsDescending
  <2>. QED
    BY <1>3, <2>1, <2>2, <2>3
<1>. QED
  BY <1>3, <1>5, <1>6

\* What the rows of a page are taken from.
LEMMA DescendingLists ==
  ASSUME NEW S \in SUBSET Nat, IsFiniteSet(S)
  PROVE  /\ Descending(S) \in [1 .. Cardinality(S) -> S]
         /\ IsDescending(Descending(S)) /\ ToSet(Descending(S)) = S
<1>. DEFINE q == Descending(S)
<1>1. PICK p \in [1 .. Cardinality(S) -> S] : IsDescending(p) /\ ToSet(p) = S
  BY DescendingExists
<1>2. q \in [1 .. Cardinality(S) -> S] /\ IsDescending(q)
  BY <1>1 DEF Descending, IsDescending
<1>3. ToSet(q) = S
  <2>1. PICK T : T = ToSet(q)
    OBVIOUS
  <2>2. T \in SUBSET S /\ q \in [1 .. Cardinality(S) -> T]
    BY <1>2, <2>1 DEF ToSet
  <2>3. Cardinality(S) \in Nat
    BY FS_CardinalityType
  <2>4. Cardinality(T) = Cardinality(S)
    BY <1>2, <2>1, <2>2, <2>3, DescendingLength
  <2>. QED
    BY <2>1, <2>2, <2>4, FS_Subset
<1>. QED
  BY <1>2, <1>3

\* Whatever lists a set from its greatest number down is Descending of it.
LEMMA ListsDescending ==
  ASSUME NEW S \in SUBSET Nat, NEW n \in Nat, NEW q \in [1 .. n -> S], IsDescending(q), ToSet(q) = S
  PROVE  IsFiniteSet(S) /\ q = Descending(S)
<1>1. IsFiniteSet(S) /\ Cardinality(S) = n
  BY DescendingLength
<1>. QED
  BY <1>1, DescendingLists, DescendingUnique

(***************************************************************************)
(* Pages.                                                                  *)
(***************************************************************************)

\* Where the next page goes on.
NextBefore(rows, before) == IF Page(rows, before) = <<>> THEN before ELSE Last(Page(rows, before))

\* A page holds, from the greatest down, the numbers between its end and its start,
\* all of them when there are no more.
LEMMA PageHolds ==
  ASSUME NEW rows, NEW S, S = Numbers(rows), S \in SUBSET Nat, IsFiniteSet(S), NEW b \in Nat
  PROVE  /\ \E k \in Nat : Page(rows, b) \in [1 .. k -> Nat]
         /\ IsDescending(Page(rows, b))
         /\ NextBefore(rows, b) \in Nat /\ NextBefore(rows, b) <= b
         /\ \A n : n \in ToSet(Page(rows, b)) <=>
                    n \in S /\ n < b /\ (n >= NextBefore(rows, b) \/ ~HasMore(rows, b))
<1>. DEFINE below == {n \in S : n < b}
            d == Descending(below)
            items == Page(rows, b)
<1>1. below \in SUBSET Nat /\ IsFiniteSet(below)
  <2>1. below \in SUBSET S
    OBVIOUS
  <2>. QED
    BY <2>1, FS_Subset
<1>2. PICK m \in Nat : m = Cardinality(below)
  BY <1>1, FS_CardinalityType
<1>3. d \in [1 .. m -> below] /\ IsDescending(d) /\ ToSet(d) = below
  <2>. HIDE DEF below
  <2>. QED
    BY <1>1, <1>2, DescendingLists
<1>4. d \in Seq(Nat) /\ Len(d) = m
  BY <1>1, <1>2, <1>3
<1>5. PICK k \in Nat : k = IF m < PageLimit THEN m ELSE PageLimit
  BY <1>2, PageAssumption
<1>6. items = [i \in 1 .. k |-> d[i]]
  <2>1. items = SubSeq(d, 1, k)
    BY <1>4, <1>5 DEF Page
  <2>2. PICK e \in Seq(Nat) : e = d
    BY <1>4
  <2>3. k <= Len(e)
    BY <1>4, <1>5, <2>2
  <2>4. SubSeq(e, 1, k) = [i \in 1 .. k |-> e[i]]
    BY <2>3
  <2>. QED
    BY <2>1, <2>2, <2>4
<1>7. HasMore(rows, b) <=> m > PageLimit
  BY <1>2 DEF HasMore
<1>8. \A i \in 1 .. k : i \in 1 .. m /\ items[i] = d[i] /\ items[i] \in below
  BY <1>3, <1>5, <1>6
<1>9. IsDescending(items)
  <2>1. ASSUME NEW i \in 1 .. k, NEW j \in 1 .. k, i < j PROVE d[i] > d[j]
    <3>1. i \in 1 .. m /\ j \in 1 .. m
      BY <1>8
    <3>2. DOMAIN d = 1 .. m
      BY <1>3
    <3>. HIDE DEF d
    <3>. QED
      BY <1>3, <2>1, <3>1, <3>2 DEF IsDescending
  <2>2. DOMAIN items = 1 .. k
    BY <1>6
  <2>. HIDE DEF items
  <2>. QED
    BY <1>8, <2>1, <2>2 DEF IsDescending
<1>. HIDE DEF d
<1>10. ASSUME k = 0
       PROVE  m = 0 /\ items = <<>>
  <2>1. m = 0
    BY <1>2, <1>5, <1>10, PageAssumption
  <2>2. items = <<>>
    BY <1>6, <1>10
  <2>. QED
    BY <2>1, <2>2
<1>11. ASSUME k > 0
       PROVE  NextBefore(rows, b) = d[k] /\ k \in 1 .. m
  <2>1. items # <<>> /\ Last(items) = d[k]
    <3>1. items \in Seq(Nat) /\ Len(items) = k
      BY <1>1, <1>6, <1>8
    <3>. HIDE DEF items
    <3>2. k \in 1 .. k
      BY <1>11
    <3>. QED
      BY <1>8, <1>11, <3>1, <3>2 DEF Last
  <2>. QED
    BY <1>5, <1>11, <2>1 DEF NextBefore
<1>12. NextBefore(rows, b) \in Nat /\ NextBefore(rows, b) <= b
  <2>1. CASE k = 0
    BY <1>10, <2>1 DEF NextBefore
  <2>2. CASE k > 0
    BY <1>3, <1>11, <2>2
  <2>. QED
    BY <2>1, <2>2
<1>13. ToSet(items) = {n \in S : n < b /\ (n >= NextBefore(rows, b) \/ ~HasMore(rows, b))}
  <2>1. ASSUME NEW i \in 1 .. k
        PROVE  d[i] \in below /\ d[i] >= NextBefore(rows, b)
    <3>1. k > 0 /\ i \in 1 .. m
      BY <1>8
    <3>2. d[i] \in Nat /\ d[k] \in Nat
      BY <1>1, <1>3, <1>11, <3>1
    <3>3. i < k => d[i] > d[k]
      BY <1>3, <1>11, <3>1 DEF IsDescending
    <3>. QED
      BY <1>3, <1>11, <3>1, <3>2, <3>3
  <2>2. ASSUME NEW n \in below, n >= NextBefore(rows, b) \/ ~HasMore(rows, b)
        PROVE  \E i \in 1 .. k : d[i] = n
    <3>1. PICK j \in 1 .. m : d[j] = n
      BY <1>3 DEF ToSet
    <3>2. CASE m <= PageLimit
      BY <1>2, <1>5, <3>1, <3>2, PageAssumption
    <3>3. CASE m > PageLimit
      <4>1. k = PageLimit /\ k > 0 /\ n >= d[k] /\ k \in 1 .. m
        BY <1>2, <1>5, <1>7, <1>11, <2>2, <3>3, PageAssumption
      <4>2. d[k] \in Nat /\ n \in Nat
        BY <1>1, <1>3, <4>1
      <4>3. ~(k < j)
        BY <1>3, <3>1, <4>1, <4>2 DEF IsDescending
      <4>. QED
        BY <3>1, <4>1, <4>3
    <3>. QED
      BY <1>2, <3>2, <3>3, PageAssumption
  <2>3. ToSet(items) = {d[i] : i \in 1 .. k}
    BY <1>6 DEF ToSet
  <2>. QED
    BY <2>1, <2>2, <2>3
<1>14. items \in [1 .. k -> Nat]
  <2>1. below \subseteq Nat
    BY <1>1
  <2>. QED
    BY <1>6, <1>8, <2>1
<1>. QED
  BY <1>9, <1>12, <1>13, <1>14

WithPage(listed, rows, b) == listed \o Page(rows, b)

\* What has been listed and the next page are again a listing.
LEMMA ListingGrows ==
  ASSUME NEW rows, NEW S, S = Numbers(rows), S \in SUBSET Nat, IsFiniteSet(S), NEW b \in Nat,
         NEW A, \A n : n \in A <=> n \in S /\ n >= b, NEW listed, listed = Descending(A),
         NEW AB, \A n : n \in AB <=> n \in S /\ (n >= NextBefore(rows, b) \/ ~HasMore(rows, b))
  PROVE  WithPage(listed, rows, b) = Descending(AB)
<1>. DEFINE B == {n \in S : n < b /\ (n >= NextBefore(rows, b) \/ ~HasMore(rows, b))}
<1>0. PICK q : q = Page(rows, b)
  OBVIOUS
<1>1. PICK k \in Nat : q = Page(rows, b) /\ q \in [1 .. k -> Nat]
  BY <1>0, PageHolds
<1>2. IsDescending(q) /\ ToSet(q) = B /\ NextBefore(rows, b) \in Nat /\ NextBefore(rows, b) <= b
  <2>1. /\ IsDescending(Page(rows, b)) /\ ToSet(Page(rows, b)) = B
        /\ NextBefore(rows, b) \in Nat /\ NextBefore(rows, b) <= b
    <3>1. /\ IsDescending(Page(rows, b))
          /\ NextBefore(rows, b) \in Nat /\ NextBefore(rows, b) <= b
      BY PageHolds
    <3>2. \A n : n \in ToSet(Page(rows, b)) <=>
                 n \in S /\ n < b /\ (n >= NextBefore(rows, b) \/ ~HasMore(rows, b))
      BY PageHolds
    <3>. QED
      BY <3>1, <3>2
  <2>. HIDE DEF B
  <2>. QED
    BY <1>1, <2>1
<1>3. A \in SUBSET Nat /\ IsFiniteSet(A)
  <2>1. A \in SUBSET S
    OBVIOUS
  <2>. QED
    BY <2>1, FS_Subset
<1>15. PICK p : p = listed
  OBVIOUS
<1>4. PICK m \in Nat : p \in [1 .. m -> A] /\ IsDescending(p) /\ ToSet(p) = A
  <2>1. Cardinality(A) \in Nat
    BY <1>3, FS_CardinalityType
  <2>2. p = Descending(A)
    BY <1>15
  <2>. QED
    BY <1>3, <2>1, <2>2, DescendingLists
<1>5. AB = A \cup B
  BY <1>2
<1>6. p \in Seq(Nat) /\ Len(p) = m /\ q \in Seq(Nat) /\ Len(q) = k
  BY <1>1, <1>3, <1>4
<1>7. PICK pq : pq = p \o q
  OBVIOUS
<1>8. /\ pq \in Seq(Nat) /\ Len(pq) = m + k
      /\ \A i \in 1 .. m + k : pq[i] = IF i <= m THEN p[i] ELSE q[i - m]
  <2>1. /\ p \o q \in Seq(Nat) /\ Len(p \o q) = Len(p) + Len(q)
        /\ \A i \in 1 .. Len(p) + Len(q) : (p \o q)[i] = IF i <= Len(p) THEN p[i] ELSE q[i - Len(p)]
    BY <1>6, ConcatProperties
  <2>. HIDE DEF B
  <2>. QED
    BY <1>6, <1>7, <2>1
<1>9. DOMAIN pq = 1 .. m + k
  BY <1>8
<1>10. \A i \in 1 .. k : q[i] \in B
  BY <1>1, <1>2 DEF ToSet
<1>11. pq \in [1 .. m + k -> AB]
  <2>1. ASSUME NEW i \in 1 .. m + k PROVE pq[i] \in AB
    <3>1. CASE i <= m
      BY <1>4, <1>5, <1>8, <3>1
    <3>2. CASE i > m
      <4>1. i - m \in 1 .. k
        BY <3>2
      <4>2. pq[i] = q[i - m] /\ q[i - m] \in B
        BY <1>8, <1>10, <3>2, <4>1
      <4>. HIDE DEF B
      <4>. QED
        BY <1>5, <4>2
    <3>. QED
      BY <3>1, <3>2
  <2>. QED
    BY <1>8, <1>9, <2>1
<1>12. IsDescending(pq)
  <2>1. ASSUME NEW i \in 1 .. m + k, NEW j \in 1 .. m + k, i < j PROVE pq[i] > pq[j]
    <3>1. CASE j <= m
      BY <1>4, <1>8, <2>1, <3>1 DEF IsDescending
    <3>2. CASE i <= m /\ j > m
      <4>1. j - m \in 1 .. k /\ i \in 1 .. m
        BY <3>2
      <4>2. pq[i] \in A /\ pq[j] \in B
        <5>1. pq[i] = p[i] /\ pq[j] = q[j - m] /\ q[j - m] \in B
          BY <1>8, <1>10, <3>2, <4>1
        <5>. HIDE DEF B
        <5>. QED
          BY <1>4, <4>1, <5>1
      <4>. QED
        BY <1>3, <4>2
    <3>3. CASE i > m
      <4>1. i - m \in 1 .. k /\ j - m \in 1 .. k /\ i - m < j - m
        BY <2>1, <3>3
      <4>2. q[i - m] > q[j - m]
        BY <1>1, <1>2, <4>1 DEF IsDescending
      <4>3. pq[i] = q[i - m]
        BY <1>8, <3>3
      <4>4. j > m
        BY <2>1, <3>3
      <4>5. pq[j] = q[j - m]
        BY <1>8, <4>4
      <4>. HIDE DEF B
      <4>. QED
        BY <4>2, <4>3, <4>5
    <3>. QED
      BY <3>1, <3>2, <3>3
  <2>. QED
    BY <1>9, <2>1 DEF IsDescending
<1>13. ToSet(pq) = AB
  <2>1. ASSUME NEW x \in AB PROVE \E i \in 1 .. m + k : pq[i] = x
    <3>1. CASE x \in A
      <4>1. PICK i \in 1 .. m : p[i] = x
        BY <1>4, <3>1 DEF ToSet
      <4>2. i \in 1 .. m + k /\ pq[i] = x
        BY <1>8, <4>1
      <4>. QED
        BY <4>2
    <3>2. CASE x \in B
      <4>1. PICK i \in 1 .. k : q[i] = x
        BY <1>1, <1>2, <3>2 DEF ToSet
      <4>2. m + i \in 1 .. m + k /\ ~(m + i <= m) /\ (m + i) - m = i
        OBVIOUS
      <4>3. pq[m + i] = x
        BY <1>8, <4>1, <4>2
      <4>. QED
        BY <4>2, <4>3
    <3>. QED
      BY <1>5, <3>1, <3>2
  <2>2. ToSet(pq) \subseteq AB
    BY <1>9, <1>11 DEF ToSet
  <2>. QED
    BY <1>9, <2>1, <2>2 DEF ToSet
<1>14. AB \in SUBSET Nat /\ m + k \in Nat
  OBVIOUS
<1>16. pq = Descending(AB)
  <2>. QED
    BY <1>11, <1>12, <1>13, <1>14, ListsDescending
<1>. QED
  BY <1>1, <1>7, <1>15, <1>16 DEF WithPage

(***************************************************************************)
(* The inductive invariant of the transactions: types, the shape of a      *)
(* transaction at each stage, and what its locks protect.                  *)
(***************************************************************************)

Parents == {Actor} \cup Workspaces \cup Bases

PartialRows == UNION {[S -> Rows] : S \in SUBSET Objects}

Transactions ==
  [stage : {"idle", "actor", "ancestor", "written"}, object : Objects \cup {Actor},
   parent : Parents, key : Keys \cup {None}, todo : SUBSET Tables, operation : Nat,
   rows : PartialRows, events : SUBSET Events, changes : SUBSET Changes]

Typed ==
  /\ row \in [Objects -> Rows]
  /\ lock \in [Objects \cup {Actor} -> Slots \cup {None}]
  /\ tx \in [Slots -> Transactions]
  /\ nextNumber \in Nat \ {0}
  /\ events \in SUBSET Events /\ changes \in SUBSET Changes
  /\ receipt \in [Keys -> Objects \cup {None}]
  /\ request \in [Keys -> Parents \cup {None}]

\* What is below what: the parent of a row that exists is one that exists.
IsParent(x, p) ==
  /\ x \in Workspaces => p = Actor
  /\ x \in Bases => p \in Workspaces
  /\ x \in Tables => p \in Bases
  /\ x \in Records => p \in Tables

Family ==
  \A x \in Objects :
    /\ Exists(x) => IsParent(x, row[x].parent) /\ (row[x].parent # Actor => Exists(row[x].parent))
    /\ x \in Records => Exists(x)

\* A creation has the Actor locked, and goes on below a parent that exists.
CreationTrue(s) ==
  tx[s].key # None =>
    /\ tx[s].stage \in {"actor", "written"}
    /\ lock[Actor] = s /\ tx[s].todo = {} /\ tx[s].changes = {}
    /\ tx[s].parent = request[tx[s].key]
    /\ tx[s].parent # Actor => Exists(tx[s].parent)
    /\ tx[s].stage = "actor" => DOMAIN tx[s].rows = {} /\ tx[s].events = {} /\ tx[s].object = Actor
    /\ tx[s].stage = "written" =>
         LET x == tx[s].object
         IN /\ x \in Objects /\ DOMAIN tx[s].rows = {x} /\ ~Exists(x) /\ x \notin Records
            /\ tx[s].rows[x].parent = tx[s].parent /\ IsParent(x, tx[s].parent)
            /\ tx[s].rows[x].revision > 0
            /\ \A e \in tx[s].events : e.table = x /\ e.object = x

\* Any other transaction has locked what its rows are changed under.
UpdateTrue(s) ==
  tx[s].key = None /\ tx[s].stage # "idle" =>
    LET x == tx[s].object
    IN /\ x \in Objects /\ Exists(x) /\ lock[x] = s
       /\ tx[s].stage = "ancestor" => /\ x \in Workspaces \cup Bases /\ DOMAIN tx[s].rows = {x}
                                      /\ tx[s].changes = {} /\ tx[s].todo \subseteq Below(x)
       /\ tx[s].stage = "written" => x \in Tables /\ tx[s].todo = {}
       /\ tx[s].stage # "actor"
       /\ \A y \in DOMAIN tx[s].rows :
            /\ TableOf(y) = x /\ Exists(y)
            /\ tx[s].rows[y].parent = row[y].parent /\ tx[s].rows[y].revision > 0

IdleTrue(s) == tx[s].stage = "idle" => tx[s] = Idle /\ \A x \in DOMAIN lock : lock[x] # s

SlotTrue(s) == IdleTrue(s) /\ CreationTrue(s) /\ UpdateTrue(s)

CatalogInv == Typed /\ Family /\ \A s \in Slots : SlotTrue(s)

\* Two transactions write different rows.
LEMMA RowsApart ==
  ASSUME CatalogInv, NEW s \in Slots, NEW u \in Slots, s # u,
         NEW x \in DOMAIN tx[s].rows
  PROVE  x \notin DOMAIN tx[u].rows
<1>1. SUFFICES ASSUME x \in DOMAIN tx[u].rows PROVE FALSE
  OBVIOUS
<1>2. SlotTrue(s) /\ SlotTrue(u) /\ tx[s] \in Transactions /\ tx[u] \in Transactions
  BY DEF CatalogInv, Typed
<1>3. tx[s].stage # "idle" /\ tx[u].stage # "idle"
  BY <1>1, <1>2 DEF SlotTrue, IdleTrue, Idle
<1>4. CASE tx[s].key # None /\ tx[u].key # None
  BY <1>2, <1>4 DEF SlotTrue, CreationTrue
<1>5. CASE tx[s].key # None /\ tx[u].key = None
  BY <1>1, <1>2, <1>3, <1>5 DEF SlotTrue, CreationTrue, UpdateTrue, Transactions
<1>6. CASE tx[s].key = None /\ tx[u].key # None
  BY <1>1, <1>2, <1>3, <1>6 DEF SlotTrue, CreationTrue, UpdateTrue, Transactions
<1>7. CASE tx[s].key = None /\ tx[u].key = None
  BY <1>1, <1>2, <1>3, <1>7 DEF SlotTrue, UpdateTrue
<1>. QED
  BY <1>4, <1>5, <1>6, <1>7

(***************************************************************************)
(* The steps of the transactions, by what they do.                         *)
(***************************************************************************)

\* What the step of one transaction leaves alone.
Frame(s) ==
  /\ \A u \in Slots \ {s} : tx'[u] = tx[u] /\ \A x \in DOMAIN lock : lock'[x] = u <=> lock[x] = u
  /\ DOMAIN lock' = DOMAIN lock
  /\ \A x \in Objects : \/ row'[x] = row[x]
                        \/ x \in DOMAIN tx[s].rows /\ row'[x] = tx[s].rows[x]
  /\ \A k \in Keys : request[k] # None => request'[k] = request[k]
  /\ nextNumber' >= nextNumber

\* ReplayIdempotent, Rollback.
Ends(s) ==
  /\ tx[s].stage # "idle"
  /\ lock' = Released(s)
  /\ tx' = [tx EXCEPT ![s] = Idle]
  /\ UNCHANGED <<row, nextNumber, events, changes, receipt, request>>

Kinds == {Workspaces, Bases, Tables}

LimitOf(kind) ==
  IF kind = Workspaces THEN WorkspaceLimit ELSE IF kind = Bases THEN BaseLimit ELSE TableLimit

\* What WriteTable is asked to write: a Table, or Records of it, with no other parents.
Writable(t, new) ==
  /\ t \in Tables
  /\ new \in [DOMAIN new -> Rows]
  /\ DOMAIN new # {}
  /\ DOMAIN new = {t} \/ (DOMAIN new \subseteq Records /\ \A x \in DOMAIN new : row[x].parent = t)
  /\ \A x \in DOMAIN new : new[x].parent = row[x].parent /\ new[x].revision = row[x].revision

Step(s) ==
  \/ \E k \in Keys, p \in Parents : LockActor(s, k, p)
  \/ Ends(s)
  \/ \E kind \in Kinds, p \in Parents :
       (\A x \in kind : IsParent(x, p)) /\ InsertChild(s, p, kind, LimitOf(kind))
  \/ \E x \in Workspaces \cup Bases, name \in Names : Rename(s, x, name)
  \/ CaptureAncestor(s)
  \/ \E t \in Tables : \E new : Writable(t, new) /\ WriteTable(s, t, new)
  \/ Commit(s)

\* The four kinds of objects are apart.
LEMMA KindsApart ==
  /\ Workspaces \subseteq Objects /\ Bases \subseteq Objects
  /\ Tables \subseteq Objects /\ Records \subseteq Objects
  /\ Objects \subseteq Nat /\ Actor \notin Objects /\ None \notin Objects \cup {Actor}
  /\ Workspaces # Bases /\ Workspaces # Tables /\ Bases # Tables
<1>1. Tables # {}
  BY InitialAssumption, FS_EmptySet
<1>. QED
  BY <1>1, CatalogAssumption, InitialAssumption, NoneAssumption DEF Objects, Actor

\* Every step of a transaction is one of these.
LEMMA Steps ==
  ASSUME CatalogInv, CatalogNext
  PROVE  \E s \in Slots : Step(s)
<1>1. PICK s \in Slots : Create(s) \/ Write(s) \/ Commit(s) \/ Rollback(s)
  BY DEF CatalogNext
<1>. SUFFICES Step(s)
  OBVIOUS
<1>. USE DEF CatalogInv, Typed
<1>2. CASE \E k \in Keys, p \in {Actor} \cup Workspaces \cup Bases : LockActor(s, k, p)
  BY <1>2 DEF Step, Parents
<1>3. CASE ReplayIdempotent(s)
  <2>1. tx[s].stage # "idle"
    BY <1>3 DEF ReplayIdempotent
  <2>. QED
    BY <1>3, <2>1 DEF ReplayIdempotent, Unchanged, Ends, Step
<1>4. CASE CreateWorkspace(s)
  <2>1. LimitOf(Workspaces) = WorkspaceLimit /\ Workspaces \in Kinds /\ Actor \in Parents
    BY DEF LimitOf, Kinds, Parents
  <2>2. InsertChild(s, Actor, Workspaces, LimitOf(Workspaces))
    BY <1>4, <2>1 DEF CreateWorkspace
  <2>3. \A x \in Workspaces : IsParent(x, Actor)
    BY CatalogAssumption DEF IsParent
  <2>. QED
    BY <2>1, <2>2, <2>3 DEF Step
<1>5. CASE CreateBase(s)
  <2>1. LimitOf(Bases) = BaseLimit /\ Bases \in Kinds /\ Workspaces \subseteq Parents
    BY KindsApart DEF LimitOf, Kinds, Parents
  <2>2. PICK w \in Workspaces : InsertChild(s, w, Bases, LimitOf(Bases))
    BY <1>5, <2>1 DEF CreateBase
  <2>3. \A x \in Bases : IsParent(x, w)
    BY CatalogAssumption DEF IsParent
  <2>. QED
    BY <2>1, <2>2, <2>3 DEF Step
<1>6. CASE CreateTable(s)
  <2>1. LimitOf(Tables) = TableLimit /\ Tables \in Kinds /\ Bases \subseteq Parents
    BY KindsApart DEF LimitOf, Kinds, Parents
  <2>2. PICK b \in Bases : InsertChild(s, b, Tables, LimitOf(Tables))
    BY <1>6, <2>1 DEF CreateTable
  <2>3. \A x \in Tables : IsParent(x, b)
    BY CatalogAssumption DEF IsParent
  <2>. QED
    BY <2>1, <2>2, <2>3 DEF Step
<1>7. CASE \E name \in Names : UpdateWorkspace(s, name) \/ UpdateBase(s, name)
  BY <1>7 DEF UpdateWorkspace, UpdateBase, Step
<1>8. ASSUME NEW name \in Names, UpdateTable(s, name) PROVE Step(s)
  <2>1. PICK t \in Tables : WriteTable(s, t, [x \in {t} |-> [row[x] EXCEPT !.name = name]])
    BY <1>8 DEF UpdateTable
  <2>2. PICK new : new = [x \in {t} |-> [row[x] EXCEPT !.name = name]]
    OBVIOUS
  <2>3. row[t] \in Rows
    BY KindsApart
  <2>4. Writable(t, new)
    BY <2>2, <2>3 DEF Writable, Rows
  <2>. QED
    BY <2>1, <2>2, <2>4 DEF Step
<1>9. ASSUME DeleteTable(s) \/ RestoreTable(s) PROVE Step(s)
  <2>1. PICK t \in Tables, d \in BOOLEAN : WriteTable(s, t, [x \in {t} |-> [row[x] EXCEPT !.deleted = d]])
    BY <1>9 DEF DeleteTable, RestoreTable
  <2>2. PICK new : new = [x \in {t} |-> [row[x] EXCEPT !.deleted = d]]
    OBVIOUS
  <2>3. row[t] \in Rows
    BY KindsApart
  <2>4. Writable(t, new)
    BY <2>2, <2>3 DEF Writable, Rows
  <2>. QED
    BY <2>1, <2>2, <2>4 DEF Step
<1>10. ASSUME NEW value \in Names, MutateRecords(s, value) PROVE Step(s)
  <2>1. PICK t \in Tables, rs \in SUBSET Records :
          /\ rs = {r \in Records : row[r].parent = t /\ row[r].name # value} /\ rs # {}
          /\ WriteTable(s, t, [r \in rs |-> [row[r] EXCEPT !.name = value]])
    BY <1>10 DEF MutateRecords
  <2>2. PICK new : new = [r \in rs |-> [row[r] EXCEPT !.name = value]]
    OBVIOUS
  <2>3. \A r \in rs : row[r] \in Rows /\ row[r].parent = t
    BY <2>1, KindsApart
  <2>4. /\ DOMAIN new = rs /\ rs \subseteq Records /\ rs # {} /\ \A x \in rs : row[x].parent = t
        /\ \A x \in rs : new[x].parent = row[x].parent /\ new[x].revision = row[x].revision
        /\ new \in [rs -> Rows]
    BY <2>1, <2>2, <2>3 DEF Rows
  <2>5. Writable(t, new)
    BY <2>4 DEF Writable
  <2>. QED
    BY <2>1, <2>2, <2>5 DEF Step
<1>11. CASE CaptureAncestor(s) \/ Commit(s)
  BY <1>11 DEF Step
<1>12. CASE Rollback(s)
  BY <1>12 DEF Rollback, Ends, Step
<1>13. Create(s) => Step(s)
  BY <1>2, <1>3, <1>4, <1>5, <1>6 DEF Create
<1>14. Write(s) => Step(s)
  BY <1>7, <1>8, <1>9, <1>10, <1>11 DEF Write
<1>. QED
  BY <1>1, <1>11, <1>12, <1>13, <1>14

\* A row that exists goes on existing, below the same parent.
Persist ==
  \A x \in Objects : Exists(x) => row'[x].revision > 0 /\ row'[x].parent = row[x].parent

\* What a step of one transaction does to the rows.
LEMMA RowsPersist ==
  ASSUME CatalogInv, Typed', NEW s \in Slots, Frame(s)
  PROVE  Persist
<1>1. SUFFICES ASSUME NEW x \in Objects, Exists(x), row'[x] # row[x]
               PROVE  row'[x].revision > 0 /\ row'[x].parent = row[x].parent
  BY DEF Persist, Exists
<1>2. x \in DOMAIN tx[s].rows /\ row'[x] = tx[s].rows[x]
  BY <1>1 DEF Frame
<1>3. SlotTrue(s) /\ tx[s] \in Transactions
  BY DEF CatalogInv, Typed
<1>4. tx[s].stage # "idle"
  BY <1>2, <1>3 DEF SlotTrue, IdleTrue, Idle
<1>5. tx[s].key = None
  BY <1>1, <1>2, <1>3 DEF SlotTrue, CreationTrue
<1>. QED
  BY <1>2, <1>3, <1>4, <1>5 DEF SlotTrue, UpdateTrue

LEMMA FamilyKept ==
  ASSUME CatalogInv, Typed', NEW s \in Slots, Frame(s)
  PROVE  Family'
<1>1. Persist
  BY RowsPersist
<1>2. SUFFICES ASSUME NEW x \in Objects
               PROVE  /\ Exists(x)' => /\ IsParent(x, row'[x].parent)
                                       /\ row'[x].parent # Actor => row'[row'[x].parent].revision > 0
                      /\ x \in Records => row'[x].revision > 0
  BY DEF Family, Exists
<1>3. Family /\ SlotTrue(s) /\ tx[s] \in Transactions
  BY DEF CatalogInv, Typed
<1>4. \A p : IsParent(x, p) /\ p # Actor => p \in Objects
  BY KindsApart DEF IsParent, Objects
<1>5. CASE Exists(x)
  BY <1>1, <1>3, <1>4, <1>5 DEF Persist, Family, Exists
<1>6. CASE ~Exists(x) /\ row'[x] = row[x]
  BY <1>3, <1>6 DEF Family, Exists
<1>7. CASE ~Exists(x) /\ row'[x] # row[x]
  <2>1. x \in DOMAIN tx[s].rows /\ row'[x] = tx[s].rows[x]
    BY <1>7 DEF Frame
  <2>2. tx[s].stage # "idle"
    BY <1>3, <2>1 DEF SlotTrue, IdleTrue, Idle
  <2>3. tx[s].key # None
    BY <1>3, <1>7, <2>1, <2>2 DEF SlotTrue, UpdateTrue
  <2>4. IsParent(x, row'[x].parent) /\ x \notin Records /\ (row'[x].parent # Actor => Exists(row'[x].parent))
    BY <1>3, <2>1, <2>3 DEF SlotTrue, CreationTrue
  <2>. QED
    BY <1>1, <1>4, <2>4 DEF Persist, Exists
<1>. QED
  BY <1>5, <1>6, <1>7

\* The Tables below an object stay there.
LEMMA BelowKept ==
  ASSUME CatalogInv, Persist, NEW x \in Objects, NEW t \in Below(x)
  PROVE  t \in Below(x)'
<1>1. t \in Tables /\ Exists(t) /\ (row[t].parent = x \/ row[row[t].parent].parent = x)
  BY DEF Below
<1>2. row[t].parent \in Bases /\ Exists(row[t].parent)
  <2>1. IsParent(t, row[t].parent) /\ (row[t].parent # Actor => Exists(row[t].parent))
    BY <1>1, KindsApart DEF CatalogInv, Family
  <2>2. row[t].parent \in Bases
    BY <1>1, <2>1, CatalogAssumption DEF IsParent
  <2>. QED
    BY <2>1, <2>2, KindsApart
<1>3. row'[t].revision > 0 /\ row'[t].parent = row[t].parent
  BY <1>1, KindsApart DEF Persist
<1>4. row'[row[t].parent].parent = row[row[t].parent].parent
  BY <1>2, KindsApart DEF Persist
<1>. QED
  BY <1>1, <1>3, <1>4 DEF Below, Exists

\* The other transactions are not disturbed.
LEMMA OthersTrue ==
  ASSUME CatalogInv, Typed', NEW s \in Slots, Frame(s), NEW u \in Slots \ {s}
  PROVE  SlotTrue(u)'
<1>1. Persist
  BY RowsPersist
<1>2. SlotTrue(u) /\ tx[u] \in Transactions /\ tx'[u] = tx[u] /\ u \in Slots
  BY DEF CatalogInv, Typed, Frame
<1>3. \A x \in DOMAIN lock : lock'[x] = u <=> lock[x] = u
  BY DEF Frame
<1>4. DOMAIN lock = Objects \cup {Actor} /\ DOMAIN lock' = Objects \cup {Actor}
  BY DEF CatalogInv, Typed, Frame
<1>5. IdleTrue(u)'
  BY <1>2, <1>3, <1>4 DEF SlotTrue, IdleTrue
<1>6. CreationTrue(u)'
  <2>1. SUFFICES ASSUME tx[u].key # None
                 PROVE  CreationTrue(u)'
    BY <1>2 DEF CreationTrue
  <2>2. lock'[Actor] = u
    BY <1>2, <1>3, <1>4, <2>1 DEF SlotTrue, CreationTrue
  <2>3. request'[tx[u].key] = request[tx[u].key]
    <3>1. tx[u].key \in Keys /\ tx[u].parent = request[tx[u].key] /\ tx[u].parent \in Parents
      BY <1>2, <2>1 DEF SlotTrue, CreationTrue, Transactions
    <3>2. None \notin Parents
      BY KindsApart DEF Parents
    <3>. QED
      BY <3>1, <3>2 DEF Frame
  <2>4. \A x \in Objects : Exists(x) => Exists(x)'
    BY <1>1 DEF Persist, Exists
  <2>5. tx[u].parent # Actor => Exists(tx[u].parent)'
    <3>1. tx[u].parent # Actor => tx[u].parent \in Objects
      BY <1>2, KindsApart DEF Transactions, Parents
    <3>. QED
      BY <1>2, <2>1, <2>4, <3>1 DEF SlotTrue, CreationTrue
  <2>6. \A x \in DOMAIN tx[u].rows : x \in Objects => row'[x] = row[x]
    BY <1>2, RowsApart DEF Frame
  <2>7. CASE tx[u].stage = "actor"
    BY <1>2, <2>1, <2>2, <2>3, <2>5, <2>7 DEF SlotTrue, CreationTrue
  <2>8. CASE tx[u].stage = "written"
    <3>1. PICK x : x = tx[u].object
      OBVIOUS
    <3>2. x \in Objects /\ DOMAIN tx[u].rows = {x} /\ ~Exists(x)
      BY <1>2, <2>1, <2>8, <3>1 DEF SlotTrue, CreationTrue
    <3>3. ~Exists(x)'
      BY <2>6, <3>2 DEF Exists
    <3>. QED
      BY <1>2, <2>1, <2>2, <2>3, <2>5, <2>8, <3>1, <3>3 DEF SlotTrue, CreationTrue, IsParent
  <2>. QED
    BY <1>2, <2>1, <2>7, <2>8 DEF SlotTrue, CreationTrue
<1>7. UpdateTrue(u)'
  <2>1. SUFFICES ASSUME tx[u].key = None, tx[u].stage # "idle"
                 PROVE  UpdateTrue(u)'
    BY <1>2 DEF UpdateTrue
  <2>2. PICK x : x = tx[u].object
    OBVIOUS
  <2>3. x \in Objects /\ Exists(x) /\ lock[x] = u
    BY <1>2, <2>1, <2>2 DEF SlotTrue, UpdateTrue
  <2>4. Exists(x)' /\ lock'[x] = u
    BY <1>1, <1>3, <1>4, <2>3 DEF Persist, Exists
  <2>5. tx[u].stage = "ancestor" => tx[u].todo \subseteq Below(x)'
    <3>1. \A t \in Below(x) : t \in Below(x)'
      BY <1>1, <2>3, BelowKept
    <3>. QED
      BY <1>2, <2>1, <2>2, <3>1 DEF SlotTrue, UpdateTrue
  <2>6. ASSUME NEW y \in DOMAIN tx[u].rows
        PROVE  /\ TableOf(y)' = x /\ Exists(y)'
               /\ tx[u].rows[y].parent = row'[y].parent /\ tx[u].rows[y].revision > 0
    <3>1. TableOf(y) = x /\ Exists(y) /\ tx[u].rows[y].parent = row[y].parent /\ tx[u].rows[y].revision > 0
      BY <1>2, <2>1, <2>2 DEF SlotTrue, UpdateTrue
    <3>2. y \in Objects
      BY <1>2 DEF Transactions, PartialRows
    <3>. QED
      BY <1>1, <3>1, <3>2 DEF Persist, Exists, TableOf
  <2>. QED
    BY <1>2, <2>1, <2>2, <2>3, <2>4, <2>5, <2>6 DEF SlotTrue, UpdateTrue
<1>. QED
  BY <1>5, <1>6, <1>7 DEF SlotTrue

\* No lock of the rest is touched when one is taken that was free or held already.
LEMMA LockTaken ==
  ASSUME Typed, NEW s \in Slots, NEW x \in DOMAIN lock, lock[x] \in {None, s},
         lock' = [lock EXCEPT ![x] = s]
  PROVE  /\ lock' \in [Objects \cup {Actor} -> Slots \cup {None}]
         /\ DOMAIN lock' = DOMAIN lock /\ lock'[x] = s
         /\ \A y \in DOMAIN lock : lock[y] = s => lock'[y] = s
         /\ \A u \in Slots \ {s} : \A y \in DOMAIN lock : lock'[y] = u <=> lock[y] = u
<1>1. None \notin Slots
  BY NoneAssumption
<1>. QED
  BY <1>1 DEF Typed

\* Nor when a transaction releases its own.
LEMMA LocksReleased ==
  ASSUME Typed, NEW s \in Slots, lock' = Released(s)
  PROVE  /\ lock' \in [Objects \cup {Actor} -> Slots \cup {None}]
         /\ DOMAIN lock' = DOMAIN lock
         /\ \A y \in DOMAIN lock : lock'[y] # s
         /\ \A u \in Slots \ {s} : \A y \in DOMAIN lock : lock'[y] = u <=> lock[y] = u
<1>1. None \notin Slots
  BY NoneAssumption
<1>. QED
  BY <1>1 DEF Typed, Released

IdleType == Idle \in Transactions /\ DOMAIN Idle.rows = {} /\ Idle.key = None /\ Idle.stage = "idle"

LEMMA IdleTyped == IdleType
<1>1. <<>> \in PartialRows
  <2>1. <<>> \in [{} -> Rows]
    OBVIOUS
  <2>. QED
    BY <2>1 DEF PartialRows
<1>2. DOMAIN Idle.rows = {}
  BY DEF Idle
<1>3. Idle \in Transactions
  <2>1. Actor \in Parents /\ None \in Keys \cup {None} /\ Actor \in Objects \cup {Actor} /\ 0 \in Nat
    BY DEF Parents
  <2>. HIDE DEF Parents, PartialRows
  <2>. QED
    BY <1>1, <2>1 DEF Idle, Transactions
<1>4. Idle.key = None /\ Idle.stage = "idle"
  BY DEF Idle
<1>. QED
  BY <1>2, <1>3, <1>4 DEF IdleType

\* A transaction that has ended.
LEMMA EndedTrue ==
  ASSUME Typed, Typed', NEW s \in Slots, tx'[s] = Idle, lock' = Released(s)
  PROVE  SlotTrue(s)'
<1>1. \A y \in DOMAIN lock' : lock'[y] # s
  BY LocksReleased
<1>. QED
  BY <1>1, IdleTyped DEF SlotTrue, IdleTrue, CreationTrue, UpdateTrue, IdleType

\* A transaction that begins.
LEMMA BegunTyped ==
  ASSUME Typed, NEW stage \in {"actor", "ancestor", "written"}, NEW x \in Objects \cup {Actor},
         NEW b, b = Begun(stage, x)
  PROVE  /\ b \in Transactions
         /\ b.stage = stage /\ b.object = x /\ b.parent = Actor /\ b.key = None /\ b.todo = {}
         /\ b.operation = nextNumber /\ DOMAIN b.rows = {} /\ b.events = {} /\ b.changes = {}
<1>1. PICK q \in Transactions : q = Idle
  BY IdleTyped DEF IdleType
<1>2. /\ q.parent = Actor /\ q.key = None /\ q.todo = {} /\ DOMAIN q.rows = {}
      /\ q.events = {} /\ q.changes = {}
  BY <1>1, IdleTyped DEF Idle, IdleType
<1>3. b = [q EXCEPT !.stage = stage, !.object = x, !.operation = nextNumber]
  BY <1>1 DEF Begun
<1>4. nextNumber \in Nat
  BY DEF Typed
<1>. QED
  BY <1>2, <1>3, <1>4 DEF Transactions

LEMMA LockActorKeeps ==
  ASSUME CatalogInv, NEW s \in Slots, NEW k \in Keys, NEW p \in Parents, LockActor(s, k, p)
  PROVE  Typed' /\ Frame(s) /\ SlotTrue(s)'
<1>0. PICK b : b = Begun("actor", Actor)
  OBVIOUS
<1>1. Typed /\ Actor \in DOMAIN lock
  BY DEF CatalogInv, Typed
<1>2. PICK r : r = [b EXCEPT !.parent = p, !.key = k]
  OBVIOUS
<1>3. /\ r \in Transactions /\ tx' = [tx EXCEPT ![s] = r] /\ DOMAIN r.rows = {}
      /\ r.stage = "actor" /\ r.key = k /\ r.parent = p /\ r.todo = {} /\ r.changes = {}
      /\ r.events = {} /\ r.object = Actor
  <2>1. /\ b \in Transactions /\ b.stage = "actor" /\ b.object = Actor /\ b.todo = {}
        /\ DOMAIN b.rows = {} /\ b.events = {} /\ b.changes = {}
    BY <1>0, <1>1, BegunTyped
  <2>2. tx' = [tx EXCEPT ![s] = r]
    BY <1>0, <1>2 DEF LockActor
  <2>. QED
    BY <1>2, <2>1, <2>2 DEF Transactions
<1>4. tx' \in [Slots -> Transactions] /\ tx'[s] = r /\ \A u \in Slots \ {s} : tx'[u] = tx[u]
  BY <1>1, <1>3 DEF Typed
<1>5. /\ lock' \in [Objects \cup {Actor} -> Slots \cup {None}] /\ DOMAIN lock' = DOMAIN lock
      /\ lock'[Actor] = s
      /\ \A u \in Slots \ {s} : \A y \in DOMAIN lock : lock'[y] = u <=> lock[y] = u
  <2>1. lock[Actor] \in {None, s} /\ lock' = [lock EXCEPT ![Actor] = s]
    BY DEF LockActor, ActorFree
  <2>. QED
    BY <1>1, <2>1, LockTaken
<1>6. /\ request' \in [Keys -> Parents \cup {None}] /\ request'[k] = p
      /\ \A j \in Keys : request[j] # None => request'[j] = request[j]
  BY <1>1 DEF LockActor, Typed
<1>7. UNCHANGED <<row, events, changes, receipt>> /\ nextNumber' = nextNumber + 1
  BY DEF LockActor, Unchanged
<1>8. Typed'
  BY <1>1, <1>4, <1>5, <1>6, <1>7 DEF Typed
<1>9. Frame(s)
  BY <1>1, <1>4, <1>5, <1>6, <1>7 DEF Frame, Typed
<1>10. SlotTrue(s)'
  <2>1. p # Actor => Exists(p)
    BY DEF LockActor
  <2>2. p # Actor => Exists(p)'
    BY <1>7, <2>1 DEF Exists
  <2>3. k # None
    BY NoneAssumption
  <2>. QED
    BY <1>3, <1>4, <1>5, <1>6, <2>2, <2>3 DEF SlotTrue, IdleTrue, CreationTrue, UpdateTrue
<1>. QED
  BY <1>8, <1>9, <1>10

LEMMA EndsKeeps ==
  ASSUME CatalogInv, NEW s \in Slots, Ends(s)
  PROVE  Typed' /\ Frame(s) /\ SlotTrue(s)'
<1>1. Typed
  BY DEF CatalogInv
<1>2. tx' \in [Slots -> Transactions] /\ tx'[s] = Idle /\ \A u \in Slots \ {s} : tx'[u] = tx[u]
  BY <1>1, IdleTyped DEF Ends, Typed, IdleType
<1>3. lock' = Released(s)
  BY DEF Ends
<1>4. Typed'
  BY <1>1, <1>2, <1>3, LocksReleased DEF Typed, Ends
<1>5. Frame(s)
  BY <1>1, <1>2, <1>3, LocksReleased DEF Frame, Ends, Typed
<1>. QED
  BY <1>1, <1>2, <1>3, <1>4, <1>5, EndedTrue

\* Rows of the initial states and of new objects.
LEMMA InitialRows ==
  /\ Absent \in Rows /\ Absent.revision = 0
  /\ Min(Workspaces) \in Workspaces /\ Min(Bases) \in Bases /\ Min(Tables) \in Tables
  /\ \A x \in Objects : /\ InitialRow(x) \in Rows /\ InitialRow(x).revision = 1
                        /\ IsParent(x, InitialRow(x).parent)
<1>1. /\ Min(Workspaces) \in Workspaces /\ Min(Bases) \in Bases /\ Min(Tables) \in Tables
  <2>1. Tables # {}
    BY InitialAssumption, FS_EmptySet
  <2>2. Workspaces \in SUBSET Nat /\ Bases \in SUBSET Nat /\ Tables \in SUBSET Nat
    BY KindsApart
  <2>. QED
    BY <2>1, <2>2, InitialAssumption, MinOf
<1>2. Absent \in Rows /\ Absent.revision = 0
  BY DEF Absent, Rows, Actor
<1>3. ASSUME NEW x \in Objects
      PROVE  /\ InitialRow(x) \in Rows /\ InitialRow(x).revision = 1
             /\ IsParent(x, InitialRow(x).parent)
  <2>. DEFINE p == CASE x \in Workspaces -> Actor [] x \in Bases -> Min(Workspaces)
                     [] x \in Tables -> Min(Bases) [] x \in Records -> Min(Tables)
              n == CHOOSE name \in Names : TRUE
  <2>1. n \in Names
    BY InitialAssumption
  <2>2. p \in Nat /\ IsParent(x, p)
    <3>1. x \in Workspaces \/ x \in Bases \/ x \in Tables \/ x \in Records
      BY DEF Objects
    <3>2. Actor \in Nat /\ Min(Workspaces) \in Nat /\ Min(Bases) \in Nat /\ Min(Tables) \in Nat
      BY <1>1, KindsApart DEF Actor
    <3>3. CASE x \in Workspaces
      BY <3>2, <3>3, CatalogAssumption DEF IsParent
    <3>4. CASE x \in Bases
      BY <1>1, <3>2, <3>4, CatalogAssumption DEF IsParent
    <3>5. CASE x \in Tables
      BY <1>1, <3>2, <3>5, CatalogAssumption DEF IsParent
    <3>6. CASE x \in Records
      BY <1>1, <3>2, <3>6, CatalogAssumption DEF IsParent
    <3>. QED
      BY <3>1, <3>3, <3>4, <3>5, <3>6
  <2>3. InitialRow(x) = [parent |-> p, name |-> n, revision |-> 1, deleted |-> FALSE]
    BY DEF InitialRow
  <2>. HIDE DEF p, n
  <2>. QED
    BY <2>1, <2>2, <2>3 DEF Rows
<1>. QED
  BY <1>1, <1>2, <1>3

LEMMA CapturedTyped ==
  ASSUME NEW number \in Nat, NEW t \in Tables, NEW x \in Objects, NEW operation \in Nat \cup {None},
         NEW before \in Rows, NEW after \in Rows, NEW e, e = Captured(number, t, x, operation, before, after)
  PROVE  /\ e \in Events /\ e.number = number /\ e.table = t /\ e.object = x /\ e.operation = operation
         /\ e.before = before /\ e.after = after /\ e.changes = {}
  BY DEF Captured, Events

\* What a creation has written: a new row, and for a Table the event of it.
Inserted(s, kind, p, limit, x, new, r) ==
  /\ x \in Objects /\ ~Exists(x) /\ x \notin Records
  /\ tx[s].stage = "actor" /\ tx[s].key \in Keys /\ tx[s].parent = p /\ receipt[tx[s].key] = None
  /\ tx' = [tx EXCEPT ![s] = r] /\ lock[p] \in {None, s} /\ lock' = [lock EXCEPT ![p] = s]
  /\ Cardinality({y \in kind : Exists(y) /\ row[y].parent = p}) < limit
  /\ new.parent = p /\ new.revision > 0
  /\ r.stage = "written" /\ r.object = x /\ r.parent = p /\ r.key = tx[s].key
  /\ r.todo = {} /\ r.operation = tx[s].operation /\ r.changes = {}
  /\ DOMAIN r.rows = {x} /\ r.rows[x] = new
  /\ r.events = IF kind # Tables THEN {}
                ELSE {Captured(nextNumber, x, x, tx[s].operation, Absent, new)}

LEMMA InsertChildIs ==
  ASSUME CatalogInv, NEW s \in Slots, NEW kind \in Kinds, NEW p \in Parents, NEW limit,
         \A x \in kind : IsParent(x, p), InsertChild(s, p, kind, limit)
  PROVE  \E x \in kind, new \in Rows, r \in Transactions : Inserted(s, kind, p, limit, x, new, r)
<1>. DEFINE unused == {x \in kind : ~Exists(x) /\ \A other \in Slots : tx[other].object # x}
            x == Min(unused)
            new == [InitialRow(x) EXCEPT !.parent = p]
            made == IF kind # Tables THEN {} ELSE {Captured(nextNumber, x, x, tx[s].operation, Absent, new)}
            rows == [y \in {x} |-> new]
            r == [tx[s] EXCEPT !.stage = "written", !.object = x, !.rows = rows, !.events = made]
<1>1. Typed /\ SlotTrue(s) /\ tx[s] \in Transactions /\ p \in Nat
  BY KindsApart DEF CatalogInv, Typed, Parents, Actor
<1>2. kind \subseteq Objects /\ kind \cap Records = {} /\ kind \subseteq Nat
  BY KindsApart, CatalogAssumption DEF Kinds
<1>3. x \in kind /\ ~Exists(x)
  <2>1. unused \in SUBSET Nat /\ unused # {}
    BY <1>2 DEF InsertChild
  <2>. HIDE DEF unused
  <2>2. x \in unused
    BY <2>1, MinOf
  <2>. QED
    BY <2>2 DEF unused
<1>4. /\ tx[s].stage = "actor" /\ tx[s].parent = p /\ receipt[tx[s].key] = None
      /\ lock[p] \in {None, s} /\ lock' = [lock EXCEPT ![p] = s]
      /\ Cardinality({y \in kind : Exists(y) /\ row[y].parent = p}) < limit
  BY DEF InsertChild
<1>5. tx' = [tx EXCEPT ![s] = r]
  BY DEF InsertChild
<1>. HIDE DEF x
<1>6. tx[s].key \in Keys
  BY <1>1, <1>4 DEF SlotTrue, UpdateTrue, Transactions
<1>7. new \in Rows /\ new.parent = p /\ new.revision > 0
  BY <1>1, <1>2, <1>3, InitialRows DEF Rows
<1>. HIDE DEF new
<1>8. rows \in PartialRows /\ DOMAIN rows = {x} /\ rows[x] = new
  <2>1. {x} \in SUBSET Objects /\ rows \in [{x} -> Rows]
    BY <1>2, <1>3, <1>7
  <2>. QED
    BY <2>1 DEF PartialRows
<1>. HIDE DEF rows
<1>9. made \in SUBSET Events
  <2>1. CASE kind = Tables
    <3>1. nextNumber \in Nat /\ tx[s].operation \in Nat /\ x \in Tables /\ x \in Objects
      BY <1>1, <1>2, <1>3, <2>1 DEF Typed, Transactions
    <3>2. Captured(nextNumber, x, x, tx[s].operation, Absent, new) \in Events
      BY <1>7, <3>1, InitialRows, CapturedTyped
    <3>. QED
      BY <2>1, <3>2
  <2>. QED
    BY <2>1
<1>10. /\ r \in Transactions /\ r.stage = "written" /\ r.object = x /\ r.parent = p /\ r.key = tx[s].key
       /\ r.todo = tx[s].todo /\ r.operation = tx[s].operation /\ r.changes = tx[s].changes
       /\ r.rows = rows /\ r.events = made
  <2>. HIDE DEF made
  <2>. QED
    BY <1>1, <1>2, <1>3, <1>4, <1>8, <1>9 DEF Transactions
<1>11. tx[s].todo = {} /\ tx[s].changes = {}
  <2>1. tx[s].key # None
    BY <1>6, NoneAssumption
  <2>. QED
    BY <1>1, <2>1 DEF SlotTrue, CreationTrue
<1>12. r.events = IF kind # Tables THEN {}
                  ELSE {Captured(nextNumber, x, x, tx[s].operation, Absent, new)}
  BY <1>10
<1>13. x \in Objects /\ x \notin Records /\ r.todo = {} /\ r.changes = {}
       /\ DOMAIN r.rows = {x} /\ r.rows[x] = new
  BY <1>2, <1>3, <1>8, <1>10, <1>11
<1>14. PICK z \in Transactions : z = r
  BY <1>10
<1>. HIDE DEF r, made
<1>15. Inserted(s, kind, p, limit, x, new, r)
  BY <1>3, <1>4, <1>5, <1>6, <1>7, <1>10, <1>12, <1>13 DEF Inserted
<1>. QED
  BY <1>3, <1>7, <1>10, <1>15

LEMMA InsertChildKeeps ==
  ASSUME CatalogInv, NEW s \in Slots, NEW kind \in Kinds, NEW p \in Parents, NEW limit,
         \A x \in kind : IsParent(x, p), InsertChild(s, p, kind, limit)
  PROVE  Typed' /\ Frame(s) /\ SlotTrue(s)'
<1>0. PICK x \in kind, new \in Rows, r \in Transactions : Inserted(s, kind, p, limit, x, new, r)
  BY InsertChildIs
<1>1.   /\ x \in Objects /\ ~Exists(x) /\ x \notin Records
        /\ tx[s].stage = "actor" /\ tx[s].key \in Keys /\ tx[s].parent = p /\ receipt[tx[s].key] = None
        /\ tx' = [tx EXCEPT ![s] = r] /\ lock[p] \in {None, s} /\ lock' = [lock EXCEPT ![p] = s]
        /\ Cardinality({y \in kind : Exists(y) /\ row[y].parent = p}) < limit
        /\ new.parent = p /\ new.revision > 0
        /\ r.stage = "written" /\ r.object = x /\ r.parent = p /\ r.key = tx[s].key
        /\ r.todo = {} /\ r.operation = tx[s].operation /\ r.changes = {}
        /\ DOMAIN r.rows = {x} /\ r.rows[x] = new
        /\ r.events = IF kind # Tables THEN {}
                      ELSE {Captured(nextNumber, x, x, tx[s].operation, Absent, new)}
  BY <1>0 DEF Inserted
<1>2. Typed /\ SlotTrue(s) /\ p \in DOMAIN lock /\ Actor \in DOMAIN lock
  BY KindsApart DEF CatalogInv, Typed, Parents
<1>3. tx' \in [Slots -> Transactions] /\ tx'[s] = r /\ \A u \in Slots \ {s} : tx'[u] = tx[u]
  BY <1>1, <1>2 DEF Typed
<1>4. /\ lock' \in [Objects \cup {Actor} -> Slots \cup {None}] /\ DOMAIN lock' = DOMAIN lock
      /\ \A y \in DOMAIN lock : lock[y] = s => lock'[y] = s
      /\ \A u \in Slots \ {s} : \A y \in DOMAIN lock : lock'[y] = u <=> lock[y] = u
  BY <1>1, <1>2, LockTaken
<1>5. UNCHANGED <<row, events, changes, receipt, request>> /\ nextNumber' = nextNumber + 1
  BY DEF InsertChild, Unchanged
<1>6. Typed'
  BY <1>2, <1>3, <1>4, <1>5 DEF Typed
<1>7. Frame(s)
  BY <1>2, <1>3, <1>4, <1>5 DEF Frame, Typed
<1>8. SlotTrue(s)'
  <2>1. tx[s].key # None
    BY <1>1, NoneAssumption
  <2>2. lock'[Actor] = s /\ p = request'[tx[s].key] /\ (p # Actor => Exists(p)')
    BY <1>1, <1>2, <1>4, <1>5, <2>1 DEF SlotTrue, CreationTrue, Exists
  <2>3. \A e \in r.events : e.table = x /\ e.object = x
    BY <1>1 DEF Captured
  <2>4. IsParent(x, p)
    OBVIOUS
  <2>5. ~Exists(x)'
    BY <1>1, <1>5 DEF Exists
  <2>. QED
    BY <1>1, <1>3, <2>1, <2>2, <2>3, <2>4, <2>5 DEF SlotTrue, IdleTrue, CreationTrue, UpdateTrue, IsParent
<1>. QED
  BY <1>6, <1>7, <1>8

\* What a rename has written when it begins.
Renaming(s, x, r) ==
  /\ tx[s].stage = "idle" /\ tx' = [tx EXCEPT ![s] = r]
  /\ x \in Objects /\ Exists(x) /\ lock[x] = None /\ lock' = [lock EXCEPT ![x] = s]
  /\ r.stage = "ancestor" /\ r.object = x /\ r.key = None /\ r.todo = Below(x)
  /\ r.operation = nextNumber /\ r.events = {} /\ r.changes = {}
  /\ DOMAIN r.rows = {x} /\ r.rows[x].parent = row[x].parent
  /\ r.rows[x].revision > 0

LEMMA RenameIs ==
  ASSUME CatalogInv, NEW s \in Slots, NEW x \in Workspaces \cup Bases, NEW name \in Names,
         Rename(s, x, name)
  PROVE  \E r \in Transactions : Renaming(s, x, r)
<1>. DEFINE new == Raised([row[x] EXCEPT !.name = name])
            rows == [y \in {x} |-> Raised([row[y] EXCEPT !.name = name])]
<1>1. Typed /\ x \in Objects
  BY KindsApart DEF CatalogInv
<1>2. PICK b \in Transactions :
        /\ b = Begun("ancestor", x) /\ b.stage = "ancestor" /\ b.object = x /\ b.key = None
        /\ b.operation = nextNumber /\ b.events = {} /\ b.changes = {}
  <2>1. PICK b : b = Begun("ancestor", x)
    OBVIOUS
  <2>. QED
    BY <1>1, <2>1, BegunTyped
<1>3. PICK r : r = [b EXCEPT !.todo = Below(x), !.rows = rows]
  OBVIOUS
<1>4. tx' = [tx EXCEPT ![s] = r]
  BY <1>2, <1>3 DEF Rename
<1>5. row[x] \in Rows
  BY <1>1 DEF Typed
<1>6. PICK old \in Rows : old = row[x]
  BY <1>5
<1>7. new \in Rows /\ new.parent = row[x].parent /\ new.revision > 0
  <2>1. PICK mid : mid = [old EXCEPT !.name = name]
    OBVIOUS
  <2>2. mid \in Rows /\ mid.parent = old.parent
    BY <2>1 DEF Rows
  <2>3. new = [mid EXCEPT !.revision = mid.revision + 1]
    BY <1>6, <2>1 DEF Raised
  <2>. HIDE DEF new
  <2>. QED
    BY <1>6, <2>2, <2>3 DEF Rows
<1>8. rows = [y \in {x} |-> new]
  OBVIOUS
<1>. HIDE DEF rows, new
<1>9. rows \in PartialRows /\ DOMAIN rows = {x} /\ rows[x] = new
  <2>1. {x} \in SUBSET Objects /\ rows \in [{x} -> Rows]
    BY <1>1, <1>7, <1>8
  <2>. QED
    BY <1>8, <2>1 DEF PartialRows
<1>10. Below(x) \in SUBSET Tables
  BY DEF Below
<1>11. /\ r \in Transactions /\ r.stage = "ancestor" /\ r.object = x /\ r.key = None /\ r.todo = Below(x)
       /\ r.operation = nextNumber /\ r.events = {} /\ r.changes = {} /\ r.rows = rows
  BY <1>2, <1>3, <1>9, <1>10 DEF Transactions
<1>12. /\ tx[s].stage = "idle" /\ Exists(x) /\ lock[x] = None /\ lock' = [lock EXCEPT ![x] = s]
  BY DEF Rename, Available
<1>13. DOMAIN r.rows = {x} /\ r.rows[x].parent = row[x].parent /\ r.rows[x].revision > 0
  BY <1>7, <1>9, <1>11
<1>14. Renaming(s, x, r)
  BY <1>1, <1>4, <1>11, <1>12, <1>13 DEF Renaming
<1>. QED
  BY <1>11, <1>14

LEMMA RenameKeeps ==
  ASSUME CatalogInv, NEW s \in Slots, NEW x \in Workspaces \cup Bases, NEW name \in Names,
         Rename(s, x, name)
  PROVE  Typed' /\ Frame(s) /\ SlotTrue(s)'
<1>1. PICK r \in Transactions :
        /\ tx' = [tx EXCEPT ![s] = r]
        /\ x \in Objects /\ Exists(x) /\ lock[x] = None /\ lock' = [lock EXCEPT ![x] = s]
        /\ r.stage = "ancestor" /\ r.object = x /\ r.key = None /\ r.todo = Below(x)
        /\ r.events = {} /\ r.changes = {}
        /\ DOMAIN r.rows = {x} /\ r.rows[x].parent = row[x].parent
        /\ r.rows[x].revision > 0
  BY RenameIs DEF Renaming
<1>2. Typed /\ x \in DOMAIN lock
  BY <1>1 DEF CatalogInv, Typed
<1>3. tx' \in [Slots -> Transactions] /\ tx'[s] = r /\ \A u \in Slots \ {s} : tx'[u] = tx[u]
  BY <1>1, <1>2 DEF Typed
<1>4. /\ lock' \in [Objects \cup {Actor} -> Slots \cup {None}] /\ DOMAIN lock' = DOMAIN lock
      /\ lock'[x] = s
      /\ \A u \in Slots \ {s} : \A y \in DOMAIN lock : lock'[y] = u <=> lock[y] = u
  BY <1>1, <1>2, LockTaken
<1>5. UNCHANGED <<row, events, changes, receipt, request>> /\ nextNumber' = nextNumber + 1
  BY DEF Rename, Unchanged
<1>6. Typed'
  BY <1>2, <1>3, <1>4, <1>5 DEF Typed
<1>7. Frame(s)
  BY <1>2, <1>3, <1>4, <1>5 DEF Frame, Typed
<1>8. SlotTrue(s)'
  <2>1. Exists(x)' /\ Below(x)' = Below(x) /\ TableOf(x)' = x
    BY <1>1, <1>5, CatalogAssumption DEF Exists, Below, TableOf
  <2>. QED
    BY <1>1, <1>3, <1>4, <1>5, <2>1 DEF SlotTrue, IdleTrue, CreationTrue, UpdateTrue
<1>. QED
  BY <1>6, <1>7, <1>8

\* What the trigger of a rename does with the next Table.
Capturing(s, t, e, r) ==
  /\ tx[s].stage = "ancestor" /\ tx[s].key = None /\ t \in Tables
  /\ tx[s].object \in Workspaces \cup Bases
  /\ lock[t] = None /\ lock' = [lock EXCEPT ![t] = s] /\ tx' = [tx EXCEPT ![s] = r]
  /\ e.number = nextNumber /\ e.table = t /\ e.object = tx[s].object
  /\ e.operation = tx[s].operation /\ e.before = row[tx[s].object]
  /\ e.after = tx[s].rows[tx[s].object] /\ e.changes = {}
  /\ r.stage = "ancestor" /\ r.object = tx[s].object /\ r.key = None /\ r.rows = tx[s].rows
  /\ r.todo = tx[s].todo \ {t} /\ r.operation = tx[s].operation /\ r.changes = {}
  /\ r.events = tx[s].events \cup {e}

LEMMA CaptureIs ==
  ASSUME CatalogInv, NEW s \in Slots, CaptureAncestor(s)
  PROVE  \E t \in tx[s].todo, e \in Events, r \in Transactions : Capturing(s, t, e, r)
<1>1. PICK t : t = Min(tx[s].todo)
  OBVIOUS
<1>2. PICK x : x = tx[s].object
  OBVIOUS
<1>3. PICK e : e = Captured(nextNumber, t, x, tx[s].operation, row[x], tx[s].rows[x])
  OBVIOUS
<1>4. PICK q \in Transactions : q = tx[s]
  BY DEF CatalogInv, Typed
<1>5. PICK r : r = [q EXCEPT !.todo = q.todo \ {t}, !.events = q.events \cup {e}]
  OBVIOUS
<1>6. /\ tx[s].stage = "ancestor" /\ lock[t] = None /\ lock' = [lock EXCEPT ![t] = s]
      /\ tx' = [tx EXCEPT ![s] = r]
  BY <1>1, <1>2, <1>3, <1>4, <1>5 DEF CaptureAncestor, DescendantFree
<1>7. Typed /\ SlotTrue(s)
  BY DEF CatalogInv
<1>8. tx[s].key = None
  BY <1>6, <1>7 DEF SlotTrue, CreationTrue
<1>9. x \in Workspaces \cup Bases /\ DOMAIN q.rows = {x} /\ q.changes = {}
  BY <1>2, <1>4, <1>6, <1>7, <1>8 DEF SlotTrue, UpdateTrue
<1>10. t \in q.todo /\ t \in Tables
  <2>1. q.todo \in SUBSET Tables /\ q.todo # {}
    BY <1>4 DEF Transactions, CaptureAncestor
  <2>2. q.todo \in SUBSET Nat
    BY <2>1, KindsApart
  <2>3. t \in q.todo
    BY <1>1, <1>4, <2>1, <2>2, MinOf
  <2>. QED
    BY <2>1, <2>3
<1>11. /\ e \in Events /\ e.number = nextNumber /\ e.table = t /\ e.object = x
       /\ e.operation = q.operation /\ e.before = row[x] /\ e.after = q.rows[x] /\ e.changes = {}
  <2>1. nextNumber \in Nat /\ x \in Objects /\ row[x] \in Rows /\ q.operation \in Nat \cup {None}
    BY <1>4, <1>7, <1>9, KindsApart DEF Typed, Transactions
  <2>2. q.rows[x] \in Rows
    BY <1>9 DEF Transactions, PartialRows
  <2>3. PICK number \in Nat, operation \in Nat \cup {None}, before \in Rows, after \in Rows :
          number = nextNumber /\ operation = q.operation /\ before = row[x] /\ after = q.rows[x]
    BY <2>1, <2>2
  <2>4. e = Captured(number, t, x, operation, before, after)
    BY <1>2, <1>3, <1>4, <2>3
  <2>5. /\ e \in Events /\ e.number = number /\ e.table = t /\ e.object = x /\ e.operation = operation
        /\ e.before = before /\ e.after = after /\ e.changes = {}
    BY <1>10, <2>1, <2>4, CapturedTyped
  <2>. QED
    BY <2>3, <2>5
<1>12. /\ r \in Transactions
       /\ r.stage = "ancestor" /\ r.object = x /\ r.key = None /\ r.rows = q.rows
       /\ r.todo = q.todo \ {t} /\ r.operation = q.operation /\ r.changes = {}
       /\ r.events = q.events \cup {e}
  BY <1>2, <1>4, <1>5, <1>6, <1>8, <1>9, <1>11 DEF Transactions
<1>13. /\ tx[s].object \in Workspaces \cup Bases /\ t \in tx[s].todo
       /\ e.object = tx[s].object /\ e.operation = tx[s].operation /\ e.before = row[tx[s].object]
       /\ e.after = tx[s].rows[tx[s].object]
       /\ r.object = tx[s].object /\ r.rows = tx[s].rows /\ r.todo = tx[s].todo \ {t}
       /\ r.operation = tx[s].operation /\ r.events = tx[s].events \cup {e}
  BY <1>2, <1>4, <1>9, <1>10, <1>11, <1>12
<1>14. Capturing(s, t, e, r)
  BY <1>6, <1>8, <1>10, <1>11, <1>12, <1>13 DEF Capturing
<1>. QED
  BY <1>11, <1>12, <1>13, <1>14

LEMMA CaptureKeeps ==
  ASSUME CatalogInv, NEW s \in Slots, CaptureAncestor(s)
  PROVE  Typed' /\ Frame(s) /\ SlotTrue(s)'
<1>1. PICK t \in tx[s].todo, e \in Events, r \in Transactions :
        /\ tx[s].stage = "ancestor" /\ tx[s].key = None /\ t \in Tables
        /\ lock[t] = None /\ lock' = [lock EXCEPT ![t] = s] /\ tx' = [tx EXCEPT ![s] = r]
        /\ r.stage = "ancestor" /\ r.object = tx[s].object /\ r.key = None /\ r.rows = tx[s].rows
        /\ r.todo = tx[s].todo \ {t} /\ r.changes = {}
  BY CaptureIs DEF Capturing
<1>2. Typed /\ SlotTrue(s) /\ t \in DOMAIN lock
  BY <1>1, KindsApart DEF CatalogInv, Typed
<1>3. tx' \in [Slots -> Transactions] /\ tx'[s] = r /\ \A u \in Slots \ {s} : tx'[u] = tx[u]
  BY <1>1, <1>2 DEF Typed
<1>4. /\ lock' \in [Objects \cup {Actor} -> Slots \cup {None}] /\ DOMAIN lock' = DOMAIN lock
      /\ \A y \in DOMAIN lock : lock[y] = s => lock'[y] = s
      /\ \A u \in Slots \ {s} : \A y \in DOMAIN lock : lock'[y] = u <=> lock[y] = u
  BY <1>1, <1>2, LockTaken
<1>5. UNCHANGED <<row, events, changes, receipt, request>> /\ nextNumber' = nextNumber + 1
  BY DEF CaptureAncestor, Unchanged
<1>6. Typed'
  BY <1>2, <1>3, <1>4, <1>5 DEF Typed
<1>7. Frame(s)
  BY <1>2, <1>3, <1>4, <1>5 DEF Frame, Typed
<1>8. SlotTrue(s)'
  <2>1. PICK x : x = tx[s].object
    OBVIOUS
  <2>2. /\ x \in Objects /\ Exists(x) /\ lock[x] = s /\ x \in Workspaces \cup Bases
        /\ DOMAIN tx[s].rows = {x} /\ tx[s].todo \subseteq Below(x)
        /\ TableOf(x) = x
        /\ tx[s].rows[x].parent = row[x].parent /\ tx[s].rows[x].revision > 0
    BY <1>1, <1>2, <2>1 DEF SlotTrue, UpdateTrue
  <2>3. Exists(x)' /\ Below(x)' = Below(x) /\ TableOf(x)' = TableOf(x)
    BY <1>5, <2>2 DEF Exists, Below, TableOf
  <2>4. lock'[x] = s
    BY <1>2, <1>4, <2>2 DEF Typed
  <2>. QED
    BY <1>1, <1>3, <1>5, <2>1, <2>2, <2>3, <2>4 DEF SlotTrue, IdleTrue, CreationTrue, UpdateTrue
<1>. QED
  BY <1>6, <1>7, <1>8

LEMMA RaisedTyped ==
  ASSUME NEW r \in Rows
  PROVE  Raised(r) \in Rows /\ Raised(r).parent = r.parent /\ Raised(r).revision = r.revision + 1
  BY DEF Raised, Rows

\* What a transaction that locks a Table has written: of every row that it updates
\* one Change and the event that names it.
Writing(s, t, new, number, r) ==
  /\ tx[s].stage = "idle" /\ Exists(t) /\ lock[t] = None
  /\ lock' = [lock EXCEPT ![t] = s] /\ tx' = [tx EXCEPT ![s] = r]
  /\ nextNumber' \in Nat /\ nextNumber' > nextNumber
  /\ \A x \in DOMAIN new : /\ x \in Objects /\ Exists(x) /\ TableOf(x) = t
                           /\ number[x] > nextNumber /\ number[x] < nextNumber'
  /\ \A x, y \in DOMAIN new : number[x] = number[y] => x = y
  /\ r.stage = "written" /\ r.object = t /\ r.key = None /\ r.todo = {} /\ r.operation = nextNumber
  /\ DOMAIN r.rows = DOMAIN new
  /\ \A x \in DOMAIN new : r.rows[x].parent = row[x].parent /\ r.rows[x].revision > 0
  /\ \A c \in r.changes : \E x \in DOMAIN new :
       c.number = number[x] /\ c.table = t /\ c.object = x /\ c.operation = nextNumber
  /\ \A e \in r.events : \E x \in DOMAIN new :
       /\ e.number = number[x] /\ e.table = t /\ e.object = x /\ e.operation = nextNumber
       /\ e.before = row[x] /\ e.after = r.rows[x] /\ e.changes = {number[x]}
  /\ \A x \in DOMAIN new : \E e \in r.events : e.object = x
  /\ \A e, f \in r.events : e.object = f.object => e = f

LEMMA WriteTableIs ==
  ASSUME CatalogInv, NEW s \in Slots, NEW t \in Tables, NEW new, Writable(t, new), WriteTable(s, t, new)
  PROVE  \E number \in [DOMAIN new -> Nat], r \in Transactions : Writing(s, t, new, number, r)
<1>. DEFINE D == DOMAIN new
<1>1. Typed /\ Family /\ row \in [Objects -> Rows] /\ nextNumber \in Nat
  BY DEF CatalogInv, Typed
<1>2. /\ tx[s].stage = "idle" /\ Exists(t) /\ lock[t] = None /\ lock' = [lock EXCEPT ![t] = s]
      /\ nextNumber' = nextNumber + 1 + Cardinality(D)
  BY DEF WriteTable, Available, lockAccessibleTable
<1>3. ASSUME NEW x \in D PROVE x \in Objects /\ Exists(x) /\ TableOf(x) = t /\ new[x] \in Rows
                               /\ new[x].parent = row[x].parent
  <2>1. x = t \/ (x \in Records /\ row[x].parent = t)
    BY DEF Writable
  <2>2. x \in Objects /\ Exists(x)
    BY <1>1, <1>2, <2>1, KindsApart DEF Family
  <2>3. TableOf(x) = t
    BY <2>1, CatalogAssumption DEF TableOf
  <2>. QED
    BY <2>2, <2>3 DEF Writable
<1>4. PICK b \in Transactions :
        /\ b = Begun("written", t) /\ b.stage = "written" /\ b.object = t /\ b.key = None
        /\ b.todo = {} /\ b.operation = nextNumber
  <2>1. PICK b : b = Begun("written", t)
    OBVIOUS
  <2>2. t \in Objects
    BY KindsApart
  <2>. QED
    BY <1>1, <2>1, <2>2, BegunTyped
<1>5. Cardinality(D) \in Nat
  <2>1. D \in SUBSET Objects
    BY <1>3
  <2>2. IsFiniteSet(D)
    BY <2>1, CatalogAssumption, FS_Subset
  <2>. QED
    BY <2>2, FS_CardinalityType
<1>6. PICK number \in Injection(D, nextNumber + 1 .. nextNumber + Cardinality(D)) :
        tx' = [tx EXCEPT ![s] = Effects(b, new, number)]
  BY <1>4 DEF WriteTable
<1>7. /\ number \in [D -> Nat]
      /\ \A x \in D : number[x] > nextNumber /\ number[x] < nextNumber'
      /\ \A x, y \in D : number[x] = number[y] => x = y
  BY <1>1, <1>2, <1>5, <1>6 DEF Injection, IsInjective
<1>8. PICK rows : rows = [x \in D |-> Raised(new[x])]
  OBVIOUS
<1>9. \A x \in D : rows[x] \in Rows /\ rows[x].parent = row[x].parent /\ rows[x].revision > 0
  BY <1>3, <1>8, RaisedTyped DEF Rows
<1>10. rows \in PartialRows /\ DOMAIN rows = D
  <2>1. D \in SUBSET Objects /\ rows \in [D -> Rows]
    BY <1>3, <1>8, <1>9
  <2>. QED
    BY <1>8, <2>1 DEF PartialRows
<1>. DEFINE Change(x) == [number |-> number[x], table |-> TableOf(x), object |-> x, operation |-> b.operation]
            Event(x) == Captured(number[x], TableOf(x), x, b.operation, row[x], rows[x])
<1>11. PICK ins : ins = {Change(x) : x \in D}
  OBVIOUS
<1>12. PICK made : made = {Associated(e, ins) : e \in {Event(x) : x \in D}}
  OBVIOUS
<1>13. PICK r : r = [b EXCEPT !.rows = rows, !.events = made, !.changes = ins]
  OBVIOUS
<1>14. tx' = [tx EXCEPT ![s] = r]
  <2>1. Effects(b, new, number) = r
    BY <1>8, <1>11, <1>12, <1>13 DEF Effects
  <2>. QED
    BY <1>6, <2>1
<1>15. ASSUME NEW x \in D
       PROVE  /\ Change(x) \in Changes /\ Change(x).number = number[x] /\ Change(x).table = t
              /\ Change(x).object = x /\ Change(x).operation = nextNumber
  BY <1>1, <1>3, <1>4, <1>7 DEF Changes
<1>16. ASSUME NEW x \in D, NEW e, e = Associated(Event(x), ins)
       PROVE  /\ e \in Events /\ e.number = number[x] /\ e.table = t /\ e.object = x
              /\ e.operation = nextNumber /\ e.before = row[x] /\ e.after = rows[x]
              /\ e.changes = {number[x]}
  <2>1. PICK f : f = Event(x)
    OBVIOUS
  <2>2. /\ f \in Events /\ f.number = number[x] /\ f.table = t /\ f.object = x
        /\ f.operation = nextNumber /\ f.before = row[x] /\ f.after = rows[x]
    <3>1. /\ number[x] \in Nat /\ x \in Objects /\ row[x] \in Rows /\ rows[x] \in Rows
          /\ nextNumber \in Nat \cup {None} /\ TableOf(x) = t
      BY <1>1, <1>3, <1>7, <1>9
    <3>2. f = Captured(number[x], t, x, nextNumber, row[x], rows[x])
      BY <1>3, <1>4, <2>1
    <3>. QED
      BY <3>1, <3>2, CapturedTyped
  <2>3. \A c \in ins : (c.operation = f.operation /\ c.table = f.table /\ c.object = f.object) <=> c = Change(x)
    BY <1>11, <1>15, <2>2
  <2>4. Change(x) \in ins /\ Change(x).number = number[x]
    BY <1>11, <1>15
  <2>5. PICK own : own = {c \in ins : c.operation = f.operation /\ c.table = f.table /\ c.object = f.object}
    OBVIOUS
  <2>6. own = {Change(x)}
    <3>. HIDE DEF Change
    <3>. QED
      BY <2>3, <2>4, <2>5
  <2>7. e = [f EXCEPT !.changes = {c.number : c \in own}]
    BY <1>16, <2>1, <2>5 DEF Associated
  <2>8. e = [f EXCEPT !.changes = {number[x]}]
    BY <2>4, <2>6, <2>7
  <2>9. {number[x]} \in SUBSET Nat
    BY <1>7
  <2>. QED
    BY <2>2, <2>8, <2>9 DEF Events
<1>. HIDE DEF Change, Event
<1>17. made \in SUBSET Events /\ ins \in SUBSET Changes
  BY <1>11, <1>12, <1>15, <1>16
<1>18. /\ r \in Transactions /\ r.stage = "written" /\ r.object = t /\ r.key = None /\ r.todo = {}
       /\ r.operation = nextNumber /\ r.rows = rows /\ r.events = made /\ r.changes = ins
  BY <1>4, <1>10, <1>13, <1>17 DEF Transactions
<1>19. \A c \in ins : \E x \in D :
         c.number = number[x] /\ c.table = t /\ c.object = x /\ c.operation = nextNumber
  BY <1>11, <1>15
<1>20. \A e \in made : \E x \in D :
         /\ e.number = number[x] /\ e.table = t /\ e.object = x /\ e.operation = nextNumber
         /\ e.before = row[x] /\ e.after = rows[x] /\ e.changes = {number[x]}
  BY <1>12, <1>16
<1>21. \A x \in D : \E e \in made : e.object = x
  <2>1. SUFFICES ASSUME NEW x \in D PROVE \E e \in made : e.object = x
    OBVIOUS
  <2>2. PICK e : e = Associated(Event(x), ins)
    OBVIOUS
  <2>3. e \in made /\ e.object = x
    BY <1>12, <1>16, <2>2
  <2>. QED
    BY <2>3
<1>22. nextNumber' \in Nat /\ nextNumber' > nextNumber
  BY <1>1, <1>2, <1>5
<1>24. \A e, f \in made : e.object = f.object => e = f
  BY <1>12, <1>16
<1>23. Writing(s, t, new, number, r)
  BY <1>2, <1>3, <1>7, <1>9, <1>10, <1>14, <1>18, <1>19, <1>20, <1>21, <1>22, <1>24 DEF Writing
<1>. QED
  BY <1>7, <1>18, <1>23

LEMMA WriteTableKeeps ==
  ASSUME CatalogInv, NEW s \in Slots, NEW t \in Tables, NEW new, Writable(t, new), WriteTable(s, t, new)
  PROVE  Typed' /\ Frame(s) /\ SlotTrue(s)'
<1>0. PICK number \in [DOMAIN new -> Nat], r \in Transactions : Writing(s, t, new, number, r)
  BY WriteTableIs
<1>1. /\ Exists(t) /\ lock[t] = None /\ lock' = [lock EXCEPT ![t] = s] /\ tx' = [tx EXCEPT ![s] = r]
      /\ nextNumber' \in Nat /\ nextNumber' > nextNumber
      /\ r.stage = "written" /\ r.object = t /\ r.key = None /\ r.todo = {}
      /\ \A x \in DOMAIN r.rows : /\ x \in Objects /\ Exists(x) /\ TableOf(x) = t
                                  /\ r.rows[x].parent = row[x].parent /\ r.rows[x].revision > 0
  BY <1>0 DEF Writing
<1>2. Typed /\ SlotTrue(s) /\ t \in DOMAIN lock /\ t \in Objects
  BY KindsApart DEF CatalogInv, Typed
<1>3. tx' \in [Slots -> Transactions] /\ tx'[s] = r /\ \A u \in Slots \ {s} : tx'[u] = tx[u]
  BY <1>1, <1>2 DEF Typed
<1>4. /\ lock' \in [Objects \cup {Actor} -> Slots \cup {None}] /\ DOMAIN lock' = DOMAIN lock
      /\ lock'[t] = s
      /\ \A u \in Slots \ {s} : \A y \in DOMAIN lock : lock'[y] = u <=> lock[y] = u
  BY <1>1, <1>2, LockTaken
<1>5. UNCHANGED <<row, events, changes, receipt, request>>
  BY DEF WriteTable, Unchanged
<1>6. Typed'
  BY <1>1, <1>2, <1>3, <1>4, <1>5 DEF Typed
<1>7. Frame(s)
  BY <1>1, <1>2, <1>3, <1>4, <1>5 DEF Frame, Typed
<1>8. SlotTrue(s)'
  <2>1. ASSUME NEW x \in DOMAIN r.rows
        PROVE  /\ TableOf(x)' = t /\ Exists(x)'
               /\ r.rows[x].parent = row'[x].parent /\ r.rows[x].revision > 0
    BY <1>1, <1>5 DEF TableOf, Exists
  <2>2. Exists(t)'
    BY <1>1, <1>5 DEF Exists
  <2>. QED
    BY <1>1, <1>2, <1>3, <1>4, <2>1, <2>2 DEF SlotTrue, IdleTrue, CreationTrue, UpdateTrue
<1>. QED
  BY <1>6, <1>7, <1>8

\* Rows that a transaction has not written stay, the others are its own.
LEMMA CommitRows ==
  ASSUME CatalogInv, NEW s \in Slots, Commit(s)
  PROVE  /\ row' \in [Objects -> Rows]
         /\ \A x \in Objects : row'[x] = IF x \in DOMAIN tx[s].rows THEN tx[s].rows[x] ELSE row[x]
<1>1. PICK r \in Transactions : r = tx[s]
  BY DEF CatalogInv, Typed
<1>2. row' = [x \in Objects |-> IF x \in DOMAIN r.rows THEN r.rows[x] ELSE row[x]]
  BY <1>1 DEF Commit
<1>3. PICK S \in SUBSET Objects : r.rows \in [S -> Rows]
  BY DEF Transactions, PartialRows
<1>4. row \in [Objects -> Rows]
  BY DEF CatalogInv, Typed
<1>. QED
  BY <1>1, <1>2, <1>3, <1>4

LEMMA CommitKeeps ==
  ASSUME CatalogInv, NEW s \in Slots, Commit(s)
  PROVE  Typed' /\ Frame(s) /\ SlotTrue(s)'
<1>1. Typed /\ SlotTrue(s)
  BY DEF CatalogInv
<1>2. tx' \in [Slots -> Transactions] /\ tx'[s] = Idle /\ \A u \in Slots \ {s} : tx'[u] = tx[u]
  <2>1. tx' = [tx EXCEPT ![s] = Idle]
    BY DEF Commit
  <2>. QED
    BY <1>1, <2>1, IdleTyped DEF Typed, IdleType
<1>3. lock' = Released(s) /\ UNCHANGED <<nextNumber, request>>
  BY DEF Commit
<1>4. PICK r \in Transactions : r = tx[s]
  BY <1>1 DEF Typed
<1>5. events' \in SUBSET Events /\ changes' \in SUBSET Changes
  <2>1. events' = events \cup r.events /\ changes' = changes \cup r.changes
    BY <1>4 DEF Commit
  <2>2. r.events \in SUBSET Events /\ r.changes \in SUBSET Changes
    BY DEF Transactions
  <2>. QED
    BY <1>1, <2>1, <2>2 DEF Typed
<1>6. receipt' \in [Keys -> Objects \cup {None}]
  <2>1. receipt' = IF r.key = None THEN receipt ELSE [receipt EXCEPT ![r.key] = r.object]
    BY <1>4 DEF Commit
  <2>2. r.key # None => r.object \in Objects
    <3>1. r.stage # "actor"
      BY <1>4 DEF Commit
    <3>. QED
      BY <1>1, <1>4, <3>1 DEF SlotTrue, CreationTrue
  <2>. QED
    BY <1>1, <2>1, <2>2 DEF Typed
<1>7. Typed'
  BY <1>1, <1>2, <1>3, <1>5, <1>6, CommitRows, LocksReleased DEF Typed
<1>8. Frame(s)
  BY <1>1, <1>2, <1>3, CommitRows, LocksReleased DEF Frame, Typed
<1>9. SlotTrue(s)'
  BY <1>1, <1>2, <1>3, <1>7, EndedTrue
<1>. QED
  BY <1>7, <1>8, <1>9

\* Every step of a transaction keeps the invariant.
LEMMA StepKeeps ==
  ASSUME CatalogInv, NEW s \in Slots, Step(s)
  PROVE  CatalogInv' /\ Frame(s)
<1>1. Typed' /\ Frame(s) /\ SlotTrue(s)'
  <2>1. CASE \E k \in Keys, p \in Parents : LockActor(s, k, p)
    BY <2>1, LockActorKeeps
  <2>2. CASE Ends(s)
    BY <2>2, EndsKeeps
  <2>3. CASE \E kind \in Kinds, p \in Parents :
               (\A x \in kind : IsParent(x, p)) /\ InsertChild(s, p, kind, LimitOf(kind))
    <3>1. PICK kind \in Kinds, p \in Parents :
            (\A x \in kind : IsParent(x, p)) /\ InsertChild(s, p, kind, LimitOf(kind))
      BY <2>3
    <3>2. PICK limit : limit = LimitOf(kind)
      OBVIOUS
    <3>. QED
      BY <3>1, <3>2, InsertChildKeeps
  <2>4. CASE \E x \in Workspaces \cup Bases, name \in Names : Rename(s, x, name)
    BY <2>4, RenameKeeps
  <2>5. CASE CaptureAncestor(s)
    BY <2>5, CaptureKeeps
  <2>6. CASE \E t \in Tables : \E new : Writable(t, new) /\ WriteTable(s, t, new)
    BY <2>6, WriteTableKeeps
  <2>7. CASE Commit(s)
    BY <2>7, CommitKeeps
  <2>. QED
    BY <2>1, <2>2, <2>3, <2>4, <2>5, <2>6, <2>7 DEF Step
<1>2. Family'
  BY <1>1, FamilyKept
<1>3. \A u \in Slots \ {s} : SlotTrue(u)'
  BY <1>1, OthersTrue
<1>. QED
  BY <1>1, <1>2, <1>3 DEF CatalogInv

\* What Max chooses of a finite set exists: the first of its descending sequence.
LEMMA MaxOfFinite ==
  ASSUME NEW S \in SUBSET Nat, S # {}, IsFiniteSet(S)
  PROVE  Max(S) \in S /\ \A y \in S : Max(S) >= y
<1>1. PICK n \in Nat : n = Cardinality(S)
  BY FS_CardinalityType
<1>2. PICK q \in [1 .. n -> S] : IsDescending(q) /\ ToSet(q) = S
  BY <1>1, DescendingExists
<1>3. n > 0
  BY <1>1, FS_EmptySet
<1>4. 1 \in 1 .. n /\ q[1] \in S
  BY <1>2, <1>3
<1>5. ASSUME NEW y \in S PROVE q[1] >= y
  <2>1. PICK i \in 1 .. n : q[i] = y
    BY <1>2 DEF ToSet
  <2>2. q[1] \in Nat /\ y \in Nat
    BY <1>4
  <2>3. i > 1 => q[1] > q[i]
    BY <1>2, <1>4 DEF IsDescending
  <2>. QED
    BY <2>1, <2>2, <2>3
<1>6. \E x \in S : \A y \in S : x >= y
  BY <1>4, <1>5
<1>. QED
  BY <1>6 DEF Max

LEMMA InitialKnown ==
  /\ Min(Workspaces) \in Initial /\ Min(Bases) \in Initial /\ Min(Tables) \in Initial
  /\ Initial \subseteq Workspaces \cup Bases \cup Tables
<1>1. Tables \in SUBSET Nat /\ Tables # {} /\ IsFiniteSet(Tables)
  <2>1. Tables \in SUBSET Objects /\ Tables \in SUBSET Nat
    BY KindsApart
  <2>2. IsFiniteSet(Tables)
    BY <2>1, FS_Subset, CatalogAssumption
  <2>3. Tables # {}
    BY InitialAssumption, FS_EmptySet
  <2>. QED
    BY <2>1, <2>2, <2>3
<1>2. Min(Tables) \in Tables /\ Max(Tables) \in Tables
      /\ \A t \in Tables : Min(Tables) <= t /\ t <= Max(Tables)
  BY <1>1, MinOf, MaxOfFinite
<1>3. Min(Tables) # Max(Tables)
  <2>1. SUFFICES ASSUME Min(Tables) = Max(Tables) PROVE FALSE
    OBVIOUS
  <2>2. Tables = {Min(Tables)}
    <3>1. PICK m \in Tables : m = Min(Tables) /\ \A t \in Tables : m <= t /\ t <= m
      BY <1>2, <2>1
    <3>2. \A t \in Tables : t \in Nat
      BY <1>1
    <3>3. \A t \in Tables : t = m
      BY <3>1, <3>2
    <3>. QED
      BY <3>1, <3>3
  <2>3. Cardinality(Tables) = 1
    BY <2>2, FS_Singleton
  <2>. QED
    BY <2>3, InitialAssumption
<1>4. Min(Workspaces) \in Workspaces /\ Min(Bases) \in Bases
  BY InitialRows
<1>. QED
  BY <1>2, <1>3, <1>4 DEF Initial

\* The initial states, field by field.
LEMMA InitIs ==
  ASSUME CatalogInit
  PROVE  /\ row \in [Objects -> Rows]
         /\ \A x \in Objects : IF x \in Records \cup Initial THEN row[x] = InitialRow(x) ELSE row[x] = Absent
         /\ \A x \in Objects : Exists(x) <=> x \in Records \cup Initial
         /\ \A e \in events : /\ e \in Events /\ e.number = 1 /\ e.table = Min(Tables)
                              /\ e.object = Min(Tables) /\ e.operation = None
                              /\ e.changes = {1}
         /\ \E e \in events : TRUE
         /\ \A e, f \in events : e = f
         /\ \A c \in changes : /\ c \in Changes /\ c.number = 1 /\ c.table = Min(Tables)
                               /\ c.object = Min(Tables) /\ c.operation = None
         /\ \A c, d \in changes : c = d
<1>1. row = [x \in Objects |-> IF x \in Records \cup Initial THEN InitialRow(x) ELSE Absent]
  BY DEF CatalogInit
<1>2. /\ row \in [Objects -> Rows]
      /\ \A x \in Objects : IF x \in Records \cup Initial THEN row[x] = InitialRow(x) ELSE row[x] = Absent
  BY <1>1, InitialRows
<1>3. \A x \in Objects : Exists(x) <=> x \in Records \cup Initial
  BY <1>2, InitialRows DEF Exists
<1>4. PICK t : t = Min(Tables)
  OBVIOUS
<1>5. t \in Tables /\ t \in Objects /\ t \in Initial
  BY <1>4, InitialKnown, InitialRows, KindsApart
<1>8. PICK f \in Events : /\ f = Captured(1, t, t, None, Absent, Absent)
                          /\ f.number = 1 /\ f.table = t /\ f.object = t /\ f.operation = None
  <2>1. PICK f : f = Captured(1, t, t, None, Absent, Absent)
    OBVIOUS
  <2>2. 1 \in Nat /\ None \in Nat \cup {None}
    OBVIOUS
  <2>. QED
    <3>1. f \in Events /\ f.number = 1 /\ f.table = t /\ f.object = t /\ f.operation = None
      <4>1. PICK n \in Nat, o \in Nat \cup {None}, a \in Rows : n = 1 /\ o = None /\ a = Absent
        BY <2>2, InitialRows
      <4>2. f = Captured(n, t, t, o, a, a)
        BY <2>1, <4>1
      <4>. QED
        BY <1>5, <4>1, <4>2, CapturedTyped
    <3>. QED
      BY <2>1, <3>1
<1>9. PICK g : g = [f EXCEPT !.changes = {1}]
  OBVIOUS
<1>10. events = {g}
  BY <1>4, <1>8, <1>9 DEF CatalogInit, Imported
<1>11. /\ g \in Events /\ g.number = 1 /\ g.table = t /\ g.object = t /\ g.operation = None
       /\ g.changes = {1}
  BY <1>8, <1>9 DEF Events
<1>12. PICK c : c = [number |-> 1, table |-> t, object |-> t, operation |-> None]
  OBVIOUS
<1>13. changes = {c}
  BY <1>4, <1>12 DEF CatalogInit
<1>14. c \in Changes /\ c.number = 1 /\ c.table = t /\ c.object = t /\ c.operation = None
  BY <1>5, <1>12 DEF Changes
<1>. QED
  BY <1>2, <1>3, <1>4, <1>10, <1>11, <1>13, <1>14

LEMMA InitKnows ==
  ASSUME CatalogInit
  PROVE  CatalogInv
<1>1. /\ lock \in [Objects \cup {Actor} -> Slots \cup {None}]
      /\ \A x \in DOMAIN lock : \A s \in Slots : lock[x] # s
  BY NoneAssumption DEF CatalogInit
<1>2. tx \in [Slots -> Transactions] /\ \A s \in Slots : tx[s] = Idle
  BY IdleTyped DEF CatalogInit, IdleType
<1>3. /\ nextNumber \in Nat \ {0} /\ receipt \in [Keys -> Objects \cup {None}]
      /\ request \in [Keys -> Parents \cup {None}]
  BY DEF CatalogInit
<1>4. Typed
  BY <1>1, <1>2, <1>3, InitIs DEF Typed
<1>5. Family
  <2>1. ASSUME NEW x \in Objects, Exists(x)
        PROVE  IsParent(x, row[x].parent) /\ (row[x].parent # Actor => Exists(row[x].parent))
    <3>1. row[x] = InitialRow(x) /\ IsParent(x, row[x].parent)
      BY <2>1, InitIs, InitialRows
    <3>2. CASE x \in Workspaces
      BY <3>1, <3>2 DEF IsParent
    <3>3. CASE x \in Bases
      <4>1. row[x].parent = Min(Workspaces)
        BY <3>1, <3>3, CatalogAssumption DEF InitialRow
      <4>. QED
        BY <3>1, <4>1, InitIs, InitialKnown, KindsApart, InitialRows
    <3>4. CASE x \in Tables
      <4>1. row[x].parent = Min(Bases)
        BY <3>1, <3>4, CatalogAssumption DEF InitialRow
      <4>. QED
        BY <3>1, <4>1, InitIs, InitialKnown, KindsApart, InitialRows
    <3>5. CASE x \in Records
      <4>1. row[x].parent = Min(Tables)
        BY <3>1, <3>5, CatalogAssumption DEF InitialRow
      <4>. QED
        BY <3>1, <4>1, InitIs, InitialKnown, KindsApart, InitialRows
    <3>. QED
      BY <3>2, <3>3, <3>4, <3>5 DEF Objects
  <2>2. \A x \in Objects : x \in Records => Exists(x)
    BY InitIs
  <2>. QED
    BY <2>1, <2>2 DEF Family
<1>6. \A s \in Slots : SlotTrue(s)
  BY <1>1, <1>2, IdleTyped DEF SlotTrue, IdleTrue, CreationTrue, UpdateTrue, IdleType
<1>. QED
  BY <1>4, <1>5, <1>6 DEF CatalogInv

\* What is left of a transaction that has ended, or has only locked the Actor.
Empty(r) == DOMAIN r.rows = {} /\ r.events = {} /\ r.changes = {}

LEMMA IdleEmpty == Empty(Idle)
  BY DEF Empty, Idle

Locking(s, k, p, r) ==
  /\ tx[s].stage = "idle" /\ tx' = [tx EXCEPT ![s] = r] /\ Empty(r)
  /\ r.stage = "actor" /\ r.operation = nextNumber /\ r.key = k

LEMMA LockActorIs ==
  ASSUME CatalogInv, NEW s \in Slots, NEW k \in Keys, NEW p \in Parents, LockActor(s, k, p)
  PROVE  \E r \in Transactions : Locking(s, k, p, r)
<1>1. PICK b : b = Begun("actor", Actor)
  OBVIOUS
<1>2. PICK r : r = [b EXCEPT !.parent = p, !.key = k]
  OBVIOUS
<1>3. /\ b \in Transactions /\ b.stage = "actor" /\ b.operation = nextNumber
      /\ DOMAIN b.rows = {} /\ b.events = {} /\ b.changes = {}
  BY <1>1, BegunTyped DEF CatalogInv
<1>4. /\ r \in Transactions /\ r.stage = "actor" /\ r.operation = nextNumber /\ r.key = k
      /\ DOMAIN r.rows = {} /\ r.events = {} /\ r.changes = {}
  BY <1>2, <1>3 DEF Transactions
<1>5. tx[s].stage = "idle" /\ tx' = [tx EXCEPT ![s] = r]
  BY <1>1, <1>2 DEF LockActor, Available
<1>6. Locking(s, k, p, r)
  BY <1>4, <1>5 DEF Locking, Empty
<1>. QED
  BY <1>4, <1>6

(***************************************************************************)
(* The trails: what is committed in them, and what the transactions in     *)
(* flight will add.                                                        *)
(***************************************************************************)

\* The objects that the trail of a Table is about.
InTrail(t, x) == IF x \in Tables \cup Records THEN TableOf(x) = t ELSE t \in Below(x)

SameTrail(e, f) == e.table = f.table /\ e.object = f.object

EventKnown(e) == /\ e.number > 0 /\ e.number < nextNumber
                 /\ Exists(e.object) /\ Exists(e.table) /\ InTrail(e.table, e.object)

\* An event in flight will be the last of its Table, and one of a row that its
\* transaction has written; it is the only one in its trail.
EventTrue(s, e) ==
  /\ e.number > 0 /\ e.number < nextNumber
  /\ \A f \in events : f.table = e.table => f.number < e.number
  /\ e.object \in DOMAIN tx[s].rows /\ e.after = tx[s].rows[e.object]
  /\ e.table \notin tx[s].todo
  /\ \A f \in tx[s].events : SameTrail(e, f) => e = f
  /\ tx[s].key = None => /\ e.before = row[e.object] /\ lock[e.table] = s /\ Exists(e.table)
                         /\ InTrail(e.table, e.object)

\* Every trail that a written object has an event in gets another one.
Covered(s) ==
  \A f \in events : f.object \in DOMAIN tx[s].rows =>
    f.table \in tx[s].todo \/ \E e \in tx[s].events : SameTrail(e, f)

\* A Change in flight will be the last of its Table.
ChangeTrue(s, c) ==
  /\ c.number > 0 /\ c.number < nextNumber /\ lock[c.table] = s
  /\ \A d \in changes : d.table = c.table => d.number < c.number

TrailsTrue(s) ==
  /\ \A e \in tx[s].events : EventTrue(s, e)
  /\ Covered(s)
  /\ \A c \in tx[s].changes : ChangeTrue(s, c)

TrailInv ==
  /\ \A e \in events : EventKnown(e)
  /\ \A c \in changes : c.number < nextNumber
  /\ \A s \in Slots : TrailsTrue(s)

\* What the step of one transaction may add to what is committed.
Adds(s) == events' \subseteq events \cup tx[s].events /\ changes' \subseteq changes \cup tx[s].changes

LEMMA StepAdds ==
  ASSUME NEW s \in Slots, Step(s)
  PROVE  Adds(s) /\ (Commit(s) \/ UNCHANGED <<row, events, changes, receipt>>)
<1>1. CASE Commit(s)
  BY <1>1 DEF Commit, Adds
<1>2. CASE ~Commit(s)
  BY <1>2 DEF Step, LockActor, Ends, InsertChild, Rename, CaptureAncestor, WriteTable, Unchanged, Adds
<1>. QED
  BY <1>1, <1>2

\* The types of what is in flight.
LEMMA InFlight ==
  ASSUME CatalogInv, NEW s \in Slots
  PROVE  /\ tx[s] \in Transactions /\ tx[s].events \in SUBSET Events /\ tx[s].changes \in SUBSET Changes
         /\ DOMAIN tx[s].rows \subseteq Objects /\ tx[s].todo \in SUBSET Tables
<1>1. tx[s] \in Transactions
  BY DEF CatalogInv, Typed
<1>. QED
  BY <1>1 DEF Transactions, PartialRows

\* Two transactions write to different trails.
LEMMA TablesApart ==
  ASSUME CatalogInv, TrailInv, NEW s \in Slots, NEW u \in Slots, s # u,
         NEW e \in tx[s].events, NEW f \in tx[u].events
  PROVE  e.table # f.table
<1>1. EventTrue(s, e) /\ EventTrue(u, f) /\ SlotTrue(s) /\ SlotTrue(u)
  BY DEF TrailInv, TrailsTrue, CatalogInv
<1>2. tx[s].key # None => tx[s].stage = "written" /\ e.table = tx[s].object /\ ~Exists(e.table)
                          /\ lock[Actor] = s
  BY <1>1 DEF SlotTrue, CreationTrue
<1>3. tx[u].key # None => tx[u].stage = "written" /\ f.table = tx[u].object /\ ~Exists(f.table)
                          /\ lock[Actor] = u
  BY <1>1 DEF SlotTrue, CreationTrue
<1>. QED
  BY <1>1, <1>2, <1>3 DEF EventTrue

\* What the trail of a Table is about stays so.
LEMMA InTrailKept ==
  ASSUME CatalogInv, Persist, NEW t \in Tables, NEW x \in Objects, Exists(x), InTrail(t, x)
  PROVE  InTrail(t, x)'
<1>1. CASE x \in Tables \cup Records
  BY <1>1 DEF InTrail, TableOf, Persist
<1>2. CASE x \notin Tables \cup Records
  BY <1>2, BelowKept DEF InTrail
<1>. QED
  BY <1>1, <1>2

\* The trails of the other transactions are not disturbed.
LEMMA TrailOthers ==
  ASSUME CatalogInv, CatalogInv', TrailInv, NEW s \in Slots, Frame(s), Adds(s), NEW u \in Slots \ {s}
  PROVE  TrailsTrue(u)'
<1>1. /\ tx'[u] = tx[u] /\ u \in Slots /\ nextNumber' >= nextNumber
      /\ \A x \in Objects \cup {Actor} : lock'[x] = u <=> lock[x] = u
  BY DEF Frame, CatalogInv, Typed
<1>2. Persist
  BY RowsPersist DEF CatalogInv
<1>3. TrailsTrue(u) /\ nextNumber \in Nat /\ nextNumber' \in Nat
  BY DEF TrailInv, CatalogInv, Typed
<1>4. /\ tx[u].events \in SUBSET Events /\ tx[u].changes \in SUBSET Changes /\ DOMAIN tx[u].rows \subseteq Objects
      /\ tx[s].events \in SUBSET Events /\ tx[s].changes \in SUBSET Changes
  BY <1>1, InFlight
<1>5. ASSUME NEW x \in DOMAIN tx[u].rows PROVE row'[x] = row[x] /\ x \notin DOMAIN tx[s].rows
  BY <1>1, <1>4, <1>5, RowsApart DEF Frame
<1>6. ASSUME NEW e \in tx[u].events PROVE EventTrue(u, e)'
  <2>1. EventTrue(u, e) /\ e \in Events
    BY <1>3, <1>4 DEF TrailsTrue
  <2>2. e.number > 0 /\ e.number < nextNumber'
    BY <1>1, <1>3, <2>1 DEF EventTrue, Events
  <2>3. ASSUME NEW f \in events', f.table = e.table PROVE f.number < e.number
    <3>1. f \notin tx[s].events
      BY <1>1, <2>3, TablesApart
    <3>. QED
      BY <2>1, <2>3, <3>1 DEF EventTrue, Adds
  <2>4. e.object \in DOMAIN tx'[u].rows /\ e.after = tx'[u].rows[e.object] /\ e.table \notin tx'[u].todo
        /\ \A f \in tx'[u].events : SameTrail(e, f) => e = f
    BY <1>1, <2>1 DEF EventTrue
  <2>5. ASSUME tx[u].key = None
        PROVE  /\ e.before = row'[e.object] /\ lock'[e.table] = u /\ Exists(e.table)'
               /\ InTrail(e.table, e.object)'
    <3>1. /\ e.before = row[e.object] /\ lock[e.table] = u /\ Exists(e.table)
          /\ InTrail(e.table, e.object) /\ e.object \in DOMAIN tx[u].rows
      BY <2>1, <2>5 DEF EventTrue
    <3>2. e.table \in Tables /\ e.table \in Objects /\ e.object \in Objects
      BY <2>1, KindsApart DEF Events
    <3>3. tx[u].stage # "idle"
      BY <1>1, <3>1, IdleEmpty DEF CatalogInv, SlotTrue, IdleTrue, Empty
    <3>4. Exists(e.object)
      BY <1>1, <2>5, <3>1, <3>3 DEF CatalogInv, SlotTrue, UpdateTrue
    <3>5. InTrail(e.table, e.object)'
      BY <1>2, <3>1, <3>2, <3>4, InTrailKept
    <3>6. Exists(e.table)'
      BY <1>2, <3>1, <3>2 DEF Persist, Exists
    <3>. QED
      BY <1>1, <1>5, <3>1, <3>2, <3>5, <3>6
  <2>. QED
    BY <1>1, <2>2, <2>3, <2>4, <2>5 DEF EventTrue
<1>7. Covered(u)'
  <2>1. ASSUME NEW f \in events', f.object \in DOMAIN tx[u].rows
        PROVE  f.table \in tx[u].todo \/ \E e \in tx[u].events : SameTrail(e, f)
    <3>1. f \notin tx[s].events
      <4>1. f \in tx[s].events => f.object \in DOMAIN tx[s].rows
        BY DEF TrailInv, TrailsTrue, EventTrue
      <4>. QED
        BY <1>5, <2>1, <4>1
    <3>. QED
      BY <1>3, <2>1, <3>1 DEF Adds, TrailsTrue, Covered
  <2>. QED
    BY <1>1, <2>1 DEF Covered, SameTrail
<1>8. ASSUME NEW c \in tx[u].changes PROVE ChangeTrue(u, c)'
  <2>1. ChangeTrue(u, c) /\ c \in Changes /\ c.table \in Objects
    BY <1>3, <1>4, KindsApart DEF TrailsTrue, Changes
  <2>2. c.number > 0 /\ c.number < nextNumber' /\ lock'[c.table] = u
    BY <1>1, <1>3, <2>1 DEF ChangeTrue, Changes
  <2>3. ASSUME NEW d \in changes', d.table = c.table PROVE d.number < c.number
    <3>1. d \notin tx[s].changes
      <4>1. d \in tx[s].changes => lock[d.table] = s
        BY DEF TrailInv, TrailsTrue, ChangeTrue
      <4>. QED
        BY <1>1, <2>1, <2>3, <4>1 DEF ChangeTrue
    <3>. QED
      BY <2>1, <2>3, <3>1 DEF ChangeTrue, Adds
  <2>. QED
    BY <2>2, <2>3 DEF ChangeTrue
<1>. QED
  BY <1>1, <1>6, <1>7, <1>8 DEF TrailsTrue

LEMMA EmptyTrails ==
  ASSUME NEW s \in Slots, Empty(tx'[s])
  PROVE  TrailsTrue(s)'
  BY DEF Empty, TrailsTrue, Covered

LEMMA InsertChildTrails ==
  ASSUME CatalogInv, TrailInv, NEW s \in Slots, NEW kind \in Kinds, NEW p \in Parents, NEW limit,
         \A x \in kind : IsParent(x, p), InsertChild(s, p, kind, limit)
  PROVE  TrailsTrue(s)'
<1>1. PICK x \in kind, new \in Rows, r \in Transactions : Inserted(s, kind, p, limit, x, new, r)
  BY InsertChildIs
<1>2. /\ tx' = [tx EXCEPT ![s] = r] /\ x \in Objects /\ ~Exists(x)
      /\ r.key \in Keys /\ r.todo = {} /\ r.changes = {} /\ DOMAIN r.rows = {x} /\ r.rows[x] = new
      /\ \A e \in r.events : e = Captured(nextNumber, x, x, tx[s].operation, Absent, new)
  BY <1>1 DEF Inserted
<1>3. tx'[s] = r /\ nextNumber' = nextNumber + 1 /\ nextNumber \in Nat \ {0} /\ UNCHANGED <<row, events>>
  BY <1>2 DEF CatalogInv, Typed, InsertChild, Unchanged
<1>4. ASSUME NEW e \in r.events PROVE EventTrue(s, e)'
  <2>1. e.number = nextNumber /\ e.table = x /\ e.object = x /\ e.after = new
    BY <1>2 DEF Captured
  <2>2. \A f \in events : f.table # x
    BY <1>2 DEF TrailInv, EventKnown
  <2>3. r.key # None /\ \A f \in r.events : f = e
    BY <1>2, NoneAssumption
  <2>. QED
    BY <1>2, <1>3, <2>1, <2>2, <2>3 DEF EventTrue
<1>5. Covered(s)'
  <2>1. \A f \in events : f.object # x
    BY <1>2 DEF TrailInv, EventKnown
  <2>. QED
    BY <1>2, <1>3, <2>1 DEF Covered
<1>. QED
  BY <1>2, <1>3, <1>4, <1>5 DEF TrailsTrue

LEMMA RenameTrails ==
  ASSUME CatalogInv, TrailInv, NEW s \in Slots, NEW x \in Workspaces \cup Bases, NEW name \in Names,
         Rename(s, x, name)
  PROVE  TrailsTrue(s)'
<1>1. PICK r \in Transactions : Renaming(s, x, r)
  BY RenameIs
<1>2. /\ tx' = [tx EXCEPT ![s] = r] /\ r.events = {} /\ r.changes = {} /\ DOMAIN r.rows = {x}
      /\ r.todo = Below(x)
  BY <1>1 DEF Renaming
<1>3. tx'[s] = r /\ UNCHANGED <<row, events>>
  BY <1>2 DEF CatalogInv, Typed, Rename, Unchanged
<1>4. \A f \in events : f.object = x => f.table \in Below(x)
  BY CatalogAssumption DEF TrailInv, EventKnown, InTrail
<1>. QED
  BY <1>2, <1>3, <1>4 DEF TrailsTrue, Covered

LEMMA CaptureTrails ==
  ASSUME CatalogInv, TrailInv, NEW s \in Slots, CaptureAncestor(s)
  PROVE  TrailsTrue(s)'
<1>1. PICK t \in tx[s].todo, e \in Events, r \in Transactions : Capturing(s, t, e, r)
  BY CaptureIs
<1>2. PICK x : x = tx[s].object
  OBVIOUS
<1>3. /\ tx[s].stage = "ancestor" /\ tx[s].key = None /\ t \in Tables /\ x \in Workspaces \cup Bases
      /\ lock[t] = None /\ lock' = [lock EXCEPT ![t] = s] /\ tx' = [tx EXCEPT ![s] = r]
      /\ e.number = nextNumber /\ e.table = t /\ e.object = x
      /\ e.before = row[x] /\ e.after = tx[s].rows[x]
      /\ r.key = None /\ r.rows = tx[s].rows /\ r.changes = {}
      /\ r.todo = tx[s].todo \ {t} /\ r.events = tx[s].events \cup {e}
  BY <1>1, <1>2 DEF Capturing
<1>4. /\ tx'[s] = r /\ nextNumber' = nextNumber + 1 /\ nextNumber \in Nat \ {0}
      /\ UNCHANGED <<row, events, changes>>
      /\ lock \in [Objects \cup {Actor} -> Slots \cup {None}] /\ t \in DOMAIN lock
  BY <1>3, KindsApart DEF CatalogInv, Typed, CaptureAncestor, Unchanged
<1>5. DOMAIN tx[s].rows = {x} /\ t \in Below(x)
  BY <1>2, <1>3 DEF CatalogInv, SlotTrue, UpdateTrue
<1>6. \A a, b : InTrail(a, b)' <=> InTrail(a, b)
  BY <1>4 DEF InTrail, TableOf, Below, Exists
<1>7. TrailsTrue(s)
  BY DEF TrailInv
<1>8. ASSUME NEW f \in tx[s].events PROVE EventTrue(s, f)'
  <2>1. EventTrue(s, f) /\ f \in Events /\ f.table # t
    BY <1>7, InFlight DEF TrailsTrue, EventTrue
  <2>2. f.table \in DOMAIN lock
    BY <1>4, <2>1, KindsApart DEF Events
  <2>3. lock'[f.table] = s /\ f.before = row[f.object] /\ Exists(f.table) /\ InTrail(f.table, f.object)
    BY <1>3, <1>4, <2>1, <2>2 DEF EventTrue
  <2>4. f.number > 0 /\ f.number < nextNumber + 1 /\ \A g \in events : g.table = f.table => g.number < f.number
    BY <1>4, <2>1 DEF EventTrue, Events
  <2>5. f.object \in DOMAIN r.rows /\ f.after = r.rows[f.object] /\ f.table \notin r.todo
    BY <1>3, <2>1 DEF EventTrue
  <2>6. \A g \in r.events : SameTrail(f, g) => f = g
    BY <1>3, <2>1 DEF EventTrue, SameTrail
  <2>. QED
    BY <1>3, <1>4, <1>6, <2>3, <2>4, <2>5, <2>6 DEF EventTrue, Exists, SameTrail
<1>9. EventTrue(s, e)'
  <2>1. \A f \in events : f.number < nextNumber
    BY DEF TrailInv, EventKnown
  <2>2. \A g \in r.events : SameTrail(e, g) => e = g
    <3>1. \A g \in tx[s].events : g.table # t
      BY <1>7 DEF TrailsTrue, EventTrue
    <3>. QED
      BY <1>3, <3>1 DEF SameTrail
  <2>3. lock'[t] = s /\ Exists(t)' /\ InTrail(t, x)'
    <3>1. x \notin Tables \cup Records
      BY <1>3, CatalogAssumption
    <3>2. Exists(t) /\ InTrail(t, x)
      BY <1>5, <3>1 DEF Below, InTrail
    <3>. QED
      BY <1>3, <1>4, <1>6, <3>2 DEF Exists
  <2>. QED
    BY <1>3, <1>4, <1>5, <2>1, <2>2, <2>3 DEF EventTrue, SameTrail
<1>10. Covered(s)'
  <2>1. ASSUME NEW f \in events, f.object \in DOMAIN r.rows
        PROVE  f.table \in r.todo \/ \E g \in r.events : SameTrail(g, f)
    <3>1. f.object = x /\ (f.table \in tx[s].todo \/ \E g \in tx[s].events : SameTrail(g, f))
      BY <1>3, <1>5, <1>7, <2>1 DEF TrailsTrue, Covered
    <3>. QED
      BY <1>3, <3>1 DEF SameTrail
  <2>. QED
    BY <1>4, <2>1 DEF Covered, SameTrail
<1>. QED
  BY <1>3, <1>4, <1>8, <1>9, <1>10 DEF TrailsTrue

LEMMA WriteTrails ==
  ASSUME CatalogInv, TrailInv, NEW s \in Slots, NEW t \in Tables, NEW new, Writable(t, new), WriteTable(s, t, new)
  PROVE  TrailsTrue(s)'
<1>1. PICK number \in [DOMAIN new -> Nat], r \in Transactions : Writing(s, t, new, number, r)
  BY WriteTableIs
<1>2. /\ Exists(t) /\ lock' = [lock EXCEPT ![t] = s] /\ tx' = [tx EXCEPT ![s] = r]
      /\ nextNumber' \in Nat
      /\ \A x \in DOMAIN new : /\ x \in Objects /\ Exists(x) /\ TableOf(x) = t
                               /\ number[x] > nextNumber /\ number[x] < nextNumber'
      /\ r.key = None /\ r.todo = {} /\ DOMAIN r.rows = DOMAIN new
  BY <1>1 DEF Writing
<1>3. /\ tx'[s] = r /\ nextNumber \in Nat \ {0} /\ UNCHANGED <<row, events, changes>>
      /\ lock'[t] = s
  BY <1>2, KindsApart DEF CatalogInv, Typed, WriteTable, Unchanged
<1>4. /\ \A f \in events : f.number < nextNumber /\ f \in Events /\ InTrail(f.table, f.object)
      /\ \A c \in changes : c.number < nextNumber /\ c \in Changes
  BY DEF TrailInv, EventKnown, CatalogInv, Typed
<1>5. \A x \in DOMAIN new : x \in Tables \cup Records
  BY DEF Writable
<1>6. ASSUME NEW e \in r.events PROVE EventTrue(s, e)'
  <2>1. PICK x \in DOMAIN new : /\ e.number = number[x] /\ e.table = t /\ e.object = x
                                /\ e.before = row[x] /\ e.after = r.rows[x]
    BY <1>1 DEF Writing
  <2>2. \A f \in r.events : SameTrail(e, f) => e = f
    BY <1>1 DEF Writing, SameTrail
  <2>3. e.number > 0 /\ e.number < nextNumber' /\ \A f \in events : f.number < e.number
    BY <1>2, <1>3, <1>4, <2>1 DEF Events
  <2>4. InTrail(t, x)' /\ Exists(t)'
    BY <1>2, <1>3, <1>5, <2>1 DEF InTrail, TableOf, Exists
  <2>. QED
    BY <1>2, <1>3, <2>1, <2>2, <2>3, <2>4 DEF EventTrue, SameTrail
<1>7. Covered(s)'
  <2>1. ASSUME NEW f \in events, f.object \in DOMAIN new PROVE \E e \in r.events : SameTrail(e, f)
    <3>1. f.table = t
      BY <1>2, <1>4, <1>5, <2>1 DEF InTrail
    <3>2. PICK e \in r.events : e.object = f.object
      BY <1>1, <2>1 DEF Writing
    <3>3. e.table = t
      BY <1>1 DEF Writing
    <3>. QED
      BY <3>1, <3>2, <3>3 DEF SameTrail
  <2>. QED
    BY <1>2, <1>3, <2>1 DEF Covered, SameTrail
<1>8. ASSUME NEW c \in r.changes PROVE ChangeTrue(s, c)'
  <2>1. PICK x \in DOMAIN new : c.number = number[x] /\ c.table = t
    BY <1>1 DEF Writing
  <2>2. c.number > 0 /\ c.number < nextNumber' /\ \A d \in changes : d.number < c.number
    BY <1>2, <1>3, <1>4, <2>1 DEF Changes
  <2>. QED
    BY <1>3, <2>1, <2>2 DEF ChangeTrue
<1>. QED
  BY <1>3, <1>6, <1>7, <1>8 DEF TrailsTrue

LEMMA CommitKnown ==
  ASSUME CatalogInv, CatalogInv', TrailInv, NEW s \in Slots, Commit(s), NEW e \in tx[s].events
  PROVE  EventKnown(e)'
<1>1. Frame(s) /\ Persist
  BY CommitKeeps, RowsPersist DEF CatalogInv
<1>2. EventTrue(s, e) /\ e \in Events /\ SlotTrue(s) /\ tx[s].stage \notin {"idle", "actor"}
  BY InFlight DEF TrailInv, TrailsTrue, CatalogInv, Commit
<1>3. e.table \in Tables /\ e.table \in Objects /\ e.object \in Objects
  BY <1>2, KindsApart DEF Events
<1>4. e.number > 0 /\ e.number < nextNumber'
  BY <1>2 DEF EventTrue, Commit
<1>5. CASE tx[s].key = None
  <2>1. Exists(e.object) /\ Exists(e.table) /\ InTrail(e.table, e.object)
    BY <1>2, <1>5 DEF EventTrue, SlotTrue, UpdateTrue
  <2>2. InTrail(e.table, e.object)'
    BY <1>1, <1>3, <2>1, InTrailKept
  <2>. QED
    BY <1>1, <1>3, <1>4, <2>1, <2>2 DEF EventKnown, Persist, Exists
<1>6. CASE tx[s].key # None
  <2>1. PICK x : x = e.table
    OBVIOUS
  <2>2. x = e.object /\ x \in DOMAIN tx[s].rows /\ tx[s].rows[x].revision > 0
    BY <1>2, <1>6, <2>1 DEF SlotTrue, CreationTrue, EventTrue
  <2>3. Exists(x)'
    BY <1>3, <2>1, <2>2, CommitRows DEF Exists
  <2>4. InTrail(x, x)'
    BY <1>3, <2>1, CatalogAssumption DEF InTrail, TableOf
  <2>. QED
    BY <1>4, <2>1, <2>2, <2>3, <2>4 DEF EventKnown
<1>. QED
  BY <1>5, <1>6

LEMMA TrailKeeps ==
  ASSUME CatalogInv, TrailInv, NEW s \in Slots, Step(s)
  PROVE  TrailInv'
<1>1. CatalogInv' /\ Frame(s) /\ Adds(s) /\ (Commit(s) \/ UNCHANGED <<row, events, changes, receipt>>)
  BY StepKeeps, StepAdds
<1>2. Persist
  BY <1>1, RowsPersist DEF CatalogInv
<1>3. nextNumber \in Nat /\ nextNumber' \in Nat /\ nextNumber' >= nextNumber
  BY <1>1 DEF CatalogInv, Typed, Frame
<1>4. ASSUME NEW e \in events' PROVE EventKnown(e)'
  <2>1. CASE e \in events
    <3>1. EventKnown(e) /\ e \in Events /\ e.table \in Tables /\ e.table \in Objects /\ e.object \in Objects
      BY <2>1, KindsApart DEF TrailInv, CatalogInv, Typed, Events
    <3>2. InTrail(e.table, e.object)'
      BY <1>2, <3>1, InTrailKept DEF EventKnown
    <3>3. e.number > 0 /\ e.number < nextNumber'
      BY <1>3, <3>1 DEF EventKnown, Events
    <3>. QED
      BY <1>2, <3>1, <3>2, <3>3 DEF EventKnown, Persist, Exists
  <2>2. CASE e \notin events
    <3>1. Commit(s) /\ e \in tx[s].events
      BY <1>1, <2>2 DEF Adds
    <3>. QED
      BY <1>1, <3>1, CommitKnown
  <2>. QED
    BY <2>1, <2>2
<1>5. ASSUME NEW c \in changes' PROVE c.number < nextNumber'
  <2>1. c.number < nextNumber /\ c \in Changes
    BY <1>1, InFlight DEF TrailInv, TrailsTrue, ChangeTrue, Adds, CatalogInv, Typed
  <2>. QED
    BY <1>3, <2>1 DEF Changes
<1>6. TrailsTrue(s)'
  <2>1. CASE \E k \in Keys, p \in Parents : LockActor(s, k, p)
    <3>1. PICK k \in Keys, p \in Parents : LockActor(s, k, p)
      BY <2>1
    <3>2. PICK r \in Transactions : Locking(s, k, p, r)
      BY <3>1, LockActorIs
    <3>3. Empty(tx'[s])
      BY <3>2 DEF Locking, CatalogInv, Typed
    <3>. QED
      BY <3>3, EmptyTrails
  <2>2. CASE Ends(s) \/ Commit(s)
    <3>1. tx'[s] = Idle
      BY <2>2 DEF Ends, Commit, CatalogInv, Typed
    <3>. QED
      BY <3>1, IdleEmpty, EmptyTrails
  <2>3. CASE \E kind \in Kinds, p \in Parents :
               (\A x \in kind : IsParent(x, p)) /\ InsertChild(s, p, kind, LimitOf(kind))
    <3>1. PICK kind \in Kinds, p \in Parents :
            (\A x \in kind : IsParent(x, p)) /\ InsertChild(s, p, kind, LimitOf(kind))
      BY <2>3
    <3>2. PICK limit : limit = LimitOf(kind)
      OBVIOUS
    <3>. QED
      BY <3>1, <3>2, InsertChildTrails
  <2>4. CASE \E x \in Workspaces \cup Bases, name \in Names : Rename(s, x, name)
    BY <2>4, RenameTrails
  <2>5. CASE CaptureAncestor(s)
    BY <2>5, CaptureTrails
  <2>6. CASE \E t \in Tables : \E new : Writable(t, new) /\ WriteTable(s, t, new)
    BY <2>6, WriteTrails
  <2>. QED
    BY <2>1, <2>2, <2>3, <2>4, <2>5, <2>6 DEF Step
<1>7. \A u \in Slots \ {s} : TrailsTrue(u)'
  BY <1>1, TrailOthers
<1>. QED
  BY <1>4, <1>5, <1>6, <1>7 DEF TrailInv

\* What retention and readers leave alone.
Shrinks == /\ UNCHANGED <<row, lock, tx, nextNumber, request>>
           /\ receipt' \in [Keys -> Objects \cup {None}]
           /\ events' \subseteq events /\ changes' \subseteq changes

LEMMA CatalogShrinks ==
  ASSUME CatalogInv, Shrinks
  PROVE  CatalogInv'
<1>1. Typed'
  BY DEF CatalogInv, Typed, Shrinks
<1>2. Family'
  BY DEF CatalogInv, Family, Shrinks, Exists
<1>3. ASSUME NEW s \in Slots PROVE SlotTrue(s)'
  <2>1. SlotTrue(s)
    BY DEF CatalogInv
  <2>2. /\ \A x : Below(x)' = Below(x) /\ TableOf(x)' = TableOf(x) /\ Exists(x)' = Exists(x)
    BY DEF Shrinks, Below, TableOf, Exists
  <2>3. IdleTrue(s)' /\ CreationTrue(s)'
    BY <2>1, <2>2 DEF SlotTrue, IdleTrue, CreationTrue, Shrinks
  <2>4. UpdateTrue(s)'
    BY <2>1, <2>2 DEF SlotTrue, UpdateTrue, Shrinks
  <2>. QED
    BY <2>3, <2>4 DEF SlotTrue
<1>. QED
  BY <1>1, <1>2, <1>3 DEF CatalogInv

LEMMA TrailShrinks ==
  ASSUME TrailInv, Shrinks
  PROVE  TrailInv'
<1>1. \A t, x : /\ InTrail(t, x)' <=> InTrail(t, x)
                /\ Exists(x)' <=> Exists(x)
  BY DEF Shrinks, InTrail, TableOf, Below, Exists
<1>2. \A e \in events' : EventKnown(e)'
  BY <1>1 DEF TrailInv, EventKnown, Shrinks
<1>3. ASSUME NEW s \in Slots PROVE TrailsTrue(s)'
  <2>1. TrailsTrue(s) /\ tx' = tx
    BY DEF TrailInv, Shrinks
  <2>2. \A e \in tx[s].events : EventTrue(s, e)'
    BY <1>1, <2>1 DEF TrailsTrue, EventTrue, Shrinks, SameTrail
  <2>3. Covered(s)'
    BY <2>1 DEF TrailsTrue, Covered, Shrinks, SameTrail
  <2>4. \A c \in tx[s].changes : ChangeTrue(s, c)'
    BY <2>1 DEF TrailsTrue, ChangeTrue, Shrinks
  <2>. QED
    BY <2>1, <2>2, <2>3, <2>4 DEF TrailsTrue
<1>. QED
  BY <1>2, <1>3 DEF TrailInv, Shrinks

LEMMA InitTrails ==
  ASSUME CatalogInit
  PROVE  TrailInv
<1>1. \A s \in Slots : tx[s] = Idle
  BY DEF CatalogInit
<1>2. nextNumber = 2
  BY DEF CatalogInit
<1>3. Min(Tables) \in Tables /\ Exists(Min(Tables)) /\ InTrail(Min(Tables), Min(Tables))
  BY InitIs, InitialKnown, InitialRows, KindsApart, CatalogAssumption DEF InTrail, TableOf
<1>4. \A s \in Slots : TrailsTrue(s)
  BY <1>1, IdleEmpty DEF Empty, TrailsTrue, Covered
<1>5. \A e \in events : EventKnown(e)
  BY <1>2, <1>3, InitIs DEF EventKnown
<1>6. \A c \in changes : c.number < nextNumber
  BY <1>2, InitIs
<1>. QED
  BY <1>4, <1>5, <1>6 DEF TrailInv

(***************************************************************************)
(* The chain of the snapshots in a trail.                                  *)
(***************************************************************************)

\* A captured event is unique in its trail, what follows it begins where it ended, and
\* the last is about the row.
Linked(e) ==
  /\ \A f \in events : SameTrail(e, f) /\ f.number = e.number => f = e
  /\ (\A f \in events : SameTrail(e, f) => f.number <= e.number) => e.after = row[e.object]
  /\ \A f \in events :
       /\ SameTrail(e, f) /\ e.number < f.number
       /\ \A g \in events : SameTrail(e, g) => g.number <= e.number \/ g.number >= f.number
       => f.before = e.after

ChainInv == \A e \in events : e.operation # None => Linked(e)

LEMMA CommitChains ==
  ASSUME CatalogInv, TrailInv, ChainInv, NEW s \in Slots, Commit(s)
  PROVE  ChainInv'
<1>. DEFINE E == tx[s].events
<1>1. events' = events \cup E /\ tx[s].todo = {} /\ tx[s].stage \notin {"idle", "actor"}
  <2>1. CatalogInv /\ SlotTrue(s) /\ tx[s] \in Transactions
    BY DEF CatalogInv, Typed
  <2>. QED
    BY <2>1, NoneAssumption DEF Commit, SlotTrue, CreationTrue, UpdateTrue, Transactions
<1>2. events \in SUBSET Events /\ E \in SUBSET Events /\ \A e \in events' : e.number \in Nat /\ e.object \in Objects
  BY <1>1, InFlight DEF CatalogInv, Typed, Events
<1>3. \A e \in E : EventTrue(s, e)
  BY DEF TrailInv, TrailsTrue
<1>4. \A e \in E, f \in events : f.table = e.table => f.number < e.number
  BY <1>3 DEF EventTrue
<1>5. \A e, f \in E : SameTrail(e, f) => e = f
  BY <1>3 DEF EventTrue
<1>6. ASSUME NEW e \in E PROVE e.after = row'[e.object]
  <2>1. e.object \in Objects /\ e.object \in DOMAIN tx[s].rows /\ e.after = tx[s].rows[e.object]
    BY <1>1, <1>2, <1>3 DEF EventTrue
  <2>. QED
    BY <2>1, CommitRows
<1>7. \A f \in events : f.object \in DOMAIN tx[s].rows => \E e \in E : SameTrail(e, f)
  BY <1>1 DEF TrailInv, TrailsTrue, Covered
<1>8. ASSUME NEW e \in E, NEW f \in events, SameTrail(e, f) PROVE e.before = row[e.object]
  <2>1. Exists(e.table)
    BY <1>8 DEF TrailInv, EventKnown, SameTrail
  <2>2. tx[s].key = None
    BY <1>1, <2>1 DEF CatalogInv, SlotTrue, CreationTrue
  <2>. QED
    BY <1>3, <2>2 DEF EventTrue
<1>9. ASSUME NEW e \in events, e.operation # None PROVE Linked(e)'
  <2>1. Linked(e)
    BY <1>9 DEF ChainInv
  <2>2. ASSUME NEW f \in events', SameTrail(e, f), f.number = e.number PROVE f = e
    BY <1>1, <1>2, <1>4, <2>1, <2>2 DEF Linked, SameTrail
  <2>3. ASSUME \A f \in events' : SameTrail(e, f) => f.number <= e.number
        PROVE  e.after = row'[e.object]
    <3>1. e.object \notin DOMAIN tx[s].rows
      BY <1>1, <1>2, <1>4, <1>7, <2>3 DEF SameTrail
    <3>2. row'[e.object] = row[e.object]
      BY <1>1, <1>2, <3>1, CommitRows
    <3>. QED
      BY <1>1, <2>1, <2>3, <3>2 DEF Linked
  <2>4. ASSUME NEW f \in events', SameTrail(e, f), e.number < f.number,
               \A g \in events' : SameTrail(e, g) => g.number <= e.number \/ g.number >= f.number
        PROVE  f.before = e.after
    <3>1. CASE f \in events
      BY <1>1, <2>1, <2>4, <3>1 DEF Linked
    <3>2. CASE f \in E
      <4>1. \A g \in events : SameTrail(e, g) => g.number <= e.number
        <5>1. SUFFICES ASSUME NEW g \in events, SameTrail(e, g) PROVE g.number <= e.number
          OBVIOUS
        <5>2. g.number <= e.number \/ g.number >= f.number
          BY <1>1, <2>4, <5>1
        <5>3. g.number < f.number
          BY <1>4, <2>4, <3>2, <5>1 DEF SameTrail
        <5>4. g \in events' /\ g.number \in Nat /\ f.number \in Nat
          BY <1>1, <1>2
        <5>. QED
          BY <5>2, <5>3, <5>4
      <4>2. e.after = row[e.object]
        BY <2>1, <4>1 DEF Linked
      <4>3. SameTrail(f, e)
        BY <2>4 DEF SameTrail
      <4>4. f.before = row[f.object]
        BY <1>8, <3>2, <4>3
      <4>. QED
        BY <4>2, <4>3, <4>4 DEF SameTrail
    <3>. QED
      BY <1>1, <3>1, <3>2
  <2>. QED
    BY <2>2, <2>3, <2>4 DEF Linked, SameTrail
<1>10. ASSUME NEW e \in E PROVE Linked(e)'
  <2>1. ASSUME NEW f \in events', SameTrail(e, f), f.number >= e.number PROVE f = e
    BY <1>1, <1>2, <1>4, <1>5, <1>10, <2>1 DEF SameTrail
  <2>2. e \in events' /\ e.number \in Nat
    BY <1>1, <1>2
  <2>3. \A f \in events' : SameTrail(e, f) /\ f.number = e.number => f = e
    BY <2>1, <2>2
  <2>4. \A f \in events' : ~(SameTrail(e, f) /\ e.number < f.number)
    BY <1>2, <2>1, <2>2
  <2>. QED
    BY <1>6, <2>3, <2>4 DEF Linked, SameTrail
<1>. QED
  BY <1>1, <1>9, <1>10 DEF ChainInv

LEMMA ChainKeeps ==
  ASSUME CatalogInv, TrailInv, ChainInv, NEW s \in Slots, Step(s)
  PROVE  ChainInv'
<1>1. CASE Commit(s)
  BY <1>1, CommitChains
<1>2. CASE UNCHANGED <<row, events>>
  BY <1>2 DEF ChainInv, Linked, SameTrail
<1>. QED
  BY <1>1, <1>2, StepAdds

\* Retention takes the oldest events.
LEMMA ChainShrinks ==
  ASSUME CatalogInv, ChainInv, Shrinks,
         \A g \in events \ events' : \A f \in events : g.number <= f.number
  PROVE  ChainInv'
<1>1. SUFFICES ASSUME NEW e \in events', e.operation # None PROVE Linked(e)'
  BY DEF ChainInv
<1>2. Linked(e) /\ events' \subseteq events /\ row' = row
  BY <1>1 DEF ChainInv, Shrinks
<1>3. \A f \in events : f.number \in Nat
  BY DEF CatalogInv, Typed, Events
<1>4. \A g \in events : g \in events' \/ g.number <= e.number
  BY <1>2
<1>5. \A f \in events' : SameTrail(e, f) /\ f.number = e.number => f = e
  BY <1>2 DEF Linked
<1>6. (\A f \in events' : SameTrail(e, f) => f.number <= e.number) => e.after = row[e.object]
  BY <1>2, <1>4 DEF Linked
<1>7. ASSUME NEW f \in events', SameTrail(e, f), e.number < f.number,
             \A g \in events' : SameTrail(e, g) => g.number <= e.number \/ g.number >= f.number
      PROVE  f.before = e.after
  BY <1>2, <1>4, <1>7 DEF Linked
<1>. QED
  BY <1>2, <1>5, <1>6, <1>7 DEF Linked, SameTrail

LEMMA InitChains ==
  ASSUME CatalogInit
  PROVE  ChainInv
  BY InitIs DEF ChainInv

\* The property that is checked follows.
LEMMA ChainShown ==
  ASSUME CatalogInv, ChainInv, TypeOK
  PROVE  SnapshotsChain
<1>1. SUFFICES ASSUME NEW e \in events, e.operation # None, NEW later,
                      later = {f \in EventsOf(e.table) : f.object = e.object /\ f.number > e.number}
               PROVE  e.after = IF later = {} THEN row[e.object]
                                ELSE (CHOOSE f \in later : \A g \in later : f.number <= g.number).before
  BY DEF SnapshotsChain
<1>2. Linked(e) /\ \A f \in events : f.number \in Nat
  BY <1>1 DEF ChainInv, CatalogInv, Typed, Events
<1>3. \A f \in events : f \in later <=> SameTrail(e, f) /\ f.number > e.number
  BY <1>1 DEF EventsOf, SameTrail
<1>4. later \subseteq events
  BY <1>1 DEF EventsOf
<1>5. CASE later = {}
  <2>1. \A f \in events : SameTrail(e, f) => f.number <= e.number
    BY <1>2, <1>3, <1>5
  <2>. QED
    BY <1>2, <1>5, <2>1 DEF Linked
<1>6. CASE later # {}
  <2>1. PICK S : S = {f.number : f \in later}
    OBVIOUS
  <2>2. S \in SUBSET Nat /\ S # {}
    BY <1>2, <1>4, <1>6, <2>1
  <2>3. PICK n \in S : \A m \in S : n <= m
    BY <2>2, LeastNumber
  <2>4. \E f \in later : \A g \in later : f.number <= g.number
    BY <2>1, <2>3
  <2>5. PICK f \in later : /\ f = CHOOSE h \in later : \A g \in later : h.number <= g.number
                           /\ \A g \in later : f.number <= g.number
    BY <2>4
  <2>6. \A g \in events : SameTrail(e, g) => g.number <= e.number \/ g.number >= f.number
    BY <1>2, <1>3, <1>4, <2>5
  <2>7. f.before = e.after
    BY <1>2, <1>3, <1>4, <2>6 DEF Linked
  <2>. QED
    BY <1>6, <2>5, <2>7
<1>. QED
  BY <1>5, <1>6

(***************************************************************************)
(* Events and the Changes that they name.                                  *)
(***************************************************************************)

Busy(s) == tx[s].stage # "idle"

SameEffect(e, c) == e.table = c.table /\ e.object = c.object /\ e.operation = c.operation

\* A transaction that begins draws a new operation; what it writes belongs to it.
Started(s) ==
  /\ ~Busy(s) /\ Busy(s)' /\ tx'[s].operation = nextNumber /\ nextNumber' > nextNumber
  /\ UNCHANGED <<events, changes>>
  /\ \A e \in tx'[s].events : /\ e.operation = nextNumber /\ e.number >= nextNumber
                              /\ \A n \in e.changes : n >= nextNumber /\ n < nextNumber'
  /\ \A c \in tx'[s].changes : /\ c.operation = nextNumber /\ c.number >= nextNumber
                               /\ \E e \in tx'[s].events : SameEffect(e, c)
  /\ \A e \in tx'[s].events, c \in tx'[s].changes : c.number \in e.changes <=> SameEffect(e, c)

\* One that goes on keeps its operation; it has no Changes.
Continued(s) ==
  /\ Busy(s) /\ Busy(s)' /\ tx'[s].operation = tx[s].operation /\ nextNumber' > nextNumber
  /\ UNCHANGED <<events, changes>>
  /\ tx[s].changes = {} /\ tx'[s].changes = {} /\ tx[s].events \subseteq tx'[s].events
  /\ \A e \in tx'[s].events \ tx[s].events :
       e.operation = tx[s].operation /\ e.number >= nextNumber /\ e.changes = {}

\* One that ends leaves all it has written, or nothing.
Ended(s) ==
  /\ Busy(s) /\ ~Busy(s)' /\ tx'[s].events = {} /\ tx'[s].changes = {} /\ nextNumber' = nextNumber
  /\ \/ UNCHANGED <<events, changes>>
     \/ events' = events \cup tx[s].events /\ changes' = changes \cup tx[s].changes

LEMMA StepShape ==
  ASSUME CatalogInv, TrailInv, NEW s \in Slots, Step(s)
  PROVE  Started(s) \/ Continued(s) \/ Ended(s)
<1>1. tx \in [Slots -> Transactions] /\ SlotTrue(s) /\ nextNumber \in Nat
  BY DEF CatalogInv, Typed
<1>2. CASE \E k \in Keys, p \in Parents : LockActor(s, k, p)
  <2>1. PICK k \in Keys, p \in Parents : LockActor(s, k, p)
    BY <1>2
  <2>2. PICK r \in Transactions : Locking(s, k, p, r)
    BY <2>1, LockActorIs
  <2>3. tx'[s] = r
    BY <1>1, <2>2 DEF Locking
  <2>4. /\ tx[s].stage = "idle" /\ r.stage = "actor" /\ r.operation = nextNumber
        /\ r.events = {} /\ r.changes = {}
    BY <2>2 DEF Locking, Empty
  <2>9. nextNumber' = nextNumber + 1 /\ nextNumber' > nextNumber /\ UNCHANGED <<events, changes>>
    <3>1. nextNumber' = nextNumber + 1 /\ UNCHANGED <<events, changes>>
      BY <2>1 DEF LockActor, Unchanged
    <3>. QED
      BY <1>1, <3>1
  <2>10. Started(s)
    BY <1>1, <2>3, <2>4, <2>9 DEF Started, Busy
  <2>. QED
    BY <2>10
<1>3. CASE Ends(s) \/ Commit(s)
  <2>1. Idle.stage = "idle" /\ Idle.events = {} /\ Idle.changes = {} /\ tx'[s] = Idle
    BY <1>1, <1>3, IdleEmpty, IdleTyped DEF Empty, IdleType, Ends, Commit
  <2>. QED
    BY <1>3, <2>1 DEF Ended, Busy, Ends, Commit
<1>4. CASE \E kind \in Kinds, p \in Parents :
             (\A x \in kind : IsParent(x, p)) /\ InsertChild(s, p, kind, LimitOf(kind))
  <2>1. PICK kind \in Kinds, p \in Parents :
          (\A x \in kind : IsParent(x, p)) /\ InsertChild(s, p, kind, LimitOf(kind))
    BY <1>4
  <2>2. PICK limit : limit = LimitOf(kind)
    OBVIOUS
  <2>3. PICK x \in kind, new \in Rows, r \in Transactions : Inserted(s, kind, p, limit, x, new, r)
    BY <2>1, <2>2, InsertChildIs
  <2>4. /\ tx[s].stage = "actor" /\ r.stage = "written" /\ tx'[s] = r /\ r.operation = tx[s].operation
        /\ r.changes = {} /\ tx[s].key # None
        /\ \A e \in r.events : e = Captured(nextNumber, x, x, tx[s].operation, Absent, new)
    BY <1>1, <2>3, NoneAssumption DEF Inserted
  <2>5. tx[s].changes = {} /\ tx[s].events = {}
    BY <1>1, <2>4 DEF SlotTrue, CreationTrue
  <2>6. \A e \in r.events : e.operation = tx[s].operation /\ e.number = nextNumber /\ e.changes = {}
    BY <2>4 DEF Captured
  <2>9. nextNumber' = nextNumber + 1 /\ nextNumber' > nextNumber /\ UNCHANGED <<events, changes>>
    <3>1. nextNumber' = nextNumber + 1 /\ UNCHANGED <<events, changes>>
      BY <2>1 DEF InsertChild, Unchanged
    <3>. QED
      BY <1>1, <3>1
  <2>10. Continued(s)
    BY <1>1, <2>4, <2>5, <2>6, <2>9 DEF Continued, Busy
  <2>. QED
    BY <2>10
<1>5. CASE \E x \in Workspaces \cup Bases, name \in Names : Rename(s, x, name)
  <2>1. PICK x \in Workspaces \cup Bases, name \in Names : Rename(s, x, name)
    BY <1>5
  <2>2. PICK r \in Transactions : Renaming(s, x, r)
    BY <2>1, RenameIs
  <2>3. tx'[s] = r
    BY <1>1, <2>2 DEF Renaming
  <2>4. /\ tx[s].stage = "idle" /\ r.stage = "ancestor" /\ r.operation = nextNumber
        /\ r.events = {} /\ r.changes = {}
    BY <2>2 DEF Renaming
  <2>9. nextNumber' = nextNumber + 1 /\ nextNumber' > nextNumber /\ UNCHANGED <<events, changes>>
    <3>1. nextNumber' = nextNumber + 1 /\ UNCHANGED <<events, changes>>
      BY <2>1 DEF Rename, Unchanged
    <3>. QED
      BY <1>1, <3>1
  <2>10. Started(s)
    BY <1>1, <2>3, <2>4, <2>9 DEF Started, Busy
  <2>. QED
    BY <2>10
<1>6. CASE CaptureAncestor(s)
  <2>1. PICK t \in tx[s].todo, e \in Events, r \in Transactions : Capturing(s, t, e, r)
    BY <1>6, CaptureIs
  <2>2. /\ tx[s].stage = "ancestor" /\ r.stage = "ancestor" /\ tx'[s] = r /\ r.operation = tx[s].operation
        /\ e.operation = tx[s].operation /\ e.number = nextNumber /\ e.changes = {}
        /\ r.changes = {} /\ r.events = tx[s].events \cup {e} /\ tx[s].key = None
    BY <1>1, <2>1 DEF Capturing
  <2>3. tx[s].changes = {}
    BY <1>1, <2>2 DEF SlotTrue, UpdateTrue
  <2>9. nextNumber' = nextNumber + 1 /\ nextNumber' > nextNumber /\ UNCHANGED <<events, changes>>
    <3>1. nextNumber' = nextNumber + 1 /\ UNCHANGED <<events, changes>>
      BY <1>6 DEF CaptureAncestor, Unchanged
    <3>. QED
      BY <1>1, <3>1
  <2>10. Continued(s)
    BY <1>1, <2>2, <2>3, <2>9 DEF Continued, Busy
  <2>. QED
    BY <2>10
<1>7. CASE \E t \in Tables : \E new : Writable(t, new) /\ WriteTable(s, t, new)
  <2>1. PICK t \in Tables : \E new : Writable(t, new) /\ WriteTable(s, t, new)
    BY <1>7
  <2>2. PICK new : Writable(t, new) /\ WriteTable(s, t, new)
    BY <2>1
  <2>3. PICK number \in [DOMAIN new -> Nat], r \in Transactions : Writing(s, t, new, number, r)
    BY <2>2, WriteTableIs
  <2>4. tx'[s] = r
    BY <1>1, <2>3 DEF Writing
  <2>5. /\ tx[s].stage = "idle" /\ r.stage = "written" /\ r.operation = nextNumber /\ nextNumber' > nextNumber
        /\ nextNumber' \in Nat
        /\ \A x \in DOMAIN new : number[x] \in Nat /\ number[x] > nextNumber /\ number[x] < nextNumber'
        /\ \A x, y \in DOMAIN new : number[x] = number[y] => x = y
        /\ \A x \in DOMAIN new : \E e \in r.events : e.object = x
    BY <2>3 DEF Writing
  <2>6. ASSUME NEW e \in r.events
        PROVE  /\ e.operation = nextNumber /\ e.table = t /\ e.number >= nextNumber
               /\ e.object \in DOMAIN new /\ e.changes = {number[e.object]}
    <3>1. PICK x \in DOMAIN new : /\ e.number = number[x] /\ e.table = t /\ e.object = x
                                  /\ e.operation = nextNumber /\ e.changes = {number[x]}
      BY <2>3 DEF Writing
    <3>. QED
      BY <1>1, <2>5, <3>1
  <2>7. ASSUME NEW c \in r.changes
        PROVE  /\ c.operation = nextNumber /\ c.table = t /\ c.number >= nextNumber
               /\ c.object \in DOMAIN new /\ c.number = number[c.object]
    <3>1. PICK x \in DOMAIN new : /\ c.number = number[x] /\ c.table = t /\ c.object = x
                                  /\ c.operation = nextNumber
      BY <2>3 DEF Writing
    <3>. QED
      BY <1>1, <2>5, <3>1
  <2>8. \A e \in r.events : \A n \in e.changes : n >= nextNumber /\ n < nextNumber'
    BY <1>1, <2>5, <2>6
  <2>9. \A c \in r.changes : \E e \in r.events : SameEffect(e, c)
    BY <2>5, <2>6, <2>7 DEF SameEffect
  <2>10. \A e \in r.events, c \in r.changes : c.number \in e.changes <=> SameEffect(e, c)
    BY <2>5, <2>6, <2>7 DEF SameEffect
  <2>11. UNCHANGED <<events, changes>>
    BY <2>2 DEF WriteTable, Unchanged
  <2>. QED
    BY <2>4, <2>5, <2>6, <2>7, <2>8, <2>9, <2>10, <2>11 DEF Started, Busy, SameEffect
<1>. QED
  BY <1>2, <1>3, <1>4, <1>5, <1>6, <1>7 DEF Step

AllEvents == events \cup UNION {tx[s].events : s \in Slots}

AllChanges == changes \cup UNION {tx[s].changes : s \in Slots}

\* Operations are told apart by their numbers.
OperationsApart ==
  /\ \A s \in Slots : Busy(s) => tx[s].operation < nextNumber
  /\ \A s, u \in Slots : Busy(s) /\ Busy(u) /\ tx[s].operation = tx[u].operation => s = u
  /\ \A e \in events \cup changes :
       /\ e.operation \in Nat => e.operation < nextNumber
       /\ \A s \in Slots : Busy(s) => e.operation # tx[s].operation
  /\ \A s \in Slots : \A e \in tx[s].events \cup tx[s].changes : Busy(s) /\ e.operation = tx[s].operation

EffectsApart ==
  /\ \A e, f \in AllEvents : SameEffect(e, f) => e = f
  /\ \A e \in AllEvents : \A n \in e.changes : n < nextNumber
  /\ \A e \in AllEvents, c \in AllChanges : c.number \in e.changes <=> SameEffect(e, c)

\* Every Change has its event, until retention removes it.
HaveEvents ==
  /\ \A s \in Slots : \A c \in tx[s].changes : \E e \in tx[s].events : SameEffect(e, c)
  /\ \A c \in changes : (\E e \in events : SameEffect(e, c)) \/ generation[c.table] > 0

AssociationInv == OperationsApart /\ EffectsApart /\ HaveEvents

\* The operations are natural numbers where they have been drawn.
LEMMA OperationTypes ==
  ASSUME CatalogInv, OperationsApart
  PROVE  /\ nextNumber \in Nat /\ \A s \in Slots : tx[s].operation \in Nat
         /\ \A e \in AllEvents \cup AllChanges : e.operation \in Nat => e.operation < nextNumber
         /\ \A e \in AllEvents : e \in Events
         /\ \A c \in AllChanges : c \in Changes
<1>1. nextNumber \in Nat /\ \A s \in Slots : tx[s].operation \in Nat
  BY InFlight DEF CatalogInv, Typed, Transactions
<1>2. ASSUME NEW e \in AllEvents PROVE e \in Events
  BY InFlight DEF AllEvents, CatalogInv, Typed
<1>3. ASSUME NEW e \in AllChanges PROVE e \in Changes
  BY InFlight DEF AllChanges, CatalogInv, Typed
<1>4. ASSUME NEW e \in AllEvents \cup AllChanges, e.operation \in Nat PROVE e.operation < nextNumber
  <2>1. CASE e \in events \cup changes
    BY <1>4, <2>1 DEF OperationsApart
  <2>2. CASE \E s \in Slots : e \in tx[s].events \cup tx[s].changes
    BY <2>2 DEF OperationsApart
  <2>. QED
    BY <2>1, <2>2 DEF AllEvents, AllChanges
<1>. QED
  BY <1>1, <1>2, <1>3, <1>4

LEMMA OperationsKeep ==
  ASSUME CatalogInv, CatalogInv', OperationsApart, NEW s \in Slots, Frame(s),
         Started(s) \/ Continued(s) \/ Ended(s)
  PROVE  OperationsApart'
<1>1. \A u \in Slots \ {s} : tx'[u] = tx[u] /\ (Busy(u)' <=> Busy(u))
  BY DEF Frame, Busy
<1>2. nextNumber \in Nat /\ nextNumber' \in Nat /\ nextNumber' >= nextNumber
      /\ (\A u \in Slots : tx[u].operation \in Nat /\ tx'[u].operation \in Nat)
  BY OperationTypes, InFlight DEF Frame, CatalogInv, Typed, Transactions
<1>3. CASE Started(s)
  <2>1. /\ ~Busy(s) /\ Busy(s)' /\ tx'[s].operation = nextNumber /\ nextNumber' > nextNumber
        /\ events' = events /\ changes' = changes
        /\ \A e \in tx'[s].events \cup tx'[s].changes : e.operation = nextNumber
    BY <1>3 DEF Started
  <2>2. \A u \in Slots : Busy(u)' => tx'[u].operation < nextNumber'
    BY <1>1, <1>2, <2>1 DEF OperationsApart
  <2>3. \A u, v \in Slots : Busy(u)' /\ Busy(v)' /\ tx'[u].operation = tx'[v].operation => u = v
    BY <1>1, <1>2, <2>1 DEF OperationsApart
  <2>4. ASSUME NEW e \in events \cup changes
        PROVE  /\ e.operation \in Nat => e.operation < nextNumber'
               /\ \A u \in Slots : Busy(u)' => e.operation # tx'[u].operation
    BY <1>1, <1>2, <2>1 DEF OperationsApart
  <2>5. \A u \in Slots : \A e \in tx'[u].events \cup tx'[u].changes : Busy(u)' /\ e.operation = tx'[u].operation
    BY <1>1, <2>1 DEF OperationsApart
  <2>. QED
    BY <2>1, <2>2, <2>3, <2>4, <2>5 DEF OperationsApart, Busy
<1>4. CASE Continued(s)
  <2>1. /\ Busy(s) /\ Busy(s)' /\ tx'[s].operation = tx[s].operation
        /\ events' = events /\ changes' = changes /\ tx'[s].changes = {}
        /\ \A e \in tx'[s].events : e \in tx[s].events \/ e.operation = tx[s].operation
    BY <1>4 DEF Continued
  <2>2. \A u \in Slots : (Busy(u)' <=> Busy(u)) /\ tx'[u].operation = tx[u].operation
    BY <1>1, <2>1
  <2>3. \A u \in Slots : Busy(u)' => tx'[u].operation < nextNumber'
    BY <1>2, <2>2 DEF OperationsApart
  <2>4. \A u, v \in Slots : Busy(u)' /\ Busy(v)' /\ tx'[u].operation = tx'[v].operation => u = v
    BY <2>2 DEF OperationsApart
  <2>5. \A e \in events \cup changes :
          /\ e.operation \in Nat => e.operation < nextNumber'
          /\ \A u \in Slots : Busy(u)' => e.operation # tx'[u].operation
    BY <1>2, <2>2 DEF OperationsApart
  <2>6. \A u \in Slots : \A e \in tx'[u].events \cup tx'[u].changes : Busy(u)' /\ e.operation = tx'[u].operation
    BY <1>1, <2>1, <2>2 DEF OperationsApart
  <2>. QED
    BY <2>1, <2>3, <2>4, <2>5, <2>6 DEF OperationsApart, Busy
<1>5. CASE Ended(s)
  <2>1. /\ Busy(s) /\ ~Busy(s)' /\ tx'[s].events = {} /\ tx'[s].changes = {} /\ nextNumber' = nextNumber
        /\ \A e \in events' \cup changes' : e \in events \cup changes \/ e \in tx[s].events \cup tx[s].changes
    BY <1>5 DEF Ended
  <2>2. \A u \in Slots : Busy(u)' => u # s /\ Busy(u) /\ tx'[u].operation = tx[u].operation
    BY <1>1, <2>1
  <2>3. \A u \in Slots : Busy(u)' => tx'[u].operation < nextNumber'
    BY <2>1, <2>2 DEF OperationsApart
  <2>4. \A u, v \in Slots : Busy(u)' /\ Busy(v)' /\ tx'[u].operation = tx'[v].operation => u = v
    BY <2>2 DEF OperationsApart
  <2>5. ASSUME NEW e \in events' \cup changes'
        PROVE  /\ e.operation \in Nat => e.operation < nextNumber'
               /\ \A u \in Slots : Busy(u)' => e.operation # tx'[u].operation
    <3>1. CASE e \in events \cup changes
      BY <2>1, <2>2, <3>1 DEF OperationsApart
    <3>2. CASE e \in tx[s].events \cup tx[s].changes
      <4>1. e.operation = tx[s].operation /\ tx[s].operation < nextNumber
        BY <2>1, <3>2 DEF OperationsApart
      <4>2. \A u \in Slots : Busy(u)' => tx[u].operation # tx[s].operation
        BY <2>1, <2>2 DEF OperationsApart
      <4>. QED
        BY <2>1, <2>2, <4>1, <4>2
    <3>. QED
      BY <2>1, <3>1, <3>2
  <2>6. \A u \in Slots : \A e \in tx'[u].events \cup tx'[u].changes : Busy(u)' /\ e.operation = tx'[u].operation
    BY <1>1, <2>1 DEF OperationsApart
  <2>. QED
    BY <2>1, <2>3, <2>4, <2>5, <2>6 DEF OperationsApart, Busy
<1>. QED
  BY <1>3, <1>4, <1>5

\* What is in flight or committed after a step was there before, or is new.
LEMMA AllOrNew ==
  ASSUME CatalogInv, NEW s \in Slots, Frame(s), Started(s) \/ Continued(s) \/ Ended(s)
  PROVE  /\ \A e \in AllEvents' : e \in AllEvents \/ (e \in tx'[s].events /\ e \notin tx[s].events)
         /\ \A c \in AllChanges' : c \in AllChanges \/ (c \in tx'[s].changes /\ c \notin tx[s].changes)
<1>1. \A u \in Slots \ {s} : tx'[u] = tx[u]
  BY DEF Frame
<1>2. /\ events' \subseteq events \cup tx[s].events
      /\ changes' \subseteq changes \cup tx[s].changes
  BY DEF Started, Continued, Ended
<1>3. ASSUME NEW e \in AllEvents'
      PROVE  e \in AllEvents \/ (e \in tx'[s].events /\ e \notin tx[s].events)
  <2>1. CASE e \in events'
    BY <1>2, <2>1 DEF AllEvents
  <2>2. ASSUME NEW u \in Slots, e \in tx'[u].events
        PROVE  e \in AllEvents \/ (e \in tx'[s].events /\ e \notin tx[s].events)
    BY <1>1, <2>2 DEF AllEvents
  <2>. QED
    BY <2>1, <2>2 DEF AllEvents
<1>4. ASSUME NEW c \in AllChanges'
      PROVE  c \in AllChanges \/ (c \in tx'[s].changes /\ c \notin tx[s].changes)
  <2>1. CASE c \in changes'
    BY <1>2, <2>1 DEF AllChanges
  <2>2. ASSUME NEW u \in Slots, c \in tx'[u].changes
        PROVE  c \in AllChanges \/ (c \in tx'[s].changes /\ c \notin tx[s].changes)
    BY <1>1, <2>2 DEF AllChanges
  <2>. QED
    BY <2>1, <2>2 DEF AllChanges
<1>. QED
  BY <1>3, <1>4

LEMMA EffectsKeep ==
  ASSUME CatalogInv, CatalogInv', TrailInv, TrailInv', OperationsApart, EffectsApart, NEW s \in Slots, Frame(s),
         Started(s) \/ Continued(s) \/ Ended(s)
  PROVE  EffectsApart'
<1>1. nextNumber \in Nat /\ nextNumber' \in Nat /\ nextNumber' >= nextNumber /\ tx[s].operation \in Nat
  BY OperationTypes DEF Frame, CatalogInv, Typed
<1>. DEFINE NewEvent(e) == e \in tx'[s].events /\ e \notin tx[s].events
            NewChange(c) == c \in tx'[s].changes /\ c \notin tx[s].changes
<1>2. \A e \in AllEvents' : e \in AllEvents \/ NewEvent(e)
  BY AllOrNew
<1>3. \A c \in AllChanges' : c \in AllChanges \/ NewChange(c)
  BY AllOrNew
<1>4. /\ \A e, f \in AllEvents : SameEffect(e, f) => e = f
      /\ \A e \in AllEvents : \A n \in e.changes : n < nextNumber
      /\ \A e \in AllEvents, c \in AllChanges : c.number \in e.changes <=> SameEffect(e, c)
      /\ \A e \in AllEvents : e.changes \subseteq Nat
      /\ \A c \in AllChanges : c.number \in Nat /\ c.number < nextNumber
  <2>1. \A c \in AllChanges : c.number < nextNumber
    BY DEF AllChanges, TrailInv, TrailsTrue, ChangeTrue
  <2>. QED
    BY <2>1, OperationTypes DEF EffectsApart, Events, Changes
<1>5. ASSUME NEW e, NewEvent(e), NEW f, NewEvent(f) \/ f \in AllEvents, SameEffect(e, f) PROVE e = f
  <2>1. \A g, h \in tx'[s].events : SameTrail(g, h) => g = h
    BY DEF TrailInv, TrailsTrue, EventTrue, SameTrail
  <2>2. CASE f \in tx'[s].events
    BY <1>5, <2>1, <2>2 DEF SameEffect, SameTrail
  <2>3. CASE f \notin tx'[s].events
    <3>1. f \in AllEvents /\ f.operation = e.operation
      BY <1>5, <2>3 DEF SameEffect
    <3>2. CASE Started(s)
      <4>1. e.operation = nextNumber
        BY <1>5, <3>2 DEF Started
      <4>. QED
        BY <1>1, <3>1, <4>1, OperationTypes
    <3>3. CASE Continued(s)
      <4>1. e.operation = tx[s].operation /\ Busy(s) /\ f \notin tx[s].events
        BY <1>5, <2>3, <3>3 DEF Continued
      <4>2. CASE f \in events
        BY <3>1, <4>1, <4>2 DEF OperationsApart
      <4>3. ASSUME NEW u \in Slots, f \in tx[u].events PROVE FALSE
        <5>1. Busy(u) /\ f.operation = tx[u].operation
          BY <4>3 DEF OperationsApart
        <5>2. u = s
          BY <3>1, <4>1, <5>1 DEF OperationsApart
        <5>. QED
          BY <4>1, <4>3, <5>2
      <4>. QED
        BY <3>1, <4>2, <4>3 DEF AllEvents
    <3>4. CASE Ended(s)
      BY <1>5, <3>4 DEF Ended
    <3>. QED
      BY <3>2, <3>3, <3>4
  <2>. QED
    BY <2>2, <2>3
<1>6. \A e, f \in AllEvents' : SameEffect(e, f) => e = f
  <2>1. \A e, f : SameEffect(e, f) => SameEffect(f, e)
    BY DEF SameEffect
  <2>. QED
    BY <1>2, <1>4, <1>5, <2>1
<1>7. ASSUME NEW e, NewEvent(e), NEW n \in e.changes PROVE n < nextNumber'
  BY <1>7 DEF Started, Continued, Ended
<1>8. \A e \in AllEvents' : \A n \in e.changes : n < nextNumber'
  BY <1>1, <1>2, <1>4, <1>7
<1>9. ASSUME NEW e, NewEvent(e), NEW c \in AllChanges PROVE ~(c.number \in e.changes) /\ ~SameEffect(e, c)
  <2>1. CASE Started(s)
    <3>1. e.operation = nextNumber /\ \A n \in e.changes : n >= nextNumber
      BY <1>9, <2>1 DEF Started
    <3>2. c.operation # nextNumber
      BY <1>1, OperationTypes
    <3>. QED
      BY <1>1, <1>4, <3>1, <3>2 DEF SameEffect
  <2>2. CASE Continued(s)
    <3>1. e.operation = tx[s].operation /\ e.changes = {} /\ Busy(s) /\ tx[s].changes = {}
      BY <1>9, <2>2 DEF Continued
    <3>2. CASE c \in changes
      BY <3>1, <3>2 DEF OperationsApart, SameEffect
    <3>3. ASSUME NEW u \in Slots, c \in tx[u].changes PROVE c.operation # tx[s].operation
      <4>1. Busy(u) /\ c.operation = tx[u].operation
        BY <3>3 DEF OperationsApart
      <4>2. u # s
        BY <3>1, <3>3
      <4>. QED
        BY <3>1, <4>1, <4>2 DEF OperationsApart
    <3>. QED
      BY <3>1, <3>2, <3>3 DEF AllChanges, SameEffect
  <2>3. CASE Ended(s)
    BY <1>9, <2>3 DEF Ended
  <2>. QED
    BY <2>1, <2>2, <2>3
<1>10. ASSUME NEW e \in AllEvents, NEW c, NewChange(c) PROVE ~(c.number \in e.changes) /\ ~SameEffect(e, c)
  <2>1. Started(s)
    BY <1>10 DEF Continued, Ended
  <2>2. c.operation = nextNumber /\ c.number >= nextNumber
    BY <1>10, <2>1 DEF Started
  <2>3. e.operation # nextNumber
    BY <1>1, OperationTypes
  <2>4. c.number \in Nat
    <3>1. c \in Changes
      <4>1. CatalogInv' => tx'[s].changes \subseteq Changes
        BY InFlight DEF CatalogInv, Typed, Transactions
      <4>. QED
        BY <1>10, <4>1
    <3>. QED
      BY <3>1 DEF Changes
  <2>. QED
    BY <1>1, <1>4, <2>2, <2>3, <2>4 DEF SameEffect
<1>11. ASSUME NEW e, NewEvent(e), NEW c, NewChange(c) PROVE c.number \in e.changes <=> SameEffect(e, c)
  <2>1. Started(s)
    BY <1>11 DEF Continued, Ended
  <2>. QED
    BY <1>11, <2>1 DEF Started
<1>12. \A e \in AllEvents', c \in AllChanges' : c.number \in e.changes <=> SameEffect(e, c)
  <2>1. SUFFICES ASSUME NEW e \in AllEvents', NEW c \in AllChanges'
                 PROVE  c.number \in e.changes <=> SameEffect(e, c)
    OBVIOUS
  <2>. HIDE DEF NewEvent, NewChange
  <2>. QED
    BY <1>2, <1>3, <1>4, <1>9, <1>10, <1>11
<1>. QED
  BY <1>6, <1>8, <1>12 DEF EffectsApart, SameEffect

LEMMA HaveKeep ==
  ASSUME HaveEvents, NEW s \in Slots, Frame(s), Started(s) \/ Continued(s) \/ Ended(s), generation' = generation
  PROVE  HaveEvents'
<1>1. \A u \in Slots \ {s} : tx'[u] = tx[u]
  BY DEF Frame
<1>2. \A c \in tx'[s].changes : \E e \in tx'[s].events : SameEffect(e, c)
  BY DEF Started, Continued, Ended
<1>3. ASSUME NEW c \in changes' PROVE (\E e \in events' : SameEffect(e, c)) \/ generation[c.table] > 0
  BY DEF HaveEvents, Started, Continued, Ended
<1>. QED
  BY <1>1, <1>2, <1>3 DEF HaveEvents, SameEffect

AuditTyped ==
  /\ generation \in [Tables -> Nat] /\ expired \in [Tables -> Nat]
  /\ forgotten \in [Keys -> SUBSET Objects]

\* Retention notes on which Tables it has removed events.
Noted == /\ \A t \in Tables : generation'[t] >= generation[t]
         /\ \A e \in events \ events' : generation'[e.table] > generation[e.table]

LEMMA AssociationShrinks ==
  ASSUME CatalogInv, AssociationInv, Shrinks, AuditTyped, AuditTyped', Noted
  PROVE  AssociationInv'
<1>1. tx' = tx /\ nextNumber' = nextNumber /\ events' \subseteq events /\ changes' \subseteq changes
  BY DEF Shrinks
<1>2. OperationsApart'
  BY <1>1 DEF AssociationInv, OperationsApart, Busy
<1>3. AllEvents' \subseteq AllEvents /\ AllChanges' \subseteq AllChanges
  BY <1>1 DEF AllEvents, AllChanges
<1>4. EffectsApart'
  BY <1>1, <1>3 DEF AssociationInv, EffectsApart, SameEffect
<1>5. ASSUME NEW c \in changes' PROVE (\E e \in events' : SameEffect(e, c)) \/ generation'[c.table] > 0
  <2>1. c \in changes /\ c.table \in Tables
    BY <1>1 DEF CatalogInv, Typed, Changes
  <2>2. generation[c.table] \in Nat /\ generation'[c.table] \in Nat /\ generation'[c.table] >= generation[c.table]
    BY <2>1 DEF AuditTyped, Noted
  <2>3. CASE generation[c.table] > 0
    BY <2>2, <2>3
  <2>4. CASE \E e \in events : SameEffect(e, c)
    <3>1. PICK e \in events : SameEffect(e, c)
      BY <2>4
    <3>2. e \notin events' => generation'[c.table] > generation[c.table]
      BY <3>1 DEF Noted, SameEffect
    <3>. QED
      BY <2>2, <3>1, <3>2
  <2>. QED
    BY <2>1, <2>3, <2>4 DEF AssociationInv, HaveEvents
<1>6. HaveEvents'
  BY <1>1, <1>5 DEF AssociationInv, HaveEvents, SameEffect
<1>. QED
  BY <1>2, <1>4, <1>6 DEF AssociationInv

LEMMA InitAssociation ==
  ASSUME CatalogInit
  PROVE  AssociationInv
<1>1. \A s \in Slots : tx[s] = Idle /\ ~Busy(s) /\ tx[s].events = {} /\ tx[s].changes = {}
  <2>1. \A s \in Slots : tx[s] = Idle
    BY DEF CatalogInit
  <2>. QED
    BY <2>1, IdleEmpty, IdleTyped DEF Empty, IdleType, Busy
<1>2. AllEvents = events /\ AllChanges = changes
  BY <1>1 DEF AllEvents, AllChanges
<1>3. nextNumber = 2
  BY DEF CatalogInit
<1>4. OperationsApart
  BY <1>1, InitIs, NoneAssumption DEF OperationsApart
<1>5. \A e \in events : e.changes = {1} /\ e.operation = None /\ e.table = Min(Tables) /\ e.object = Min(Tables)
  BY InitIs
<1>6. \A c \in changes : c.number = 1 /\ c.operation = None /\ c.table = Min(Tables) /\ c.object = Min(Tables)
  BY InitIs
<1>7. EffectsApart
  <2>1. \A e, f \in events : e = f
    BY InitIs
  <2>2. \A e \in events : \A n \in e.changes : n < nextNumber
    BY <1>3, <1>5
  <2>3. \A e \in events, c \in changes : c.number \in e.changes /\ SameEffect(e, c)
    BY <1>5, <1>6 DEF SameEffect
  <2>. QED
    BY <1>2, <2>1, <2>2, <2>3 DEF EffectsApart
<1>8. HaveEvents
  <2>1. \E e \in events : TRUE
    BY InitIs
  <2>. QED
    BY <1>1, <1>5, <1>6, <2>1 DEF HaveEvents, SameEffect
<1>. QED
  BY <1>4, <1>7, <1>8 DEF AssociationInv

\* The property that is checked follows.
LEMMA AssociationShown ==
  ASSUME AssociationInv
  PROVE  ChangesAssociated
<1>1. SUFFICES ASSUME NEW c \in changes, NEW naming, naming = {e \in events : c.number \in e.changes}
               PROVE  /\ naming = {e \in EventsOf(c.table) : e.operation = c.operation /\ e.object = c.object}
                      /\ Cardinality(naming) <= 1
                      /\ naming = {} => generation[c.table] > 0
  BY DEF ChangesAssociated
<1>2. \A e \in events : c.number \in e.changes <=> SameEffect(e, c)
  BY DEF AssociationInv, EffectsApart, AllEvents, AllChanges
<1>3. naming = {e \in EventsOf(c.table) : e.operation = c.operation /\ e.object = c.object}
  BY <1>1, <1>2 DEF EventsOf, SameEffect
<1>4. \A e, f \in naming : e = f
  <2>1. \A e, f \in events : SameEffect(e, f) => e = f
    BY DEF AssociationInv, EffectsApart, AllEvents
  <2>. QED
    BY <1>1, <1>2, <2>1 DEF SameEffect
<1>5. Cardinality(naming) <= 1
  <2>1. CASE naming = {}
    BY <2>1, FS_EmptySet
  <2>2. CASE naming # {}
    <3>1. PICK e \in naming : TRUE
      BY <2>2
    <3>2. naming = {e}
      BY <1>4, <3>1
    <3>. QED
      BY <3>2, FS_Singleton
  <2>. QED
    BY <2>1, <2>2
<1>6. naming = {} => generation[c.table] > 0
  BY <1>1, <1>2 DEF AssociationInv, HaveEvents
<1>. QED
  BY <1>3, <1>5, <1>6

(***************************************************************************)
(* Creations.                                                              *)
(***************************************************************************)

Children(kind, p) == {x \in kind : Exists(x) /\ row[x].parent = p}

Made == {x \in Workspaces \cup Bases \cup Tables : Exists(x)}

\* A creation in flight has found no answer, and room.
Pending(s) ==
  tx[s].key # None /\ tx[s].stage = "written" =>
    /\ receipt[tx[s].key] = None
    /\ \A kind \in Kinds : tx[s].object \in kind => Cardinality(Children(kind, tx[s].parent)) < LimitOf(kind)

WithinLimits == \A kind \in Kinds, p \in Parents : Cardinality(Children(kind, p)) <= LimitOf(kind)

\* What is there now and was not at first has been answered to one key, and once.
AnswersTrue ==
  /\ Initial \subseteq Made
  /\ \A k \in Keys : \A x \in AnswersOf(k) : x \in Made \ Initial /\ row[x].parent = request[k]
  /\ \A k \in Keys : receipt[k] \notin forgotten[k]
  /\ \A j, k \in Keys : \A x \in AnswersOf(j) : x \in AnswersOf(k) => j = k
  /\ \A x \in Made \ Initial : \E k \in Keys : x \in AnswersOf(k)

CreationInv == WithinLimits /\ AnswersTrue /\ \A s \in Slots : Pending(s)

LEMMA KindSubsets ==
  ASSUME NEW kind \in Kinds
  PROVE  kind \subseteq Objects /\ kind \cap Records = {} /\ LimitOf(kind) \in Nat
         /\ \A other \in Kinds : other # kind => other \cap kind = {}
  BY KindsApart, CatalogAssumption DEF Kinds, LimitOf

LEMMA ChildrenFinite ==
  ASSUME NEW kind \in Kinds, NEW p
  PROVE  IsFiniteSet(Children(kind, p)) /\ Cardinality(Children(kind, p)) \in Nat
<1>1. Children(kind, p) \in SUBSET Objects
  BY KindSubsets DEF Children
<1>2. IsFiniteSet(Children(kind, p))
  BY <1>1, CatalogAssumption, FS_Subset
<1>. QED
  BY <1>2, FS_CardinalityType

LEMMA MadeObjects == Made \subseteq Objects /\ \A x \in Made : Exists(x)
  BY KindsApart DEF Made

\* Steps that make no object.
LEMMA SameObjects ==
  ASSUME \A x \in Objects : (Exists(x)' <=> Exists(x)) /\ (Exists(x) => row'[x].parent = row[x].parent)
  PROVE  Made' = Made /\ \A kind \in Kinds : \A p : Children(kind, p)' = Children(kind, p)
<1>1. ASSUME NEW kind \in Kinds, NEW p PROVE Children(kind, p)' = Children(kind, p)
  BY KindSubsets DEF Children
<1>2. Made' = Made
  BY KindsApart DEF Made
<1>. QED
  BY <1>1, <1>2

\* A step that makes one.
LEMMA OneObject ==
  ASSUME NEW x \in Objects, x \notin Records, ~Exists(x), Exists(x)',
         \A y \in Objects \ {x} : row'[y] = row[y]
  PROVE  /\ Made' = Made \cup {x} /\ x \notin Made
         /\ \A kind \in Kinds : \A p :
              /\ x \notin Children(kind, p)
              /\ Children(kind, p)' = IF x \in kind /\ row'[x].parent = p THEN Children(kind, p) \cup {x}
                                      ELSE Children(kind, p)
<1>1. ASSUME NEW kind \in Kinds, NEW p
      PROVE  /\ x \notin Children(kind, p)
             /\ Children(kind, p)' = IF x \in kind /\ row'[x].parent = p THEN Children(kind, p) \cup {x}
                                     ELSE Children(kind, p)
  <2>1. \A y \in kind : y \in Children(kind, p)' <=> y \in Children(kind, p) \/ (y = x /\ row'[x].parent = p)
    BY KindSubsets DEF Children, Exists
  <2>2. Children(kind, p)' \subseteq kind /\ Children(kind, p) \subseteq kind /\ x \notin Children(kind, p)
    BY DEF Children
  <2>. QED
    BY <2>1, <2>2
<1>2. \A y \in Objects : y \in Made' <=> y \in Made \/ y = x
  BY KindsApart DEF Made, Exists, Objects
<1>3. Made' \subseteq Objects /\ Made \subseteq Objects /\ x \notin Made
  BY KindsApart DEF Made
<1>. QED
  BY <1>1, <1>2, <1>3

\* What has been answered stays so while the answers do.
LEMMA AnswersKept ==
  ASSUME CatalogInv, Typed', AnswersTrue, NEW s \in Slots, Frame(s), UNCHANGED <<receipt, forgotten>>,
         Made' = Made
  PROVE  AnswersTrue'
<1>1. Persist
  BY RowsPersist
<1>2. \A k : AnswersOf(k)' = AnswersOf(k)
  BY DEF AnswersOf
<1>3. ASSUME NEW k \in Keys, NEW x \in AnswersOf(k)
      PROVE  x \in Made \ Initial /\ row'[x].parent = request'[k]
  <2>1. x \in Made \ Initial /\ row[x].parent = request[k]
    BY <1>3 DEF AnswersTrue
  <2>2. x \in Objects /\ Exists(x)
    BY <2>1, MadeObjects
  <2>3. row[x].parent \in Nat
    BY <2>2 DEF CatalogInv, Typed, Rows
  <2>4. request'[k] = request[k]
    BY <2>1, <2>3, NoneAssumption DEF Frame
  <2>. QED
    BY <1>1, <2>1, <2>2, <2>4 DEF Persist
<1>. QED
  BY <1>2, <1>3 DEF AnswersTrue

LEMMA UpdateCommit ==
  ASSUME CatalogInv, CreationInv, NEW s \in Slots, Commit(s), tx[s].key = None, forgotten' = forgotten
  PROVE  CreationInv'
<1>1. Typed' /\ Frame(s) /\ SlotTrue(s) /\ tx[s].stage # "idle"
  BY CommitKeeps DEF CatalogInv, Commit
<1>2. ASSUME NEW x \in Objects
      PROVE  (Exists(x)' <=> Exists(x)) /\ (Exists(x) => row'[x].parent = row[x].parent)
  BY <1>1, CommitRows DEF SlotTrue, UpdateTrue, Exists
<1>3. Made' = Made /\ \A kind \in Kinds : \A p : Children(kind, p)' = Children(kind, p)
  BY <1>2, SameObjects
<1>4. receipt' = receipt
  BY DEF Commit
<1>5. AnswersTrue'
  BY <1>1, <1>3, <1>4, AnswersKept DEF CreationInv
<1>6. WithinLimits'
  BY <1>3 DEF CreationInv, WithinLimits
<1>7. ASSUME NEW u \in Slots PROVE Pending(u)'
  <2>1. CASE u = s
    <3>1. tx'[s].key = None
      BY IdleTyped DEF IdleType, Commit, CatalogInv, Typed
    <3>. QED
      BY <2>1, <3>1 DEF Pending
  <2>2. CASE u # s
    BY <1>1, <1>3, <1>4, <2>2 DEF CreationInv, Pending, Frame
  <2>. QED
    BY <2>1, <2>2
<1>. QED
  BY <1>5, <1>6, <1>7 DEF CreationInv

LEMMA CreationCommit ==
  ASSUME CatalogInv, CreationInv, NEW s \in Slots, Commit(s), tx[s].key # None, forgotten' = forgotten
  PROVE  CreationInv'
<1>1. Typed /\ Typed' /\ Frame(s) /\ SlotTrue(s) /\ tx[s] \in Transactions
  BY CommitKeeps DEF CatalogInv, Typed
<1>2. PICK k \in Keys : k = tx[s].key
  BY <1>1 DEF Transactions
<1>3. PICK x : x = tx[s].object
  OBVIOUS
<1>4. PICK p \in Parents : p = tx[s].parent
  BY <1>1 DEF Transactions
<1>5. tx[s].stage = "written"
  BY <1>1 DEF Commit, SlotTrue, CreationTrue
<1>6. /\ lock[Actor] = s /\ p = request[k] /\ x \in Objects /\ x \notin Records /\ ~Exists(x)
      /\ DOMAIN tx[s].rows = {x} /\ tx[s].rows[x].parent = p /\ tx[s].rows[x].revision > 0
  BY <1>1, <1>2, <1>3, <1>4, <1>5, NoneAssumption DEF SlotTrue, CreationTrue
<1>7. /\ Exists(x)' /\ row'[x].parent = p /\ \A y \in Objects \ {x} : row'[y] = row[y]
  BY <1>6, CommitRows DEF Exists
<1>8. /\ Made' = Made \cup {x} /\ x \notin Made
      /\ \A kind \in Kinds : \A q :
           /\ x \notin Children(kind, q)
           /\ Children(kind, q)' = IF x \in kind /\ q = p THEN Children(kind, q) \cup {x} ELSE Children(kind, q)
  BY <1>6, <1>7, OneObject
<1>9. /\ receipt[k] = None /\ \A kind \in Kinds : x \in kind => Cardinality(Children(kind, p)) < LimitOf(kind)
  BY <1>2, <1>3, <1>4, <1>5 DEF CreationInv, Pending
<1>10. receipt' = [receipt EXCEPT ![k] = x] /\ request' = request
  BY <1>2, <1>3 DEF Commit
<1>11. receipt'[k] = x /\ x # None /\ \A j \in Keys \ {k} : receipt'[j] = receipt[j]
  BY <1>1, <1>6, <1>10, KindsApart DEF Typed
<1>12. WithinLimits'
  <2>1. ASSUME NEW kind \in Kinds, NEW q \in Parents PROVE Cardinality(Children(kind, q)') <= LimitOf(kind)
    <3>1. CASE x \in kind /\ q = p
      <4>1. PICK C : C = Children(kind, q)
        OBVIOUS
      <4>2. IsFiniteSet(C) /\ Cardinality(C) \in Nat /\ x \notin C
        BY <1>8, <4>1, ChildrenFinite
      <4>3. Cardinality(C \cup {x}) = Cardinality(C) + 1
        BY <4>2, FS_AddElement
      <4>4. Cardinality(C) < LimitOf(kind) /\ LimitOf(kind) \in Nat
        BY <1>9, <3>1, <4>1, KindSubsets
      <4>5. Children(kind, q)' = C \cup {x}
        BY <1>8, <3>1, <4>1
      <4>. QED
        BY <4>2, <4>3, <4>4, <4>5
    <3>2. CASE ~(x \in kind /\ q = p)
      BY <1>8, <3>2 DEF CreationInv, WithinLimits
    <3>. QED
      BY <3>1, <3>2
  <2>. QED
    BY <2>1 DEF WithinLimits, LimitOf, Kinds, Parents
<1>13. \A j \in Keys : AnswersOf(j)' = IF j = k THEN AnswersOf(j) \cup {x} ELSE AnswersOf(j)
  BY <1>9, <1>11 DEF AnswersOf
<1>14. /\ Initial \subseteq Made /\ x \notin Initial
       /\ \A j \in Keys : x \notin AnswersOf(j) /\ x \notin forgotten[j]
  BY <1>8 DEF CreationInv, AnswersTrue, AnswersOf
<1>15. ASSUME NEW j \in Keys, NEW y \in AnswersOf(j)'
       PROVE  y \in Made' \ Initial /\ row'[y].parent = request'[j]
  <2>1. CASE y = x
    <3>1. j = k
      BY <1>13, <1>14, <1>15, <2>1
    <3>. QED
      BY <1>6, <1>7, <1>8, <1>10, <1>14, <2>1, <3>1
  <2>2. CASE y # x
    <3>1. y \in AnswersOf(j)
      BY <1>13, <1>15, <2>2
    <3>2. y \in Made \ Initial /\ row[y].parent = request[j]
      BY <3>1 DEF CreationInv, AnswersTrue
    <3>. QED
      BY <1>7, <1>8, <1>10, <2>2, <3>2, MadeObjects
  <2>. QED
    BY <2>1, <2>2
<1>16. AnswersTrue'
  <2>1. \A j \in Keys : receipt'[j] \notin forgotten'[j]
    BY <1>11, <1>14 DEF CreationInv, AnswersTrue
  <2>2. \A i, j \in Keys : \A y \in AnswersOf(i)' : y \in AnswersOf(j)' => i = j
    BY <1>13, <1>14 DEF CreationInv, AnswersTrue
  <2>3. \A y \in Made' \ Initial : \E j \in Keys : y \in AnswersOf(j)'
    BY <1>8, <1>13 DEF CreationInv, AnswersTrue
  <2>. QED
    BY <1>8, <1>14, <1>15, <2>1, <2>2, <2>3 DEF AnswersTrue
<1>17. ASSUME NEW u \in Slots PROVE Pending(u)'
  <2>1. CASE u = s
    <3>1. tx'[s].key = None
      BY IdleTyped DEF IdleType, Commit, CatalogInv, Typed
    <3>. QED
      BY <2>1, <3>1 DEF Pending
  <2>2. CASE u # s
    <3>1. tx'[u] = tx[u] /\ SlotTrue(u)
      BY <1>1, <2>2 DEF Frame, CatalogInv
    <3>2. tx[u].key = None
      BY <1>6, <2>2, <3>1 DEF SlotTrue, CreationTrue
    <3>. QED
      BY <3>1, <3>2 DEF Pending
  <2>. QED
    BY <2>1, <2>2
<1>. QED
  BY <1>12, <1>16, <1>17 DEF CreationInv

LEMMA CreationKeeps ==
  ASSUME CatalogInv, CreationInv, NEW s \in Slots, Step(s), forgotten' = forgotten
  PROVE  CreationInv'
<1>1. CASE Commit(s)
  BY <1>1, UpdateCommit, CreationCommit
<1>2. CASE ~Commit(s)
  <2>1. Typed' /\ Frame(s) /\ UNCHANGED <<row, receipt>>
    BY <1>2, StepKeeps, StepAdds DEF CatalogInv
  <2>2. Made' = Made /\ \A kind \in Kinds : \A p : Children(kind, p)' = Children(kind, p)
    BY <2>1 DEF Made, Children, Exists
  <2>3. AnswersTrue'
    BY <2>1, <2>2, AnswersKept DEF CreationInv
  <2>4. WithinLimits'
    BY <2>2 DEF CreationInv, WithinLimits
  <2>5. \A u \in Slots \ {s} : Pending(u)'
    BY <2>1, <2>2 DEF CreationInv, Pending, Frame
  <2>6. Pending(s)'
    <3>1. tx \in [Slots -> Transactions]
      BY DEF CatalogInv, Typed
    <3>2. CASE \E k \in Keys, p \in Parents : LockActor(s, k, p)
      <4>1. PICK k \in Keys, p \in Parents : LockActor(s, k, p)
        BY <3>2
      <4>2. PICK r \in Transactions : Locking(s, k, p, r)
        BY <4>1, LockActorIs
      <4>. QED
        BY <3>1, <4>2 DEF Locking, Pending
    <3>3. CASE Ends(s)
      <4>1. tx'[s].key = None
        BY <3>1, <3>3, IdleTyped DEF IdleType, Ends
      <4>. QED
        BY <4>1 DEF Pending
    <3>4. CASE \E kind \in Kinds, p \in Parents :
                 (\A x \in kind : IsParent(x, p)) /\ InsertChild(s, p, kind, LimitOf(kind))
      <4>1. PICK kind \in Kinds, p \in Parents :
              (\A x \in kind : IsParent(x, p)) /\ InsertChild(s, p, kind, LimitOf(kind))
        BY <3>4
      <4>2. PICK limit : limit = LimitOf(kind)
        OBVIOUS
      <4>3. PICK x \in kind, new \in Rows, r \in Transactions : Inserted(s, kind, p, limit, x, new, r)
        BY <4>1, <4>2, InsertChildIs
      <4>4. /\ tx'[s] = r /\ r.key = tx[s].key /\ receipt[tx[s].key] = None
            /\ r.object = x /\ r.parent = p
            /\ Cardinality({y \in kind : Exists(y) /\ row[y].parent = p}) < limit
        BY <3>1, <4>3 DEF Inserted
      <4>5. Cardinality(Children(kind, p)) < LimitOf(kind)
        BY <4>2, <4>4 DEF Children
      <4>6. \A other \in Kinds : x \in other => other = kind
        BY KindSubsets
      <4>7. \A other \in Kinds : x \in other => Cardinality(Children(other, p)') < LimitOf(other)
        BY <2>2, <4>5, <4>6
      <4>8. receipt'[tx'[s].key] = None
        BY <2>1, <4>4
      <4>. QED
        BY <4>4, <4>7, <4>8 DEF Pending
    <3>5. CASE \E x \in Workspaces \cup Bases, name \in Names : Rename(s, x, name)
      <4>1. PICK x \in Workspaces \cup Bases, name \in Names : Rename(s, x, name)
        BY <3>5
      <4>2. PICK r \in Transactions : Renaming(s, x, r)
        BY <4>1, RenameIs
      <4>. QED
        BY <3>1, <4>2 DEF Renaming, Pending
    <3>6. CASE CaptureAncestor(s)
      <4>1. PICK t \in tx[s].todo, e \in Events, r \in Transactions : Capturing(s, t, e, r)
        BY <3>6, CaptureIs
      <4>. QED
        BY <3>1, <4>1 DEF Capturing, Pending
    <3>7. CASE \E t \in Tables : \E new : Writable(t, new) /\ WriteTable(s, t, new)
      <4>1. PICK t \in Tables : \E new : Writable(t, new) /\ WriteTable(s, t, new)
        BY <3>7
      <4>2. PICK new : Writable(t, new) /\ WriteTable(s, t, new)
        BY <4>1
      <4>3. PICK number \in [DOMAIN new -> Nat], r \in Transactions : Writing(s, t, new, number, r)
        BY <4>2, WriteTableIs
      <4>. QED
        BY <3>1, <4>3 DEF Writing, Pending
    <3>. QED
      BY <1>2, <3>2, <3>3, <3>4, <3>5, <3>6, <3>7 DEF Step
  <2>. QED
    BY <2>3, <2>4, <2>5, <2>6 DEF CreationInv
<1>. QED
  BY <1>1, <1>2

\* A receipt is removed, and remembered, or none.
AnswersStay ==
  \A k \in Keys : /\ AnswersOf(k)' = AnswersOf(k)
                  /\ receipt'[k] = None \/ (receipt'[k] = receipt[k] /\ forgotten'[k] = forgotten[k])

LEMMA CreationShrinks ==
  ASSUME CreationInv, Shrinks, AnswersStay, Typed
  PROVE  CreationInv'
<1>1. Made' = Made /\ \A kind, p : Children(kind, p)' = Children(kind, p)
  BY DEF Shrinks, Made, Children, Exists
<1>2. WithinLimits'
  BY <1>1 DEF CreationInv, WithinLimits
<1>3. ASSUME NEW k \in Keys PROVE receipt'[k] \notin forgotten'[k]
  <2>1. CASE receipt'[k] = None
    <3>1. forgotten'[k] \subseteq AnswersOf(k)
      BY DEF AnswersStay, AnswersOf
    <3>2. forgotten'[k] \subseteq Made
      BY <3>1 DEF CreationInv, AnswersTrue
    <3>3. None \notin Objects
      BY CatalogAssumption, NoneAssumption
    <3>. QED
      BY <2>1, <3>2, <3>3, MadeObjects
  <2>2. CASE receipt'[k] = receipt[k] /\ forgotten'[k] = forgotten[k]
    BY <2>2 DEF CreationInv, AnswersTrue
  <2>. QED
    BY <2>1, <2>2 DEF AnswersStay
<1>4. \A k \in Keys : AnswersOf(k)' = AnswersOf(k) /\ row' = row /\ request' = request
  BY DEF AnswersStay, Shrinks
<1>5. AnswersTrue'
  BY <1>1, <1>3, <1>4 DEF CreationInv, AnswersTrue
<1>6. ASSUME NEW s \in Slots PROVE Pending(s)'
  <2>1. tx' = tx /\ Pending(s) /\ tx[s] \in Transactions
    BY DEF CreationInv, Shrinks, Typed
  <2>2. tx[s].key # None /\ receipt[tx[s].key] = None => receipt'[tx[s].key] = None
    BY <2>1 DEF AnswersStay, Transactions
  <2>. QED
    BY <1>1, <2>1, <2>2 DEF Pending
<1>. QED
  BY <1>2, <1>5, <1>6 DEF CreationInv

\* The property that is checked follows.
LEMMA CreationShown ==
  ASSUME CreationInv
  PROVE  CreatedOnce
<1>1. ASSUME NEW kl \in {<<Workspaces, WorkspaceLimit>>, <<Bases, BaseLimit>>, <<Tables, TableLimit>>},
             NEW p \in {Actor} \cup Workspaces \cup Bases
      PROVE  Cardinality({x \in kl[1] : Exists(x) /\ row[x].parent = p}) <= kl[2]
  <2>1. kl[1] \in Kinds /\ kl[2] = LimitOf(kl[1])
    BY KindsApart DEF Kinds, LimitOf
  <2>2. Cardinality(Children(kl[1], p)) <= LimitOf(kl[1])
    BY <2>1 DEF CreationInv, WithinLimits, Parents
  <2>. QED
    BY <2>1, <2>2 DEF Children
<1>2. ASSUME NEW k \in Keys
      PROVE  /\ \A x \in AnswersOf(k) : row[x].parent = request[k]
             /\ receipt[k] \notin forgotten[k]
             /\ \A j \in Keys \ {k} : AnswersOf(j) \cap AnswersOf(k) = {}
  BY <1>2 DEF CreationInv, AnswersTrue
<1>3. Made \ Initial = UNION {AnswersOf(k) : k \in Keys}
  <2>1. \A x : x \in UNION {AnswersOf(k) : k \in Keys} <=> \E k \in Keys : x \in AnswersOf(k)
    OBVIOUS
  <2>2. \A x : x \in Made \ Initial <=> \E k \in Keys : x \in AnswersOf(k)
    BY DEF CreationInv, AnswersTrue
  <2>. QED
    BY <2>1, <2>2
<1>. QED
  BY <1>1, <1>2, <1>3 DEF CreatedOnce, Made

\* A set of one object at most is within a limit that is not 0.
LEMMA OneWithin ==
  ASSUME NEW x, NEW C \in SUBSET {x}
  PROVE  Cardinality(C) <= 1
<1>1. IsFiniteSet({x}) /\ Cardinality({x}) = 1
  BY FS_Singleton
<1>. QED
  BY <1>1, FS_Subset

LEMMA InitCreation ==
  ASSUME CatalogInit, forgotten = [k \in Keys |-> {}]
  PROVE  CreationInv
<1>1. \A x \in Objects : Exists(x) <=> x \in Records \cup Initial
  BY InitIs
<1>2. receipt = [k \in Keys |-> None]
  BY DEF CatalogInit
<1>3. Made = Initial
  BY <1>1, InitialKnown, KindsApart, CatalogAssumption DEF Made
<1>4. \A k \in Keys : AnswersOf(k) = {} /\ receipt[k] \notin forgotten[k]
  BY <1>2 DEF AnswersOf
<1>6. AnswersTrue
  BY <1>3, <1>4 DEF AnswersTrue
<1>7. ASSUME NEW kind \in Kinds, NEW p \in Parents PROVE Cardinality(Children(kind, p)) <= LimitOf(kind)
  <2>1. Children(kind, p) \subseteq kind \cap Initial
    BY <1>1, KindSubsets DEF Children
  <2>2. CASE kind = Workspaces \/ kind = Bases
    <3>1. PICK x : x = Min(kind)
      OBVIOUS
    <3>2. Children(kind, p) \in SUBSET {x}
      BY <2>1, <2>2, <3>1, InitialRows, CatalogAssumption DEF Initial
    <3>3. Cardinality(Children(kind, p)) <= 1
      BY <3>2, OneWithin
    <3>4. LimitOf(kind) \in Nat /\ LimitOf(kind) > 0
      BY <2>2, InitialAssumption, KindSubsets DEF LimitOf
    <3>. QED
      BY <3>3, <3>4, ChildrenFinite
  <2>3. CASE kind = Tables
    <3>1. PICK T, m : T = Tables \ {m} /\ m = Max(Tables)
      OBVIOUS
    <3>2. Tables \in SUBSET Objects /\ Tables \in SUBSET Nat /\ Tables # {}
      BY KindsApart, InitialRows
    <3>3. IsFiniteSet(Tables)
      BY <3>2, CatalogAssumption, FS_Subset
    <3>4. m \in Tables
      BY <3>1, <3>2, <3>3, MaxOfFinite
    <3>5. IsFiniteSet(T) /\ Cardinality(T) = Cardinality(Tables) - 1
      BY <3>1, <3>3, <3>4, FS_RemoveElement
    <3>6. Children(kind, p) \in SUBSET T
      BY <2>1, <2>3, <3>1, InitialRows, CatalogAssumption DEF Initial
    <3>7. Cardinality(Children(kind, p)) <= Cardinality(T)
      BY <3>5, <3>6, FS_Subset
    <3>8. Cardinality(Tables) \in Nat /\ LimitOf(kind) = TableLimit /\ LimitOf(kind) \in Nat
      BY <2>3, <3>3, FS_CardinalityType, KindsApart, KindSubsets DEF LimitOf
    <3>. QED
      BY <3>5, <3>7, <3>8, InitialAssumption, ChildrenFinite
  <2>. QED
    BY <2>2, <2>3 DEF Kinds
<1>8. \A s \in Slots : Pending(s)
  BY IdleTyped DEF CatalogInit, Pending, IdleType
<1>. QED
  BY <1>6, <1>7, <1>8 DEF CreationInv, WithinLimits

(***************************************************************************)
(* The readers.                                                            *)
(***************************************************************************)

\* What a step puts in flight has numbers that no reader has seen.
LEMMA NewNumbers ==
  ASSUME NEW s \in Slots, Started(s) \/ Continued(s) \/ Ended(s)
  PROVE  /\ \A e \in tx'[s].events : e \in tx[s].events \/ e.number >= nextNumber
         /\ \A c \in tx'[s].changes : c \in tx[s].changes \/ c.number >= nextNumber
         /\ \A e \in events' : e \in events \/ e \in tx[s].events
         /\ \A c \in changes' : c \in changes \/ c \in tx[s].changes
         /\ events \subseteq events' /\ changes \subseteq changes'
  BY DEF Started, Continued, Ended

\* Rows below a bound have finitely many numbers, and a greatest.
LEMMA NumbersBounded ==
  ASSUME NEW rows, NEW bound \in Nat, \A e \in rows : e.number \in Nat /\ e.number <= bound
  PROVE  /\ Numbers(rows) \in SUBSET Nat /\ IsFiniteSet(Numbers(rows))
         /\ MaxOf(rows) \in Nat /\ MaxOf(rows) <= bound
         /\ MaxOf(rows) = 0 \/ \E e \in rows : e.number = MaxOf(rows)
         /\ \A e \in rows : e.number <= MaxOf(rows)
<1>1. Numbers(rows) \in SUBSET (0 .. bound)
  BY DEF Numbers
<1>2. IsFiniteSet(0 .. bound)
  BY FS_Interval
<1>3. IsFiniteSet(Numbers(rows)) /\ Numbers(rows) \in SUBSET Nat
  BY <1>1, <1>2, FS_Subset
<1>4. PICK S : S = {0} \cup Numbers(rows)
  OBVIOUS
<1>5. S \in SUBSET Nat /\ S # {} /\ \A y \in S : y <= bound
  BY <1>1, <1>4
<1>6. Max(S) \in S /\ \A y \in S : Max(S) >= y
  BY <1>5, MaxOfBounded
<1>7. MaxOf(rows) = Max(S)
  BY <1>4 DEF MaxOf
<1>. QED
  BY <1>3, <1>4, <1>5, <1>6, <1>7 DEF Numbers

LEMMA NothingListed == <<>> = Descending({})
<1>1. PICK q : q = <<>>
  OBVIOUS
<1>2. PICK S \in SUBSET Nat : S = {}
  OBVIOUS
<1>3. q \in [1 .. 0 -> S] /\ IsDescending(q) /\ ToSet(q) = S
  BY <1>1, <1>2 DEF IsDescending, ToSet
<1>4. q = Descending(S)
  BY <1>3, ListsDescending
<1>. QED
  BY <1>1, <1>2, <1>4

AuditReadings(counts) ==
  [kind : {"audit"}, table : Tables, filter : {"all", "record"}, high : Nat, before : Nat,
   generation : Nat, listed : Seq(Nat), counts : SUBSET counts, done : BOOLEAN, first : SUBSET Events]

\* A page of an Audit, when what it finds is what the first page has found.
LEMMA AuditPageLists ==
  ASSUME NEW c, NEW r \in AuditReadings({c}), c = Cardinality(r.first),
         Matching(r.table, r.filter, r.high) = r.first, \A e \in r.first : e.number <= r.high,
         r.listed = Descending({n \in Numbers(r.first) : n >= r.before}),
         NEW q, q = AuditPage(r)
  PROVE  /\ q \in AuditReadings({c}) /\ q.counts = {c}
         /\ q.table = r.table /\ q.filter = r.filter /\ q.high = r.high
         /\ q.generation = r.generation /\ q.first = r.first
         /\ q.listed = Descending({n \in Numbers(q.first) : n >= q.before \/ q.done})
<1>1. PICK found : found = r.first
  OBVIOUS
<1>2. PICK b \in Nat, high \in Nat : b = r.before /\ high = r.high
  BY DEF AuditReadings
<1>3. \A e \in found : e.number \in Nat /\ e.number <= high
  BY <1>1, <1>2 DEF AuditReadings, Events
<1>4. PICK S : S = Numbers(found)
  OBVIOUS
<1>5. S \in SUBSET Nat /\ IsFiniteSet(S)
  BY <1>2, <1>3, <1>4, NumbersBounded
<1>6. PICK items : items = Page(found, b)
  OBVIOUS
<1>60. PICK next : next = NextBefore(found, b)
  OBVIOUS
<1>61. HasMore(found, b) \in BOOLEAN
  BY DEF HasMore
<1>62. PICK more \in BOOLEAN : more = HasMore(found, b)
  BY <1>61
<1>7. items \in Seq(Nat) /\ next \in Nat
  <2>1. (\E k \in Nat : Page(found, b) \in [1 .. k -> Nat]) /\ NextBefore(found, b) \in Nat
    BY <1>4, <1>5, PageHolds
  <2>2. PICK k \in Nat : items \in [1 .. k -> Nat]
    BY <1>6, <2>1
  <2>. QED
    BY <1>60, <2>1, <2>2
<1>8. PICK listed \in Seq(Nat) : listed = r.listed
  BY DEF AuditReadings
<1>9. listed \o items = Descending({n \in S : n >= next \/ ~more})
  <2>1. PICK A, AB : /\ A = {n \in S : n >= b}
                     /\ AB = {n \in S : n >= NextBefore(found, b) \/ ~HasMore(found, b)}
    OBVIOUS
  <2>6. /\ \A n : n \in A <=> n \in S /\ n >= b
        /\ \A n : n \in AB <=> n \in S /\ (n >= NextBefore(found, b) \/ ~HasMore(found, b))
    BY <2>1
  <2>2. listed = Descending(A)
    BY <1>1, <1>2, <1>4, <1>8, <2>1
  <2>3. WithPage(listed, found, b) = Descending(AB)
    BY <1>2, <1>4, <1>5, <2>2, <2>6, ListingGrows
  <2>4. listed \o items = Descending(AB)
    BY <1>6, <2>3 DEF WithPage
  <2>5. AB = {n \in S : n >= next \/ ~more}
    BY <1>60, <1>62, <2>1
  <2>. QED
    BY <2>4, <2>5
<1>10. next = IF items = <<>> THEN b ELSE Last(items)
  BY <1>6, <1>60 DEF NextBefore
<1>11. PICK all : all = listed \o items
  OBVIOUS
<1>12. all \in Seq(Nat)
  BY <1>7, <1>8, <1>11, ConcatProperties
<1>13. q = [r EXCEPT !.listed = all, !.counts = r.counts \cup {c}, !.done = ~more, !.before = next]
  <2>1. Matching(r.table, r.filter, r.high) = found
    BY <1>1
  <2>. QED
    BY <1>1, <1>2, <1>6, <1>62, <1>8, <1>10, <1>11, <2>1 DEF AuditPage
<1>14. r.counts \cup {c} = {c}
  BY DEF AuditReadings
<1>15. /\ q \in AuditReadings({c}) /\ q.counts = {c}
       /\ q.table = r.table /\ q.filter = r.filter /\ q.high = r.high
       /\ q.generation = r.generation /\ q.first = r.first
       /\ q.listed = all /\ q.before = next /\ q.done = ~more
  BY <1>7, <1>12, <1>13, <1>14 DEF AuditReadings
<1>16. q.listed = Descending({n \in Numbers(q.first) : n >= q.before \/ q.done})
  BY <1>1, <1>4, <1>9, <1>11, <1>15
<1>. QED
  BY <1>15, <1>16

\* What an Audit has read and counted, and what it may still find: nothing in
\* flight comes under its bound, and as long as its generation is the Table's it
\* finds what its first page has found.
AuditTrue(r) ==
  /\ r \in AuditReadings({Cardinality(r.first)}) /\ r.counts = {Cardinality(r.first)}
  /\ r.high < nextNumber /\ r.generation <= generation[r.table]
  /\ \A s \in Slots : \A e \in tx[s].events : e.table = r.table => e.number > r.high
  /\ \A e \in r.first : e.number <= r.high
  /\ r.generation = generation[r.table] => Matching(r.table, r.filter, r.high) = r.first
  /\ r.listed = Descending({n \in Numbers(r.first) : n >= r.before \/ r.done})

AuditInv == reading.kind = "audit" => AuditTrue(reading)

LEMMA AuditKeeps ==
  ASSUME CatalogInv, CatalogInv', AuditInv, NEW s \in Slots, Frame(s), Started(s) \/ Continued(s) \/ Ended(s),
         reading' = reading, generation' = generation
  PROVE  AuditInv'
<1>1. SUFFICES ASSUME reading.kind = "audit" PROVE AuditTrue(reading)'
  BY DEF AuditInv
<1>2. PICK r : r = reading
  OBVIOUS
<1>3. AuditTrue(r) /\ r.high \in Nat
  BY <1>1, <1>2 DEF AuditInv, AuditTrue, AuditReadings
<1>4. nextNumber \in Nat /\ nextNumber' \in Nat /\ nextNumber' >= nextNumber /\ r.high < nextNumber
  BY <1>3 DEF CatalogInv, Typed, Frame, AuditTrue
<1>5. ASSUME NEW u \in Slots, NEW e \in tx'[u].events, e.table = r.table PROVE e.number > r.high
  <2>1. e.number \in Nat
    BY DEF CatalogInv, Typed, Transactions, Events
  <2>2. e \in tx[u].events \/ e.number >= nextNumber
    BY NewNumbers DEF Frame
  <2>. QED
    BY <1>3, <1>4, <1>5, <2>1, <2>2 DEF AuditTrue
<1>6. Matching(r.table, r.filter, r.high)' = Matching(r.table, r.filter, r.high)
  <2>1. \A e \in tx[s].events : e.table = r.table => ~(e.number <= r.high)
    <3>1. \A e \in tx[s].events : e.number \in Nat
      BY DEF CatalogInv, Typed, Transactions, Events
    <3>. QED
      BY <1>3, <3>1 DEF AuditTrue
  <2>2. events \subseteq events' /\ \A e \in events' : e \in events \/ e \in tx[s].events
    BY NewNumbers
  <2>. QED
    BY <2>1, <2>2 DEF Matching, EventsOf
<1>7. nextNumber' > r.high
  BY <1>3, <1>4
<1>8. AuditTrue(r)'
  BY <1>3, <1>5, <1>6, <1>7 DEF AuditTrue
<1>. QED
  BY <1>2, <1>8

LEMMA AuditShrinks ==
  ASSUME CatalogInv, AuditInv, Shrinks, AuditTyped, AuditTyped', Noted, reading' = reading
  PROVE  AuditInv'
<1>1. SUFFICES ASSUME reading.kind = "audit" PROVE AuditTrue(reading)'
  BY DEF AuditInv
<1>2. PICK r : r = reading
  OBVIOUS
<1>3. AuditTrue(r) /\ r.table \in Tables /\ r.generation \in Nat
  BY <1>1, <1>2 DEF AuditInv, AuditTrue, AuditReadings
<1>4. generation[r.table] \in Nat /\ generation'[r.table] \in Nat /\ generation'[r.table] >= generation[r.table]
  BY <1>3 DEF AuditTyped, Noted
<1>5. r.generation <= generation[r.table]
  BY <1>3 DEF AuditTrue
<1>6. ASSUME r.generation = generation'[r.table]
      PROVE  Matching(r.table, r.filter, r.high)' = r.first
  <2>1. r.generation = generation[r.table]
    BY <1>3, <1>4, <1>5, <1>6
  <2>2. ASSUME NEW e \in events \ events' PROVE e.table # r.table
    <3>1. SUFFICES ASSUME e.table = r.table PROVE FALSE
      OBVIOUS
    <3>2. generation'[r.table] > generation[r.table]
      BY <3>1 DEF Noted
    <3>. QED
      BY <1>4, <1>6, <2>1, <3>2
  <2>3. Matching(r.table, r.filter, r.high)' = Matching(r.table, r.filter, r.high)
    BY <2>2 DEF Matching, EventsOf, Shrinks
  <2>. QED
    BY <1>3, <2>1, <2>3 DEF AuditTrue
<1>7. r.generation <= generation'[r.table]
  BY <1>3, <1>4, <1>5
<1>8. AuditTrue(r)'
  BY <1>3, <1>6, <1>7 DEF AuditTrue, Shrinks
<1>. QED
  BY <1>2, <1>8

\* What is in flight comes after all that is committed.
LEMMA AheadOfCommitted ==
  ASSUME CatalogInv, TrailInv, NEW t \in Tables
  PROVE  /\ MaxOf(EventsOf(t)) \in Nat /\ MaxOf(EventsOf(t)) < nextNumber
         /\ \A e \in EventsOf(t) : e.number <= MaxOf(EventsOf(t))
         /\ \A s \in Slots : \A e \in tx[s].events : e.table = t => e.number > MaxOf(EventsOf(t))
         /\ MaxOf(ChangesOf(t)) \in Nat /\ MaxOf(ChangesOf(t)) < nextNumber
         /\ \A c \in ChangesOf(t) : c.number <= MaxOf(ChangesOf(t))
         /\ \A s \in Slots : \A c \in tx[s].changes : c.table = t => c.number > MaxOf(ChangesOf(t))
<1>1. /\ nextNumber \in Nat /\ nextNumber > 0
      /\ \A e \in EventsOf(t) : e \in events /\ e.table = t /\ e.number \in Nat /\ e.number <= nextNumber
      /\ \A c \in ChangesOf(t) : c \in changes /\ c.table = t /\ c.number \in Nat /\ c.number <= nextNumber
  BY DEF CatalogInv, Typed, TrailInv, EventKnown, EventsOf, ChangesOf, Events, Changes
<1>2. PICK E, C : E = EventsOf(t) /\ C = ChangesOf(t)
  OBVIOUS
<1>3. PICK b \in Nat : b = nextNumber
  BY <1>1
<1>4. /\ MaxOf(E) \in Nat /\ (MaxOf(E) = 0 \/ \E e \in E : e.number = MaxOf(E))
      /\ \A e \in E : e.number <= MaxOf(E)
  <2>1. \A e \in E : e.number \in Nat /\ e.number <= b
    BY <1>1, <1>2, <1>3
  <2>. QED
    BY <2>1, NumbersBounded
<1>5. /\ MaxOf(C) \in Nat /\ (MaxOf(C) = 0 \/ \E c \in C : c.number = MaxOf(C))
      /\ \A c \in C : c.number <= MaxOf(C)
  <2>1. \A c \in C : c.number \in Nat /\ c.number <= b
    BY <1>1, <1>2, <1>3
  <2>. QED
    BY <2>1, NumbersBounded
<1>6. /\ \A e \in E : e \in events /\ e.table = t /\ e.number < nextNumber
      /\ \A c \in C : c \in changes /\ c.table = t /\ c.number < nextNumber
  BY <1>2 DEF TrailInv, EventKnown, EventsOf, ChangesOf
<1>7. MaxOf(E) < nextNumber /\ MaxOf(C) < nextNumber
  BY <1>1, <1>4, <1>5, <1>6
<1>8. ASSUME NEW s \in Slots, NEW e \in tx[s].events, e.table = t PROVE e.number > MaxOf(E)
  <2>1. e.number \in Nat /\ e.number > 0 /\ \A f \in E : f.number < e.number
    BY <1>6, <1>8 DEF TrailInv, TrailsTrue, EventTrue, CatalogInv, Typed, Transactions, Events
  <2>. QED
    BY <1>4, <2>1
<1>9. ASSUME NEW s \in Slots, NEW c \in tx[s].changes, c.table = t PROVE c.number > MaxOf(C)
  <2>1. c.number \in Nat /\ c.number > 0 /\ \A d \in C : d.number < c.number
    BY <1>6, <1>9 DEF TrailInv, TrailsTrue, ChangeTrue, CatalogInv, Typed, Transactions, Changes
  <2>. QED
    BY <1>5, <2>1
<1>. QED
  BY <1>2, <1>4, <1>5, <1>7, <1>8, <1>9

\* An Audit whose next page may be read.
AuditOpen(r) ==
  /\ r \in AuditReadings({Cardinality(r.first)})
  /\ r.high < nextNumber /\ r.generation = generation[r.table]
  /\ \A s \in Slots : \A e \in tx[s].events : e.table = r.table => e.number > r.high
  /\ \A e \in r.first : e.number <= r.high
  /\ Matching(r.table, r.filter, r.high) = r.first
  /\ r.listed = Descending({n \in Numbers(r.first) : n >= r.before})

LEMMA AuditPageKeeps ==
  ASSUME AuditTyped, UNCHANGED catalogVars, generation' = generation,
         NEW r, AuditOpen(r), NEW q, q = AuditPage(r)
  PROVE  AuditTrue(q)'
<1>1. PICK c : c = Cardinality(r.first)
  OBVIOUS
<1>2. r \in AuditReadings({c}) /\ r.generation \in Nat
  BY <1>1 DEF AuditOpen, AuditReadings
<1>3. /\ Matching(r.table, r.filter, r.high) = r.first
      /\ \A e \in r.first : e.number <= r.high
      /\ r.listed = Descending({n \in Numbers(r.first) : n >= r.before})
  BY DEF AuditOpen
<1>4. /\ q \in AuditReadings({c}) /\ q.counts = {c}
      /\ q.table = r.table /\ q.filter = r.filter /\ q.high = r.high
      /\ q.generation = r.generation /\ q.first = r.first
      /\ q.listed = Descending({n \in Numbers(q.first) : n >= q.before \/ q.done})
  BY <1>1, <1>2, <1>3, AuditPageLists
<1>5. UNCHANGED <<nextNumber, tx, events>> /\ Matching(q.table, q.filter, q.high)' = q.first
  BY <1>3, <1>4 DEF catalogVars, Matching, EventsOf
<1>6. q \in AuditReadings({Cardinality(q.first)}) /\ q.counts = {Cardinality(q.first)}
  BY <1>1, <1>4
<1>7. q.high < nextNumber' /\ q.generation <= generation'[q.table]
  BY <1>2, <1>4, <1>5 DEF AuditOpen
<1>8. \A s \in Slots : \A e \in tx'[s].events : e.table = q.table => e.number > q.high
  BY <1>4, <1>5 DEF AuditOpen
<1>9. \A e \in q.first : e.number <= q.high
  BY <1>3, <1>4
<1>. QED
  BY <1>4, <1>5, <1>6, <1>7, <1>8, <1>9 DEF AuditTrue

LEMMA AuditBegins ==
  ASSUME CatalogInv, TrailInv, AuditTyped, UNCHANGED catalogVars,
         NEW t \in Tables, NEW filter \in {"all", "record"}, Audit(t, filter)
  PROVE  AuditInv'
<1>1. PICK high : high = MaxOf(EventsOf(t))
  OBVIOUS
<1>2. PICK found : found = Matching(t, filter, high)
  OBVIOUS
<1>3. PICK none : none = <<>>
  OBVIOUS
<1>4. PICK g : g = generation[t]
  OBVIOUS
<1>5. PICK r : r = [kind |-> "audit", table |-> t, filter |-> filter, high |-> high,
                    before |-> high + 1, generation |-> g, listed |-> none,
                    counts |-> {}, done |-> FALSE, first |-> found]
  OBVIOUS
<1>6. reading' = AuditPage(r) /\ generation' = generation
  BY <1>1, <1>2, <1>3, <1>4, <1>5 DEF Audit
<1>7. /\ high \in Nat /\ high < nextNumber
      /\ \A s \in Slots : \A e \in tx[s].events : e.table = t => e.number > high
  BY <1>1, AheadOfCommitted
<1>8. found \in SUBSET Events /\ \A e \in found : e.number \in Nat /\ e.number <= high
  <2>1. found \in SUBSET events /\ \A e \in found : e.number <= high
    BY <1>2 DEF Matching, EventsOf
  <2>2. events \in SUBSET Events
    BY DEF CatalogInv, Typed
  <2>. QED
    BY <2>1, <2>2 DEF Events
<1>9. none \in Seq(Nat) /\ none = Descending({})
  BY <1>3, NothingListed
<1>10. {n \in Numbers(found) : n >= high + 1} = {}
  BY <1>7, <1>8 DEF Numbers
<1>11. g \in Nat
  BY <1>4 DEF AuditTyped
<1>12. AuditOpen(r)
  <2>1. r \in AuditReadings({Cardinality(found)})
    BY <1>5, <1>7, <1>8, <1>9, <1>11 DEF AuditReadings
  <2>2. /\ r.table = t /\ r.filter = filter /\ r.high = high /\ r.before = high + 1
        /\ r.generation = g /\ r.listed = none /\ r.first = found
    BY <1>5
  <2>3. r.listed = Descending({n \in Numbers(r.first) : n >= r.before})
    BY <1>9, <1>10, <2>2
  <2>. QED
    BY <1>2, <1>4, <1>7, <1>8, <2>1, <2>2, <2>3 DEF AuditOpen
<1>13. AuditTrue(reading)'
  <2>1. PICK q : q = AuditPage(r)
    OBVIOUS
  <2>2. AuditTrue(q)'
    BY <1>6, <1>12, <2>1, AuditPageKeeps
  <2>3. reading' = q
    BY <1>6, <2>1
  <2>. QED
    BY <2>2, <2>3
<1>. QED
  BY <1>13 DEF AuditInv

LEMMA AuditGoesOn ==
  ASSUME AuditInv, AuditTyped, UNCHANGED catalogVars, ReadAudit
  PROVE  AuditInv'
<1>1. reading.kind = "audit" /\ ~reading.done /\ generation' = generation
  BY DEF ReadAudit
<1>2. PICK r : r = reading
  OBVIOUS
<1>3. AuditTrue(r)
  BY <1>1, <1>2 DEF AuditInv
<1>4. CASE Visible(r.table) /\ GenerationKept(r)
  <2>1. PICK q : q = AuditPage(r)
    OBVIOUS
  <2>2. reading' = q
    BY <1>2, <1>4, <2>1 DEF ReadAudit
  <2>3. AuditOpen(r)
    <3>1. r.generation = generation[r.table] /\ r.done = FALSE
      BY <1>1, <1>2, <1>3, <1>4 DEF GenerationKept, AuditTrue, AuditReadings
    <3>2. r.listed = Descending({n \in Numbers(r.first) : n >= r.before})
      BY <1>3, <3>1 DEF AuditTrue
    <3>. QED
      BY <1>3, <3>1, <3>2 DEF AuditTrue, AuditOpen
  <2>4. AuditTrue(q)'
    BY <1>1, <2>1, <2>3, AuditPageKeeps
  <2>5. AuditTrue(reading)'
    BY <2>2, <2>4
  <2>. QED
    BY <2>5 DEF AuditInv
<1>5. CASE ~(Visible(r.table) /\ GenerationKept(r))
  <2>1. reading'.kind = "nothing"
    BY <1>2, <1>5 DEF ReadAudit, Nothing
  <2>. QED
    BY <2>1 DEF AuditInv
<1>. QED
  BY <1>4, <1>5

\* What a reading of the history has listed, and what may still be added: nothing in
\* flight comes at or before its tail.
HistoryReadings ==
  [kind : {"history"}, table : Tables, tail : Nat, before : Nat,
   stage : {"watermark", "rows", "page"}, listed : Seq(Nat), done : BOOLEAN]

HistoryTrue(r) ==
  /\ r \in HistoryReadings
  /\ r.tail < nextNumber /\ r.before <= r.tail + 1
  /\ \A s \in Slots : \A c \in tx[s].changes : c.table = r.table => c.number > r.tail
  /\ \A n \in ToSet(r.listed) : n <= r.tail
  /\ \A c \in changes : c.table = r.table /\ c.number <= r.tail /\ (c.number >= r.before \/ r.done)
                          => c.number \in ToSet(r.listed)

HistoryInv == reading.kind = "history" => HistoryTrue(reading)

LEMMA HistoryKeeps ==
  ASSUME CatalogInv, CatalogInv', HistoryInv, NEW s \in Slots, Frame(s), Started(s) \/ Continued(s) \/ Ended(s),
         reading' = reading
  PROVE  HistoryInv'
<1>1. SUFFICES ASSUME reading.kind = "history" PROVE HistoryTrue(reading)'
  BY DEF HistoryInv
<1>2. PICK r : r = reading
  OBVIOUS
<1>3. HistoryTrue(r) /\ r.tail \in Nat
  BY <1>1, <1>2 DEF HistoryInv, HistoryTrue, HistoryReadings
<1>4. nextNumber \in Nat /\ nextNumber' \in Nat /\ nextNumber' >= nextNumber /\ r.tail < nextNumber
  BY <1>3 DEF CatalogInv, Typed, Frame, HistoryTrue
<1>5. ASSUME NEW u \in Slots, NEW c \in tx'[u].changes, c.table = r.table PROVE c.number > r.tail
  <2>1. c.number \in Nat
    BY DEF CatalogInv, Typed, Transactions, Changes
  <2>2. c \in tx[u].changes \/ c.number >= nextNumber
    BY NewNumbers DEF Frame
  <2>. QED
    BY <1>3, <1>4, <1>5, <2>1, <2>2 DEF HistoryTrue
<1>6. \A c \in changes' : c.table = r.table /\ c.number <= r.tail => c \in changes
  <2>1. \A c \in tx[s].changes : c.table = r.table => ~(c.number <= r.tail)
    <3>1. \A c \in tx[s].changes : c.number \in Nat
      BY DEF CatalogInv, Typed, Transactions, Changes
    <3>. QED
      BY <1>3, <3>1 DEF HistoryTrue
  <2>2. \A c \in changes' : c \in changes \/ c \in tx[s].changes
    BY NewNumbers
  <2>. QED
    BY <2>1, <2>2
<1>7. nextNumber' > r.tail
  BY <1>3, <1>4
<1>8. HistoryTrue(r)'
  BY <1>3, <1>5, <1>6, <1>7 DEF HistoryTrue
<1>. QED
  BY <1>2, <1>8

LEMMA HistoryShrinks ==
  ASSUME HistoryInv, Shrinks, reading' = reading
  PROVE  HistoryInv'
  BY DEF HistoryInv, HistoryTrue, Shrinks

LEMMA HistoryBegins ==
  ASSUME CatalogInv, TrailInv, UNCHANGED catalogVars, NEW t \in Tables, History(t)
  PROVE  HistoryInv'
<1>1. PICK tail : tail = MaxOf(ChangesOf(t))
  OBVIOUS
<1>2. PICK none : none = <<>>
  OBVIOUS
<1>3. PICK r : r = [kind |-> "history", table |-> t, tail |-> tail, before |-> tail + 1,
                    stage |-> "watermark", listed |-> none, done |-> FALSE]
  OBVIOUS
<1>4. reading' = r
  BY <1>1, <1>2, <1>3 DEF History, FirstBefore
<1>5. /\ tail \in Nat /\ tail < nextNumber
      /\ \A s \in Slots : \A c \in tx[s].changes : c.table = t => c.number > tail
  BY <1>1, AheadOfCommitted
<1>6. \A c \in changes : c.number \in Nat
  BY DEF CatalogInv, Typed, Changes
<1>7. none \in Seq(Nat) /\ ToSet(none) = {}
  BY <1>2 DEF ToSet
<1>8. r \in HistoryReadings
  BY <1>3, <1>5, <1>7 DEF HistoryReadings
<1>9. r.table = t /\ r.tail = tail /\ r.before = tail + 1 /\ r.listed = none /\ r.done = FALSE
  BY <1>3
<1>10. HistoryTrue(r)
  BY <1>5, <1>6, <1>7, <1>8, <1>9 DEF HistoryTrue
<1>11. UNCHANGED <<nextNumber, tx, changes>>
  BY DEF catalogVars
<1>12. HistoryTrue(r)'
  BY <1>10, <1>11 DEF HistoryTrue
<1>13. HistoryTrue(reading)'
  BY <1>4, <1>12
<1>. QED
  BY <1>13 DEF HistoryInv

\* all is a sequence of the numbers of p and of q, and of no other.
ListsBoth(all, p, q) ==
  all \in Seq(Nat) /\ \A n : n \in ToSet(all) <=> n \in ToSet(p) \/ n \in ToSet(q)

LEMMA ToSetConcat ==
  ASSUME NEW m \in Nat, NEW k \in Nat, NEW p, p \in [1 .. m -> Nat], NEW q, q \in [1 .. k -> Nat],
         NEW all, all = p \o q
  PROVE  ListsBoth(all, p, q)
<1>1. p \in Seq(Nat) /\ Len(p) = m /\ q \in Seq(Nat) /\ Len(q) = k
  OBVIOUS
<1>4. /\ all \in Seq(Nat) /\ Len(all) = m + k
      /\ \A i \in 1 .. m + k : all[i] = IF i <= m THEN p[i] ELSE q[i - m]
  BY <1>1, ConcatProperties
<1>3. DOMAIN p = 1 .. m /\ DOMAIN q = 1 .. k /\ DOMAIN all = 1 .. m + k
  BY <1>4
<1>5. ASSUME NEW i \in 1 .. m + k
      PROVE  (\E j \in 1 .. m : p[j] = all[i]) \/ (\E j \in 1 .. k : q[j] = all[i])
  <2>1. CASE i <= m
    BY <1>4, <2>1
  <2>2. CASE i > m
    <3>1. i - m \in 1 .. k /\ all[i] = q[i - m]
      BY <1>4, <2>2
    <3>. QED
      BY <3>1
  <2>. QED
    BY <2>1, <2>2
<1>6. ASSUME NEW j \in 1 .. m PROVE \E i \in 1 .. m + k : all[i] = p[j]
  <2>1. j \in 1 .. m + k /\ all[j] = p[j]
    BY <1>4
  <2>. QED
    BY <2>1
<1>7. ASSUME NEW j \in 1 .. k PROVE \E i \in 1 .. m + k : all[i] = q[j]
  <2>1. m + j \in 1 .. m + k /\ ~(m + j <= m) /\ (m + j) - m = j
    OBVIOUS
  <2>2. all[m + j] = q[j]
    BY <1>4, <2>1
  <2>. QED
    BY <2>1, <2>2
<1>8. ASSUME NEW n PROVE n \in ToSet(all) <=> n \in ToSet(p) \/ n \in ToSet(q)
  <2>1. n \in ToSet(all) <=> \E i \in 1 .. m + k : all[i] = n
    BY <1>3 DEF ToSet
  <2>2. n \in ToSet(p) <=> \E i \in 1 .. m : p[i] = n
    BY <1>3 DEF ToSet
  <2>3. n \in ToSet(q) <=> \E i \in 1 .. k : q[i] = n
    BY <1>3 DEF ToSet
  <2>. QED
    BY <1>5, <1>6, <1>7, <2>1, <2>2, <2>3
<1>. QED
  BY <1>4, <1>8 DEF ListsBoth

LEMMA HistoryPages ==
  ASSUME CatalogInv, TrailInv, HistoryInv, UNCHANGED catalogVars, PullHistory
  PROVE  HistoryInv'
<1>1. PICK r : r = reading
  OBVIOUS
<1>2. HistoryTrue(r) /\ r \in HistoryReadings
  BY <1>1 DEF PullHistory, HistoryInv, HistoryTrue
<1>3. PICK rows : rows = ChangesOf(r.table)
  OBVIOUS
<1>4. PICK b \in Nat, tail \in Nat : b = r.before /\ tail = r.tail
  BY <1>2 DEF HistoryReadings
<1>5. PICK S : S = Numbers(rows)
  OBVIOUS
<1>6. S \in SUBSET Nat /\ IsFiniteSet(S)
  <2>1. PICK bound \in Nat : bound = nextNumber
    BY DEF CatalogInv, Typed
  <2>2. \A c \in rows : c.number \in Nat /\ c.number <= bound
    BY <1>3, <2>1 DEF ChangesOf, CatalogInv, Typed, TrailInv, Changes
  <2>. QED
    BY <1>5, <2>2, NumbersBounded
<1>7. PICK items : items = Page(rows, b)
  OBVIOUS
<1>8. PICK next : next = NextBefore(rows, b)
  OBVIOUS
<1>9. HasMore(rows, b) \in BOOLEAN
  BY DEF HasMore
<1>10. PICK more \in BOOLEAN : more = HasMore(rows, b)
  BY <1>9
<1>11. /\ items \in Seq(Nat) /\ next \in Nat /\ next <= b
       /\ \A n : n \in ToSet(items) <=> n \in S /\ n < b /\ (n >= next \/ ~more)
  <2>1. /\ \E k \in Nat : Page(rows, b) \in [1 .. k -> Nat]
        /\ NextBefore(rows, b) \in Nat /\ NextBefore(rows, b) <= b
    BY <1>4, <1>5, <1>6, PageHolds
  <2>2. \A n : n \in ToSet(Page(rows, b)) <=>
                 n \in S /\ n < b /\ (n >= NextBefore(rows, b) \/ ~HasMore(rows, b))
    BY <1>4, <1>5, <1>6, PageHolds
  <2>3. PICK k \in Nat : items \in [1 .. k -> Nat]
    BY <1>7, <2>1
  <2>4. items \in Seq(Nat)
    BY <2>3
  <2>. QED
    BY <1>7, <1>8, <1>10, <2>1, <2>2, <2>4
<1>12. PICK listed \in Seq(Nat) : listed = r.listed
  BY <1>2 DEF HistoryReadings
<1>13. PICK all : all = listed \o items
  OBVIOUS
<1>14. all \in Seq(Nat) /\ \A n : n \in ToSet(all) <=> n \in ToSet(listed) \/ n \in ToSet(items)
  <2>1. \E k \in Nat : items \in [1 .. k -> Nat]
    BY <1>4, <1>5, <1>6, <1>7, PageHolds
  <2>2. PICK k \in Nat : items \in [1 .. k -> Nat]
    BY <2>1
  <2>3. PICK m \in Nat : listed \in [1 .. m -> Nat]
    BY <1>12
  <2>5. PICK p \in [1 .. m -> Nat], q \in [1 .. k -> Nat] : p = listed /\ q = items
    BY <2>2, <2>3
  <2>6. all = p \o q
    BY <1>13, <2>5
  <2>7. ListsBoth(all, p, q)
    BY <2>6, ToSetConcat
  <2>. QED
    BY <2>5, <2>7 DEF ListsBoth
<1>15. PICK q : q = [r EXCEPT !.stage = "page", !.listed = all, !.done = ~more, !.before = next]
  OBVIOUS
<1>16. reading' = q
  <2>1. next = IF items = <<>> THEN b ELSE Last(items)
    BY <1>7, <1>8 DEF NextBefore
  <2>. QED
    BY <1>1, <1>3, <1>4, <1>7, <1>10, <1>12, <1>13, <1>15, <2>1 DEF PullHistory
<1>17. /\ q \in HistoryReadings /\ q.table = r.table /\ q.tail = tail /\ q.before = next
       /\ q.listed = all /\ q.done = ~more
  BY <1>2, <1>4, <1>10, <1>11, <1>14, <1>15 DEF HistoryReadings
<1>18. UNCHANGED <<nextNumber, tx, changes>>
  BY DEF catalogVars
<1>19. /\ tail < nextNumber /\ b <= tail + 1
       /\ \A s \in Slots : \A c \in tx[s].changes : c.table = r.table => c.number > tail
       /\ \A n \in ToSet(listed) : n <= tail
       /\ \A c \in changes : c.table = r.table /\ c.number <= tail /\ c.number >= b
                               => c.number \in ToSet(listed)
  BY <1>2, <1>4, <1>12 DEF HistoryTrue
<1>20. \A n \in ToSet(all) : n <= tail
  <2>1. \A n \in S : n \in Nat
    BY <1>6
  <2>. QED
    BY <1>11, <1>14, <1>19, <2>1
<1>21. ASSUME NEW c \in changes, c.table = r.table, c.number <= tail, c.number >= next \/ ~more
       PROVE  c.number \in ToSet(all)
  <2>1. c \in rows /\ c.number \in S /\ c.number \in Nat
    BY <1>3, <1>5, <1>6, <1>21 DEF ChangesOf, Numbers
  <2>2. CASE c.number >= b
    BY <1>14, <1>19, <1>21, <2>2
  <2>3. CASE c.number < b
    BY <1>11, <1>14, <1>21, <2>1, <2>3
  <2>. QED
    BY <2>1, <2>2, <2>3
<1>22. next <= tail + 1
  BY <1>11, <1>19
<1>23. HistoryTrue(q)'
  BY <1>17, <1>18, <1>19, <1>20, <1>21, <1>22 DEF HistoryTrue
<1>24. HistoryTrue(reading)'
  BY <1>16, <1>23
<1>. QED
  BY <1>24 DEF HistoryInv

\* What the client has asked for and been told.
ReadingInv == reading.kind \in {"nothing", "audit", "history"} /\ AuditInv /\ HistoryInv

LEMMA ReadKeeps ==
  ASSUME CatalogInv, TrailInv, AuditTyped, ReadingInv, Read, UNCHANGED catalogVars
  PROVE  ReadingInv' /\ AuditTyped'
<1>1. AuditTyped'
  BY DEF AuditTyped, Read, Audit, History, ReadAudit, ContinueHistory, ReadWatermark, PullHistory, Close
<1>2. UNCHANGED <<nextNumber, tx, changes>>
  BY DEF catalogVars
<1>3. CASE \E t \in Tables, filter \in {"all", "record"} : Audit(t, filter)
  <2>1. PICK t \in Tables, filter \in {"all", "record"} : Audit(t, filter)
    BY <1>3
  <2>2. AuditInv'
    BY <2>1, AuditBegins
  <2>3. reading'.kind = "audit"
    BY <2>1 DEF Audit, AuditPage
  <2>. QED
    BY <1>1, <2>2, <2>3 DEF ReadingInv, HistoryInv
<1>4. CASE \E t \in Tables : History(t)
  <2>1. PICK t \in Tables : History(t)
    BY <1>4
  <2>2. HistoryInv'
    BY <2>1, HistoryBegins
  <2>3. reading'.kind = "history"
    BY <2>1 DEF History
  <2>. QED
    BY <1>1, <2>2, <2>3 DEF ReadingInv, AuditInv
<1>5. CASE ReadAudit
  <2>1. AuditInv'
    BY <1>5, AuditGoesOn DEF ReadingInv
  <2>2. reading'.kind = "nothing" \/ reading'.kind = "audit"
    <3>1. PICK r : r = reading
      OBVIOUS
    <3>2. r.kind = "audit" /\ r \in AuditReadings({Cardinality(r.first)})
      BY <1>5, <3>1 DEF ReadAudit, ReadingInv, AuditInv, AuditTrue
    <3>3. AuditPage(r).kind = "audit"
      BY <3>2 DEF AuditPage, AuditReadings
    <3>. QED
      BY <1>5, <3>1, <3>3 DEF ReadAudit, Nothing
  <2>. QED
    BY <1>1, <2>1, <2>2 DEF ReadingInv, HistoryInv
<1>6. CASE ContinueHistory \/ ReadWatermark
  <2>1. PICK r : r = reading
    OBVIOUS
  <2>2. r \in HistoryReadings /\ HistoryTrue(r)
    BY <1>6, <2>1 DEF ContinueHistory, ReadWatermark, ReadingInv, HistoryInv, HistoryTrue
  <2>3. CASE reading' = Nothing
    BY <1>1, <2>3 DEF ReadingInv, AuditInv, HistoryInv, Nothing
  <2>4. CASE \E stage \in {"watermark", "rows"} : reading' = [r EXCEPT !.stage = stage]
    <3>1. PICK stage \in {"watermark", "rows"} : reading' = [r EXCEPT !.stage = stage]
      BY <2>4
    <3>2. PICK q : q = [r EXCEPT !.stage = stage]
      OBVIOUS
    <3>3. /\ q \in HistoryReadings /\ q.kind = "history" /\ q.table = r.table /\ q.tail = r.tail
          /\ q.before = r.before /\ q.listed = r.listed /\ q.done = r.done
      BY <2>2, <3>2 DEF HistoryReadings
    <3>4. HistoryTrue(q)
      BY <2>2, <3>3 DEF HistoryTrue
    <3>5. HistoryTrue(q)'
      BY <1>2, <3>4 DEF HistoryTrue
    <3>6. reading' = q
      BY <3>1, <3>2
    <3>7. HistoryTrue(reading)' /\ reading'.kind = "history"
      BY <3>3, <3>5, <3>6
    <3>. QED
      BY <1>1, <3>7 DEF ReadingInv, AuditInv, HistoryInv
  <2>. QED
    BY <1>6, <2>1, <2>3, <2>4 DEF ContinueHistory, ReadWatermark
<1>7. CASE PullHistory
  <2>1. HistoryInv'
    BY <1>7, HistoryPages DEF ReadingInv
  <2>2. reading'.kind = "history"
    <3>1. PICK r : r = reading
      OBVIOUS
    <3>2. r.kind = "history" /\ r \in HistoryReadings
      BY <1>7, <3>1 DEF PullHistory, ReadingInv, HistoryInv, HistoryTrue
    <3>3. \A listed, done, before :
            [r EXCEPT !.stage = "page", !.listed = listed, !.done = done, !.before = before].kind = "history"
      BY <3>2 DEF HistoryReadings
    <3>. QED
      BY <1>7, <3>1, <3>2, <3>3 DEF PullHistory, HistoryReadings
  <2>. QED
    BY <1>1, <2>1, <2>2 DEF ReadingInv, AuditInv
<1>8. CASE Close
  BY <1>1, <1>8 DEF Close, ReadingInv, AuditInv, HistoryInv, Nothing
<1>. QED
  BY <1>3, <1>4, <1>5, <1>6, <1>7, <1>8 DEF Read

(***************************************************************************)
(* The inductive invariant.                                                *)
(***************************************************************************)
AuditEverything ==
  /\ CatalogInv /\ TrailInv /\ ChainInv /\ AssociationInv /\ CreationInv
  /\ AuditTyped /\ ReadingInv

LEMMA AuditInit == Init => AuditEverything
<1>. SUFFICES ASSUME Init PROVE AuditEverything
  OBVIOUS
<1>1. /\ CatalogInit /\ generation = [t \in Tables |-> 0] /\ expired = [t \in Tables |-> 0]
      /\ forgotten = [k \in Keys |-> {}] /\ reading = Nothing
  BY DEF Init
<1>2. CatalogInv /\ TrailInv /\ ChainInv /\ AssociationInv /\ CreationInv
  BY <1>1, InitKnows, InitTrails, InitChains, InitAssociation, InitCreation
<1>3. AuditTyped
  BY <1>1 DEF AuditTyped
<1>4. ReadingInv
  BY <1>1 DEF ReadingInv, AuditInv, HistoryInv, Nothing
<1>. QED
  BY <1>2, <1>3, <1>4 DEF AuditEverything

LEMMA RemovalKeeps ==
  ASSUME AuditEverything, Shrinks, AnswersStay, AuditTyped', Noted, reading' = reading,
         \A g \in events \ events' : \A f \in events : g.number <= f.number
  PROVE  AuditEverything'
<1>1. CatalogInv' /\ TrailInv' /\ ChainInv' /\ AssociationInv' /\ CreationInv'
  BY CatalogShrinks, TrailShrinks, ChainShrinks, AssociationShrinks, CreationShrinks
     DEF AuditEverything, CatalogInv
<1>2. AuditInv' /\ HistoryInv'
  BY AuditShrinks, HistoryShrinks DEF AuditEverything, ReadingInv
<1>. QED
  BY <1>1, <1>2 DEF AuditEverything, ReadingInv

LEMMA AuditStep == AuditEverything /\ [Next]_vars => AuditEverything'
<1>. SUFFICES ASSUME AuditEverything, [Next]_vars PROVE AuditEverything'
  OBVIOUS
<1>1. CASE CatalogNext /\ UNCHANGED auditVars
  <2>1. PICK s \in Slots : Step(s)
    BY <1>1, Steps DEF AuditEverything
  <2>2. UNCHANGED <<generation, expired, forgotten, reading>>
    BY <1>1 DEF auditVars
  <2>3. CatalogInv' /\ Frame(s) /\ TrailInv' /\ ChainInv' /\ CreationInv'
    BY <2>1, <2>2, StepKeeps, TrailKeeps, ChainKeeps, CreationKeeps DEF AuditEverything
  <2>4. Started(s) \/ Continued(s) \/ Ended(s)
    BY <2>1, StepShape DEF AuditEverything
  <2>5. AssociationInv'
    BY <2>2, <2>3, <2>4, OperationsKeep, EffectsKeep, HaveKeep DEF AuditEverything, AssociationInv
  <2>6. AuditInv' /\ HistoryInv'
    BY <2>2, <2>3, <2>4, AuditKeeps, HistoryKeeps DEF AuditEverything, ReadingInv
  <2>7. AuditTyped' /\ ReadingInv'
    BY <2>2, <2>6 DEF AuditEverything, AuditTyped, ReadingInv
  <2>. QED
    BY <2>3, <2>5, <2>7 DEF AuditEverything
<1>2. CASE Read /\ UNCHANGED catalogVars
  <2>1. AuditTyped' /\ ReadingInv'
    BY <1>2, ReadKeeps DEF AuditEverything
  <2>2. generation' = generation /\ forgotten' = forgotten
    BY <1>2 DEF Read, Audit, History, ReadAudit, ContinueHistory, ReadWatermark, PullHistory, Close
  <2>3. Shrinks /\ AnswersStay /\ Noted /\ events' = events
    BY <1>2, <2>2 DEF catalogVars, Shrinks, AnswersStay, AnswersOf, Noted, AuditEverything, AuditTyped, CatalogInv, Typed
  <2>4. \A g \in events \ events' : \A f \in events : g.number <= f.number
    BY <2>3
  <2>5. CatalogInv' /\ TrailInv' /\ ChainInv' /\ AssociationInv' /\ CreationInv'
    BY <2>1, <2>3, <2>4, CatalogShrinks, TrailShrinks, ChainShrinks, AssociationShrinks, CreationShrinks
       DEF AuditEverything, CatalogInv
  <2>. QED
    BY <2>1, <2>5 DEF AuditEverything
<1>3. CASE cleanupAudit
  <2>1. PICK e \in events :
          /\ \A f \in events : e.number <= f.number
          /\ events' = events \ {e}
          /\ generation' = [generation EXCEPT ![e.table] = @ + 1]
          /\ UNCHANGED <<row, lock, tx, nextNumber, changes, receipt, request, expired, forgotten, reading>>
    BY <1>3 DEF cleanupAudit
  <2>2. AuditTyped /\ e.table \in Tables
    BY DEF AuditEverything, CatalogInv, Typed, Events
  <2>3. AuditTyped' /\ \A t \in Tables : generation'[t] = IF t = e.table THEN generation[t] + 1 ELSE generation[t]
    BY <2>1, <2>2 DEF AuditTyped
  <2>4. events \ events' = {e}
    BY <2>1
  <2>5. Noted
    BY <2>2, <2>3, <2>4 DEF Noted, AuditTyped
  <2>6. Shrinks /\ AnswersStay
    BY <2>1 DEF Shrinks, AnswersStay, AnswersOf, AuditEverything, CatalogInv, Typed
  <2>. QED
    BY <2>1, <2>3, <2>4, <2>5, <2>6, RemovalKeeps
<1>4. CASE cleanupChanges
  <2>1. PICK c \in changes :
          /\ changes' = changes \ {c}
          /\ expired' = [expired EXCEPT ![c.table] = IF expired[c.table] > c.number THEN expired[c.table] ELSE c.number]
          /\ UNCHANGED <<row, lock, tx, nextNumber, events, receipt, request, generation, forgotten, reading>>
    BY <1>4 DEF cleanupChanges
  <2>2. AuditTyped /\ c.number \in Nat
    BY DEF AuditEverything, CatalogInv, Typed, Changes
  <2>3. AuditTyped'
    BY <2>1, <2>2 DEF AuditTyped
  <2>4. Shrinks /\ AnswersStay /\ events' = events
    BY <2>1 DEF Shrinks, AnswersStay, AnswersOf, AuditEverything, CatalogInv, Typed
  <2>5. Noted
    BY <2>1, <2>2, <2>4 DEF Noted, AuditTyped
  <2>. QED
    BY <2>1, <2>3, <2>4, <2>5, RemovalKeeps
<1>5. CASE cleanupReceipts
  <2>1. PICK k \in Keys :
          /\ receipt[k] # None
          /\ receipt' = [receipt EXCEPT ![k] = None]
          /\ forgotten' = [forgotten EXCEPT ![k] = forgotten[k] \cup {receipt[k]}]
          /\ UNCHANGED <<row, lock, tx, nextNumber, events, changes, request, generation, expired, reading>>
    BY <1>5 DEF cleanupReceipts
  <2>2. receipt \in [Keys -> Objects \cup {None}] /\ AuditTyped
    BY DEF AuditEverything, CatalogInv, Typed
  <2>3. AuditTyped'
    BY <2>1, <2>2 DEF AuditTyped
  <2>4. AnswersStay
    <3>1. AnswersOf(k)' = AnswersOf(k) /\ receipt'[k] = None
      BY <2>1, <2>2 DEF AnswersOf, AuditTyped
    <3>2. \A j \in Keys \ {k} : receipt'[j] = receipt[j] /\ forgotten'[j] = forgotten[j]
      BY <2>1, <2>2 DEF AuditTyped
    <3>. QED
      BY <3>1, <3>2 DEF AnswersStay, AnswersOf
  <2>5. Shrinks /\ Noted /\ events' = events
    BY <2>1, <2>2 DEF Shrinks, Noted, AuditTyped
  <2>. QED
    BY <2>1, <2>3, <2>4, <2>5, RemovalKeeps
<1>6. CASE UNCHANGED vars
  <2>1. UNCHANGED <<row, lock, tx, nextNumber, events, changes, receipt, request, generation, expired, forgotten, reading>>
    BY <1>6 DEF vars, catalogVars, auditVars
  <2>2. Shrinks /\ AnswersStay /\ Noted /\ AuditTyped'
    BY <2>1 DEF Shrinks, AnswersStay, AnswersOf, Noted, AuditEverything, AuditTyped, CatalogInv, Typed
  <2>. QED
    BY <2>1, <2>2, RemovalKeeps
<1>. QED
  BY <1>1, <1>2, <1>3, <1>4, <1>5, <1>6 DEF Next

LEMMA AuditTypes ==
  ASSUME AuditEverything
  PROVE  TypeOK
<1>1. Typed /\ AuditTyped /\ (\A s \in Slots : IdleTrue(s)) /\ reading.kind \in {"nothing", "audit", "history"}
  BY DEF AuditEverything, CatalogInv, SlotTrue, ReadingInv
<1>2. ASSUME NEW s \in Slots
      PROVE  /\ tx[s].stage \in {"idle", "actor", "ancestor", "written"}
             /\ tx[s].todo \subseteq Tables /\ DOMAIN tx[s].rows \subseteq Objects
             /\ tx[s].events \subseteq Events /\ tx[s].changes \subseteq Changes
             /\ tx[s].stage = "idle" => Held(s) = {}
  <2>1. tx[s] \in Transactions
    BY <1>1 DEF Typed
  <2>2. tx[s].stage = "idle" => Held(s) = {}
    BY <1>1 DEF IdleTrue, Held, Typed
  <2>3. tx[s].rows \in PartialRows /\ tx[s].todo \in SUBSET Tables
    BY <2>1 DEF Transactions
  <2>4. DOMAIN tx[s].rows \subseteq Objects
    BY <2>3 DEF PartialRows
  <2>. QED
    BY <2>1, <2>2, <2>3, <2>4 DEF Transactions
<1>3. Parents \subseteq Objects \cup {Actor}
  BY KindsApart DEF Parents
<1>4. request \in [Keys -> Objects \cup {Actor, None}]
  BY <1>1, <1>3 DEF Typed
<1>. QED
  BY <1>1, <1>2, <1>4 DEF TypeOK, Typed, AuditTyped

THEOREM AuditInvariant == Spec => []AuditEverything
  BY AuditInit, AuditStep, PTL DEF Spec

\* Every variable keeps its type, an object its kind, and a lock belongs to a
\* transaction in flight (the transactions of catalog.go, audit.go, history.go and
\* maintenance.go).
THEOREM AuditTypeOK == Spec => []TypeOK
  BY AuditInvariant, AuditTypes, PTL

\* In the trail of a Table what one captured event left is what the next one found, and
\* the last one left the row, whatever transactions interleave (loomtable_capture_audit).
THEOREM AuditSnapshotsChain == Spec => []SnapshotsChain
<1>1. AuditEverything => SnapshotsChain
  BY AuditTypes, ChainShown DEF AuditEverything
<1>. QED
  BY <1>1, AuditInvariant, PTL

\* A Change is named by the event of its own effect and by no other, in the Audit of
\* its own Table (loomtable_associate_audit_change).
THEOREM AuditChangesAssociated == Spec => []ChangesAssociated
<1>1. AuditEverything => ChangesAssociated
  BY AssociationShown DEF AuditEverything
<1>. QED
  BY <1>1, AuditInvariant, PTL

\* Every object that was not there at first has been answered to one key and once, so
\* that a repeated request makes a second one only after retention has removed its
\* receipt; and no more children exist than the limits allow (Service.CreateWorkspace,
\* CreateBase, CreateTable).
THEOREM AuditCreatedOnce == Spec => []CreatedOnce
<1>1. AuditEverything => CreatedOnce
  BY CreationShown DEF AuditEverything
<1>. QED
  BY <1>1, AuditInvariant, PTL

\* The pages of an Audit list every event that its first page could see, once and in
\* order, and count the same (ReadAudit).
THEOREM AuditPagesComplete == Spec => []AuditComplete
<1>1. AuditEverything => AuditComplete
  BY DEF AuditEverything, ReadingInv, AuditInv, AuditTrue, AuditComplete
<1>. QED
  BY <1>1, AuditInvariant, PTL

\* What a finished reading of the history did not list comes after the change cursor
\* of its first page, and nothing it listed does (Service.History, PullHistory).
THEOREM AuditHistoryMeetsFeed == Spec => []HistoryMeetsFeed
<1>1. AuditEverything => HistoryMeetsFeed
  <2>. SUFFICES ASSUME AuditEverything, reading.kind = "history", reading.done,
                       NEW n \in Numbers(ChangesOf(reading.table))
                PROVE  (n > reading.tail) # (n \in ToSet(reading.listed))
    BY DEF HistoryMeetsFeed
  <2>1. HistoryTrue(reading) /\ reading.tail \in Nat
    BY DEF AuditEverything, ReadingInv, HistoryInv, HistoryTrue, HistoryReadings
  <2>2. PICK c \in changes : c.table = reading.table /\ c.number = n
    BY DEF Numbers, ChangesOf
  <2>3. n \in Nat
    BY <2>2 DEF AuditEverything, CatalogInv, Typed, Changes
  <2>4. n <= reading.tail => n \in ToSet(reading.listed)
    BY <2>1, <2>2 DEF HistoryTrue
  <2>5. n \in ToSet(reading.listed) => n <= reading.tail
    BY <2>1 DEF HistoryTrue
  <2>. QED
    BY <2>1, <2>3, <2>4, <2>5
<1>. QED
  BY <1>1, AuditInvariant, PTL
=============================================================================

------------------------- MODULE RecordOrderProofs -------------------------
(***************************************************************************)
(* Theorems about RecordOrder, for every value of its constants: any       *)
(* number of Records and of readers, any size of a page and any distance   *)
(* between new positions that is above the resolution.                     *)
(***************************************************************************)
EXTENDS RecordOrder, FiniteSetTheorems, SequenceTheorems, WellFoundedInduction, TLAPS

(***************************************************************************)
(* Numbers.  The induction is about sets: a set of numbers that is not     *)
(* empty has a least element, because < is well-founded.                   *)
(***************************************************************************)

LessThan == {pair \in Nat \X Nat : pair[1] < pair[2]}

\* The order of the numbers is well-founded.
LEMMA LessThanWellFounded == IsWellFoundedOn(LessThan, Nat)
  BY NatLessThanWellFounded DEF OpToRel, LessThan

LEMMA LeastNumber ==
  ASSUME NEW S \in SUBSET Nat, S # {}
  PROVE  \E x \in S : \A y \in S : x <= y
<1>1. PICK x \in S : \A y \in S : ~ (<<y, x>> \in LessThan)
  BY WFMin, LessThanWellFounded
<1>2. ASSUME NEW y \in S PROVE x <= y
  <2>1. <<y, x>> \in Nat \X Nat
    OBVIOUS
  <2>2. <<y, x>>[1] = y /\ <<y, x>>[2] = x
    OBVIOUS
  <2>3. ~ (y < x)
    BY <1>1, <2>1, <2>2 DEF LessThan
  <2>. QED
    BY <2>3
<1>. QED
  BY <1>2

\* Induction over the numbers.
LEMMA AllNumbers ==
  ASSUME NEW S \in SUBSET Nat, 0 \in S, \A n \in S : n + 1 \in S
  PROVE  S = Nat
<1>1. SUFFICES ASSUME Nat \ S # {} PROVE FALSE
  OBVIOUS
<1>2. PICK x \in Nat \ S : \A y \in Nat \ S : x <= y
  BY <1>1, LeastNumber
<1>. QED
  BY <1>2

\* What Min and Max choose exists when the numbers are bounded.
LEMMA Extremes ==
  ASSUME NEW S \in SUBSET Int, S # {}, NEW lo \in Int, NEW hi \in Int, S \subseteq lo .. hi
  PROVE  /\ Min(S) \in S /\ \A y \in S : Min(S) <= y
         /\ Max(S) \in S /\ \A y \in S : y <= Max(S)
<1>1. PICK U, D : U = {x - lo : x \in S} /\ D = {hi - x : x \in S}
  OBVIOUS
<1>2. U \in SUBSET Nat /\ U # {} /\ D \in SUBSET Nat /\ D # {}
  <2>1. \A x \in S : x - lo \in Nat /\ hi - x \in Nat
    OBVIOUS
  <2>. QED
    BY <1>1, <2>1
<1>3. PICK u \in U : \A y \in U : u <= y
  BY <1>2, LeastNumber
<1>4. PICK d \in D : \A y \in D : d <= y
  BY <1>2, LeastNumber
<1>5. PICK x \in S : u = x - lo
  BY <1>1
<1>6. PICK z \in S : d = hi - z
  BY <1>1
<1>7. \A y \in S : x <= y
  <2>1. ASSUME NEW y \in S PROVE x <= y
    <3>1. y - lo \in U
      BY <1>1
    <3>2. x - lo <= y - lo
      BY <1>3, <1>5, <3>1
    <3>. QED
      BY <3>2
  <2>. QED
    BY <2>1
<1>8. \A y \in S : y <= z
  <2>1. ASSUME NEW y \in S PROVE y <= z
    <3>1. hi - y \in D
      BY <1>1
    <3>2. hi - z <= hi - y
      BY <1>4, <1>6, <3>1
    <3>. QED
      BY <3>2
  <2>. QED
    BY <2>1
<1>9. \E m \in S : \A y \in S : m <= y
  BY <1>7
<1>10. \E m \in S : \A y \in S : m >= y
  BY <1>8
<1>11. Min(S) \in S /\ \A y \in S : Min(S) <= y
  BY <1>9 DEF Min
<1>12. Max(S) \in S /\ \A y \in S : Max(S) >= y
  BY <1>10 DEF Max
<1>. QED
  BY <1>11, <1>12

(***************************************************************************)
(* The manual order.                                                       *)
(***************************************************************************)

Rowed == row \in [Records -> Row]

LEMMA Total ==
  ASSUME Rowed, NEW r \in Records, NEW s \in Records
  PROVE  /\ row[r].position \in Int /\ r \in Nat /\ s \in Nat
         /\ ~Precedes(r, r) /\ (Precedes(r, s) => ~Precedes(s, r)) /\ (r = s \/ Precedes(r, s) \/ Precedes(s, r))
         /\ \A t \in Records : Precedes(r, s) /\ Precedes(s, t) => Precedes(r, t)
  BY OrderAssumption DEF Rowed, Row, Precedes, Before, Key

\* Of some Records one comes first.
LEMMA FirstOf ==
  ASSUME Rowed, NEW rs \in SUBSET Records, rs # {}
  PROVE  \E r \in rs : \A s \in rs \ {r} : Precedes(r, s)
<1>. DEFINE Ahead(r) == {s \in rs : Precedes(s, r)}
            Sizes == {Cardinality(Ahead(r)) : r \in rs}
<1>1. IsFiniteSet(rs)
  BY OrderAssumption, FS_Subset
<1>2. ASSUME NEW r \in rs PROVE IsFiniteSet(Ahead(r)) /\ Cardinality(Ahead(r)) \in Nat
  <2>1. Ahead(r) \in SUBSET rs
    OBVIOUS
  <2>2. PICK A : A = Ahead(r)
    OBVIOUS
  <2>3. IsFiniteSet(A)
    BY <1>1, <2>1, <2>2, FS_Subset
  <2>. QED
    BY <2>2, <2>3, FS_CardinalityType
<1>3. PICK n \in Sizes : \A m \in Sizes : n <= m
  <2>1. Sizes \in SUBSET Nat /\ Sizes # {}
    BY <1>2
  <2>. HIDE DEF Sizes
  <2>. QED
    BY <2>1, LeastNumber
<1>4. PICK r \in rs : n = Cardinality(Ahead(r))
  OBVIOUS
<1>5. ASSUME NEW t \in rs, Precedes(t, r) PROVE FALSE
  <2>1. PICK A, B : A = Ahead(t) /\ B = Ahead(r)
    OBVIOUS
  <2>2. A \subseteq B /\ t \in B /\ t \notin A
    BY <1>5, <2>1, Total
  <2>3. IsFiniteSet(B) /\ IsFiniteSet(A) /\ Cardinality(A) \in Nat /\ Cardinality(B) \in Nat
    BY <1>2, <2>1
  <2>4. Cardinality(A) <= Cardinality(B) /\ (Cardinality(A) = Cardinality(B) => A = B)
    BY <2>2, <2>3, FS_Subset
  <2>5. Cardinality(B) <= Cardinality(A)
    BY <1>3, <1>4, <2>1
  <2>. QED
    BY <2>2, <2>3, <2>4, <2>5
<1>6. \A s \in rs \ {r} : Precedes(r, s)
  BY <1>5, Total
<1>. QED
  BY <1>6

Ordered(q) == \A i, j \in DOMAIN q : i < j => Precedes(q[i], q[j])

Members(q) == {q[i] : i \in DOMAIN q}

\* Some Records can be listed in the manual order.
LEMMA OrderExists ==
  ASSUME Rowed, NEW rs \in SUBSET Records
  PROVE  \E q \in [1 .. Cardinality(rs) -> rs] : Ordered(q)
<1>. DEFINE Good(n) == \A T \in SUBSET Records : Cardinality(T) = n => \E q \in [1 .. n -> T] : Ordered(q)
            Sizes == {n \in Nat : Good(n)}
<1>0. \A T \in SUBSET Records : IsFiniteSet(T) /\ Cardinality(T) \in Nat
  BY OrderAssumption, FS_Subset, FS_CardinalityType
<1>1. 0 \in Sizes
  <2>1. ASSUME NEW T \in SUBSET Records, Cardinality(T) = 0
        PROVE  \E q \in [1 .. 0 -> T] : Ordered(q)
    <3>1. PICK q : q = [i \in 1 .. 0 |-> 0]
      OBVIOUS
    <3>2. q \in [1 .. 0 -> T] /\ Ordered(q)
      BY <3>1 DEF Ordered
    <3>. QED
      BY <3>2
  <2>. QED
    BY <2>1
<1>2. ASSUME NEW n \in Sizes PROVE n + 1 \in Sizes
  <2>1. ASSUME NEW T \in SUBSET Records, Cardinality(T) = n + 1
        PROVE  \E q \in [1 .. n + 1 -> T] : Ordered(q)
    <3>1. T # {}
      BY <2>1, FS_EmptySet
    <3>2. PICK m \in T : \A y \in T \ {m} : Precedes(m, y)
      BY <3>1, FirstOf
    <3>3. PICK U : U = T \ {m}
      OBVIOUS
    <3>4. U \in SUBSET Records /\ Cardinality(U) = n
      BY <1>0, <2>1, <3>2, <3>3, FS_RemoveElement
    <3>5. PICK p \in [1 .. n -> U] : Ordered(p)
      BY <3>4
    <3>6. PICK q : q = [i \in 1 .. n + 1 |-> IF i = 1 THEN m ELSE p[i - 1]]
      OBVIOUS
    <3>7. q \in [1 .. n + 1 -> T]
      <4>1. ASSUME NEW i \in 1 .. n + 1, i # 1 PROVE p[i - 1] \in T
        <5>1. i - 1 \in 1 .. n
          BY <4>1
        <5>. QED
          BY <3>3, <3>5, <5>1
      <4>. QED
        BY <3>2, <3>6, <4>1
    <3>8. Ordered(q)
      <4>1. ASSUME NEW i \in 1 .. n + 1, NEW j \in 1 .. n + 1, i < j PROVE Precedes(q[i], q[j])
        <5>1. j - 1 \in 1 .. n /\ q[j] = p[j - 1] /\ p[j - 1] \in U
          BY <3>5, <3>6, <4>1
        <5>2. CASE i = 1
          BY <5>1, <5>2, <3>2, <3>3, <3>6
        <5>3. CASE i # 1
          <6>1. i - 1 \in 1 .. n /\ q[i] = p[i - 1] /\ i - 1 < j - 1
            BY <3>6, <4>1, <5>3
          <6>. QED
            BY <5>1, <6>1, <3>5 DEF Ordered
        <5>. QED
          BY <5>2, <5>3
      <4>. QED
        BY <4>1, <3>7 DEF Ordered
    <3>. QED
      BY <3>7, <3>8
  <2>. QED
    BY <2>1
<1>3. Sizes = Nat
  <2>1. Sizes \in SUBSET Nat
    OBVIOUS
  <2>. HIDE DEF Sizes
  <2>. QED
    BY <1>1, <1>2, <2>1, AllNumbers
<1>4. Cardinality(rs) \in Sizes
  BY <1>0, <1>3
<1>. QED
  BY <1>4

\* What the rows of a page are taken from: all of them, in order.
LEMMA InOrderLists ==
  ASSUME Rowed, NEW rs \in SUBSET Records
  PROVE  /\ InOrder(rs) \in [1 .. Cardinality(rs) -> rs] /\ Cardinality(rs) \in Nat
         /\ Ordered(InOrder(rs)) /\ Members(InOrder(rs)) = rs
<1>1. PICK q : q = InOrder(rs)
  OBVIOUS
<1>2. IsFiniteSet(rs) /\ Cardinality(rs) \in Nat
  BY OrderAssumption, FS_Subset, FS_CardinalityType
<1>3. PICK n \in Nat : n = Cardinality(rs)
  BY <1>2
<1>4. q \in [1 .. n -> rs] /\ Ordered(q)
  <2>1. \E p \in [1 .. n -> rs] : \A i, j \in DOMAIN p : i < j => Precedes(p[i], p[j])
    BY <1>3, OrderExists DEF Ordered
  <2>. QED
    BY <1>1, <1>3, <2>1 DEF InOrder, Ordered
<1>5. PICK T : T = Members(q)
  OBVIOUS
<1>6. T \in SUBSET rs /\ q \in [1 .. n -> T]
  BY <1>4, <1>5 DEF Members
<1>7. IsInjective(q)
  <2>1. ASSUME NEW i \in 1 .. n, NEW j \in 1 .. n, q[i] = q[j] PROVE i = j
    <3>1. q[i] \in Records /\ q[j] \in Records
      BY <1>4
    <3>2. ~(i < j) /\ ~(j < i)
      BY <1>4, <2>1, <3>1, Total DEF Ordered
    <3>. QED
      BY <3>2
  <2>. QED
    BY <1>4, <2>1 DEF IsInjective
<1>8. q \in Bijection(1 .. n, T)
  <2>1. \A x \in T : \E i \in 1 .. n : q[i] = x
    BY <1>4, <1>5 DEF Members
  <2>. QED
    BY <1>6, <1>7, <2>1 DEF Bijection, Injection, Surjection
<1>9. Cardinality(T) = n
  <2>1. IsFiniteSet(1 .. n) /\ Cardinality(1 .. n) = n
    BY FS_Interval
  <2>2. ExistsBijection(1 .. n, T)
    BY <1>8 DEF ExistsBijection
  <2>. QED
    BY <2>1, <2>2, FS_Bijection
<1>10. T = rs
  BY <1>2, <1>3, <1>6, <1>9, FS_Subset
<1>. QED
  BY <1>1, <1>2, <1>3, <1>4, <1>5, <1>10

(***************************************************************************)
(* Positions.                                                              *)
(***************************************************************************)

Lowest == -(Step * Len(log))
Highest == Step * (Cardinality(Records) + Len(log))

\* Rows, and positions that stay where numbers are dense.
Placed ==
  /\ Rowed /\ log \in Seq(Records) /\ last \in Request
  /\ Positions(Stored) \subseteq Lowest .. Highest

\* The mean lies between two numbers, and is neither if there is one between them.
LEMMA MidBetween ==
  ASSUME NEW a \in Int, NEW b \in Int, a < b
  PROVE  /\ Mid(a, b) \in Int /\ a <= Mid(a, b) /\ Mid(a, b) <= b
         /\ a + 1 < b => a < Mid(a, b) /\ Mid(a, b) < b
<1>1. PICK m, e : m = (a + b) \div 2 /\ e = (a + b) % 2
  OBVIOUS
<1>2. m \in Int /\ e \in 0 .. 1 /\ a + b = 2 * m + e
  BY <1>1
<1>3. Mid(a, b) = IF e = 0 \/ m % 2 = 0 THEN m ELSE m + 1
  BY <1>1 DEF Mid
<1>4. CASE e = 0
  BY <1>2, <1>3, <1>4
<1>5. CASE e = 1
  <2>1. Mid(a, b) = m \/ Mid(a, b) = m + 1
    BY <1>3
  <2>. QED
    BY <1>2, <1>5, <2>1
<1>. QED
  BY <1>2, <1>4, <1>5

LEMMA RangeHolds ==
  ASSUME Placed
  PROVE  /\ Step \in Nat /\ Step > 1
         /\ Lowest \in Int /\ Highest \in Int /\ Lowest <= 0 /\ 0 <= Highest
         /\ Live \in SUBSET Records /\ Stored \in SUBSET Records /\ Live \subseteq Stored
         /\ \A s \in Stored : row[s].position \in Lowest .. Highest
<1>1. Step \in Nat /\ Step > 1
  BY OrderAssumption
<1>2. PICK n \in Nat : n = Len(log)
  BY DEF Placed
<1>3. PICK k \in Nat : k = Cardinality(Records)
  BY OrderAssumption, FS_CardinalityType
<1>4. PICK a : a = Step * n
  OBVIOUS
<1>5. a \in Nat
  BY <1>1, <1>2, <1>4
<1>6. PICK c : c = Step * (k + n)
  OBVIOUS
<1>7. c \in Nat
  BY <1>1, <1>2, <1>3, <1>6
<1>8. Lowest = -a /\ Highest = c
  BY <1>2, <1>3, <1>4, <1>6 DEF Lowest, Highest
<1>9. \A s \in Stored : row[s].position \in Lowest .. Highest
  BY DEF Placed, Positions
<1>. QED
  BY <1>1, <1>5, <1>7, <1>8, <1>9 DEF Live, Stored

\* Every Change widens the range by one step.
LEMMA Widened ==
  ASSUME Placed, NEW r \in Records, log' = Append(log, r)
  PROVE  /\ log' \in Seq(Records) /\ Len(log') = Len(log) + 1
         /\ Lowest' = Lowest - Step /\ Highest' = Highest + Step
<1>1. Step \in Nat
  BY OrderAssumption
<1>2. PICK n \in Nat : n = Len(log)
  BY DEF Placed
<1>3. PICK k \in Nat : k = Cardinality(Records)
  BY OrderAssumption, FS_CardinalityType
<1>4. log' \in Seq(Records) /\ Len(log') = n + 1
  BY <1>2 DEF Placed
<1>5. Step * (n + 1) = Step * n + Step /\ Step * (k + (n + 1)) = Step * (k + n) + Step
  BY <1>1
<1>6. Step * n \in Nat /\ Step * (k + n) \in Nat
  BY <1>1
<1>7. Lowest' = -(Step * (n + 1)) /\ Highest' = Step * (k + (n + 1))
  BY <1>3, <1>4 DEF Lowest, Highest
<1>8. Lowest = -(Step * n) /\ Highest = Step * (k + n)
  BY <1>2, <1>3 DEF Lowest, Highest
<1>. QED
  BY <1>1, <1>2, <1>4, <1>5, <1>6, <1>7, <1>8

LEMMA WriteKeeps ==
  ASSUME Placed, NEW r \in Records, NEW new \in Row, NEW request \in Request, Write(r, new, request),
         Lowest - Step <= new.position, new.position <= Highest + Step
  PROVE  Placed'
<1>1. /\ row' = [row EXCEPT ![r] = new] /\ log' = Append(log, r) /\ last' = request
      /\ row \in [Records -> Row]
  BY DEF Write, Placed, Rowed
<1>2. /\ log' \in Seq(Records) /\ Lowest' = Lowest - Step /\ Highest' = Highest + Step
  BY <1>1, Widened
<1>3. Lowest \in Int /\ Highest \in Int /\ Step \in Nat
      /\ \A s \in Stored : row[s].position \in Lowest .. Highest
  BY RangeHolds
<1>4. new.position \in Int
  BY DEF Row
<1>5. row' \in [Records -> Row]
  BY <1>1
<1>6. ASSUME NEW s \in Stored' PROVE row'[s].position \in Lowest' .. Highest'
  <2>1. CASE s = r
    <3>1. row'[s] = new
      BY <1>1, <2>1
    <3>. QED
      BY <1>2, <1>3, <1>4, <3>1
  <2>2. CASE s # r
    <3>1. s \in Stored /\ row'[s] = row[s]
      BY <1>1, <2>2 DEF Stored
    <3>2. row[s].position \in Int
      BY <1>3, <3>1
    <3>. QED
      BY <1>2, <1>3, <3>1, <3>2
  <2>. QED
    BY <2>1, <2>2
<1>7. Positions(Stored)' \subseteq Lowest' .. Highest'
  BY <1>6 DEF Positions
<1>. QED
  BY <1>1, <1>2, <1>5, <1>7 DEF Placed, Rowed

\* The positions of some Records are bounded, so that one is greatest and one least.
LEMMA PositionsOf ==
  ASSUME Placed, NEW rs, rs \subseteq Stored, rs # {}
  PROVE  /\ Max(Positions(rs)) \in Lowest .. Highest /\ Min(Positions(rs)) \in Lowest .. Highest
         /\ \A s \in rs : row[s].position <= Max(Positions(rs)) /\ Min(Positions(rs)) <= row[s].position
         /\ \E s \in rs : row[s].position = Max(Positions(rs))
         /\ \E s \in rs : row[s].position = Min(Positions(rs))
<1>1. PICK lo \in Int, hi \in Int : lo = Lowest /\ hi = Highest
  BY RangeHolds
<1>2. \A s \in rs : row[s].position \in Int /\ row[s].position \in lo .. hi
  BY <1>1, RangeHolds
<1>3. PICK S : S = Positions(rs)
  OBVIOUS
<1>4. S \in SUBSET Int /\ S # {} /\ S \subseteq lo .. hi
  BY <1>2, <1>3 DEF Positions
<1>5. /\ Min(S) \in S /\ \A y \in S : Min(S) <= y
      /\ Max(S) \in S /\ \A y \in S : y <= Max(S)
  BY <1>4, Extremes
<1>6. \A x \in S : x \in lo .. hi /\ \E s \in rs : row[s].position = x
  BY <1>3, <1>4 DEF Positions
<1>7. \A s \in rs : row[s].position \in S
  BY <1>3 DEF Positions
<1>. QED
  BY <1>1, <1>3, <1>5, <1>6, <1>7

LEMMA AppendPosition ==
  ASSUME Placed
  PROVE  /\ LastPosition \in Int /\ Lowest - Step <= LastPosition /\ LastPosition <= Highest + Step
         /\ \A s \in Stored : row[s].position < LastPosition
<1>1. /\ Step \in Nat /\ Step > 1 /\ Lowest \in Int /\ Highest \in Int /\ Lowest <= 0 /\ 0 <= Highest
      /\ \A s \in Stored : row[s].position \in Int
  BY RangeHolds
<1>2. CASE Stored = {}
  BY <1>1, <1>2 DEF LastPosition
<1>3. CASE Stored # {}
  <2>1. PICK m : m = Max(Positions(Stored))
    OBVIOUS
  <2>2. m \in Lowest .. Highest /\ \A s \in Stored : row[s].position <= m
    BY <1>3, <2>1, PositionsOf
  <2>3. LastPosition = m + Step
    BY <1>3, <2>1 DEF LastPosition
  <2>. QED
    BY <1>1, <2>2, <2>3
<1>. QED
  BY <1>2, <1>3

LEMMA TailPosition ==
  ASSUME Placed, NEW r \in Live, NEW p, p = moveTargetPosition(r, None, None)
  PROVE  /\ p \in Int /\ Lowest - Step <= p /\ p <= Highest + Step
         /\ \A s \in Live : row[s].position < p
<1>1. /\ Step \in Nat /\ Step > 1 /\ Lowest \in Int /\ Highest \in Int /\ Live \subseteq Stored
      /\ \A s \in Stored : row[s].position \in Int
  BY RangeHolds
<1>2. PICK m : m = Max(Positions(Live))
  OBVIOUS
<1>3. m \in Lowest .. Highest /\ \A s \in Live : row[s].position <= m
  <2>1. Live # {}
    OBVIOUS
  <2>. QED
    BY <1>1, <1>2, <2>1, PositionsOf
<1>4. p = m + Step
  BY <1>2 DEF moveTargetPosition
<1>. QED
  BY <1>1, <1>3, <1>4

\* A place before another Record, and what is next to it on the other side.
LEMMA BeforePlace ==
  ASSUME Placed, NEW r \in Live, NEW before \in Live, NEW p, p = row[before].position,
         NEW m, m = BeforePosition(r, before)
  PROVE  \E q \in Int : /\ Lowest - Step <= q /\ q < p /\ m \in Int /\ q <= m /\ m <= p
                        /\ q + 1 < p => q < m /\ m < p
                        /\ \A o \in Live \ {r} : row[o].position < p => row[o].position <= q
                        /\ q = p - Step \/ \E o \in Live \ {r} : row[o].position = q
<1>1. /\ Step \in Nat /\ Step > 1 /\ Lowest \in Int /\ Highest \in Int /\ Live \subseteq Stored
      /\ \A s \in Stored : row[s].position \in Int /\ row[s].position \in Lowest .. Highest
  BY RangeHolds
<1>2. p \in Int /\ Lowest <= p
  BY <1>1
<1>3. PICK rs : rs = {o \in Live \ {r} : row[o].position < p}
  OBVIOUS
<1>4. Positions(rs) = Lower(r, p)
  BY <1>3 DEF Positions, Lower
<1>5. PICK q : q = IF Lower(r, p) = {} THEN p - Step ELSE Max(Lower(r, p))
  OBVIOUS
<1>6. m = Mid(q, p)
  BY <1>5 DEF BeforePosition
<1>7. /\ q \in Int /\ q < p /\ Lowest - Step <= q
      /\ \A o \in rs : row[o].position <= q
      /\ q = p - Step \/ \E o \in rs : row[o].position = q
  <2>1. CASE rs = {}
    <3>1. Lower(r, p) = {}
      BY <1>4, <2>1 DEF Positions
    <3>2. q = p - Step
      BY <1>5, <3>1
    <3>. QED
      BY <1>1, <1>2, <2>1, <3>2
  <2>2. CASE rs # {}
    <3>1. Lower(r, p) # {}
      BY <1>4, <2>2 DEF Positions
    <3>2. rs \subseteq Stored
      BY <1>1, <1>3
    <3>3. /\ Max(Positions(rs)) \in Lowest .. Highest
          /\ \A s \in rs : row[s].position <= Max(Positions(rs))
          /\ \E s \in rs : row[s].position = Max(Positions(rs))
      BY <2>2, <3>2, PositionsOf
    <3>4. q = Max(Positions(rs))
      BY <1>4, <1>5, <3>1
    <3>5. PICK s \in rs : row[s].position = q
      BY <3>3, <3>4
    <3>6. q < p
      BY <1>3, <3>5
    <3>7. q \in Int /\ Lowest <= q /\ q <= Highest
      BY <1>1, <3>3, <3>4
    <3>8. Lowest - Step <= q /\ q <= Highest + Step
      BY <1>1, <3>7
    <3>. QED
      BY <3>3, <3>4, <3>5, <3>6, <3>7, <3>8
  <2>. QED
    BY <2>1, <2>2
<1>8. m \in Int /\ q <= m /\ m <= p /\ (q + 1 < p => q < m /\ m < p)
  BY <1>2, <1>6, <1>7, MidBetween
<1>. QED
  BY <1>3, <1>7, <1>8

\* A place after another Record.
LEMMA AfterPlace ==
  ASSUME Placed, NEW r \in Live, NEW after \in Live, NEW p, p = row[after].position,
         NEW m, m = AfterPosition(r, after)
  PROVE  \E q \in Int : /\ q <= Highest + Step /\ p < q /\ m \in Int /\ p <= m /\ m <= q
                        /\ p + 1 < q => p < m /\ m < q
                        /\ \A o \in Live \ {r} : p < row[o].position => q <= row[o].position
                        /\ q = p + Step \/ \E o \in Live \ {r} : row[o].position = q
<1>1. /\ Step \in Nat /\ Step > 1 /\ Lowest \in Int /\ Highest \in Int /\ Live \subseteq Stored
      /\ \A s \in Stored : row[s].position \in Int /\ row[s].position \in Lowest .. Highest
  BY RangeHolds
<1>2. p \in Int /\ p <= Highest
  BY <1>1
<1>3. PICK rs : rs = {o \in Live \ {r} : row[o].position > p}
  OBVIOUS
<1>4. Positions(rs) = Upper(r, p)
  BY <1>3 DEF Positions, Upper
<1>5. PICK q : q = IF Upper(r, p) = {} THEN p + Step ELSE Min(Upper(r, p))
  OBVIOUS
<1>6. m = Mid(p, q)
  BY <1>5 DEF AfterPosition
<1>7. /\ q \in Int /\ p < q /\ q <= Highest + Step
      /\ \A o \in rs : q <= row[o].position
      /\ q = p + Step \/ \E o \in rs : row[o].position = q
  <2>1. CASE rs = {}
    <3>1. Upper(r, p) = {}
      BY <1>4, <2>1 DEF Positions
    <3>2. q = p + Step
      BY <1>5, <3>1
    <3>. QED
      BY <1>1, <1>2, <2>1, <3>2
  <2>2. CASE rs # {}
    <3>1. Upper(r, p) # {}
      BY <1>4, <2>2 DEF Positions
    <3>2. rs \subseteq Stored
      BY <1>1, <1>3
    <3>3. /\ Min(Positions(rs)) \in Lowest .. Highest
          /\ \A s \in rs : Min(Positions(rs)) <= row[s].position
          /\ \E s \in rs : row[s].position = Min(Positions(rs))
      BY <2>2, <3>2, PositionsOf
    <3>4. q = Min(Positions(rs))
      BY <1>4, <1>5, <3>1
    <3>5. PICK s \in rs : row[s].position = q
      BY <3>3, <3>4
    <3>6. p < q
      BY <1>3, <3>5
    <3>7. q \in Int /\ Lowest <= q /\ q <= Highest
      BY <1>1, <3>3, <3>4
    <3>8. Lowest - Step <= q /\ q <= Highest + Step
      BY <1>1, <3>7
    <3>. QED
      BY <3>3, <3>4, <3>5, <3>6, <3>7, <3>8
  <2>. QED
    BY <2>1, <2>2
<1>8. m \in Int /\ p <= m /\ m <= q /\ (p + 1 < q => p < m /\ m < q)
  BY <1>2, <1>6, <1>7, MidBetween
<1>. QED
  BY <1>3, <1>7, <1>8

(***************************************************************************)
(* Where a Record is placed.                                               *)
(***************************************************************************)

LEMMA AppendPlaces ==
  ASSUME Placed, NEW r \in Records, Appended(r)
  PROVE  Placed' /\ PlacedAsAsked'
<1>1. PICK p : p = LastPosition
  OBVIOUS
<1>2. PICK new : new = [state |-> "live", position |-> p, revision |-> 1]
  OBVIOUS
<1>3. PICK request : request = [op |-> "append", record |-> r, before |-> None, after |-> None]
  OBVIOUS
<1>4. row[r].state = "none" /\ Write(r, new, request)
  BY <1>1, <1>2, <1>3 DEF Appended
<1>5. /\ p \in Int /\ Lowest - Step <= p /\ p <= Highest + Step
      /\ \A s \in Stored : row[s].position < p
  BY <1>1, AppendPosition
<1>6. new \in Row /\ request \in Request
  BY <1>2, <1>3, <1>5 DEF Row, Request
<1>7. new.position = p
  BY <1>2
<1>8. Placed'
  BY <1>4, <1>5, <1>6, <1>7, WriteKeeps
<1>9. /\ row' = [row EXCEPT ![r] = new] /\ last' = request /\ row \in [Records -> Row]
  BY <1>4 DEF Write, Placed, Rowed
<1>10. row'[r] = new
  BY <1>9
<1>11. ASSUME NEW s \in Live', s # r PROVE Precedes(s, r)'
  <2>1. row'[s] = row[s] /\ s \in Stored
    BY <1>9, <1>11 DEF Live, Stored
  <2>2. row'[s].position < row'[r].position
    BY <1>5, <1>7, <1>10, <2>1
  <2>. QED
    BY <2>2 DEF Precedes, Before, Key
<1>12. last'.record = r /\ last'.before = None /\ last'.after = None
  BY <1>3, <1>9
<1>13. PlacedAsAsked'
  BY <1>11, <1>12 DEF PlacedAsAsked, AsAsked, Others
<1>. QED
  BY <1>8, <1>13

\* What a move changes, and what the hypotheses of PlacedAsAsked then say.
LEMMA MoveFrame ==
  ASSUME Placed, NEW r \in Live, NEW before \in Records \cup {None}, NEW after \in Records \cup {None},
         MoveRecord(r, before, after), NEW m \in Int, m = moveTargetPosition(r, before, after)
  PROVE  /\ (Lowest - Step <= m /\ m <= Highest + Step => Placed')
         /\ Live' = Live /\ row'[r].position = m
         /\ \A s \in Live \ {r} : row'[s].position = row[s].position /\ row[s].position \in Int
         /\ last'.record = r /\ last'.before = before /\ last'.after = after
         /\ Distinct' => \A s, t \in Live \ {r} : s # t => row[s].position # row[t].position
         /\ Room' => \A s, t \in Live \ {r} :
                       row[s].position < row[t].position => row[s].position + 1 < row[t].position
<1>1. PICK new : new = [row[r] EXCEPT !.position = m]
  OBVIOUS
<1>2. PICK request : request = [op |-> "move", record |-> r, before |-> before, after |-> after]
  OBVIOUS
<1>3. Write(r, new, request)
  BY <1>1, <1>2 DEF MoveRecord
<1>4. row \in [Records -> Row] /\ r \in Records
  BY DEF Placed, Rowed, Live
<1>5. new \in Row /\ new.position = m /\ new.state = row[r].state
  <2>1. row[r] \in Row
    BY <1>4
  <2>. QED
    BY <1>1, <2>1 DEF Row
<1>6. request \in Request /\ request.record = r /\ request.before = before /\ request.after = after
  BY <1>2, <1>4 DEF Request
<1>7. row' = [row EXCEPT ![r] = new] /\ last' = request
  BY <1>3 DEF Write
<1>8. row'[r] = new /\ \A s \in Records \ {r} : row'[s] = row[s]
  BY <1>4, <1>7
<1>9. Live' = Live
  BY <1>4, <1>5, <1>8 DEF Live
<1>10. \A s \in Live \ {r} : row'[s] = row[s] /\ row[s].position \in Int
  BY <1>4, <1>8 DEF Live, Row
<1>11. Others' = Live \ {r}
  BY <1>6, <1>7, <1>9 DEF Others
<1>12. Distinct' => \A s, t \in Live \ {r} : s # t => row[s].position # row[t].position
  BY <1>10, <1>11 DEF Distinct
<1>13. Room' => \A s, t \in Live \ {r} :
                  row[s].position < row[t].position => row[s].position + 1 < row[t].position
  <2>1. \A s \in Live \ {r} : row[s].position \in Positions(Others)'
    BY <1>10, <1>11 DEF Positions
  <2>. QED
    BY <2>1 DEF Room
<1>14. Lowest - Step <= m /\ m <= Highest + Step => Placed'
  BY <1>3, <1>4, <1>5, <1>6, WriteKeeps
<1>. QED
  BY <1>5, <1>6, <1>7, <1>8, <1>9, <1>10, <1>12, <1>13, <1>14

LEMMA MoveToTail ==
  ASSUME Placed, NEW r \in Records, MoveRecord(r, None, None)
  PROVE  Placed' /\ PlacedAsAsked'
<1>1. r \in Live
  BY DEF MoveRecord
<1>2. PICK m : m = moveTargetPosition(r, None, None)
  OBVIOUS
<1>3. m \in Int /\ Lowest - Step <= m /\ m <= Highest + Step /\ \A s \in Live : row[s].position < m
  BY <1>1, <1>2, TailPosition
<1>4. PICK none \in Records \cup {None} : none = None
  OBVIOUS
<1>5. /\ Placed'
      /\ Live' = Live /\ row'[r].position = m
      /\ \A s \in Live \ {r} : row'[s].position = row[s].position
      /\ last'.record = r /\ last'.before = None /\ last'.after = None
  BY <1>1, <1>2, <1>3, <1>4, MoveFrame
<1>6. ASSUME NEW s \in Live \ {r} PROVE Precedes(s, r)'
  <2>1. row'[s].position < row'[r].position
    BY <1>3, <1>5
  <2>. QED
    BY <2>1 DEF Precedes, Before, Key
<1>7. Others' = Live \ {r}
  BY <1>5 DEF Others
<1>8. AsAsked'
  BY <1>5, <1>6, <1>7 DEF AsAsked
<1>. QED
  BY <1>5, <1>8 DEF PlacedAsAsked

LEMMA MoveBetween ==
  ASSUME Placed, NEW r \in Records, NEW before \in Records, NEW after \in Records, MoveRecord(r, before, after)
  PROVE  Placed' /\ PlacedAsAsked'
<1>1. /\ r \in Live /\ before \in Live \ {r} /\ after \in Live \ {r}
      /\ row[after].position < row[before].position /\ before # None /\ after # None
  BY OrderAssumption DEF MoveRecord
<1>2. /\ Step \in Nat /\ Lowest \in Int /\ Highest \in Int
      /\ row[before].position \in Int /\ row[before].position <= Highest
      /\ row[after].position \in Int /\ Lowest <= row[after].position
  BY <1>1, RangeHolds
<1>3. PICK m : m = moveTargetPosition(r, before, after)
  OBVIOUS
<1>4. PICK a \in Int, b \in Int : a = row[after].position /\ b = row[before].position
  BY <1>2
<1>5. m = Mid(a, b)
  BY <1>1, <1>3, <1>4 DEF moveTargetPosition
<1>6. m \in Int /\ a <= m /\ m <= b /\ (a + 1 < b => a < m /\ m < b)
  BY <1>1, <1>4, <1>5, MidBetween
<1>7. Lowest - Step <= m /\ m <= Highest + Step
  BY <1>2, <1>4, <1>6
<1>8. /\ Placed'
      /\ Live' = Live /\ row'[r].position = m
      /\ \A s \in Live \ {r} : row'[s].position = row[s].position
      /\ last'.record = r /\ last'.before = before /\ last'.after = after
      /\ Room' => \A s, t \in Live \ {r} :
                    row[s].position < row[t].position => row[s].position + 1 < row[t].position
  BY <1>1, <1>3, <1>6, <1>7, MoveFrame
<1>9. ASSUME Room' PROVE AsAsked'
  <2>1. a < m /\ m < b
    BY <1>1, <1>4, <1>6, <1>8, <1>9
  <2>2. row'[after].position < row'[r].position /\ row'[r].position < row'[before].position
    BY <1>1, <1>4, <1>8, <2>1
  <2>3. Precedes(after, r)' /\ Precedes(r, before)'
    BY <2>2 DEF Precedes, Before, Key
  <2>. QED
    BY <1>1, <1>8, <2>3 DEF AsAsked, Between
<1>. QED
  BY <1>8, <1>9 DEF PlacedAsAsked

LEMMA MoveBefore ==
  ASSUME Placed, NEW r \in Records, NEW before \in Records, MoveRecord(r, before, None)
  PROVE  Placed' /\ PlacedAsAsked'
<1>1. r \in Live /\ before \in Live \ {r} /\ before # None
  BY OrderAssumption DEF MoveRecord
<1>2. /\ Step \in Nat /\ Step > 1 /\ Lowest \in Int /\ Highest \in Int
      /\ row[before].position \in Int /\ row[before].position <= Highest /\ Lowest <= row[before].position
  BY <1>1, RangeHolds
<1>3. PICK m : m = BeforePosition(r, before)
  OBVIOUS
<1>4. PICK p \in Int : p = row[before].position
  BY <1>2
<1>5. m = moveTargetPosition(r, before, None)
  BY <1>1, <1>3 DEF moveTargetPosition
<1>6. PICK q \in Int :
        /\ Lowest - Step <= q /\ q < p /\ m \in Int /\ q <= m /\ m <= p
        /\ q + 1 < p => q < m /\ m < p
        /\ \A o \in Live \ {r} : row[o].position < p => row[o].position <= q
        /\ q = p - Step \/ \E o \in Live \ {r} : row[o].position = q
  BY <1>1, <1>3, <1>4, BeforePlace
<1>7. Lowest - Step <= m /\ m <= Highest + Step
  BY <1>2, <1>4, <1>6
<1>8. PICK none \in Records \cup {None} : none = None
  OBVIOUS
<1>9. /\ Placed'
      /\ Live' = Live /\ row'[r].position = m
      /\ \A s \in Live \ {r} : row'[s].position = row[s].position /\ row[s].position \in Int
      /\ last'.record = r /\ last'.before = before /\ last'.after = None
      /\ Distinct' => \A s, t \in Live \ {r} : s # t => row[s].position # row[t].position
      /\ Room' => \A s, t \in Live \ {r} :
                    row[s].position < row[t].position => row[s].position + 1 < row[t].position
  BY <1>1, <1>5, <1>6, <1>7, <1>8, MoveFrame
<1>10. ASSUME Distinct', Room' PROVE AsAsked'
  <2>1. q + 1 < p
    BY <1>1, <1>2, <1>4, <1>6, <1>9, <1>10
  <2>2. q < m /\ m < p
    BY <1>6, <2>1
  <2>3. Precedes(r, before)'
    <3>1. row'[r].position < row'[before].position
      BY <1>1, <1>4, <1>9, <2>2
    <3>. QED
      BY <3>1 DEF Precedes, Before, Key
  <2>4. ASSUME NEW o \in Live \ {r, before}, Precedes(r, o)', Precedes(o, before)' PROVE FALSE
    <3>1. row'[o].position = row[o].position /\ row[o].position \in Int /\ row[o].position # p
      BY <1>1, <1>4, <1>9, <1>10
    <3>2. row'[r].position = m /\ row'[before].position = p
      BY <1>1, <1>4, <1>9
    <3>3. m <= row[o].position /\ row[o].position < p
      BY <1>6, <2>4, <3>1, <3>2 DEF Precedes, Before, Key
    <3>4. row[o].position <= q
      BY <1>6, <3>1, <3>3
    <3>. QED
      BY <1>6, <2>2, <3>1, <3>3, <3>4
  <2>5. Adjacent(r, before)'
    BY <1>9, <2>3, <2>4 DEF Adjacent
  <2>. QED
    BY <1>1, <1>9, <2>5 DEF AsAsked
<1>. QED
  BY <1>9, <1>10 DEF PlacedAsAsked

LEMMA MoveAfter ==
  ASSUME Placed, NEW r \in Records, NEW after \in Records, MoveRecord(r, None, after)
  PROVE  Placed' /\ PlacedAsAsked'
<1>1. r \in Live /\ after \in Live \ {r} /\ after # None
  BY OrderAssumption DEF MoveRecord
<1>2. /\ Step \in Nat /\ Step > 1 /\ Lowest \in Int /\ Highest \in Int
      /\ row[after].position \in Int /\ row[after].position <= Highest /\ Lowest <= row[after].position
  BY <1>1, RangeHolds
<1>3. PICK m : m = AfterPosition(r, after)
  OBVIOUS
<1>4. PICK p \in Int : p = row[after].position
  BY <1>2
<1>5. m = moveTargetPosition(r, None, after)
  BY <1>1, <1>3 DEF moveTargetPosition
<1>6. PICK q \in Int :
        /\ q <= Highest + Step /\ p < q /\ m \in Int /\ p <= m /\ m <= q
        /\ p + 1 < q => p < m /\ m < q
        /\ \A o \in Live \ {r} : p < row[o].position => q <= row[o].position
        /\ q = p + Step \/ \E o \in Live \ {r} : row[o].position = q
  BY <1>1, <1>3, <1>4, AfterPlace
<1>7. Lowest - Step <= m /\ m <= Highest + Step
  BY <1>2, <1>4, <1>6
<1>8. PICK none \in Records \cup {None} : none = None
  OBVIOUS
<1>9. /\ Placed'
      /\ Live' = Live /\ row'[r].position = m
      /\ \A s \in Live \ {r} : row'[s].position = row[s].position /\ row[s].position \in Int
      /\ last'.record = r /\ last'.before = None /\ last'.after = after
      /\ Distinct' => \A s, t \in Live \ {r} : s # t => row[s].position # row[t].position
      /\ Room' => \A s, t \in Live \ {r} :
                    row[s].position < row[t].position => row[s].position + 1 < row[t].position
  BY <1>1, <1>5, <1>6, <1>7, <1>8, MoveFrame
<1>10. ASSUME Distinct', Room' PROVE AsAsked'
  <2>1. p + 1 < q
    BY <1>1, <1>2, <1>4, <1>6, <1>9, <1>10
  <2>2. p < m /\ m < q
    BY <1>6, <2>1
  <2>3. Precedes(after, r)'
    <3>1. row'[after].position < row'[r].position
      BY <1>1, <1>4, <1>9, <2>2
    <3>. QED
      BY <3>1 DEF Precedes, Before, Key
  <2>4. ASSUME NEW o \in Live \ {r, after}, Precedes(after, o)', Precedes(o, r)' PROVE FALSE
    <3>1. row'[o].position = row[o].position /\ row[o].position \in Int /\ row[o].position # p
      BY <1>1, <1>4, <1>9, <1>10
    <3>2. row'[r].position = m /\ row'[after].position = p
      BY <1>1, <1>4, <1>9
    <3>3. p < row[o].position /\ row[o].position <= m
      BY <1>6, <2>4, <3>1, <3>2 DEF Precedes, Before, Key
    <3>4. q <= row[o].position
      BY <1>6, <3>1, <3>3
    <3>. QED
      BY <1>6, <2>2, <3>1, <3>3, <3>4
  <2>5. Adjacent(after, r)'
    BY <1>9, <2>3, <2>4 DEF Adjacent
  <2>. QED
    BY <1>1, <1>9, <2>5 DEF AsAsked
<1>. QED
  BY <1>9, <1>10 DEF PlacedAsAsked

LEMMA MovePlaces ==
  ASSUME Placed, NEW r \in Records, NEW before \in Records \cup {None}, NEW after \in Records \cup {None},
         MoveRecord(r, before, after)
  PROVE  Placed' /\ PlacedAsAsked'
<1>1. CASE before = None /\ after = None
  BY <1>1, MoveToTail
<1>2. CASE before = None /\ after # None
  BY <1>2, MoveAfter
<1>3. CASE before # None /\ after = None
  BY <1>3, MoveBefore
<1>4. CASE before # None /\ after # None
  BY <1>4, MoveBetween
<1>. QED
  BY <1>1, <1>2, <1>3, <1>4

\* The other Changes leave the position alone, and ask for no place.
LEMMA ChangeKeeps ==
  ASSUME Placed, NEW r \in Live \cup Stored, NEW state \in {"live", "deleted"}, NEW new,
         new = [row[r] EXCEPT !.state = state, !.revision = row[r].revision + 1], Write(r, new, NoRequest)
  PROVE  Placed' /\ PlacedAsAsked'
<1>1. /\ r \in Records /\ r \in Stored /\ row[r] \in Row /\ Step \in Nat /\ Lowest \in Int /\ Highest \in Int
      /\ row[r].position \in Lowest .. Highest
  BY RangeHolds DEF Placed, Rowed, Live, Stored
<1>2. new \in Row /\ new.position = row[r].position
  <2>1. row[r].revision + 1 \in Nat
    BY <1>1 DEF Row
  <2>. QED
    BY <1>1, <2>1 DEF Row
<1>3. NoRequest \in Request
  BY DEF NoRequest, Request
<1>4. Placed'
  <2>1. Lowest - Step <= new.position /\ new.position <= Highest + Step
    BY <1>1, <1>2
  <2>. QED
    BY <1>1, <1>2, <1>3, <2>1, WriteKeeps
<1>5. last'.op = "none"
  BY DEF Write, NoRequest
<1>. QED
  BY <1>4, <1>5 DEF PlacedAsAsked

(***************************************************************************)
(* Readings.                                                               *)
(***************************************************************************)

Readings == [pc : {"idle", "more", "done"}, seen : Seq(Seen), cursor : Nat]

Ascending(s) == \A i, j \in DOMAIN s : i < j => Before(s[i], s[j])

\* The Records that Changes after a cursor are about.
Since(n) == {log[i] : i \in n + 1 .. Len(log)}

\* What a reading says of a Record that no Change since its first page is about: all
\* it has seen of it is true, and it has seen it if its last key is not before it.
TrueOf(x, r) ==
  /\ \A i \in DOMAIN x.seen : x.seen[i].record = r => r \in Live /\ x.seen[i] = Key(r)
  /\ r \in Live /\ (x.pc = "done" \/ ~Before(x.seen[Len(x.seen)], Key(r)))
       => \E i \in DOMAIN x.seen : x.seen[i].record = r

Told(x) ==
  /\ x.cursor <= Len(log)
  /\ x.pc = "idle" => x.seen = <<>>
  /\ x.pc = "more" => x.seen # <<>>
  /\ Ascending(x.seen)
  /\ x.pc # "idle" => \A r \in Records \ Since(x.cursor) : TrueOf(x, r)

ReadingsTold == read \in [Readers -> Readings] /\ \A c \in Readers : Told(read[c])

LEMMA IdleTold == Idle \in Readings /\ (log \in Seq(Records) => Told(Idle))
<1>1. Idle.pc = "idle" /\ Idle.seen = <<>> /\ Idle.cursor = 0 /\ Idle \in Readings
  BY DEF Idle, Readings
<1>2. Ascending(Idle.seen)
  BY <1>1 DEF Ascending
<1>3. log \in Seq(Records) => 0 <= Len(log)
  OBVIOUS
<1>. QED
  BY <1>1, <1>2, <1>3 DEF Told

\* A Change is one that the readings will learn of.
LEMMA WriteTold ==
  ASSUME Placed, ReadingsTold, NEW r \in Records, NEW new, NEW request, Write(r, new, request)
  PROVE  ReadingsTold'
<1>1. /\ row' = [row EXCEPT ![r] = new] /\ log' = Append(log, r) /\ read' = read
      /\ row \in [Records -> Row] /\ log \in Seq(Records)
  BY DEF Write, Placed, Rowed
<1>2. PICK n \in Nat : n = Len(log)
  BY <1>1
<1>3. Len(log') = n + 1 /\ log'[n + 1] = r /\ \A i \in 1 .. n : log'[i] = log[i]
  BY <1>1, <1>2
<1>4. \A s \in Records \ {r} : Key(s)' = Key(s) /\ (s \in Live)' = (s \in Live)
  BY <1>1 DEF Key, Live
<1>5. SUFFICES ASSUME NEW c \in Readers PROVE Told(read[c])'
  BY <1>1 DEF ReadingsTold
<1>6. PICK x \in Readings : x = read[c]
  BY DEF ReadingsTold
<1>7. Told(x)
  BY <1>6 DEF ReadingsTold
<1>8. x.cursor \in Nat /\ x.cursor <= n
  BY <1>2, <1>7 DEF Told, Readings
<1>9. Since(x.cursor) \subseteq Since(x.cursor)' /\ r \in Since(x.cursor)'
  <2>1. PICK a \in Nat : a = x.cursor
    BY <1>8
  <2>2. \A i \in a + 1 .. n : i \in a + 1 .. n + 1 /\ i \in 1 .. n
    BY <2>1
  <2>3. n + 1 \in a + 1 .. n + 1
    BY <1>8, <2>1
  <2>. QED
    BY <1>2, <1>3, <2>1, <2>2, <2>3 DEF Since
<1>10. ASSUME x.pc # "idle", NEW s \in Records, s \notin Since(x.cursor)' PROVE TrueOf(x, s)'
  <2>1. s # r /\ TrueOf(x, s)
    BY <1>7, <1>9, <1>10 DEF Told
  <2>. QED
    BY <1>4, <2>1 DEF TrueOf
<1>11. x.cursor <= Len(log)'
  BY <1>3, <1>8
<1>12. Told(x)'
  BY <1>7, <1>10, <1>11 DEF Told
<1>13. read'[c] = x
  BY <1>1, <1>6
<1>. QED
  BY <1>12, <1>13

LEMMA KeysOrdered ==
  /\ \A k1, k2, k3 \in Seen : Before(k1, k2) /\ Before(k2, k3) => Before(k1, k3)
  /\ \A k \in Seen : ~Before(k, k)
  /\ Rowed => \A r \in Records : Key(r) \in Seen /\ Key(r).record = r
<1>1. \A k \in Seen : k.record \in Nat /\ k.position \in Int
  BY OrderAssumption DEF Seen
<1>2. ASSUME NEW k1 \in Seen, NEW k2 \in Seen, NEW k3 \in Seen, Before(k1, k2), Before(k2, k3)
      PROVE  Before(k1, k3)
  BY <1>1, <1>2 DEF Before
<1>3. \A k \in Seen : ~Before(k, k)
  BY <1>1 DEF Before
<1>. QED
  BY <1>2, <1>3 DEF Rowed, Row, Key, Seen

WithPage(s, p, n) == s \o [i \in 1 .. n |-> Key(p[i])]

Follows(all, s, m, p, n) ==
  /\ all \in Seq(Seen) /\ Len(all) = m + n /\ DOMAIN all = 1 .. m + n
  /\ \A i \in 1 .. m : all[i] = s[i]
  /\ \A i \in 1 .. n : all[m + i] = Key(p[i])
  /\ \A i \in 1 .. m + n : i \in 1 .. m \/ (i - m \in 1 .. n /\ all[i] = Key(p[i - m]))
  /\ Ascending(all)

\* What a reading has seen, followed by a page of what comes after it.
LEMMA PageFollows ==
  ASSUME Rowed, NEW m \in Nat, NEW s, s \in [1 .. m -> Seen], Ascending(s),
         NEW k \in Nat, NEW p, p \in [1 .. k -> Records], Ordered(p),
         m > 0 => \A i \in 1 .. k : Before(s[m], Key(p[i])),
         NEW n \in Nat, n <= k,
         NEW all, all = WithPage(s, p, n)
  PROVE  Follows(all, s, m, p, n)
<1>1. PICK q : q = [i \in 1 .. n |-> Key(p[i])]
  OBVIOUS
<1>2. \A i \in 1 .. n : i \in 1 .. k /\ p[i] \in Records
  OBVIOUS
<1>3. q \in [1 .. n -> Seen]
  <2>1. \A i \in 1 .. n : Key(p[i]) \in Seen
    BY <1>2, KeysOrdered
  <2>. QED
    BY <1>1, <2>1
<1>4. s \in Seq(Seen) /\ Len(s) = m /\ q \in Seq(Seen) /\ Len(q) = n
  BY <1>3
<1>5. all = s \o q
  BY <1>1 DEF WithPage
<1>6. /\ all \in Seq(Seen) /\ Len(all) = m + n
      /\ \A i \in 1 .. m + n : all[i] = IF i <= m THEN s[i] ELSE q[i - m]
  <2>1. PICK S : S = Seen
    OBVIOUS
  <2>2. s \in Seq(S) /\ q \in Seq(S)
    BY <1>4, <2>1
  <2>3. /\ s \o q \in Seq(S) /\ Len(s \o q) = Len(s) + Len(q)
        /\ \A i \in 1 .. Len(s) + Len(q) : (s \o q)[i] = IF i <= Len(s) THEN s[i] ELSE q[i - Len(s)]
    BY <2>2, ConcatProperties
  <2>. QED
    BY <1>4, <1>5, <2>1, <2>3
<1>7. DOMAIN all = 1 .. m + n
  BY <1>6
<1>8. \A i \in 1 .. m : all[i] = s[i]
  <2>1. \A i \in 1 .. m : i \in 1 .. m + n /\ i <= m
    OBVIOUS
  <2>. QED
    BY <1>6, <2>1
<1>9. ASSUME NEW i \in 1 .. n PROVE all[m + i] = Key(p[i])
  <2>1. m + i \in 1 .. m + n /\ ~(m + i <= m) /\ (m + i) - m = i
    OBVIOUS
  <2>2. all[m + i] = q[i]
    BY <1>6, <2>1
  <2>. QED
    BY <1>1, <2>2
<1>10. ASSUME NEW i \in 1 .. m + n, i \notin 1 .. m PROVE i - m \in 1 .. n /\ all[i] = Key(p[i - m])
  <2>1. i - m \in 1 .. n /\ m + (i - m) = i
    BY <1>10
  <2>. QED
    BY <1>9, <2>1
<1>11. ASSUME NEW i \in 1 .. m + n, NEW j \in 1 .. m + n, i < j PROVE Before(all[i], all[j])
  <2>1. CASE j \in 1 .. m
    <3>1. i \in 1 .. m
      BY <1>11, <2>1
    <3>. QED
      BY <1>8, <1>11, <2>1, <3>1 DEF Ascending
  <2>2. CASE i \in 1 .. m /\ j \notin 1 .. m
    <3>1. PICK b : b = p[j - m]
      OBVIOUS
    <3>2. j - m \in 1 .. k /\ all[j] = Key(b) /\ b \in Records
      BY <1>2, <1>10, <2>2, <3>1
    <3>3. m > 0 /\ m \in 1 .. m /\ all[i] = s[i] /\ s[i] \in Seen /\ s[m] \in Seen
      BY <1>8, <2>2
    <3>4. Before(s[m], Key(b))
      BY <3>1, <3>2, <3>3
    <3>5. CASE i = m
      BY <3>2, <3>3, <3>4, <3>5
    <3>6. CASE i < m
      <4>1. Before(s[i], s[m])
        BY <2>2, <3>3, <3>6 DEF Ascending
      <4>2. Key(b) \in Seen
        BY <3>2, KeysOrdered
      <4>3. Before(s[i], Key(b))
        BY <3>3, <3>4, <4>1, <4>2, KeysOrdered
      <4>. QED
        BY <3>2, <3>3, <4>3
    <3>. QED
      BY <2>2, <3>5, <3>6
  <2>3. CASE i \notin 1 .. m
    <3>1. j \notin 1 .. m /\ i - m < j - m
      BY <1>11, <2>3
    <3>2. /\ i - m \in 1 .. n /\ all[i] = Key(p[i - m])
          /\ j - m \in 1 .. n /\ all[j] = Key(p[j - m])
      BY <1>10, <2>3, <3>1
    <3>3. PICK a \in 1 .. k, b \in 1 .. k : a = i - m /\ b = j - m
      BY <1>2, <3>2
    <3>4. Precedes(p[a], p[b])
      BY <3>1, <3>3 DEF Ordered
    <3>. QED
      BY <3>2, <3>3, <3>4 DEF Precedes
  <2>. QED
    BY <2>1, <2>2, <2>3
<1>12. Ascending(all)
  BY <1>7, <1>11 DEF Ascending
<1>. QED
  BY <1>6, <1>7, <1>8, <1>9, <1>10, <1>12 DEF Follows

\* A page that begins a reading, or continues one after what it has seen.
LEMMA PageTold ==
  ASSUME Placed, NEW x \in Readings, Told(x), x.pc # "done",
         NEW rest, rest = (IF x.seen = <<>> THEN Live ELSE Beyond(x.seen[Len(x.seen)])),
         NEW page, page = InOrder(rest),
         NEW n, n = (IF Len(page) < PageSize THEN Len(page) ELSE PageSize),
         NEW y, y = [pc |-> IF Len(page) > n THEN "more" ELSE "done",
                     seen |-> WithPage(x.seen, page, n),
                     cursor |-> IF x.pc = "idle" THEN Len(log) ELSE x.cursor]
  PROVE  y \in Readings /\ Told(y)
<1>1. Rowed /\ Live \in SUBSET Records /\ log \in Seq(Records)
  BY RangeHolds DEF Placed
<1>. PICK s : s = x.seen
  OBVIOUS
<1>. PICK m \in Nat : m = Len(s)
  BY DEF Readings
<1>2. s = x.seen /\ m = Len(s) /\ s \in [1 .. m -> Seen]
  <2>1. s \in Seq(Seen) /\ Len(s) = m /\ s = x.seen
    BY DEF Readings
  <2>. QED
    BY <2>1
<1>3. Ascending(s) /\ (s = <<>> <=> m = 0)
  <2>1. s = <<>> <=> m = 0
    BY <1>2
  <2>. QED
    BY <1>2, <2>1 DEF Told
<1>4. rest \in SUBSET Live /\ (m = 0 => rest = Live) /\ (m > 0 => rest = Beyond(s[m]))
  BY <1>2, <1>3 DEF Beyond
<1>5. PICK k \in Nat : k = Cardinality(rest) /\ page \in [1 .. k -> rest] /\ Ordered(page) /\ Members(page) = rest
  <2>1. rest \in SUBSET Records
    BY <1>1, <1>4
  <2>. QED
    BY <1>1, <2>1, InOrderLists
<1>6. Len(page) = k /\ n \in Nat /\ n <= k /\ (n < k => n > 0)
  BY <1>5, OrderAssumption
<1>7. page \in [1 .. k -> Records]
  BY <1>1, <1>4, <1>5
<1>8. m > 0 => \A i \in 1 .. k : Before(s[m], Key(page[i]))
  BY <1>4, <1>5 DEF Beyond
<1>9. PICK all : all = WithPage(s, page, n)
  OBVIOUS
<1>10. /\ all \in Seq(Seen) /\ Len(all) = m + n /\ DOMAIN all = 1 .. m + n
       /\ \A i \in 1 .. m : all[i] = s[i]
       /\ \A i \in 1 .. n : all[m + i] = Key(page[i])
       /\ \A i \in 1 .. m + n : i \in 1 .. m \/ (i - m \in 1 .. n /\ all[i] = Key(page[i - m]))
       /\ Ascending(all)
  <2>1. Follows(all, s, m, page, n)
    BY <1>1, <1>2, <1>3, <1>5, <1>6, <1>7, <1>8, <1>9, PageFollows
  <2>. QED
    BY <2>1 DEF Follows
<1>11. PICK cursor : cursor = IF x.pc = "idle" THEN Len(log) ELSE x.cursor
  OBVIOUS
<1>12. /\ y.pc = (IF k > n THEN "more" ELSE "done") /\ y.seen = all /\ y.cursor = cursor
       /\ y = [pc |-> IF k > n THEN "more" ELSE "done", seen |-> all, cursor |-> cursor]
  BY <1>2, <1>6, <1>9, <1>11
<1>13. cursor \in Nat /\ cursor <= Len(log)
  BY <1>1, <1>11 DEF Told, Readings
<1>14. y \in Readings
  BY <1>10, <1>12, <1>13 DEF Readings
<1>15. y.pc = "more" => all # <<>>
  BY <1>6, <1>10, <1>12
<1>16. ASSUME NEW r \in Records, r \notin Since(cursor) PROVE TrueOf(y, r)
  <2>1. m > 0 => x.pc = "more" /\ TrueOf(x, r)
    <3>1. x.pc = "idle" => m = 0
      BY <1>2, <1>3 DEF Told
    <3>2. x.pc \in {"idle", "more"}
      BY DEF Readings
    <3>3. x.pc = "more" => TrueOf(x, r)
      BY <1>11, <1>16 DEF Told
    <3>. QED
      BY <3>1, <3>2, <3>3
  <2>2. ASSUME NEW i \in 1 .. m + n, all[i].record = r PROVE r \in Live /\ all[i] = Key(r)
    <3>1. CASE i \in 1 .. m
      <4>1. m > 0 /\ s[i].record = r /\ i \in DOMAIN s
        BY <1>2, <1>10, <2>2, <3>1
      <4>2. r \in Live /\ s[i] = Key(r)
        BY <1>2, <2>1, <4>1 DEF TrueOf
      <4>. QED
        BY <1>10, <3>1, <4>2
    <3>2. CASE i \notin 1 .. m
      <4>1. PICK j \in 1 .. n : j = i - m /\ all[i] = Key(page[j])
        BY <1>10, <3>2
      <4>2. j \in 1 .. k
        BY <1>6
      <4>3. page[j] \in rest /\ page[j] \in Records
        BY <1>5, <1>7, <4>2
      <4>4. page[j] = r
        BY <1>1, <2>2, <4>1, <4>3, KeysOrdered
      <4>. QED
        BY <1>4, <4>1, <4>3, <4>4
    <3>. QED
      BY <3>1, <3>2
  <2>3. ASSUME r \in Live, y.pc = "done" \/ ~Before(all[m + n], Key(r))
        PROVE  \E i \in 1 .. m + n : all[i].record = r
    <3>1. CASE r \in rest
      <4>1. PICK j \in 1 .. k : page[j] = r
        BY <1>5, <3>1 DEF Members
      <4>2. j <= n
        <5>1. SUFFICES ASSUME n < j PROVE FALSE
          BY <1>6
        <5>2. n < k /\ n \in 1 .. n /\ n \in 1 .. k /\ y.pc # "done"
          BY <1>6, <1>12, <5>1
        <5>3. all[m + n] = Key(page[n])
          BY <1>10, <5>2
        <5>4. Precedes(page[n], page[j])
          BY <1>5, <5>1, <5>2 DEF Ordered
        <5>. QED
          BY <2>3, <4>1, <5>2, <5>3, <5>4 DEF Precedes
      <4>3. j \in 1 .. n /\ m + j \in 1 .. m + n
        BY <1>6, <4>2
      <4>4. all[m + j] = Key(r)
        BY <1>10, <4>1, <4>3
      <4>5. all[m + j].record = r
        BY <1>1, <4>4, KeysOrdered
      <4>. QED
        BY <4>3, <4>5
    <3>2. CASE r \notin rest
      <4>1. m > 0 /\ ~Before(s[m], Key(r))
        BY <1>4, <2>3, <3>2 DEF Beyond
      <4>2. \E i \in DOMAIN s : s[i].record = r
        BY <1>2, <2>1, <2>3, <4>1 DEF TrueOf
      <4>3. PICK i \in 1 .. m : s[i].record = r
        BY <1>2, <4>2
      <4>4. i \in 1 .. m + n /\ all[i] = s[i]
        BY <1>6, <1>10
      <4>. QED
        BY <4>3, <4>4
    <3>. QED
      BY <3>1, <3>2
  <2>4. y.seen = all /\ DOMAIN all = 1 .. m + n /\ Len(all) = m + n
    BY <1>10, <1>12
  <2>. QED
    BY <2>2, <2>3, <2>4 DEF TrueOf
<1>. QED
  BY <1>10, <1>12, <1>13, <1>14, <1>15, <1>16 DEF Told

LEMMA PageKeeps ==
  ASSUME Placed, ReadingsTold, NEW c \in Readers, ReadPage(c)
  PROVE  ReadingsTold'
<1>1. PICK x \in Readings : x = read[c]
  BY DEF ReadingsTold
<1>2. Told(x) /\ x.pc # "done"
  BY <1>1 DEF ReadingsTold, ReadPage
<1>3. PICK rest : rest = IF x.seen = <<>> THEN Live ELSE Beyond(x.seen[Len(x.seen)])
  OBVIOUS
<1>4. PICK page : page = InOrder(rest)
  OBVIOUS
<1>5. PICK n : n = IF Len(page) < PageSize THEN Len(page) ELSE PageSize
  OBVIOUS
<1>6. PICK y : y = [pc |-> IF Len(page) > n THEN "more" ELSE "done",
                    seen |-> WithPage(x.seen, page, n),
                    cursor |-> IF x.pc = "idle" THEN Len(log) ELSE x.cursor]
  OBVIOUS
<1>7. y \in Readings /\ Told(y)
  BY <1>2, <1>3, <1>4, <1>5, <1>6, PageTold
<1>8. read' = [read EXCEPT ![c] = y]
  BY <1>1, <1>3, <1>4, <1>5, <1>6 DEF ReadPage, WithPage
<1>9. UNCHANGED <<row, log>>
  BY DEF ReadPage
<1>10. \A z : Told(z)' <=> Told(z)
  BY <1>9 DEF Told, TrueOf, Live, Since, Key
<1>11. read \in [Readers -> Readings]
  BY DEF ReadingsTold
<1>12. read' \in [Readers -> Readings] /\ \A d \in Readers : read'[d] = y \/ read'[d] = read[d]
  BY <1>7, <1>8, <1>11
<1>13. ASSUME NEW d \in Readers PROVE Told(read[d])'
  <2>1. PICK z : z = read'[d]
    OBVIOUS
  <2>2. Told(z)
    BY <1>7, <1>12, <2>1 DEF ReadingsTold
  <2>3. Told(z)'
    BY <1>10, <2>2
  <2>. QED
    BY <2>1, <2>3
<1>. QED
  BY <1>12, <1>13 DEF ReadingsTold

(***************************************************************************)
(* The inductive invariant.                                                *)
(***************************************************************************)

OrderInv == Placed /\ PlacedAsAsked /\ ReadingsTold

LEMMA InitOrder == Init => OrderInv
<1>. SUFFICES ASSUME Init PROVE OrderInv
  OBVIOUS
<1>2. PICK k \in Nat : k = Cardinality(Records)
  BY OrderAssumption, FS_CardinalityType
<1>3. PICK n \in 0 .. k : row = [r \in Records |-> IF r <= n
                                 THEN [state |-> "live", position |-> r * Step, revision |-> 1] ELSE NoRow]
  BY <1>2 DEF Init
<1>4. log = <<>> /\ last = NoRequest /\ read = [c \in Readers |-> Idle]
  BY DEF Init
<1>5. Step \in Nat /\ Records \subseteq Nat
  BY OrderAssumption
<1>6. Rowed
  <2>1. NoRow \in Row
    BY DEF NoRow, Row
  <2>2. ASSUME NEW r \in Records PROVE [state |-> "live", position |-> r * Step, revision |-> 1] \in Row
    <3>1. r * Step \in Int
      BY <1>5
    <3>. QED
      BY <3>1 DEF Row
  <2>. QED
    BY <1>3, <2>1, <2>2 DEF Rowed
<1>7. ASSUME NEW r \in Stored PROVE row[r].position \in 0 .. Step * k
  <2>1. r \in Nat /\ r <= n /\ row[r].position = r * Step
    BY <1>3, <1>5 DEF Stored, NoRow
  <2>2. PICK d \in Nat : k = r + d
    <3>1. k - r \in Nat /\ k = r + (k - r)
      BY <1>2, <1>3, <2>1
    <3>. QED
      BY <3>1
  <2>3. Step * k = r * Step + d * Step
    BY <1>5, <2>1, <2>2
  <2>4. r * Step \in Nat /\ d * Step \in Nat
    BY <1>5, <2>1, <2>2
  <2>. QED
    BY <2>1, <2>3, <2>4
<1>8. Lowest = 0 /\ Highest = Step * k /\ log \in Seq(Records)
  <2>1. Len(log) = 0 /\ log \in Seq(Records)
    BY <1>4
  <2>2. Step * 0 = 0 /\ k + 0 = k
    BY <1>2, <1>5
  <2>. QED
    BY <1>2, <2>1, <2>2 DEF Lowest, Highest
<1>9. Positions(Stored) \subseteq Lowest .. Highest
  BY <1>7, <1>8 DEF Positions
<1>10. last \in Request /\ last.op = "none"
  BY <1>4 DEF NoRequest, Request
<1>11. ReadingsTold
  BY <1>4, <1>8, IdleTold DEF ReadingsTold
<1>. QED
  BY <1>6, <1>8, <1>9, <1>10, <1>11 DEF OrderInv, Placed, PlacedAsAsked

\* A step that only reads leaves the places alone.
LEMMA ReadKeeps ==
  ASSUME Placed, UNCHANGED <<row, log>>, last' = NoRequest
  PROVE  Placed' /\ PlacedAsAsked'
<1>1. NoRequest \in Request /\ NoRequest.op = "none"
  BY DEF NoRequest, Request
<1>2. Positions(Stored)' = Positions(Stored) /\ Lowest' = Lowest /\ Highest' = Highest
  BY DEF Positions, Stored, Lowest, Highest
<1>. QED
  BY <1>1, <1>2 DEF Placed, Rowed, PlacedAsAsked

LEMMA RestartKeeps ==
  ASSUME Placed, ReadingsTold, NEW c \in Readers, Restart(c)
  PROVE  ReadingsTold'
<1>1. read' = [read EXCEPT ![c] = Idle] /\ UNCHANGED <<row, log>>
  BY DEF Restart
<1>2. read \in [Readers -> Readings] /\ Idle \in Readings /\ Told(Idle)
  BY IdleTold DEF ReadingsTold, Placed
<1>3. \A z : Told(z)' <=> Told(z)
  BY <1>1 DEF Told, TrueOf, Live, Since, Key
<1>4. read' \in [Readers -> Readings] /\ \A d \in Readers : read'[d] = Idle \/ read'[d] = read[d]
  BY <1>1, <1>2
<1>5. ASSUME NEW d \in Readers PROVE Told(read[d])'
  <2>1. PICK z : z = read'[d]
    OBVIOUS
  <2>2. Told(z)
    BY <1>2, <1>4, <2>1 DEF ReadingsTold
  <2>3. Told(z)'
    BY <1>3, <2>2
  <2>. QED
    BY <2>1, <2>3
<1>. QED
  BY <1>4, <1>5 DEF ReadingsTold

LEMMA NextOrder == OrderInv /\ [Next]_vars => OrderInv'
<1>. SUFFICES ASSUME OrderInv, [Next]_vars PROVE OrderInv'
  OBVIOUS
<1>2. Placed /\ PlacedAsAsked /\ ReadingsTold
  BY DEF OrderInv
<1>3. ASSUME NEW r \in Records, Appended(r) PROVE OrderInv'
  <2>1. PICK new, request : Write(r, new, request)
    BY <1>3 DEF Appended
  <2>. QED
    BY <1>2, <1>3, <2>1, AppendPlaces, WriteTold DEF OrderInv
<1>4. ASSUME NEW r \in Live \cup Stored, NEW state \in {"live", "deleted"}, NEW new,
             new = [row[r] EXCEPT !.state = state, !.revision = row[r].revision + 1], Write(r, new, NoRequest)
      PROVE  OrderInv'
  <2>1. r \in Records
    BY DEF Live, Stored
  <2>2. PICK request : request = NoRequest /\ Write(r, new, request)
    BY <1>4
  <2>3. ReadingsTold'
    BY <1>2, <2>1, <2>2, WriteTold
  <2>4. Placed' /\ PlacedAsAsked'
    BY <1>2, <1>4, ChangeKeeps
  <2>. QED
    BY <2>3, <2>4 DEF OrderInv
<1>5. CASE CreateRecord
  BY <1>3, <1>5 DEF CreateRecord
<1>6. ASSUME NEW r \in Records, DuplicateRecord(r) PROVE OrderInv'
  BY <1>3, <1>6 DEF DuplicateRecord
<1>7. ASSUME NEW r \in Records, UpdateRecord(r) PROVE OrderInv'
  <2>1. r \in Live /\ row[r].state = "live" /\ row[r] \in Row
    BY <1>2, <1>7 DEF UpdateRecord, Live, Placed, Rowed
  <2>2. [row[r] EXCEPT !.revision = row[r].revision + 1]
          = [row[r] EXCEPT !.state = "live", !.revision = row[r].revision + 1]
    BY <2>1 DEF Row
  <2>3. Write(r, [row[r] EXCEPT !.revision = row[r].revision + 1], NoRequest)
    BY <1>7 DEF UpdateRecord
  <2>. QED
    BY <1>4, <2>1, <2>2, <2>3
<1>8. ASSUME NEW r \in Records, DeleteRecord(r) PROVE OrderInv'
  <2>1. r \in Live
    BY <1>8 DEF DeleteRecord
  <2>2. Write(r, [row[r] EXCEPT !.state = "deleted", !.revision = row[r].revision + 1], NoRequest)
    BY <1>8 DEF DeleteRecord
  <2>. QED
    BY <1>4, <2>1, <2>2
<1>9. ASSUME NEW r \in Records, RestoreRecord(r) PROVE OrderInv'
  <2>1. r \in Stored
    BY <1>9 DEF RestoreRecord, Stored
  <2>2. Write(r, [row[r] EXCEPT !.state = "live", !.revision = row[r].revision + 1], NoRequest)
    BY <1>9 DEF RestoreRecord
  <2>. QED
    BY <1>4, <2>1, <2>2
<1>10. ASSUME NEW r \in Records, NEW before \in Records \cup {None}, NEW after \in Records \cup {None},
              MoveRecord(r, before, after)
       PROVE  OrderInv'
  <2>1. PICK new, request : Write(r, new, request)
    BY <1>10 DEF MoveRecord
  <2>. QED
    BY <1>2, <1>10, <2>1, MovePlaces, WriteTold DEF OrderInv
<1>11. ASSUME NEW c \in Readers, ReadPage(c) PROVE OrderInv'
  <2>1. UNCHANGED <<row, log>> /\ last' = NoRequest
    BY <1>11 DEF ReadPage
  <2>. QED
    BY <1>2, <1>11, <2>1, ReadKeeps, PageKeeps DEF OrderInv
<1>12. ASSUME NEW c \in Readers, Restart(c) PROVE OrderInv'
  <2>1. UNCHANGED <<row, log>> /\ last' = NoRequest
    BY <1>12 DEF Restart
  <2>. QED
    BY <1>2, <1>12, <2>1, ReadKeeps, RestartKeeps DEF OrderInv
<1>13. CASE UNCHANGED vars
  <2>1. row' = row /\ log' = log /\ last' = last /\ read' = read
    BY <1>13 DEF vars
  <2>2. Live' = Live /\ Positions(Stored)' = Positions(Stored) /\ Lowest' = Lowest /\ Highest' = Highest
    BY <2>1 DEF Live, Positions, Stored, Lowest, Highest
  <2>3. Placed'
    BY <1>2, <2>1, <2>2 DEF Placed, Rowed
  <2>4. PlacedAsAsked'
    <3>1. Others' = Others /\ Distinct' = Distinct /\ Room' = Room
      BY <2>1, <2>2 DEF Others, Distinct, Room, Positions
    <3>2. \A r, s : Precedes(r, s)' <=> Precedes(r, s)
      BY <2>1 DEF Precedes, Key
    <3>3. \A r, s : Adjacent(r, s)' <=> Adjacent(r, s)
      BY <2>2, <3>2 DEF Adjacent
    <3>4. \A r, s, t : Between(r, s, t)' <=> Between(r, s, t)
      BY <3>2 DEF Between
    <3>5. AsAsked' <=> AsAsked
      BY <2>1, <3>1, <3>2, <3>3, <3>4 DEF AsAsked
    <3>. QED
      BY <1>2, <2>1, <3>1, <3>5 DEF PlacedAsAsked
  <2>5. \A z : Told(z)' <=> Told(z)
    BY <2>1 DEF Told, TrueOf, Live, Since, Key
  <2>6. ReadingsTold'
    BY <1>2, <2>1, <2>5 DEF ReadingsTold
  <2>. QED
    BY <2>3, <2>4, <2>6 DEF OrderInv
<1>. QED
  BY <1>5, <1>6, <1>7, <1>8, <1>9, <1>10, <1>11, <1>12, <1>13 DEF Next

\* What a reading that has ended says of a Record that no Change is about.
LEMMA EndTells ==
  ASSUME Placed, NEW x \in Readings, Told(x), x.pc = "done",
         NEW r \in Records \ Since(x.cursor),
         NEW places, places = {i \in DOMAIN x.seen : x.seen[i].record = r}
  PROVE  /\ Cardinality(places) = (IF r \in Live THEN 1 ELSE 0)
         /\ \A i \in places : x.seen[i] = Key(r)
<1>1. TrueOf(x, r) /\ Ascending(x.seen) /\ Key(r) \in Seen
  BY KeysOrdered DEF Told, Placed
<1>2. \A i \in places : r \in Live /\ x.seen[i] = Key(r) /\ i \in DOMAIN x.seen
  BY <1>1 DEF TrueOf
<1>3. CASE r \notin Live
  <2>1. places = {}
    BY <1>2, <1>3
  <2>. QED
    BY <1>3, <2>1, FS_EmptySet
<1>4. CASE r \in Live
  <2>1. PICK i \in DOMAIN x.seen : i \in places
    BY <1>1, <1>4 DEF TrueOf
  <2>2. DOMAIN x.seen \subseteq Int
    BY DEF Readings
  <2>3. ASSUME NEW j \in places PROVE j = i
    <3>1. x.seen[i] = Key(r) /\ x.seen[j] = Key(r) /\ i \in Int /\ j \in Int
      BY <1>2, <2>1, <2>2
    <3>2. ~Before(Key(r), Key(r))
      BY <1>1, KeysOrdered
    <3>3. ~(i < j) /\ ~(j < i)
      BY <1>1, <1>2, <2>1, <3>1, <3>2 DEF Ascending
    <3>. QED
      BY <3>1, <3>3
  <2>4. places = {i}
    BY <2>1, <2>3
  <2>. QED
    BY <1>2, <1>4, <2>4, FS_Singleton
<1>. QED
  BY <1>2, <1>3, <1>4

LEMMA OrderTyped == OrderInv => TypeOK
<1>. SUFFICES ASSUME OrderInv PROVE TypeOK
  OBVIOUS
<1>1. Placed /\ ReadingsTold
  BY DEF OrderInv
<1>2. ASSUME NEW c \in Readers
      PROVE  /\ read[c].pc \in {"idle", "more", "done"}
             /\ read[c].seen \in Seq(Seen) /\ read[c].cursor \in 0 .. Len(log)
  <2>1. PICK x \in Readings : x = read[c]
    BY <1>1 DEF ReadingsTold
  <2>2. x.cursor <= Len(log) /\ Len(log) \in Nat
    BY <1>1, <2>1 DEF ReadingsTold, Told, Placed
  <2>. QED
    BY <2>1, <2>2 DEF Readings
<1>. QED
  BY <1>1, <1>2 DEF TypeOK, Placed, Rowed, Lowest, Highest

LEMMA OrderComplete == OrderInv => PagesAndChangesComplete
<1>. SUFFICES ASSUME OrderInv PROVE PagesAndChangesComplete
  OBVIOUS
<1>1. Placed /\ ReadingsTold
  BY DEF OrderInv
<1>2. ASSUME NEW c \in Readers, read[c].pc = "done", NEW r \in Records \ Since(read[c].cursor),
             NEW places, places = {i \in DOMAIN read[c].seen : read[c].seen[i].record = r}
      PROVE  /\ Cardinality(places) = (IF r \in Live THEN 1 ELSE 0)
             /\ \A i \in places : read[c].seen[i] = Key(r)
  <2>1. PICK x \in Readings : x = read[c]
    BY <1>1 DEF ReadingsTold
  <2>2. Told(x) /\ x.pc = "done" /\ r \in Records \ Since(x.cursor)
    BY <1>1, <1>2, <2>1 DEF ReadingsTold
  <2>3. places = {i \in DOMAIN x.seen : x.seen[i].record = r}
    BY <1>2, <2>1
  <2>. QED
    BY <1>1, <2>1, <2>2, <2>3, EndTells
<1>3. TypeOK
  BY OrderTyped
<1>. QED
  BY <1>2, <1>3 DEF PagesAndChangesComplete, Since

(***************************************************************************)
(* Theorems.                                                               *)
(***************************************************************************)

LEMMA AlwaysOrder == Spec => []OrderInv
  BY InitOrder, NextOrder, PTL DEF Spec

\* Positions stay within one step per Change of where they began (insertRecord and
\* moveTargetPosition), and a reading's cursor is never ahead of the Changes.
THEOREM OrderTypeOK == Spec => []TypeOK
  BY AlwaysOrder, OrderTyped, PTL

\* The pages of a query, each a snapshot of its own, and the Changes since its first
\* page leave the client with a true picture, whatever is created, moved, deleted or
\* restored in between (QueryRecords, buildKeysetCondition).
THEOREM OrderPagesComplete == Spec => []PagesAndChangesComplete
  BY AlwaysOrder, OrderComplete, PTL

\* A Record is placed as MoveRecord, CreateRecord or DuplicateRecord was asked, as long
\* as the others differ and leave room (moveTargetPosition).
THEOREM OrderPlaces == Spec => []PlacedAsAsked
<1>1. OrderInv => PlacedAsAsked
  BY DEF OrderInv
<1>. QED
  BY <1>1, AlwaysOrder, PTL

=============================================================================

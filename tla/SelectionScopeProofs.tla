------------------------ MODULE SelectionScopeProofs ------------------------
(***************************************************************************)
(* Theorems about SelectionScope, for every value of its constants: any    *)
(* number of Records, filters, requests and readers, and any limits.       *)
(***************************************************************************)
EXTENDS SelectionScope, FiniteSetTheorems, SequenceTheorems, WellFoundedInduction, TLAPS

(***************************************************************************)
(* The inductive invariant.                                                *)
(***************************************************************************)

\* What a request has been told is what its scope still holds, or it is too old to be sent
\* again: a scope is kept at least as long as its request may be repeated.
RequestTrue(q) ==
  /\ sent[q] <= clock
  /\ query[q] = Void => scope[q] = None /\ told[q] = {}
  /\ scope[q] # None => scope[q].expires >= sent[q] + TTL
  /\ told[q] # {} => scope[q] # None \/ clock >= sent[q] + TTL
  /\ q \in ValidScopes => told[q] = {scope[q].members}
  /\ \A x, y \in told[q] : x = y

RequestsTrue == \A q \in Requests : RequestTrue(q)

Ascending(s) == \A i, j \in DOMAIN s : i < j => Before(s[i], s[j])

SeenOf(s) == {s[i] : i \in DOMAIN s}

\* Whatever sorts no later than the last key that was read has been read.
ReadSoFar(s, ks) == SeenOf(s) = {k \in ks : ~Before(s[Len(s)], k)}

\* The token of a reading names its scope by the end of its time, which no later scope of
\* the same request has.
Named(of) ==
  /\ of \in Requests \X Nat
  /\ (scope[of[1]] # None /\ scope[of[1]].expires = of[2]) \/ clock >= of[2]

\* The scope that a reading began with is still there and still valid.
StillValid(of) == of[1] \in ValidScopes /\ scope[of[1]].expires = of[2]

ReadingTrue(r) ==
  /\ r.pc \in {"first", "more", "next"} => Named(r.of)
  /\ r.pc = "first" => r.seen = <<>>
  /\ r.at <= tail
  /\ Ascending(r.seen)
  /\ r.pc \in {"more", "next"} =>
       r.seen # <<>> /\ (r.at = tail /\ StillValid(r.of) => ReadSoFar(r.seen, Page(r.of[1])))

ReaderTrue(c) == ReadingTrue(read[c])

ReadersTrue == \A c \in Readers : ReaderTrue(c)

Budgets == IsFiniteSet(Kept) /\ BudgetsKept

SelectionInv == TypeOK /\ Budgets /\ ValidIsTrue /\ RequestsTrue /\ ReadersTrue

(***************************************************************************)
(* Keys: a value, and the identity of a Record.                            *)
(***************************************************************************)

SortKeys == Values \X Records

LEMMA KeyType ==
  ASSUME NEW k \in SortKeys
  PROVE  k[1] \in Nat /\ k[2] \in Nat /\ k = <<k[1], k[2]>>
<1>1. Values \subseteq Nat /\ Records \subseteq Nat
  BY SelectionAssumption
<1>2. k = <<k[1], k[2]>> /\ k[1] \in Values /\ k[2] \in Records
  BY DEF SortKeys
<1> QED BY <1>1, <1>2

\* Keys are ordered strictly and totally: no two Records sort the same.
LEMMA KeyOrder ==
  ASSUME NEW a \in SortKeys, NEW b \in SortKeys, NEW c \in SortKeys
  PROVE  /\ ~Before(a, a)
         /\ Before(a, b) => ~Before(b, a)
         /\ Before(a, b) /\ Before(b, c) => Before(a, c)
         /\ a = b \/ Before(a, b) \/ Before(b, a)
<1>1. /\ a[1] \in Nat /\ a[2] \in Nat /\ b[1] \in Nat /\ b[2] \in Nat /\ c[1] \in Nat /\ c[2] \in Nat
  BY KeyType
<1>2. a[1] = b[1] /\ a[2] = b[2] => a = b
  <2>1. a = <<a[1], a[2]>> /\ b = <<b[1], b[2]>>
    BY KeyType
  <2> QED BY <2>1
<1> QED BY <1>1, <1>2 DEF Before

LEMMA LeastNat ==
  ASSUME NEW S \in SUBSET Nat, S # {}
  PROVE  \E x \in S : \A y \in S : x <= y
<1>1. PICK x \in S : \A y \in S : <<y, x>> \notin OpToRel(<, Nat)
  BY NatLessThanWellFounded, WFMin
<1>2. ASSUME NEW y \in S PROVE x <= y
  <2>1. ~(y < x)
    BY <1>1 DEF OpToRel
  <2> QED BY <2>1
<1> QED BY <1>2

\* A page begins with the least key that is left.
LEMMA LeastKey ==
  ASSUME NEW K \in SUBSET SortKeys, K # {}
  PROVE  \E k \in K : \A l \in K \ {k} : Before(k, l)
<1>1. \A k \in K : k[1] \in Nat /\ k[2] \in Nat
  BY KeyType
<1>2. PICK k1 \in K : \A l \in K : k1[1] <= l[1]
  <2>1. {k[1] : k \in K} \in SUBSET Nat /\ {k[1] : k \in K} # {}
    BY <1>1
  <2>2. PICK x \in {k[1] : k \in K} : \A y \in {k[1] : k \in K} : x <= y
    BY <2>1, LeastNat
  <2> QED BY <2>2
<1> DEFINE E == {k \in K : k[1] = k1[1]}
<1>3. PICK k2 \in E : \A l \in E : k2[2] <= l[2]
  <2>1. {k[2] : k \in E} \in SUBSET Nat /\ {k[2] : k \in E} # {}
    BY <1>1
  <2>2. PICK x \in {k[2] : k \in E} : \A y \in {k[2] : k \in E} : x <= y
    BY <2>1, LeastNat
  <2> QED BY <2>2
<1>4. ASSUME NEW l \in K \ {k2} PROVE Before(k2, l)
  <2>1. k2 \in SortKeys /\ l \in SortKeys /\ k2[1] = k1[1] /\ k1[1] <= l[1]
    BY <1>2
  <2>2. k2[1] \in Nat /\ k2[2] \in Nat /\ l[1] \in Nat /\ l[2] \in Nat
    BY <2>1, KeyType
  <2>3. CASE l[1] = k2[1]
    <3>1. k2[2] <= l[2]
      BY <1>3, <2>1, <2>3
    <3>2. k2[2] # l[2]
      <4>1. k2 = <<k2[1], k2[2]>> /\ l = <<l[1], l[2]>>
        BY <2>1, KeyType
      <4> QED BY <2>3, <4>1
    <3> QED BY <2>2, <2>3, <3>1, <3>2 DEF Before
  <2>4. CASE l[1] # k2[1]
    BY <2>1, <2>2, <2>4 DEF Before
  <2> QED BY <2>3, <2>4
<1> QED BY <1>3, <1>4

(***************************************************************************)
(* Plans and scopes.                                                       *)
(***************************************************************************)

LEMMA PlanType ==
  ASSUME NEW query_ \in Query, NEW ctx \in Context
  PROVE  Resolved(query_, ctx) \in Plans \cup {None}
<1>1. \A f \in Filters : Plan(f, ctx) \in Plans \cup {None}
  <2> TAKE f \in Filters
  <2>1. ctx.kind \in {"text", "number"}
    BY DEF Context
  <2> QED BY <2>1 DEF Plan, Plans, Schemas
<1>2. ctx.viewFilter \in Filters
  BY DEF Context
<1> QED BY <1>1, <1>2 DEF Resolved, Query

LEMMA NoneIsNothing == None # Void /\ None \notin Plans /\ None \notin Scope /\ None \notin Filters /\ Void \notin Filters
BY NoneAssumption

\* The bit that makes a scope void.
LEMMA Voided ==
  ASSUME NEW s \in Scope
  PROVE  \E t \in Scope : /\ t = [s EXCEPT !.void = TRUE] /\ t.void = TRUE
                          /\ t.filter = s.filter /\ t.schema = s.schema /\ t.members = s.members
                          /\ t.created = s.created /\ t.expires = s.expires
<1>1. PICK t : t = [s EXCEPT !.void = TRUE]
  OBVIOUS
<1>2. t \in Scope
  BY <1>1 DEF Scope
<1>3. /\ t.void = TRUE /\ t.filter = s.filter /\ t.schema = s.schema /\ t.members = s.members
      /\ t.created = s.created /\ t.expires = s.expires
  BY <1>1 DEF Scope
<1> QED BY <1>1, <1>2, <1>3

(***************************************************************************)
(* Scopes that grow old, become void or are forgotten.                     *)
(***************************************************************************)

\* A scope is forgotten when its time is over; it stays void once it is; it loses its members
\* only then.  A request without a scope gets one whose time ends later than now.
Ages(q) ==
  /\ scope[q] # None =>
       \/ scope'[q] = None /\ clock >= scope[q].expires
       \/ /\ scope'[q] # None
          /\ scope'[q].filter = scope[q].filter /\ scope'[q].schema = scope[q].schema
          /\ scope'[q].expires = scope[q].expires
          /\ scope[q].void => scope'[q].void
          /\ scope'[q].members \subseteq scope[q].members
          /\ ~scope'[q].void => scope'[q].members = scope[q].members
  /\ scope[q] = None /\ scope'[q] # None => scope'[q].expires = clock + TTL

\* None becomes valid but new ones.
LEMMA StaysValid ==
  ASSUME TypeOK, TypeOK', NEW q \in Requests, Ages(q), clock' >= clock, scope[q] # None, q \in ValidScopes'
  PROVE  q \in ValidScopes /\ scope'[q].members = scope[q].members
<1>1. scope'[q] # None /\ ~scope'[q].void /\ ~(clock' >= scope'[q].expires)
  BY DEF ValidScopes, Kept, Expired
<1>2. scope[q].expires \in Nat /\ clock \in Nat /\ clock' \in Nat
  BY DEF TypeOK, Scope
<1>3. ~scope[q].void /\ scope'[q].expires = scope[q].expires /\ scope'[q].members = scope[q].members
  BY <1>1 DEF Ages
<1>4. ~(clock >= scope[q].expires)
  BY <1>1, <1>2, <1>3
<1> QED BY <1>3, <1>4 DEF ValidScopes, Kept, Expired

\* The budgets stay kept.
LEMMA BudgetsStay ==
  ASSUME TypeOK, TypeOK', Budgets, clock' >= clock,
         \A q \in Requests : Ages(q) /\ (scope[q] = None => scope'[q] = None)
  PROVE  Budgets'
<1>1. Kept' \subseteq Kept
  BY DEF Kept
<1>2. ValidScopes' \subseteq ValidScopes
  <2> SUFFICES ASSUME NEW q \in ValidScopes' PROVE q \in ValidScopes
    OBVIOUS
  <2>1. q \in Requests /\ scope'[q] # None
    BY DEF ValidScopes, Kept
  <2> QED BY <2>1, StaysValid
<1>3. MembersOf(Kept)' \subseteq MembersOf(Kept)
  <2> SUFFICES ASSUME NEW m \in Kept' \X Records, m[2] \in scope'[m[1]].members
      PROVE  m \in Kept \X Records /\ m[2] \in scope[m[1]].members
    BY DEF MembersOf
  <2>1. m[1] \in Requests /\ scope'[m[1]] # None
    BY DEF Kept
  <2>2. scope[m[1]] # None /\ scope'[m[1]].members \subseteq scope[m[1]].members
    BY <2>1 DEF Ages
  <2> QED BY <1>1, <2>2
<1>4. IsFiniteSet(Kept) /\ BudgetsKept
  BY DEF Budgets
<1>5. IsFiniteSet(ValidScopes) /\ IsFiniteSet(MembersOf(Kept))
  <2>1. ValidScopes \in SUBSET Kept
    BY DEF ValidScopes
  <2>2. IsFiniteSet(Kept \X Records)
    BY <1>4, FS_Product, SelectionAssumption
  <2>3. MembersOf(Kept) \in SUBSET (Kept \X Records)
    BY DEF MembersOf
  <2> QED BY <1>4, <2>1, <2>2, <2>3, FS_Subset
<1>6. /\ IsFiniteSet(Kept') /\ Cardinality(Kept') <= Cardinality(Kept)
      /\ Cardinality(ValidScopes') <= Cardinality(ValidScopes)
      /\ Cardinality(MembersOf(Kept)') <= Cardinality(MembersOf(Kept))
      /\ Cardinality(Kept') \in Nat /\ Cardinality(ValidScopes') \in Nat /\ Cardinality(MembersOf(Kept)') \in Nat
  <2>1. /\ IsFiniteSet(Kept') /\ IsFiniteSet(ValidScopes') /\ IsFiniteSet(MembersOf(Kept)')
        /\ Cardinality(Kept') <= Cardinality(Kept)
        /\ Cardinality(ValidScopes') <= Cardinality(ValidScopes)
        /\ Cardinality(MembersOf(Kept)') <= Cardinality(MembersOf(Kept))
    BY <1>1, <1>2, <1>3, <1>4, <1>5, FS_Subset
  <2> QED BY <2>1, FS_CardinalityType
<1>7. /\ Cardinality(Kept) \in Nat /\ Cardinality(ValidScopes) \in Nat /\ Cardinality(MembersOf(Kept)) \in Nat
      /\ ScopeLimit \in Nat /\ RequestLimit \in Nat /\ TotalLimit \in Nat
  BY <1>4, <1>5, FS_CardinalityType, SelectionAssumption
<1>8. BudgetsKept'
  BY <1>4, <1>6, <1>7 DEF BudgetsKept
<1> QED BY <1>6, <1>8 DEF Budgets

\* What one request has been told stays true.
LEMMA RequestStays ==
  ASSUME TypeOK, TypeOK', NEW q \in Requests, RequestTrue(q), Ages(q), scope[q] = None => scope'[q] = None,
         clock' >= clock, query'[q] = query[q], sent'[q] = sent[q], told'[q] = told[q]
  PROVE  RequestTrue(q)'
<1>1. /\ clock \in Nat /\ clock' \in Nat /\ sent[q] \in Nat /\ TTL \in Nat
      /\ scope[q] # None => scope[q].expires \in Nat
  BY SelectionAssumption DEF TypeOK, Scope
<1>2. sent'[q] <= clock'
  BY <1>1 DEF RequestTrue
<1>3. query'[q] = Void => scope'[q] = None /\ told'[q] = {}
  BY DEF RequestTrue
<1>4. scope'[q] # None => scope'[q].expires >= sent'[q] + TTL
  BY DEF RequestTrue, Ages
<1>5. told'[q] # {} => scope'[q] # None \/ clock' >= sent'[q] + TTL
  <2> SUFFICES ASSUME told[q] # {}, scope'[q] = None PROVE clock' >= sent[q] + TTL
    OBVIOUS
  <2>1. CASE scope[q] = None
    BY <1>1, <2>1 DEF RequestTrue
  <2>2. CASE scope[q] # None
    BY <1>1, <2>2 DEF RequestTrue, Ages
  <2> QED BY <2>1, <2>2
<1>6. q \in ValidScopes' => told'[q] = {scope'[q].members}
  <2> SUFFICES ASSUME q \in ValidScopes' PROVE told'[q] = {scope'[q].members}
    OBVIOUS
  <2>1. scope[q] # None
    BY DEF ValidScopes, Kept
  <2> QED BY <2>1, StaysValid DEF RequestTrue
<1> QED BY <1>2, <1>3, <1>4, <1>5, <1>6 DEF RequestTrue

\* A reading goes on, or waits, while others act: what has been read of the page sequence stays
\* read unless the Change tail moves or the scope is no longer valid.
LEMMA ReaderStays ==
  ASSUME TypeOK, TypeOK', NEW c \in Readers, ReaderTrue(c), read'[c] = read[c],
         \A q \in Requests : Ages(q), clock' >= clock, tail' >= tail, tail' = tail => row' = row
  PROVE  ReaderTrue(c)'
<1> DEFINE r == read[c]
<1>1. /\ r \in Reading /\ r.at \in Nat /\ tail \in Nat /\ tail' \in Nat /\ clock \in Nat /\ clock' \in Nat
      /\ TTL \in Nat \ {0}
  BY SelectionAssumption DEF TypeOK, Reading
<1>2. r.pc \in {"first", "more", "next"} => Named(r.of)
  BY DEF ReaderTrue, ReadingTrue
<1>3. ASSUME Named(r.of) PROVE Named(r.of)'
  <2>1. PICK q \in Requests, e \in Nat : r.of = <<q, e>> /\ r.of[1] = q /\ r.of[2] = e
    BY <1>3 DEF Named
  <2>2. CASE clock >= e
    <3>1. clock' >= e
      BY <1>1, <2>1, <2>2
    <3> QED BY <2>1, <3>1 DEF Named
  <2>3. CASE scope[q] # None /\ scope[q].expires = e
    <3>1. (scope'[q] # None /\ scope'[q].expires = e) \/ clock' >= e
      BY <1>1, <2>1, <2>3 DEF Ages
    <3> QED BY <2>1, <3>1 DEF Named
  <2> QED BY <1>3, <2>1, <2>2, <2>3 DEF Named
<1>4. ASSUME Named(r.of), StillValid(r.of)'
      PROVE  StillValid(r.of) /\ scope'[r.of[1]].members = scope[r.of[1]].members
             /\ scope'[r.of[1]].filter = scope[r.of[1]].filter
  <2>1. PICK q \in Requests, e \in Nat : r.of = <<q, e>> /\ r.of[1] = q /\ r.of[2] = e
    BY <1>4 DEF Named
  <2>2. q \in ValidScopes' /\ scope'[q].expires = e
    BY <1>4, <2>1 DEF StillValid
  <2>3. scope'[q] # None
    BY <2>2 DEF ValidScopes, Kept
  <2>4. scope[q] # None
    <3> SUFFICES ASSUME scope[q] = None PROVE FALSE
      OBVIOUS
    <3>1. clock >= e
      BY <1>4, <2>1 DEF Named
    <3>2. scope'[q].expires = clock + TTL
      BY <2>3 DEF Ages
    <3> QED BY <1>1, <2>2, <3>1, <3>2
  <2>5. q \in ValidScopes /\ scope'[q].members = scope[q].members
    BY <2>2, <2>4, StaysValid
  <2>6. scope'[q].filter = scope[q].filter /\ scope[q].expires = e
    BY <2>2, <2>3, <2>4 DEF Ages
  <2> QED BY <2>1, <2>5, <2>6 DEF StillValid
<1>5. ASSUME r.pc \in {"more", "next"}, r.at = tail', StillValid(r.of)'
      PROVE  ReadSoFar(r.seen, Page(r.of[1]))'
  <2>1. r.at = tail /\ row' = row
    BY <1>1, <1>5 DEF ReaderTrue, ReadingTrue
  <2>2. /\ StillValid(r.of) /\ scope'[r.of[1]].members = scope[r.of[1]].members
        /\ scope'[r.of[1]].filter = scope[r.of[1]].filter
    BY <1>2, <1>4, <1>5
  <2>3. ReadSoFar(r.seen, Page(r.of[1]))
    BY <1>5, <2>1, <2>2 DEF ReaderTrue, ReadingTrue
  <2>4. Page(r.of[1])' = Page(r.of[1])
    BY <2>1, <2>2 DEF Page, Keys, Matching
  <2> QED BY <2>3, <2>4 DEF ReadSoFar
<1>6. r.at <= tail'
  BY <1>1 DEF ReaderTrue, ReadingTrue
<1> QED BY <1>2, <1>3, <1>5, <1>6 DEF ReaderTrue, ReadingTrue

\* All that is needed of a step that answers no request and reads no page.
LEMMA AgingStep ==
  ASSUME SelectionInv, TypeOK', ValidIsTrue',
         \A q \in Requests : Ages(q) /\ (scope[q] = None => scope'[q] = None),
         clock' >= clock, tail' >= tail, tail' = tail => row' = row,
         UNCHANGED <<query, sent, told, read>>
  PROVE  SelectionInv'
<1>1. TypeOK /\ Budgets /\ RequestsTrue /\ ReadersTrue
  BY DEF SelectionInv
<1>2. Budgets'
  BY <1>1, BudgetsStay
<1>3. RequestsTrue'
  <2> SUFFICES ASSUME NEW q \in Requests PROVE RequestTrue(q)'
    BY DEF RequestsTrue
  <2>1. RequestTrue(q)
    BY <1>1 DEF RequestsTrue
  <2> QED BY <1>1, <2>1, RequestStays
<1>4. ReadersTrue'
  <2> SUFFICES ASSUME NEW c \in Readers PROVE ReaderTrue(c)'
    BY DEF ReadersTrue
  <2>1. ReaderTrue(c)
    BY <1>1 DEF ReadersTrue
  <2> QED BY <1>1, <2>1, ReaderStays
<1> QED BY <1>2, <1>3, <1>4 DEF SelectionInv

(***************************************************************************)
(* Writers.                                                                *)
(***************************************************************************)

\* invalidateSelections makes scopes void and does nothing else to them.
LEMMA Invalidation ==
  ASSUME TypeOK, NEW ctx, NEW rows, NEW changed, scope' = Invalidated(ctx, rows, changed)
  PROVE  /\ scope' \in [Requests -> Scope \cup {None}]
         /\ \A q \in Requests :
              /\ Ages(q) /\ (scope[q] = None <=> scope'[q] = None)
              /\ scope[q] # None => scope'[q].members = scope[q].members
              /\ q \in ValidScopes /\ ~scope'[q].void => scope'[q] = scope[q] /\ ~Outdated(q, ctx, rows, changed)
<1>1. ASSUME NEW q \in Requests
      PROVE  /\ scope'[q] \in Scope \cup {None}
             /\ Ages(q) /\ (scope[q] = None <=> scope'[q] = None)
             /\ scope[q] # None => scope'[q].members = scope[q].members
             /\ q \in ValidScopes /\ ~scope'[q].void => scope'[q] = scope[q] /\ ~Outdated(q, ctx, rows, changed)
  <2>1. scope'[q] = IF q \in ValidScopes /\ Outdated(q, ctx, rows, changed)
                    THEN [scope[q] EXCEPT !.void = TRUE] ELSE scope[q]
    BY DEF Invalidated
  <2>2. CASE q \in ValidScopes /\ Outdated(q, ctx, rows, changed)
    <3>1. PICK s \in Scope : s = scope[q] /\ s # None
      BY <2>2 DEF ValidScopes, Kept, TypeOK
    <3>2. PICK t \in Scope : /\ t = [s EXCEPT !.void = TRUE] /\ t.void = TRUE
                             /\ t.filter = s.filter /\ t.schema = s.schema /\ t.members = s.members
                             /\ t.created = s.created /\ t.expires = s.expires
      BY Voided
    <3>3. scope'[q] = t
      BY <2>1, <2>2, <3>1, <3>2
    <3>4. t # None
      BY NoneIsNothing
    <3> QED BY <3>1, <3>2, <3>3, <3>4 DEF Ages
  <2>3. CASE ~(q \in ValidScopes /\ Outdated(q, ctx, rows, changed))
    <3>1. scope'[q] = scope[q] /\ scope[q] \in Scope \cup {None}
      BY <2>1, <2>3 DEF TypeOK
    <3>2. Ages(q)
      BY <3>1 DEF Ages
    <3> QED BY <2>3, <3>1, <3>2
  <2> QED BY <2>2, <2>3
<1>2. scope' = [q \in Requests |-> scope'[q]]
  BY DEF Invalidated
<1> QED BY <1>1, <1>2

\* What the writers of Records, Views and Fields have in common: the Table stays, and so do the
\* rows that the writer does not call changed.
Commits ==
  \E ctx \in Context, rows \in [Records -> Row], changed \in SUBSET Records, n \in Nat \ {0} :
    /\ ctx.tableLive = context.tableLive /\ \A r \in Records \ changed : rows[r] = row[r]
    /\ Commit(ctx, rows, changed, n)

\* A writer commits what it has changed, and voids the scopes that this makes wrong.
LEMMA CommitStep ==
  ASSUME SelectionInv, Commits
  PROVE  SelectionInv'
<1> PICK ctx \in Context, rows \in [Records -> Row], changed \in SUBSET Records, n \in Nat \ {0} :
      /\ ctx.tableLive = context.tableLive /\ \A r \in Records \ changed : rows[r] = row[r]
      /\ Commit(ctx, rows, changed, n)
  BY DEF Commits
<1>1. TypeOK /\ ValidIsTrue
  BY DEF SelectionInv
<1>2. /\ context' = ctx /\ row' = rows /\ scope' = Invalidated(ctx, rows, changed) /\ tail' = tail + n
      /\ UNCHANGED <<query, sent, told, read, clock>> /\ context.tableLive
  BY DEF Commit, OnlyWrite
<1>3. /\ scope' \in [Requests -> Scope \cup {None}]
      /\ \A q \in Requests :
           /\ Ages(q) /\ (scope[q] = None <=> scope'[q] = None)
           /\ scope[q] # None => scope'[q].members = scope[q].members
           /\ q \in ValidScopes /\ ~scope'[q].void => scope'[q] = scope[q] /\ ~Outdated(q, ctx, rows, changed)
  BY <1>1, <1>2, Invalidation
<1>4. clock \in Nat /\ clock' >= clock /\ tail' \in Nat /\ tail' >= tail /\ tail' # tail
  <2>1. clock \in Nat /\ tail \in Nat
    BY <1>1 DEF TypeOK
  <2> QED BY <1>2, <2>1
<1>5. TypeOK'
  <2>1. \A q \in Requests : scope'[q] # None => Cardinality(scope'[q].members) <= MemberLimit
    BY <1>1, <1>3 DEF TypeOK
  <2> QED BY <1>1, <1>2, <1>3, <1>4, <2>1 DEF TypeOK
<1>6. ValidIsTrue'
  <2> SUFFICES ASSUME NEW q \in ValidScopes'
      PROVE  /\ context'.tableLive
             /\ Resolved(query'[q], context') = PlanOf(scope'[q])
             /\ scope'[q].members = Matching(scope'[q].filter, row')
    BY DEF ValidIsTrue
  <2>1. q \in Requests /\ scope'[q] # None /\ ~scope'[q].void
    BY DEF ValidScopes, Kept
  <2>2. q \in ValidScopes
    BY <1>1, <1>3, <1>4, <1>5, <2>1, StaysValid
  <2>3. scope'[q] = scope[q] /\ ~Outdated(q, ctx, rows, changed)
    BY <1>3, <2>1, <2>2
  <2>4. scope[q].members = Matching(scope[q].filter, row)
    BY <1>1, <2>2 DEF ValidIsTrue
  <2>5. /\ Resolved(query[q], ctx) = PlanOf(scope[q])
        /\ \A r \in changed : (r \in scope[q].members) = (r \in Matching(scope[q].filter, rows))
    BY <2>3 DEF Outdated, PlanOf
  <2>6. scope[q].members = Matching(scope[q].filter, rows)
    <3>1. \A r \in Records : r \in scope[q].members <=> r \in Matching(scope[q].filter, rows)
      BY <2>4, <2>5 DEF Matching
    <3>2. scope[q].members \subseteq Records /\ Matching(scope[q].filter, rows) \subseteq Records
      BY <2>4 DEF Matching
    <3> QED BY <3>1, <3>2
  <2> QED BY <1>2, <2>3, <2>5, <2>6
<1> QED BY <1>2, <1>3, <1>4, <1>5, <1>6, AgingStep

\* MutateRecords: rows that are left out are as they were.
LEMMA MutateCommits ==
  ASSUME TypeOK, MutateRecords
  PROVE  Commits
<1>1. PICK changed \in (SUBSET Records) \ {{}} :
        \E new \in [changed -> Row] :
          Commit(context, [r \in Records |-> IF r \in changed THEN new[r] ELSE row[r]], changed, Cardinality(changed))
  BY DEF MutateRecords
<1>2. PICK new \in [changed -> Row] :
        Commit(context, [r \in Records |-> IF r \in changed THEN new[r] ELSE row[r]], changed, Cardinality(changed))
  BY <1>1
<1> DEFINE rows == [r \in Records |-> IF r \in changed THEN new[r] ELSE row[r]]
<1>3. rows \in [Records -> Row] /\ \A r \in Records \ changed : rows[r] = row[r]
  BY DEF TypeOK
<1>4. Cardinality(changed) \in Nat \ {0}
  <2>1. IsFiniteSet(changed)
    BY FS_Subset, SelectionAssumption
  <2>2. Cardinality(changed) \in Nat /\ (Cardinality(changed) = 0 <=> changed = {})
    BY <2>1, FS_CardinalityType, FS_EmptySet
  <2> QED BY <2>2
<1>5. context \in Context
  BY DEF TypeOK
<1> HIDE DEF rows
<1>6. Commit(context, rows, changed, Cardinality(changed))
  BY <1>2 DEF rows
<1> QED BY <1>3, <1>4, <1>5, <1>6 DEF Commits

\* Writers of the View and of the Field: the rows stay, and so does the Table.
LEMMA ContextCommits ==
  ASSUME TypeOK, UpdateView \/ DeleteOrRestoreView \/ DeleteOrRestoreField
  PROVE  Commits
<1>1. row \in [Records -> Row] /\ context \in Context
  BY DEF TypeOK
<1>2. PICK ctx \in Context : ctx.tableLive = context.tableLive /\ Commit(ctx, row, {}, 1)
  <2>1. CASE UpdateView
    <3>1. PICK f \in Filters : Commit([context EXCEPT !.viewFilter = f], row, {}, 1)
      BY <2>1 DEF UpdateView
    <3>2. /\ [context EXCEPT !.viewFilter = f] \in Context
          /\ [context EXCEPT !.viewFilter = f].tableLive = context.tableLive
      BY <1>1 DEF Context
    <3> QED BY <3>1, <3>2
  <2>2. CASE DeleteOrRestoreView
    <3>1. PICK ctx : ctx = [context EXCEPT !.viewLive = ~context.viewLive]
      OBVIOUS
    <3>2. Commit(ctx, row, {}, 1)
      BY <2>2, <3>1 DEF DeleteOrRestoreView
    <3>3. ctx \in Context /\ ctx.tableLive = context.tableLive
      BY <1>1, <3>1 DEF Context
    <3> QED BY <3>2, <3>3
  <2>3. CASE DeleteOrRestoreField
    <3>1. PICK ctx : ctx = [context EXCEPT !.fieldLive = ~context.fieldLive]
      OBVIOUS
    <3>2. Commit(ctx, row, {}, 1)
      BY <2>3, <3>1 DEF DeleteOrRestoreField
    <3>3. ctx \in Context /\ ctx.tableLive = context.tableLive
      BY <1>1, <3>1 DEF Context
    <3> QED BY <3>2, <3>3
  <2> QED BY <2>1, <2>2, <2>3
<1>3. {} \in SUBSET Records /\ 1 \in Nat \ {0} /\ \A r \in Records \ {} : row[r] = row[r]
  OBVIOUS
<1> QED BY <1>1, <1>2, <1>3 DEF Commits

\* ConvertField: every Record with a value counts as changed, whether it converts or not.
LEMMA ConvertCommits ==
  ASSUME TypeOK, ConvertField
  PROVE  Commits
<1>1. row \in [Records -> Row] /\ context \in Context /\ 0 \in Values
  BY SelectionAssumption DEF TypeOK
<1>2. PICK lost \in SUBSET Records :
        Commit([context EXCEPT !.kind = IF @ = "text" THEN "number" ELSE "text"],
               [r \in Records |-> IF r \in lost THEN [row[r] EXCEPT !.value = 0] ELSE row[r]],
               {r \in Records : row[r].value # 0}, 1)
  BY DEF ConvertField
<1> DEFINE rows == [r \in Records |-> IF r \in lost THEN [row[r] EXCEPT !.value = 0] ELSE row[r]]
           changed == {r \in Records : row[r].value # 0}
<1>3. PICK ctx \in Context : /\ ctx = [context EXCEPT !.kind = IF @ = "text" THEN "number" ELSE "text"]
                            /\ ctx.tableLive = context.tableLive
  <2>1. PICK kind \in {"text", "number"} : kind = IF context.kind = "text" THEN "number" ELSE "text"
    OBVIOUS
  <2>2. PICK ctx : ctx = [context EXCEPT !.kind = kind]
    OBVIOUS
  <2>3. ctx \in Context /\ ctx.tableLive = context.tableLive
    BY <1>1, <2>2 DEF Context
  <2> QED BY <2>1, <2>2, <2>3
<1>4. ASSUME NEW r \in Records
      PROVE  rows[r] \in Row /\ (r \notin changed => rows[r] = row[r])
  <2>1. PICK x \in Row : x = row[r]
    BY <1>1
  <2>2. PICK y : y = [x EXCEPT !.value = 0]
    OBVIOUS
  <2>3. y \in Row /\ (x.value = 0 => y = x)
    BY <1>1, <2>2 DEF Row
  <2>4. rows[r] = IF r \in lost THEN y ELSE x
    BY <2>1, <2>2
  <2> QED BY <2>1, <2>3, <2>4
<1>5. rows \in [Records -> Row] /\ changed \in SUBSET Records /\ \A r \in Records \ changed : rows[r] = row[r]
  BY <1>4
<1>6. Commit(ctx, rows, changed, 1)
  BY <1>2, <1>3
<1>7. 1 \in Nat \ {0}
  OBVIOUS
<1> HIDE DEF rows, changed
<1> QED BY <1>3, <1>5, <1>6, <1>7 DEF Commits

\* A deleted Table has no valid scope, and none comes back with it.
LEMMA TableStep ==
  ASSUME SelectionInv, DeleteTable \/ RestoreTable
  PROVE  SelectionInv'
<1>1. TypeOK /\ ValidIsTrue
  BY DEF SelectionInv
<1>2. /\ UNCHANGED <<row, tail, query, sent, told, read, clock>>
      /\ context' \in Context
  BY <1>1 DEF DeleteTable, RestoreTable, OnlyWrite, TypeOK, Context
<1>3. ASSUME NEW q \in Requests
      PROVE  /\ scope'[q] \in Scope \cup {None}
             /\ Ages(q) /\ (scope[q] = None <=> scope'[q] = None)
             /\ scope[q] # None => scope'[q].members = scope[q].members
             /\ q \notin ValidScopes'
  <2>1. CASE DeleteTable
    <3>1. scope'[q] = IF q \in Kept THEN [scope[q] EXCEPT !.void = TRUE] ELSE scope[q]
      BY <2>1 DEF DeleteTable, Revoked
    <3>2. CASE q \in Kept
      <4>1. PICK s \in Scope : s = scope[q] /\ s # None
        BY <1>1, <3>2 DEF Kept, TypeOK
      <4>2. PICK t \in Scope : /\ t = [s EXCEPT !.void = TRUE] /\ t.void = TRUE
                               /\ t.filter = s.filter /\ t.schema = s.schema /\ t.members = s.members
                               /\ t.created = s.created /\ t.expires = s.expires
        BY Voided
      <4>3. scope'[q] = t /\ t # None
        BY <3>1, <3>2, <4>1, <4>2, NoneIsNothing
      <4> QED BY <4>1, <4>2, <4>3 DEF Ages, ValidScopes
    <3>3. CASE q \notin Kept
      <4>1. scope[q] = None /\ scope'[q] = None
        BY <3>1, <3>3 DEF Kept
      <4> QED BY <4>1 DEF Ages, ValidScopes, Kept
    <3> QED BY <3>2, <3>3
  <2>2. CASE RestoreTable
    <3>1. scope' = scope /\ clock' = clock
      BY <2>2 DEF RestoreTable, OnlyWrite
    <3>2. q \notin ValidScopes
      BY <1>1, <2>2 DEF RestoreTable, ValidIsTrue
    <3> QED BY <1>1, <3>1, <3>2 DEF Ages, ValidScopes, Kept, Expired, TypeOK
  <2> QED BY <2>1, <2>2
<1>4. scope' \in [Requests -> Scope \cup {None}]
  <2>1. scope' = [q \in Requests |-> scope'[q]]
    BY <1>1 DEF DeleteTable, RestoreTable, Revoked, TypeOK
  <2> QED BY <1>3, <2>1
<1>5. TypeOK'
  <2>1. \A q \in Requests : scope'[q] # None => Cardinality(scope'[q].members) <= MemberLimit
    BY <1>1, <1>3 DEF TypeOK
  <2> QED BY <1>1, <1>2, <1>4, <2>1 DEF TypeOK
<1>6. ValidIsTrue'
  BY <1>3 DEF ValidIsTrue, ValidScopes, Kept
<1>7. clock' >= clock /\ tail' >= tail /\ row' = row
  BY <1>1, <1>2 DEF TypeOK
<1> QED BY <1>2, <1>3, <1>5, <1>6, <1>7, AgingStep

\* Time passes, and scopes whose time is over are deleted.
LEMMA TimeStep ==
  ASSUME SelectionInv, CleanupScopes \/ Tick \/ UNCHANGED vars
  PROVE  SelectionInv'
<1>1. TypeOK /\ ValidIsTrue
  BY DEF SelectionInv
<1>2. UNCHANGED <<row, context, query, sent, told, read, tail>>
  BY DEF CleanupScopes, Tick, vars
<1>3. clock \in Nat /\ clock' \in Nat /\ clock' >= clock /\ tail' >= tail
  BY <1>1 DEF CleanupScopes, Tick, vars, TypeOK
<1>4. ASSUME NEW q \in Requests
      PROVE  Ages(q) /\ (scope[q] = None => scope'[q] = None) /\ scope'[q] \in {scope[q], None}
  <2>1. CASE CleanupScopes
    <3>1. PICK doomed \in SUBSET {p \in Kept : Expired(scope[p])} :
            scope' = [p \in Requests |-> IF p \in doomed THEN None ELSE scope[p]]
      BY <2>1 DEF CleanupScopes
    <3>2. scope'[q] = IF q \in doomed THEN None ELSE scope[q]
      BY <3>1
    <3> QED BY <3>1, <3>2 DEF Ages, Expired
  <2>2. CASE Tick \/ UNCHANGED vars
    BY <2>2 DEF Tick, vars, Ages
  <2> QED BY <2>1, <2>2
<1>5. scope' \in [Requests -> Scope \cup {None}]
  <2>1. scope' = [q \in Requests |-> scope'[q]]
    BY <1>1 DEF CleanupScopes, Tick, vars, TypeOK
  <2>2. \A q \in Requests : scope'[q] \in Scope \cup {None}
    BY <1>1, <1>4 DEF TypeOK
  <2> QED BY <2>1, <2>2
<1>6. TypeOK'
  BY <1>1, <1>2, <1>3, <1>4, <1>5 DEF TypeOK
<1>7. ValidIsTrue'
  <2> SUFFICES ASSUME NEW q \in ValidScopes'
      PROVE  /\ context'.tableLive
             /\ Resolved(query'[q], context') = PlanOf(scope'[q])
             /\ scope'[q].members = Matching(scope'[q].filter, row')
    BY DEF ValidIsTrue
  <2>1. q \in Requests /\ scope'[q] # None
    BY DEF ValidScopes, Kept
  <2>2. scope'[q] = scope[q] /\ q \in ValidScopes
    BY <1>1, <1>3, <1>4, <1>6, <2>1, StaysValid
  <2> QED BY <1>1, <1>2, <2>2 DEF ValidIsTrue
<1> QED BY <1>2, <1>3, <1>4, <1>6, <1>7, AgingStep

(***************************************************************************)
(* AcquireSelection.                                                       *)
(***************************************************************************)

\* A request is sent for the first time: it has no scope and was told nothing.
LEMMA SendStep ==
  ASSUME SelectionInv, NEW q \in Requests, Send(q)
  PROVE  SelectionInv'
<1>1. TypeOK /\ Budgets /\ ValidIsTrue /\ RequestsTrue /\ ReadersTrue
  BY DEF SelectionInv
<1>2. /\ query[q] = Void /\ UNCHANGED <<row, context, scope, told, read, tail, clock>>
      /\ sent' = [sent EXCEPT ![q] = clock]
  BY DEF Send
<1>3. PICK f \in Query : query' = [query EXCEPT ![q] = f]
  BY DEF Send
<1>4. TypeOK'
  BY <1>1, <1>2, <1>3 DEF TypeOK
<1>5. RequestTrue(q) /\ scope[q] = None /\ told[q] = {}
  BY <1>1, <1>2 DEF RequestsTrue, RequestTrue
<1>6. RequestsTrue'
  <2> SUFFICES ASSUME NEW p \in Requests PROVE RequestTrue(p)'
    BY DEF RequestsTrue
  <2>1. CASE p = q
    <3>1. sent'[q] = clock /\ clock \in Nat /\ clock' = clock /\ scope'[q] = None /\ told'[q] = {}
      BY <1>1, <1>2, <1>5 DEF TypeOK
    <3>2. q \notin ValidScopes'
      BY <3>1 DEF ValidScopes, Kept
    <3> QED BY <2>1, <3>1, <3>2 DEF RequestTrue
  <2>2. CASE p # q
    <3>1. query'[p] = query[p] /\ sent'[p] = sent[p] /\ told'[p] = told[p] /\ scope'[p] = scope[p]
      BY <1>1, <1>2, <1>3, <2>2 DEF TypeOK
    <3>2. RequestTrue(p) /\ (p \in ValidScopes' <=> p \in ValidScopes)
      BY <1>1, <1>2, <3>1 DEF RequestsTrue, ValidScopes, Kept, Expired
    <3> QED BY <1>2, <3>1, <3>2 DEF RequestTrue
  <2> QED BY <2>1, <2>2
<1>7. ValidIsTrue'
  <2> SUFFICES ASSUME NEW p \in ValidScopes'
      PROVE  /\ context'.tableLive
             /\ Resolved(query'[p], context') = PlanOf(scope'[p])
             /\ scope'[p].members = Matching(scope'[p].filter, row')
    BY DEF ValidIsTrue
  <2>1. p \in ValidScopes /\ p # q
    BY <1>2, <1>5 DEF ValidScopes, Kept, Expired
  <2>2. query'[p] = query[p]
    BY <1>1, <1>3, <2>1 DEF TypeOK, ValidScopes, Kept
  <2> QED BY <1>1, <1>2, <2>1, <2>2 DEF ValidIsTrue
<1>8. Budgets'
  BY <1>1, <1>2 DEF Budgets, BudgetsKept, Kept, ValidScopes, Expired, MembersOf
<1>9. ReadersTrue'
  <2>1. \A p \in Requests : Ages(p)
    BY <1>2 DEF Ages
  <2>2. clock' >= clock /\ tail' >= tail
    BY <1>1, <1>2 DEF TypeOK
  <2> QED BY <1>1, <1>2, <1>4, <2>1, <2>2, ReaderStays DEF ReadersTrue
<1> QED BY <1>4, <1>6, <1>7, <1>8, <1>9 DEF SelectionInv

\* A repeated request is told what it was told before.
LEMMA AgainStep ==
  ASSUME SelectionInv, NEW q \in Requests, AcquireAgain(q)
  PROVE  UNCHANGED vars
<1>1. told[q] = {scope[q].members} /\ told \in [Requests -> SUBSET (SUBSET Records)]
  BY DEF SelectionInv, RequestsTrue, RequestTrue, AcquireAgain, TypeOK
<1>2. told' = [told EXCEPT ![q] = told[q] \cup {scope[q].members}]
  BY DEF AcquireAgain, Tell
<1>3. told' = told
  BY <1>1, <1>2
<1> QED BY <1>3 DEF AcquireAgain, vars

\* What is swept is forgotten once its time is over, or was void already.
LEMMA SweptAges ==
  ASSUME TypeOK, NEW q \in Requests, scope'[q] = Swept[q]
  PROVE  /\ Ages(q) /\ (scope[q] = None => scope'[q] = None)
         /\ scope'[q] \in Scope \cup {None}
         /\ scope'[q] # None => Cardinality(scope'[q].members) <= MemberLimit
<1>1. scope'[q] = IF q \notin Kept \/ Expired(scope[q]) THEN None
                  ELSE IF scope[q].void THEN [scope[q] EXCEPT !.members = {}] ELSE scope[q]
  BY DEF Swept
<1>2. CASE q \notin Kept \/ Expired(scope[q])
  <2>1. scope'[q] = None /\ (scope[q] # None => Expired(scope[q]))
    BY <1>1, <1>2 DEF Kept
  <2> QED BY <2>1 DEF Ages, Expired
<1>3. CASE q \in Kept /\ ~Expired(scope[q])
  <2>1. PICK s \in Scope : s = scope[q] /\ s # None
    BY <1>3 DEF Kept, TypeOK
  <2>2. CASE s.void
    <3>1. PICK t : t = [s EXCEPT !.members = {}]
      OBVIOUS
    <3>2. /\ t \in Scope /\ t.members = {} /\ t.filter = s.filter /\ t.schema = s.schema
          /\ t.void = s.void /\ t.expires = s.expires
      BY <3>1 DEF Scope
    <3>3. scope'[q] = t /\ t # None
      BY <1>1, <1>3, <2>1, <2>2, <3>1, <3>2, NoneIsNothing
    <3>4. Ages(q)
      BY <2>1, <2>2, <3>2, <3>3 DEF Ages
    <3>5. Cardinality(scope'[q].members) <= MemberLimit
      <4>1. Cardinality({}) = 0 /\ MemberLimit \in Nat
        BY FS_EmptySet, SelectionAssumption
      <4> QED BY <3>2, <3>3, <4>1
    <3> QED BY <2>1, <3>2, <3>3, <3>4, <3>5
  <2>3. CASE ~s.void
    <3>1. scope'[q] = s
      BY <1>1, <1>3, <2>1, <2>3
    <3> QED BY <2>1, <3>1 DEF Ages, TypeOK
  <2> QED BY <2>2, <2>3
<1> QED BY <1>2, <1>3

\* What AcquireNew does, and why the request has not been answered before.
LEMMA NewScope ==
  ASSUME TypeOK, NEW q \in Requests, RequestTrue(q), AcquireNew(q)
  PROVE  \E p \in Plans, new \in Scope :
           /\ p = Resolved(query[q], context)
           /\ new # None /\ ~new.void /\ new.expires = clock + TTL
           /\ new.filter = p.filter /\ new.schema = p.schema /\ new.members = Matching(p.filter, row)
           /\ scope' \in [Requests -> Scope \cup {None}] /\ scope'[q] = new /\ scope[q] = None
           /\ \A r \in Requests \ {q} : scope'[r] = Swept[r]
           /\ WithinBudget(new.members)
           /\ query[q] # Void /\ clock < sent[q] + TTL /\ context.tableLive
           /\ told[q] = {} /\ told' = [told EXCEPT ![q] = {new.members}]
<1>1. /\ query[q] # Void /\ clock < sent[q] + TTL /\ context.tableLive /\ scope[q] = None
      /\ Resolved(query[q], context) # None
  BY DEF AcquireNew, MayAcquire, Kept
<1>2. PICK p \in Plans : p = Resolved(query[q], context)
  <2>1. query[q] \in Query /\ context \in Context
    BY <1>1 DEF TypeOK
  <2> QED BY <1>1, <2>1, PlanType
<1>3. /\ WithinBudget(Matching(p.filter, row))
      /\ scope' = [Swept EXCEPT ![q] = [filter |-> p.filter, schema |-> p.schema, members |-> Matching(p.filter, row),
                                        void |-> FALSE, created |-> clock, expires |-> clock + TTL]]
      /\ told' = [told EXCEPT ![q] = told[q] \cup {Matching(p.filter, row)}]
  BY <1>2 DEF AcquireNew, Tell
<1>4. PICK new : new = [filter |-> p.filter, schema |-> p.schema, members |-> Matching(p.filter, row),
                        void |-> FALSE, created |-> clock, expires |-> clock + TTL]
  OBVIOUS
<1>5. p.filter \in Filters /\ p.schema \in Schemas /\ Matching(p.filter, row) \in SUBSET Records
  BY DEF Plans, Matching
<1>6. clock \in Nat /\ clock + TTL \in Nat
  BY SelectionAssumption DEF TypeOK
<1>7. new \in Scope /\ new # None
  <2>1. new \in Scope
    BY <1>4, <1>5, <1>6 DEF Scope
  <2> QED BY <2>1, NoneIsNothing
<1>8. /\ ~new.void /\ new.expires = clock + TTL
      /\ new.filter = p.filter /\ new.schema = p.schema /\ new.members = Matching(p.filter, row)
  BY <1>4
<1>9. scope' = [Swept EXCEPT ![q] = new]
  BY <1>3, <1>4
<1>10. Swept \in [Requests -> Scope \cup {None}]
  <2>1. ASSUME NEW r \in Requests PROVE Swept[r] \in Scope \cup {None}
    <3>1. CASE r \notin Kept \/ Expired(scope[r])
      BY <3>1 DEF Swept
    <3>2. CASE r \in Kept /\ ~Expired(scope[r])
      <4>1. PICK s \in Scope : s = scope[r]
        BY <3>2 DEF Kept, TypeOK
      <4>2. [s EXCEPT !.members = {}] \in Scope
        BY DEF Scope
      <4> QED BY <3>2, <4>1, <4>2 DEF Swept
    <3> QED BY <3>1, <3>2
  <2>2. Swept = [r \in Requests |-> Swept[r]]
    BY DEF Swept
  <2> QED BY <2>1, <2>2
<1>11. /\ scope' \in [Requests -> Scope \cup {None}] /\ scope'[q] = new
       /\ \A r \in Requests \ {q} : scope'[r] = Swept[r]
  BY <1>7, <1>9, <1>10
<1>12. told[q] = {}
  <2>1. ~(clock >= sent[q] + TTL)
    BY <1>1, <1>6, SelectionAssumption DEF TypeOK
  <2> QED BY <1>1, <2>1 DEF RequestTrue
<1>13. told' = [told EXCEPT ![q] = {new.members}]
  BY <1>3, <1>8, <1>12
<1>14. WithinBudget(new.members)
  BY <1>3, <1>8
<1> QED BY <1>1, <1>2, <1>7, <1>8, <1>11, <1>12, <1>13, <1>14

\* A set that grows by at most one element.
LEMMA OneMore ==
  ASSUME NEW S, IsFiniteSet(S), NEW x, NEW T \in SUBSET (S \cup {x}), NEW n \in Nat, Cardinality(S) < n
  PROVE  IsFiniteSet(T) /\ Cardinality(T) <= n
<1>1. /\ IsFiniteSet(S \cup {x}) /\ Cardinality(S \cup {x}) \in {Cardinality(S), Cardinality(S) + 1}
  BY FS_AddElement
<1>2. IsFiniteSet(T) /\ Cardinality(T) <= Cardinality(S \cup {x})
  BY <1>1, FS_Subset
<1>3. Cardinality(S) \in Nat /\ Cardinality(T) \in Nat
  BY <1>2, FS_CardinalityType
<1> QED BY <1>1, <1>2, <1>3

\* AcquireNew checks the budgets after the sweep, for what it adds itself: one request, one valid
\* scope, and its members.
LEMMA NewBudgets ==
  ASSUME TypeOK, Budgets, NEW q \in Requests, RequestTrue(q), AcquireNew(q)
  PROVE  Budgets'
<1>1. PICK p \in Plans, new \in Scope :
        /\ scope'[q] = new /\ \A r \in Requests \ {q} : scope'[r] = Swept[r]
        /\ WithinBudget(new.members)
        /\ new.members = Matching(p.filter, row)
  BY NewScope
<1> DEFINE B == {r \in Requests : Swept[r] # None}
<1>2. IsFiniteSet(Kept) /\ BudgetsKept /\ clock' = clock
  BY DEF Budgets, AcquireNew
<1>3. /\ Cardinality(ValidScopes) < ScopeLimit /\ Cardinality(B) < RequestLimit
      /\ Cardinality(MembersOf(ValidScopes)) + Cardinality(new.members) <= TotalLimit
  BY <1>1 DEF WithinBudget
<1>4. /\ ScopeLimit \in Nat /\ RequestLimit \in Nat /\ TotalLimit \in Nat /\ IsFiniteSet(Records)
  BY SelectionAssumption
<1>5. ASSUME NEW r \in Requests \ {q}, scope'[r] # None
      PROVE  r \in Kept /\ (scope'[r].members = {} \/ (r \in ValidScopes /\ scope'[r] = scope[r]))
             /\ (~scope'[r].void => r \in ValidScopes)
  <2>1. scope'[r] = IF r \notin Kept \/ Expired(scope[r]) THEN None
                    ELSE IF scope[r].void THEN [scope[r] EXCEPT !.members = {}] ELSE scope[r]
    BY <1>1 DEF Swept
  <2>2. r \in Kept /\ ~Expired(scope[r])
    BY <1>5, <2>1
  <2>3. PICK s \in Scope : s = scope[r]
    BY <2>2 DEF Kept, TypeOK
  <2>4. CASE s.void
    <3>1. PICK t : t = [s EXCEPT !.members = {}]
      OBVIOUS
    <3>2. t.members = {} /\ t.void
      BY <2>4, <3>1 DEF Scope
    <3>3. scope'[r] = t
      BY <2>1, <2>2, <2>3, <2>4, <3>1
    <3>4. scope'[r].members = {}
      BY <3>2, <3>3
    <3>5. scope'[r].void
      BY <3>2, <3>3
    <3> QED BY <2>2, <3>4, <3>5
  <2>5. CASE ~s.void
    BY <2>1, <2>2, <2>3, <2>5 DEF ValidScopes
  <2> QED BY <2>2, <2>4, <2>5
<1>6. IsFiniteSet(B) /\ IsFiniteSet(ValidScopes) /\ ValidScopes \subseteq Kept
  <2>1. B \in SUBSET Kept /\ ValidScopes \in SUBSET Kept
    BY DEF Swept, Kept, ValidScopes
  <2> QED BY <1>2, <2>1, FS_Subset
<1>7. IsFiniteSet(Kept') /\ Cardinality(Kept') <= RequestLimit
  <2>1. Kept' \in SUBSET (B \cup {q})
    BY <1>1 DEF Kept
  <2> HIDE DEF B
  <2> QED BY <1>3, <1>4, <1>6, <2>1, OneMore
<1>8. Cardinality(ValidScopes') <= ScopeLimit
  <2>1. ValidScopes' \in SUBSET (ValidScopes \cup {q})
    <3> SUFFICES ASSUME NEW r \in ValidScopes', r # q PROVE r \in ValidScopes
      OBVIOUS
    <3>1. r \in Requests \ {q} /\ scope'[r] # None /\ ~scope'[r].void
      BY DEF ValidScopes, Kept
    <3> QED BY <1>5, <3>1
  <2> QED BY <1>3, <1>4, <1>6, <2>1, OneMore
<1>9. Cardinality(MembersOf(Kept)') <= TotalLimit
  <2> DEFINE M == MembersOf(ValidScopes)
             N == {q} \X new.members
  <2>1. IsFiniteSet(M)
    <3>1. IsFiniteSet(ValidScopes \X Records) /\ M \in SUBSET (ValidScopes \X Records)
      BY <1>4, <1>6, FS_Product DEF MembersOf
    <3> QED BY <3>1, FS_Subset
  <2>2. IsFiniteSet(N) /\ Cardinality(N) = Cardinality(new.members) /\ Cardinality(new.members) \in Nat
    <3>1. new.members \in SUBSET Records
      BY DEF Scope
    <3>2. IsFiniteSet(new.members) /\ IsFiniteSet({q}) /\ Cardinality({q}) = 1
      BY <1>4, <3>1, FS_Subset, FS_Singleton
    <3>3. IsFiniteSet(N) /\ Cardinality(N) = Cardinality({q}) * Cardinality(new.members)
      BY <3>2, FS_Product
    <3>4. Cardinality(new.members) \in Nat
      BY <3>2, FS_CardinalityType
    <3> QED BY <3>2, <3>3, <3>4
  <2>3. MembersOf(Kept)' \in SUBSET (M \cup N)
    <3> SUFFICES ASSUME NEW m \in Kept' \X Records, m[2] \in scope'[m[1]].members
        PROVE  m \in M \cup N
      BY DEF MembersOf
    <3>1. m = <<m[1], m[2]>> /\ m[1] \in Requests /\ scope'[m[1]] # None /\ m[2] \in Records
      BY DEF Kept
    <3>2. CASE m[1] = q
      BY <1>1, <3>1, <3>2
    <3>3. CASE m[1] # q
      <4>1. m[1] \in ValidScopes /\ scope'[m[1]] = scope[m[1]]
        BY <1>5, <3>1, <3>3
      <4> QED BY <3>1, <4>1 DEF MembersOf
    <3> QED BY <3>2, <3>3
  <2> HIDE DEF M, N
  <2>4. /\ IsFiniteSet(M \cup N)
        /\ Cardinality(M \cup N) = Cardinality(M) + Cardinality(N) - Cardinality(M \cap N)
    BY <2>1, <2>2, FS_Union
  <2>5. Cardinality(MembersOf(Kept)') <= Cardinality(M \cup N) /\ Cardinality(MembersOf(Kept)') \in Nat
    <3>1. IsFiniteSet(MembersOf(Kept)') /\ Cardinality(MembersOf(Kept)') <= Cardinality(M \cup N)
      BY <2>3, <2>4, FS_Subset
    <3> QED BY <3>1, FS_CardinalityType
  <2>6. Cardinality(M) \in Nat /\ Cardinality(M \cap N) \in Nat
    <3>1. IsFiniteSet(M \cap N)
      BY <2>1, FS_Subset
    <3> QED BY <2>1, <3>1, FS_CardinalityType
  <2>7. Cardinality(M) + Cardinality(new.members) <= TotalLimit
    BY <1>3 DEF M
  <2> QED BY <1>4, <2>2, <2>4, <2>5, <2>6, <2>7
<1> QED BY <1>7, <1>8, <1>9 DEF Budgets, BudgetsKept

\* A selection is taken: it is what the query selects now, the first that the request is told,
\* and its time ends later than that of any scope of the request before.
LEMMA NewStep ==
  ASSUME SelectionInv, NEW q \in Requests, AcquireNew(q)
  PROVE  SelectionInv'
<1>1. TypeOK /\ Budgets /\ ValidIsTrue /\ RequestsTrue /\ ReadersTrue /\ RequestTrue(q)
  BY DEF SelectionInv, RequestsTrue
<1>2. PICK p \in Plans, new \in Scope :
        /\ p = Resolved(query[q], context)
        /\ new # None /\ ~new.void /\ new.expires = clock + TTL
        /\ new.filter = p.filter /\ new.schema = p.schema /\ new.members = Matching(p.filter, row)
        /\ scope' \in [Requests -> Scope \cup {None}] /\ scope'[q] = new /\ scope[q] = None
        /\ \A r \in Requests \ {q} : scope'[r] = Swept[r]
        /\ WithinBudget(new.members)
        /\ query[q] # Void /\ clock < sent[q] + TTL /\ context.tableLive
        /\ told[q] = {} /\ told' = [told EXCEPT ![q] = {new.members}]
  BY <1>1, NewScope
<1>3. UNCHANGED <<row, context, query, sent, read, tail, clock>>
  BY DEF AcquireNew
<1>4. clock \in Nat /\ TTL \in Nat \ {0} /\ clock' >= clock /\ tail' >= tail
  BY <1>1, <1>3, SelectionAssumption DEF TypeOK
<1>5. \A r \in Requests \ {q} : /\ Ages(r) /\ (scope[r] = None => scope'[r] = None)
                                /\ scope'[r] # None => Cardinality(scope'[r].members) <= MemberLimit
  BY <1>1, <1>2, SweptAges
<1>6. Ages(q)
  BY <1>2 DEF Ages
<1>7. TypeOK'
  <2>1. told' \in [Requests -> SUBSET (SUBSET Records)]
    BY <1>1, <1>2 DEF TypeOK, Scope
  <2>2. \A r \in Requests : scope'[r] # None => Cardinality(scope'[r].members) <= MemberLimit
    BY <1>2, <1>5 DEF WithinBudget
  <2> QED BY <1>1, <1>2, <1>3, <2>1, <2>2 DEF TypeOK
<1>8. Budgets'
  BY <1>1, NewBudgets
<1>9. ValidIsTrue'
  <2> SUFFICES ASSUME NEW r \in ValidScopes'
      PROVE  /\ context'.tableLive
             /\ Resolved(query'[r], context') = PlanOf(scope'[r])
             /\ scope'[r].members = Matching(scope'[r].filter, row')
    BY DEF ValidIsTrue
  <2>1. r \in Requests /\ scope'[r] # None
    BY DEF ValidScopes, Kept
  <2>2. CASE r = q
    <3>1. PlanOf(new) = p
      BY <1>2 DEF PlanOf, Plans
    <3> QED BY <1>2, <1>3, <2>2, <3>1
  <2>3. CASE r # q
    <3>1. r \in ValidScopes /\ scope'[r].members = scope[r].members /\ scope[r] # None
      BY <1>1, <1>4, <1>5, <1>7, <2>1, <2>3, StaysValid
    <3>2. scope'[r].filter = scope[r].filter /\ scope'[r].schema = scope[r].schema
      BY <1>5, <2>1, <2>3, <3>1 DEF Ages
    <3>3. PlanOf(scope'[r]) = PlanOf(scope[r])
      BY <3>2 DEF PlanOf
    <3> QED BY <1>1, <1>3, <3>1, <3>2, <3>3 DEF ValidIsTrue
  <2> QED BY <2>2, <2>3
<1>10. RequestsTrue'
  <2> SUFFICES ASSUME NEW r \in Requests PROVE RequestTrue(r)'
    BY DEF RequestsTrue
  <2>1. RequestTrue(r)
    BY <1>1 DEF RequestsTrue
  <2>2. CASE r = q
    <3>1. sent[q] \in Nat /\ sent[q] <= clock /\ clock + TTL >= sent[q] + TTL
      BY <1>1, <1>4, <2>1, <2>2 DEF TypeOK, RequestTrue
    <3>2. told'[q] = {new.members} /\ scope'[q] = new /\ new # None
      BY <1>1, <1>2 DEF TypeOK
    <3> QED BY <1>2, <1>3, <2>2, <3>1, <3>2 DEF RequestTrue
  <2>3. CASE r # q
    <3>1. query'[r] = query[r] /\ sent'[r] = sent[r] /\ told'[r] = told[r]
      BY <1>1, <1>2, <1>3, <2>3 DEF TypeOK
    <3> QED BY <1>1, <1>4, <1>5, <1>7, <2>1, <2>3, <3>1, RequestStays
  <2> QED BY <2>2, <2>3
<1>11. ReadersTrue'
  <2> SUFFICES ASSUME NEW c \in Readers PROVE ReaderTrue(c)'
    BY DEF ReadersTrue
  <2>1. ReaderTrue(c)
    BY <1>1 DEF ReadersTrue
  <2>2. \A r \in Requests : Ages(r)
    BY <1>5, <1>6
  <2> QED BY <1>1, <1>3, <1>4, <1>7, <2>1, <2>2, ReaderStays
<1> QED BY <1>7, <1>8, <1>9, <1>10, <1>11 DEF SelectionInv

(***************************************************************************)
(* Readings.                                                               *)
(***************************************************************************)

\* A step of one reader.
LEMMA ReaderStep ==
  ASSUME SelectionInv, OnlyRead, NEW c \in Readers, NEW r \in Reading, ReadingTrue(r), read' = [read EXCEPT ![c] = r]
  PROVE  SelectionInv'
<1>1. TypeOK /\ Budgets /\ ValidIsTrue /\ RequestsTrue /\ ReadersTrue
  BY DEF SelectionInv
<1>2. UNCHANGED <<row, context, query, sent, scope, told, tail, clock>>
  BY DEF OnlyRead
<1>3. TypeOK'
  BY <1>1, <1>2 DEF TypeOK
<1>4. Budgets' /\ ValidIsTrue' /\ RequestsTrue'
  <2>1. Kept' = Kept /\ ValidScopes' = ValidScopes
    BY <1>2 DEF Kept, ValidScopes, Expired
  <2>2. Budgets'
    BY <1>1, <1>2, <2>1 DEF Budgets, BudgetsKept, MembersOf
  <2>3. ValidIsTrue'
    BY <1>1, <1>2, <2>1 DEF ValidIsTrue
  <2>4. RequestsTrue'
    BY <1>1, <1>2, <2>1 DEF RequestsTrue, RequestTrue
  <2> QED BY <2>2, <2>3, <2>4
<1>5. ReadersTrue'
  <2> SUFFICES ASSUME NEW d \in Readers PROVE ReaderTrue(d)'
    BY DEF ReadersTrue
  <2>1. CASE d = c
    <3>1. read'[c] = r
      BY <1>1 DEF TypeOK
    <3>2. ReadingTrue(r)'
      <4>1. Named(r.of) => Named(r.of)'
        BY <1>2 DEF Named
      <4>2. StillValid(r.of)' => StillValid(r.of)
        BY <1>2 DEF StillValid, ValidScopes, Kept, Expired
      <4>3. Page(r.of[1])' = Page(r.of[1])
        BY <1>2 DEF Page, Keys, Matching
      <4>4. ReadSoFar(r.seen, Page(r.of[1])) => ReadSoFar(r.seen, Page(r.of[1]))'
        BY <4>3 DEF ReadSoFar
      <4> QED BY <1>2, <4>1, <4>2, <4>4 DEF ReadingTrue
    <3> QED BY <2>1, <3>1, <3>2 DEF ReaderTrue
  <2>2. CASE d # c
    <3>1. read'[d] = read[d] /\ ReaderTrue(d)
      BY <1>1, <2>2 DEF TypeOK, ReadersTrue
    <3>2. (\A q \in Requests : Ages(q)) /\ clock' >= clock /\ tail' >= tail /\ row' = row
      BY <1>1, <1>2 DEF Ages, TypeOK
    <3> QED BY <1>1, <1>3, <3>1, <3>2, ReaderStays
  <2> QED BY <2>1, <2>2
<1> QED BY <1>1, <1>3, <1>4, <1>5 DEF SelectionInv

LEMMA IdleTrue ==
  ASSUME TypeOK
  PROVE  Idle \in Reading /\ ReadingTrue(Idle)
<1>1. Idle \in Reading
  BY DEF Idle, Reading, Schemas
<1>2. Idle.pc = "idle" /\ Idle.at = 0 /\ Idle.seen = <<>> /\ tail \in Nat
  BY DEF Idle, TypeOK
<1>3. Ascending(<<>>)
  BY DEF Ascending
<1> QED BY <1>1, <1>2, <1>3 DEF ReadingTrue

\* The token of a first page, and that of the page after.
LEMMA StartStep ==
  ASSUME SelectionInv, NEW c \in Readers, StartPage(c)
  PROVE  SelectionInv'
<1>1. TypeOK /\ ReaderTrue(c) /\ OnlyRead
  BY DEF SelectionInv, ReadersTrue, StartPage
<1>2. context.kind \in Schemas
  BY <1>1 DEF TypeOK, Context, Schemas
<1>3. PICK r \in Reading : ReadingTrue(r) /\ read' = [read EXCEPT ![c] = r]
  <2>1. CASE \E q \in Requests :
               /\ Usable(q, scope[q].expires)
               /\ read' = [read EXCEPT ![c] = [Idle EXCEPT !.pc = "first", !.of = <<q, scope[q].expires>>, !.kind = context.kind]]
    <3>1. PICK q \in Requests :
            /\ Usable(q, scope[q].expires)
            /\ read' = [read EXCEPT ![c] = [Idle EXCEPT !.pc = "first", !.of = <<q, scope[q].expires>>, !.kind = context.kind]]
      BY <2>1
    <3>2. PICK i \in Reading : i = Idle /\ i.seen = <<>> /\ i.at = 0
      BY <1>1, IdleTrue DEF Idle
    <3>3. scope[q] # None /\ scope[q].expires \in Nat
      BY <1>1, <3>1 DEF Usable, ValidScopes, Kept, TypeOK, Scope
    <3>4. PICK r : r = [i EXCEPT !.pc = "first", !.of = <<q, scope[q].expires>>, !.kind = context.kind]
      OBVIOUS
    <3>5. r \in Reading
      BY <1>2, <3>3, <3>4 DEF Reading
    <3>6. r.pc = "first" /\ r.of = <<q, scope[q].expires>> /\ r.seen = <<>> /\ r.at = 0
      BY <3>2, <3>4 DEF Reading
    <3>7. read' = [read EXCEPT ![c] = r]
      BY <3>1, <3>2, <3>4
    <3>8. Named(r.of)
      BY <3>3, <3>6 DEF Named
    <3>9. ReadingTrue(r)
      <4>1. Ascending(<<>>)
        BY DEF Ascending
      <4> QED BY <1>1, <3>6, <3>8, <4>1 DEF ReadingTrue, TypeOK
    <3> QED BY <3>5, <3>7, <3>9
  <2>2. CASE /\ read[c].pc = "more"
             /\ read' = [read EXCEPT ![c] = [@ EXCEPT !.pc = "next", !.kind = context.kind]]
    <3>1. PICK o \in Reading : o = read[c]
      BY <1>1 DEF TypeOK
    <3>2. PICK r : r = [o EXCEPT !.pc = "next", !.kind = context.kind]
      OBVIOUS
    <3>3. r \in Reading
      BY <1>2, <3>2 DEF Reading
    <3>4. r.pc = "next" /\ r.of = o.of /\ r.seen = o.seen /\ r.at = o.at
      BY <3>2 DEF Reading
    <3>5. ReadingTrue(r)
      BY <1>1, <2>2, <3>1, <3>4 DEF ReaderTrue, ReadingTrue
    <3> QED BY <2>2, <3>1, <3>2, <3>3, <3>5
  <2> QED BY <2>1, <2>2 DEF StartPage
<1> QED BY <1>1, <1>3, ReaderStep

LEMMA GiveUpStep ==
  ASSUME SelectionInv, NEW c \in Readers, GiveUp(c)
  PROVE  SelectionInv'
<1>1. Idle \in Reading /\ ReadingTrue(Idle)
  BY IdleTrue DEF SelectionInv
<1> QED BY <1>1, ReaderStep DEF GiveUp

\* A reading that takes the least key after the last one goes on in order and leaves none out.
LEMMA OneKeyMore ==
  ASSUME NEW s \in Seq(SortKeys), NEW P \in SUBSET SortKeys, NEW rest \in SUBSET P, NEW k \in rest,
         Ascending(s), SeenOf(s) = P \ rest, \A l \in rest \ {k} : Before(k, l),
         s # <<>> => Before(s[Len(s)], k)
  PROVE  /\ Append(s, k) \in Seq(SortKeys) /\ Append(s, k) # <<>>
         /\ Ascending(Append(s, k))
         /\ SeenOf(Append(s, k)) = SeenOf(s) \cup {k}
         /\ ReadSoFar(Append(s, k), P)
<1> DEFINE t == Append(s, k)
<1>1. /\ t \in Seq(SortKeys) /\ Len(t) = Len(s) + 1 /\ t[Len(s) + 1] = k
      /\ \A i \in 1 .. Len(s) : t[i] = s[i]
  BY AppendProperties
<1>2. Len(s) \in Nat /\ DOMAIN s = 1 .. Len(s) /\ DOMAIN t = 1 .. Len(t) /\ \A i \in 1 .. Len(s) : s[i] \in SortKeys
  BY <1>1, LenProperties, ElementOfSeq
<1>3. t # <<>>
  BY AppendProperties
<1>4. \A i \in 1 .. Len(s) : Before(s[i], k)
  <2> SUFFICES ASSUME NEW i \in 1 .. Len(s) PROVE Before(s[i], k)
    OBVIOUS
  <2>1. s # <<>> /\ Len(s) \in 1 .. Len(s)
    <3>1. Len(s) # 0 /\ Len(s) \in 1 .. Len(s)
      BY <1>2
    <3> QED BY <3>1, EmptySeq
  <2>2. Before(s[Len(s)], k) /\ s[Len(s)] \in SortKeys /\ s[i] \in SortKeys
    BY <1>2, <2>1
  <2>3. CASE i = Len(s)
    BY <2>2, <2>3
  <2>4. CASE i # Len(s)
    <3>1. i < Len(s)
      <4>1. PICK n \in Nat : n = Len(s) /\ i \in 1 .. n /\ i # n
        BY <1>2, <2>4
      <4>2. i < n
        BY <4>1
      <4> QED BY <4>1, <4>2
    <3>2. Before(s[i], s[Len(s)])
      BY <1>2, <2>1, <3>1 DEF Ascending
    <3> QED BY <2>2, <3>2, KeyOrder
  <2> QED BY <2>3, <2>4
<1>5. Ascending(t)
  <2> SUFFICES ASSUME NEW i \in DOMAIN t, NEW j \in DOMAIN t, i < j PROVE Before(t[i], t[j])
    BY DEF Ascending
  <2>1. i \in 1 .. Len(s) /\ t[i] = s[i]
    BY <1>1, <1>2
  <2>2. CASE j \in 1 .. Len(s)
    <3>1. t[j] = s[j]
      BY <1>1, <2>2
    <3> QED BY <1>2, <2>1, <2>2, <3>1 DEF Ascending
  <2>3. CASE j \notin 1 .. Len(s)
    <3>1. t[j] = k
      BY <1>1, <1>2, <2>3
    <3> QED BY <1>4, <2>1, <3>1
  <2> QED BY <2>2, <2>3
<1>6. SeenOf(t) = SeenOf(s) \cup {k}
  <2>1. DOMAIN t = DOMAIN s \cup {Len(s) + 1} /\ Len(s) + 1 \notin DOMAIN s
    BY <1>1, <1>2
  <2> HIDE DEF t
  <2> QED BY <1>1, <1>2, <2>1 DEF SeenOf
<1>7. ReadSoFar(t, P)
  <2>1. t[Len(t)] = k
    BY <1>1
  <2>2. ASSUME NEW l \in P PROVE l \in SeenOf(t) <=> ~Before(k, l)
    <3>1. CASE l = k
      BY <1>6, <3>1, KeyOrder
    <3>2. CASE l \in rest \ {k}
      <4>1. l \notin SeenOf(t)
        BY <1>6, <3>2
      <4> QED BY <3>2, <4>1
    <3>3. CASE l \notin rest
      <4>1. PICK i \in 1 .. Len(s) : s[i] = l
        BY <1>2, <3>3 DEF SeenOf
      <4>2. Before(l, k) /\ l \in SeenOf(t)
        BY <1>4, <1>6, <3>3, <4>1
      <4> QED BY <4>2, KeyOrder
    <3> QED BY <3>1, <3>2, <3>3
  <2>3. SeenOf(t) \subseteq P
    BY <1>6
  <2> QED BY <2>1, <2>2, <2>3 DEF ReadSoFar
<1> QED BY <1>1, <1>3, <1>5, <1>6, <1>7

\* A page: the least key after the last one that was read, from a scope that is still valid and,
\* after the first page, with the Change tail of the page before.
LEMMA PageRead ==
  ASSUME TypeOK, ValidIsTrue, NEW c \in Readers, ReaderTrue(c), ReadPage(c)
  PROVE  \E q \in Requests, r \in Reading :
           /\ q = read[c].of[1] /\ q \in ValidScopes /\ Page(q) = Keys(scope[q].members)
           /\ read' = [read EXCEPT ![c] = r]
           /\ r.of = read[c].of /\ Named(r.of) /\ r.at = tail /\ Ascending(r.seen)
           /\ r.pc = "done" => SeenOf(r.seen) = Page(q)
           /\ r.pc # "done" => r.pc = "more" /\ r.seen # <<>> /\ ReadSoFar(r.seen, Page(q))
<1> DEFINE q == read[c].of[1]
           s == read[c].seen
           rest == {k \in Page(q) : s = <<>> \/ Before(s[Len(s)], k)}
<1>1. PICK o \in Reading : o = read[c]
  BY DEF TypeOK
<1>2. /\ o.pc \in {"first", "next"} /\ Usable(q, o.of[2]) /\ (o.pc = "next" => o.at = tail)
  BY <1>1 DEF ReadPage, SamePageSequence
<1>3. Named(o.of) /\ Ascending(s) /\ q \in Requests /\ s \in Seq(SortKeys) /\ tail \in Nat
  BY <1>1, <1>2 DEF ReaderTrue, ReadingTrue, Named, Reading, SortKeys, TypeOK
<1>4. q \in ValidScopes /\ StillValid(o.of)
  BY <1>1, <1>2 DEF Usable, StillValid
<1>5. Page(q) = Keys(scope[q].members) /\ Page(q) \in SUBSET SortKeys
  <2>1. scope[q].members = Matching(scope[q].filter, row) /\ scope[q].members \subseteq Records
    BY <1>4 DEF ValidIsTrue, Matching
  <2>2. \A r \in Records : row[r].value \in Values
    BY DEF TypeOK, Row
  <2> QED BY <2>1, <2>2 DEF Page, Keys, SortKeys
<1>6. SeenOf(s) = Page(q) \ rest
  <2>1. CASE o.pc = "first"
    <3>1. s = <<>>
      BY <1>1, <2>1 DEF ReaderTrue, ReadingTrue
    <3>2. SeenOf(s) = {} /\ rest = Page(q)
      BY <3>1 DEF SeenOf
    <3> QED BY <3>2
  <2>2. CASE o.pc = "next"
    <3>1. s # <<>> /\ ReadSoFar(s, Page(q))
      BY <1>1, <1>2, <1>4, <2>2 DEF ReaderTrue, ReadingTrue
    <3> QED BY <3>1 DEF ReadSoFar
  <2> QED BY <1>2, <2>1, <2>2
<1>7. read' = [read EXCEPT ![c] =
        IF rest = {} THEN [o EXCEPT !.pc = "done", !.at = tail]
        ELSE LET k == CHOOSE k \in rest : \A l \in rest \ {k} : Before(k, l) IN
             [o EXCEPT !.pc = IF rest = {k} THEN "done" ELSE "more", !.seen = Append(s, k), !.at = tail]]
  BY <1>1 DEF ReadPage
<1>8. CASE rest = {}
  <2>1. PICK r : r = [o EXCEPT !.pc = "done", !.at = tail]
    OBVIOUS
  <2>2. r \in Reading /\ r.pc = "done" /\ r.of = o.of /\ r.seen = o.seen /\ r.at = tail
    BY <1>3, <2>1 DEF Reading
  <2>3. SeenOf(r.seen) = Page(q)
    BY <1>1, <1>6, <1>8, <2>2
  <2>4. read' = [read EXCEPT ![c] = r]
    BY <1>7, <1>8, <2>1
  <2> QED BY <1>1, <1>3, <1>4, <1>5, <2>2, <2>3, <2>4
<1>9. CASE rest # {}
  <2> DEFINE k == CHOOSE k \in rest : \A l \in rest \ {k} : Before(k, l)
  <2>1. k \in rest /\ \A l \in rest \ {k} : Before(k, l)
    <3>1. \E x \in rest : \A l \in rest \ {x} : Before(x, l)
      <4>1. rest \in SUBSET SortKeys
        BY <1>5
      <4> HIDE DEF rest
      <4> QED BY <1>9, <4>1, LeastKey
    <3> HIDE DEF rest
    <3> QED BY <3>1
  <2>2. s # <<>> => Before(s[Len(s)], k)
    BY <2>1
  <2>3. PICK pc \in {"done", "more"} : pc = IF rest = {k} THEN "done" ELSE "more"
    OBVIOUS
  <2>4. /\ Append(s, k) \in Seq(SortKeys) /\ Append(s, k) # <<>>
        /\ Ascending(Append(s, k))
        /\ SeenOf(Append(s, k)) = SeenOf(s) \cup {k}
        /\ ReadSoFar(Append(s, k), Page(q))
    <3>1. rest \in SUBSET Page(q)
      OBVIOUS
    <3> HIDE DEF rest, k, s, q
    <3> QED BY <1>3, <1>5, <1>6, <2>1, <2>2, <3>1, OneKeyMore
  <2>5. PICK r : r = [o EXCEPT !.pc = pc, !.seen = Append(s, k), !.at = tail]
    OBVIOUS
  <2>6. r \in Reading /\ r.pc = pc /\ r.of = o.of /\ r.seen = Append(s, k) /\ r.at = tail
    <3> HIDE DEF k, s, rest
    <3> QED BY <1>3, <2>3, <2>4, <2>5 DEF Reading, SortKeys
  <2>7. read' = [read EXCEPT ![c] = r]
    <3> HIDE DEF rest, s
    <3> QED BY <1>7, <1>9, <2>3, <2>5
  <2>8. r.pc = "done" => SeenOf(r.seen) = Page(q)
    <3>1. r.pc = "done" => rest = {k}
      BY <2>3, <2>6
    <3>2. rest \subseteq Page(q)
      OBVIOUS
    <3> HIDE DEF rest, k, s, q
    <3> QED BY <1>6, <2>4, <2>6, <3>1, <3>2
  <2>9. /\ r.of = read[c].of /\ Named(r.of) /\ r.at = tail /\ Ascending(r.seen)
        /\ r.pc # "done" => r.pc = "more" /\ r.seen # <<>> /\ ReadSoFar(r.seen, Page(q))
    <3> HIDE DEF rest, k, s, q
    <3> QED BY <1>1, <1>3, <2>3, <2>4, <2>6
  <2> HIDE DEF rest, k, s
  <2> QED BY <1>3, <1>4, <1>5, <2>6, <2>7, <2>8, <2>9
<1> QED BY <1>8, <1>9

LEMMA ReadStep ==
  ASSUME SelectionInv, NEW c \in Readers, ReadPage(c)
  PROVE  SelectionInv'
<1>1. TypeOK /\ ValidIsTrue /\ ReaderTrue(c) /\ OnlyRead
  BY DEF SelectionInv, ReadersTrue, ReadPage
<1>2. PICK q \in Requests, r \in Reading :
        /\ q = read[c].of[1]
        /\ read' = [read EXCEPT ![c] = r]
        /\ r.of = read[c].of /\ Named(r.of) /\ r.at = tail /\ Ascending(r.seen)
        /\ r.pc # "done" => r.pc = "more" /\ r.seen # <<>> /\ ReadSoFar(r.seen, Page(q))
  BY <1>1, PageRead
<1>3. ReadingTrue(r)
  <2>1. tail \in Nat /\ tail <= tail
    BY <1>1 DEF TypeOK
  <2> QED BY <1>2, <2>1 DEF ReadingTrue
<1> QED BY <1>1, <1>2, <1>3, ReaderStep

(***************************************************************************)
(* The specification.                                                      *)
(***************************************************************************)

LEMMA InitInv == Init => SelectionInv
<1> SUFFICES ASSUME Init PROVE SelectionInv
  OBVIOUS
<1>1. /\ query = [q \in Requests |-> Void] /\ sent = [q \in Requests |-> 0]
      /\ scope = [q \in Requests |-> None] /\ told = [q \in Requests |-> {}]
      /\ read = [c \in Readers |-> Idle] /\ tail = 0 /\ clock = 0
  BY DEF Init
<1>2. row \in [Records -> Row] /\ context \in Context
  <2>1. NoRow \in Row
    BY SelectionAssumption DEF Row, NoRow
  <2>2. row \in [Records -> Row]
    <3>1. \A x \in [live : {TRUE}, value : Values] : x \in Row
      BY DEF Row
    <3> QED BY <2>1, <3>1 DEF Init
  <2>3. PICK f \in Filters :
          context = [viewFilter |-> f, viewLive |-> TRUE, fieldLive |-> TRUE, kind |-> "text", tableLive |-> TRUE]
    BY DEF Init
  <2> QED BY <2>2, <2>3 DEF Context
<1>3. Idle \in Reading
  BY DEF Idle, Reading, Schemas
<1>4. TypeOK
  BY <1>1, <1>2, <1>3 DEF TypeOK
<1>5. Kept = {} /\ ValidScopes = {}
  BY <1>1 DEF Kept, ValidScopes
<1>6. Budgets
  <2>1. MembersOf(Kept) = {}
    BY <1>5 DEF MembersOf
  <2>2. IsFiniteSet({}) /\ Cardinality({}) = 0
    BY FS_EmptySet
  <2>3. 0 <= ScopeLimit /\ 0 <= RequestLimit /\ 0 <= TotalLimit
    BY SelectionAssumption
  <2>4. BudgetsKept
    BY <1>5, <2>1, <2>2, <2>3 DEF BudgetsKept
  <2> QED BY <1>5, <2>2, <2>4 DEF Budgets
<1>7. ValidIsTrue
  BY <1>5 DEF ValidIsTrue
<1>8. RequestsTrue
  BY <1>1, <1>5 DEF RequestsTrue, RequestTrue
<1>9. ReadersTrue
  <2>1. ReadingTrue(Idle)
    BY <1>4, IdleTrue
  <2> QED BY <1>1, <2>1 DEF ReadersTrue, ReaderTrue
<1> QED BY <1>4, <1>6, <1>7, <1>8, <1>9 DEF SelectionInv

LEMMA NextInv == SelectionInv /\ [Next]_vars => SelectionInv'
<1> SUFFICES ASSUME SelectionInv, [Next]_vars PROVE SelectionInv'
  OBVIOUS
<1>1. CASE MutateRecords
  BY <1>1, MutateCommits, CommitStep DEF SelectionInv
<1>2. CASE UpdateView \/ DeleteOrRestoreView \/ DeleteOrRestoreField
  BY <1>2, ContextCommits, CommitStep DEF SelectionInv
<1>3. CASE ConvertField
  BY <1>3, ConvertCommits, CommitStep DEF SelectionInv
<1>4. CASE DeleteTable \/ RestoreTable
  BY <1>4, TableStep
<1>5. CASE CleanupScopes \/ Tick \/ UNCHANGED vars
  BY <1>5, TimeStep
<1>6. ASSUME NEW q \in Requests, Send(q) \/ AcquireAgain(q) \/ AcquireNew(q) PROVE SelectionInv'
  <2>1. CASE AcquireAgain(q)
    <3>1. UNCHANGED vars
      BY <2>1, AgainStep
    <3> QED BY <3>1, TimeStep
  <2> QED BY <1>6, <2>1, SendStep, NewStep
<1>7. ASSUME NEW c \in Readers, StartPage(c) \/ ReadPage(c) \/ GiveUp(c) PROVE SelectionInv'
  BY <1>7, StartStep, ReadStep, GiveUpStep
<1> QED BY <1>1, <1>2, <1>3, <1>4, <1>5, <1>6, <1>7 DEF Next

THEOREM SelectionCorrect == Spec => []SelectionInv
<1> QED BY InitInv, NextInv, PTL DEF Spec

\* invalidateSelections and its callers: in every reachable state a scope that is valid holds
\* just the Records that its query matches, under the filter and the schema that it resolves to.
THEOREM ValidScopesAreTrue == Spec => []ValidIsTrue
<1>1. SelectionInv => ValidIsTrue
  BY DEF SelectionInv
<1> QED BY <1>1, SelectionCorrect, PTL

LEMMA AtMostOne ==
  ASSUME NEW S, \A x, y \in S : x = y
  PROVE  Cardinality(S) <= 1
<1>1. CASE S = {}
  BY <1>1, FS_EmptySet
<1>2. CASE S # {}
  <2>1. PICK x \in S : S = {x}
    BY <1>2
  <2> QED BY <2>1, FS_Singleton
<1> QED BY <1>1, <1>2

\* AcquireSelection: its budgets hold for any limits, and a request that is repeated is told what
\* it was told at first.
THEOREM ScopesAreFixed == Spec => []ScopesInv
<1>1. SelectionInv => ScopesInv
  <2> SUFFICES ASSUME SelectionInv PROVE ScopesInv
    OBVIOUS
  <2>1. \A q \in Requests : Cardinality(told[q]) <= 1
    BY AtMostOne DEF SelectionInv, RequestsTrue, RequestTrue
  <2> QED BY <2>1 DEF SelectionInv, Budgets, ScopesInv, RepeatedIsSame
<1> QED BY <1>1, SelectionCorrect, PTL

\* Only a page ends a reading.
LEMMA DoneByPage ==
  ASSUME SelectionInv, Next, NEW c \in Readers, read'[c].pc = "done", read[c].pc # "done"
  PROVE  ReadPage(c)
<1>1. read' # read /\ read \in [Readers -> Reading]
  BY DEF SelectionInv, TypeOK
<1>2. PICK d \in Readers : StartPage(d) \/ ReadPage(d) \/ GiveUp(d)
  <2>1. ~(UNCHANGED read)
    BY <1>1
  <2> QED BY <2>1 DEF Next, MutateRecords, UpdateView, DeleteOrRestoreView, DeleteOrRestoreField, ConvertField, Commit,
                      DeleteTable, RestoreTable, OnlyWrite, Send, AcquireAgain, AcquireNew, CleanupScopes, Tick
<1>3. d = c
  <2>1. d # c => read'[c] = read[c]
    BY <1>1, <1>2 DEF StartPage, ReadPage, GiveUp
  <2> QED BY <2>1
<1>4. ~GiveUp(c)
  <2>1. GiveUp(c) => read'[c] = Idle
    BY <1>1 DEF GiveUp
  <2> QED BY <2>1 DEF Idle
<1>5. ~StartPage(c)
  <2>1. PICK o \in Reading : o = read[c]
    BY <1>1
  <2>2. ASSUME StartPage(c), read[c].pc # "more" PROVE FALSE
    <3>1. PICK of, kind : read' = [read EXCEPT ![c] = [Idle EXCEPT !.pc = "first", !.of = of, !.kind = kind]]
      BY <2>2 DEF StartPage
    <3>2. read'[c] = [Idle EXCEPT !.pc = "first", !.of = of, !.kind = kind]
      BY <1>1, <3>1
    <3>3. read'[c].pc = "first"
      BY <3>2 DEF Idle
    <3> QED BY <3>3
  <2>3. ASSUME StartPage(c), read[c].pc = "more" PROVE FALSE
    <3>1. read' = [read EXCEPT ![c] = [o EXCEPT !.pc = "next", !.kind = context.kind]]
      BY <2>1, <2>3 DEF StartPage
    <3>2. read'[c] = [o EXCEPT !.pc = "next", !.kind = context.kind]
      BY <1>1, <3>1
    <3>3. read'[c].pc = "next"
      BY <3>2 DEF Reading
    <3> QED BY <3>3
  <2> QED BY <2>2, <2>3
<1> QED BY <1>2, <1>3, <1>4, <1>5

\* The pages of QueryRecords: however writers, cleanup and other clients interleave, a reading
\* that ends has read all members of its scope, once each and in order.
THEOREM ReadingsAreComplete == Spec => ReadingComplete
<1>1. ASSUME SelectionInv, [Next]_vars
      PROVE  [\A c \in Readers : read'[c].pc = "done" /\ read[c].pc # "done" =>
               LET seen == read'[c].seen IN
               /\ {seen[i] : i \in DOMAIN seen} = Keys(scope[read[c].of[1]].members)
               /\ \A i, j \in DOMAIN seen : i < j => Before(seen[i], seen[j])]_read
  <2> SUFFICES ASSUME read' # read, NEW c \in Readers, read'[c].pc = "done", read[c].pc # "done"
      PROVE  /\ SeenOf(read'[c].seen) = Keys(scope[read[c].of[1]].members)
             /\ Ascending(read'[c].seen)
    BY DEF SeenOf, Ascending
  <2>1. Next
    BY <1>1 DEF vars
  <2>2. ReadPage(c) /\ TypeOK /\ ValidIsTrue /\ ReaderTrue(c)
    BY <1>1, <2>1, DoneByPage DEF SelectionInv, ReadersTrue
  <2>3. PICK q \in Requests, r \in Reading :
          /\ q = read[c].of[1] /\ Page(q) = Keys(scope[q].members)
          /\ read' = [read EXCEPT ![c] = r] /\ Ascending(r.seen)
          /\ r.pc = "done" => SeenOf(r.seen) = Page(q)
    BY <2>2, PageRead
  <2>4. read'[c] = r
    BY <2>2, <2>3 DEF TypeOK
  <2> QED BY <2>3, <2>4
<1> QED BY <1>1, SelectionCorrect, PTL DEF Spec, ReadingComplete

(***************************************************************************)
(* Refinement: scopes are fixed selections.                                *)
(***************************************************************************)

LEMMA InitRefined == Init => Fixed!FixedInit
<1> SUFFICES ASSUME Init PROVE Fixed!FixedInit
  OBVIOUS
<1>1. query = [q \in Requests |-> Void] /\ scope = [q \in Requests |-> None]
  BY DEF Init
<1>2. \A q \in Requests : Truth(q) = None /\ Selected(q) = None
  BY <1>1 DEF Truth, Selected, Kept
<1> QED BY <1>2 DEF Fixed!FixedInit

LEMMA ChangeRefined ==
  ASSUME \A q \in Requests :
           Selected(q)' = IF Selected(q) \notin {None, Void} /\ Truth(q)' # Selected(q) THEN Void ELSE Selected(q)
  PROVE  Fixed!Change
BY DEF Fixed!Change, Fixed!Usable

LEMMA FadeRefined ==
  ASSUME \A q \in Requests : Truth(q)' = Truth(q) /\ Selected(q)' \in {Selected(q), None}
  PROVE  Fixed!Fade
<1> DEFINE ended == {q \in Requests : Selected(q) # None /\ Selected(q)' = None}
<1>1. ended \in SUBSET {q \in Requests : [p \in Requests |-> Selected(p)][q] # None}
  OBVIOUS
<1>2. \A q \in Requests : Selected(q)' = IF q \in ended THEN None ELSE [p \in Requests |-> Selected(p)][q]
  OBVIOUS
<1> HIDE DEF ended
<1> QED BY <1>1, <1>2 DEF Fixed!Fade

LEMMA TakeRefined ==
  ASSUME NEW q \in Requests, Selected(q) = None, Truth(q) # None, Selected(q)' = Truth(q),
         \A p \in Requests : Truth(p)' = Truth(p) /\ (p # q => Selected(p)' = Selected(p))
  PROVE  Fixed!Take(q)
<1>1. {} \in SUBSET {p \in Requests : [r \in Requests |-> Selected(r)][p] = Void}
  OBVIOUS
<1>2. [p \in Requests |-> Selected(p)]' =
        [p \in Requests |-> IF p = q THEN [r \in Requests |-> Truth(r)][q]
                            ELSE IF p \in {} THEN None ELSE [r \in Requests |-> Selected(r)][p]]
  OBVIOUS
<1> QED BY <1>1, <1>2 DEF Fixed!Take

LEMMA StutterRefined ==
  ASSUME \A q \in Requests : Truth(q)' = Truth(q) /\ Selected(q)' = Selected(q)
  PROVE  UNCHANGED Fixed!fixedVars
BY DEF Fixed!fixedVars

\* Valid scopes are the selections that may be used, and they are the truth.
LEMMA ValidSelected ==
  ASSUME SelectionInv, NEW q \in Requests
  PROVE  /\ q \in ValidScopes => /\ Selected(q) = <<scope[q].filter, scope[q].schema, scope[q].members>>
                                 /\ Selected(q) \notin {None, Void} /\ Truth(q) = Selected(q) /\ query[q] # Void
         /\ q \notin ValidScopes => Selected(q) \in {None, Void}
<1>1. CASE q \in ValidScopes
  <2>1. PICK s \in Scope : s = scope[q] /\ s # None /\ ~s.void
    BY <1>1 DEF SelectionInv, TypeOK, ValidScopes, Kept
  <2>2. Selected(q) = <<s.filter, s.schema, s.members>>
    BY <1>1, <2>1 DEF Selected, ValidScopes
  <2>3. <<s.filter, s.schema, s.members>> \in Filters \X Schemas \X SUBSET Records
    BY DEF Scope
  <2>4. Selected(q) \notin {None, Void}
    BY <2>2, <2>3, NoneAssumption
  <2>5. query[q] # Void
    BY <2>1 DEF SelectionInv, RequestsTrue, RequestTrue
  <2>6. /\ context.tableLive /\ Resolved(query[q], context) = PlanOf(s)
        /\ s.members = Matching(s.filter, row)
    BY <1>1, <2>1 DEF SelectionInv, ValidIsTrue
  <2>7. PlanOf(s) # None /\ PlanOf(s).filter = s.filter /\ PlanOf(s).schema = s.schema
    <3>1. PlanOf(s) \in Plans
      BY DEF PlanOf, Plans, Scope
    <3> QED BY <3>1, NoneIsNothing DEF PlanOf
  <2>8. Truth(q) = <<s.filter, s.schema, s.members>>
    BY <2>5, <2>6, <2>7 DEF Truth
  <2> QED BY <1>1, <2>1, <2>2, <2>4, <2>5, <2>8
<1>2. CASE q \notin ValidScopes
  BY <1>2 DEF Selected, ValidScopes
<1> QED BY <1>1, <1>2

\* A scope that is not valid stays as it is for a client that asks for it.
LEMMA InvalidSelected ==
  ASSUME TypeOK, NEW q \in Requests, q \notin ValidScopes, clock' = clock,
         scope[q] = None <=> scope'[q] = None,
         scope[q] # None => (scope[q].void => scope'[q].void) /\ scope'[q].expires = scope[q].expires
  PROVE  Selected(q)' = Selected(q)
<1>1. CASE scope[q] = None
  BY <1>1 DEF Selected, Kept
<1>2. CASE scope[q] # None
  <2>1. Expired(scope[q])' <=> Expired(scope[q])
    BY <1>2 DEF Expired
  <2>2. q \in Kept /\ q \in Kept'
    BY <1>2 DEF Kept
  <2>3. Expired(scope[q]) \/ scope[q].void
    BY <2>2 DEF ValidScopes
  <2>4. CASE Expired(scope[q])
    BY <2>1, <2>4 DEF Selected
  <2>5. CASE ~Expired(scope[q])
    <3>1. scope[q].void /\ scope'[q].void
      BY <1>2, <2>3, <2>5
    <3> QED BY <2>1, <2>2, <2>5, <3>1 DEF Selected
  <2> QED BY <2>4, <2>5
<1> QED BY <1>1, <1>2

\* invalidateSelections voids just the scopes that are not the truth any more.
LEMMA CommitRefined ==
  ASSUME SelectionInv, Commits
  PROVE  Fixed!Change
<1> PICK ctx \in Context, rows \in [Records -> Row], changed \in SUBSET Records, n \in Nat \ {0} :
      /\ ctx.tableLive = context.tableLive /\ \A r \in Records \ changed : rows[r] = row[r]
      /\ Commit(ctx, rows, changed, n)
  BY DEF Commits
<1>1. /\ context' = ctx /\ row' = rows /\ scope' = Invalidated(ctx, rows, changed)
      /\ query' = query /\ clock' = clock /\ context.tableLive
  BY DEF Commit, OnlyWrite
<1>2. TypeOK /\ ValidIsTrue
  BY DEF SelectionInv
<1>3. ASSUME NEW q \in Requests
      PROVE  Selected(q)' = IF Selected(q) \notin {None, Void} /\ Truth(q)' # Selected(q) THEN Void ELSE Selected(q)
  <2>1. CASE q \notin ValidScopes
    <3>1. scope'[q] = scope[q]
      BY <1>1, <2>1 DEF Invalidated
    <3>2. Selected(q)' = Selected(q)
      BY <1>1, <1>2, <2>1, <3>1, InvalidSelected
    <3> QED BY <2>1, <3>2, ValidSelected
  <2>2. CASE q \in ValidScopes
    <3> DEFINE p == Resolved(query[q], ctx)
    <3>1. PICK s \in Scope : s = scope[q] /\ s # None /\ ~s.void
      BY <1>2, <2>2 DEF TypeOK, ValidScopes, Kept
    <3>2. /\ Selected(q) = <<s.filter, s.schema, s.members>> /\ Selected(q) \notin {None, Void} /\ query[q] # Void
      BY <2>2, <3>1, ValidSelected
    <3>3. Truth(q)' = IF p = None THEN None ELSE <<p.filter, p.schema, Matching(p.filter, rows)>>
      BY <1>1, <3>2 DEF Truth, Matching
    <3>4. s.members = Matching(s.filter, row)
      BY <1>2, <2>2, <3>1 DEF ValidIsTrue
    <3>5. Outdated(q, ctx, rows, changed) <=> Truth(q)' # Selected(q)
      <4>1. CASE p = None
        <5>1. PlanOf(s) \in Plans
          BY DEF PlanOf, Plans, Scope
        <5> QED BY <3>1, <3>2, <3>3, <4>1, <5>1, NoneIsNothing DEF Outdated
      <4>2. CASE p # None /\ p # PlanOf(s)
        <5>1. p \in Plans
          <6>1. query[q] \in Query
            BY <1>2, <3>2 DEF TypeOK
          <6> QED BY <4>2, <6>1, PlanType
        <5>2. p.filter # s.filter \/ p.schema # s.schema
          BY <4>2, <5>1 DEF PlanOf, Plans
        <5>3. Truth(q)' # Selected(q)
          BY <3>2, <3>3, <4>2, <5>2
        <5> QED BY <3>1, <4>2, <5>3 DEF Outdated
      <4>3. CASE p # None /\ p = PlanOf(s)
        <5>1. p.filter = s.filter /\ p.schema = s.schema
          BY <4>3 DEF PlanOf
        <5>2. Truth(q)' # Selected(q) <=> Matching(s.filter, rows) # s.members
          BY <3>2, <3>3, <4>3, <5>1
        <5>3. Outdated(q, ctx, rows, changed) <=> \E r \in changed : (r \in s.members) # (r \in Matching(s.filter, rows))
          BY <3>1, <4>3, <5>1 DEF Outdated
        <5>4. \A r \in Records \ changed : r \in s.members <=> r \in Matching(s.filter, rows)
          BY <3>4 DEF Matching
        <5>5. s.members \subseteq Records /\ Matching(s.filter, rows) \subseteq Records
          BY <3>4 DEF Matching
        <5> QED BY <5>2, <5>3, <5>4, <5>5
      <4> QED BY <4>1, <4>2, <4>3
    <3>6. scope'[q] = IF Outdated(q, ctx, rows, changed) THEN [s EXCEPT !.void = TRUE] ELSE s
      BY <1>1, <2>2, <3>1 DEF Invalidated
    <3>7. q \in Kept' /\ ~(Expired(scope[q])')
      <4>1. ~(clock >= s.expires)
        BY <2>2, <3>1 DEF ValidScopes, Expired
      <4>2. CASE Outdated(q, ctx, rows, changed)
        <5>1. PICK t \in Scope : t = [s EXCEPT !.void = TRUE] /\ t.expires = s.expires /\ t # None
          BY Voided, NoneIsNothing
        <5>2. scope'[q] = t
          BY <3>6, <4>2, <5>1
        <5> QED BY <1>1, <4>1, <5>1, <5>2 DEF Kept, Expired
      <4>3. CASE ~Outdated(q, ctx, rows, changed)
        BY <1>1, <3>1, <3>6, <4>1, <4>3 DEF Kept, Expired
      <4> QED BY <4>2, <4>3
    <3>8. CASE Outdated(q, ctx, rows, changed)
      <4>1. PICK t \in Scope : t = [s EXCEPT !.void = TRUE] /\ t.void = TRUE
        BY Voided
      <4>2. scope'[q].void
        BY <3>6, <3>8, <4>1
      <4>3. Selected(q)' = Void
        BY <3>7, <4>2 DEF Selected
      <4> QED BY <3>2, <3>5, <3>8, <4>3
    <3>9. CASE ~Outdated(q, ctx, rows, changed)
      <4>1. scope'[q] = s
        BY <3>6, <3>9
      <4>2. Selected(q)' = <<s.filter, s.schema, s.members>>
        BY <3>1, <3>7, <4>1 DEF Selected
      <4> QED BY <3>2, <3>5, <3>9, <4>2
    <3> QED BY <3>8, <3>9
  <2> QED BY <2>1, <2>2
<1> QED BY <1>3, ChangeRefined

\* revoke_ancestor_selection_scopes: without its Table no query selects anything.
LEMMA TableRefined ==
  ASSUME SelectionInv, DeleteTable \/ RestoreTable
  PROVE  Fixed!Change
<1>1. TypeOK /\ ValidIsTrue /\ clock' = clock
  BY DEF SelectionInv, DeleteTable, RestoreTable, OnlyWrite
<1>2. ASSUME NEW q \in Requests
      PROVE  Selected(q)' = IF Selected(q) \notin {None, Void} /\ Truth(q)' # Selected(q) THEN Void ELSE Selected(q)
  <2>1. CASE DeleteTable
    <3>1. scope'[q] = IF q \in Kept THEN [scope[q] EXCEPT !.void = TRUE] ELSE scope[q]
      BY <2>1 DEF DeleteTable, Revoked
    <3>2. CASE scope[q] = None
      <4>1. scope'[q] = None /\ q \notin ValidScopes
        BY <3>1, <3>2 DEF Kept, ValidScopes
      <4> QED BY <1>1, <3>2, <4>1, InvalidSelected, ValidSelected
    <3>3. CASE scope[q] # None
      <4>1. PICK s \in Scope : s = scope[q] /\ s # None
        BY <1>1, <3>3 DEF TypeOK
      <4>2. PICK t \in Scope : /\ t = [s EXCEPT !.void = TRUE] /\ t.void = TRUE
                               /\ t.expires = s.expires /\ t # None
        BY Voided, NoneIsNothing
      <4>3. scope'[q] = t
        BY <3>1, <3>3, <4>1, <4>2 DEF Kept
      <4>4. CASE q \notin ValidScopes
        BY <1>1, <3>3, <4>1, <4>2, <4>3, <4>4, InvalidSelected, ValidSelected
      <4>5. CASE q \in ValidScopes
        <5>1. ~(clock >= s.expires)
          BY <4>1, <4>5 DEF ValidScopes, Expired
        <5>2. Selected(q)' = Void
          BY <1>1, <4>2, <4>3, <5>1 DEF Selected, Kept, Expired
        <5>3. Truth(q)' = None
          <6>1. ~context'.tableLive
            BY <1>1, <2>1 DEF DeleteTable, TypeOK, Context
          <6> QED BY <6>1 DEF Truth
        <5>4. Selected(q) \notin {None, Void}
          BY <4>5, ValidSelected
        <5> QED BY <5>2, <5>3, <5>4
      <4> QED BY <4>4, <4>5
    <3> QED BY <3>2, <3>3
  <2>2. CASE RestoreTable
    <3>1. scope' = scope /\ q \notin ValidScopes
      BY <1>1, <2>2 DEF RestoreTable, ValidIsTrue
    <3> QED BY <1>1, <3>1, InvalidSelected, ValidSelected
  <2> QED BY <2>1, <2>2
<1> QED BY <1>2, ChangeRefined

\* A query that is sent has selected nothing yet.
LEMMA SendRefined ==
  ASSUME SelectionInv, NEW q \in Requests, Send(q)
  PROVE  Fixed!Change
<1>1. TypeOK /\ RequestTrue(q)
  BY DEF SelectionInv, RequestsTrue
<1>2. UNCHANGED <<row, context, scope, clock>> /\ \A p \in Requests \ {q} : query'[p] = query[p]
  BY <1>1 DEF Send, TypeOK
<1>3. q \notin ValidScopes
  BY <1>1 DEF Send, RequestTrue, ValidScopes, Kept
<1>4. ASSUME NEW p \in Requests
      PROVE  Selected(p)' = IF Selected(p) \notin {None, Void} /\ Truth(p)' # Selected(p) THEN Void ELSE Selected(p)
  <2>1. Selected(p)' = Selected(p)
    BY <1>2 DEF Selected, Kept, Expired
  <2>2. CASE p \in ValidScopes
    <3>1. query'[p] = query[p] /\ p # q
      BY <1>2, <1>3, <2>2
    <3>2. Truth(p)' = Truth(p)
      BY <1>2, <3>1 DEF Truth, Matching
    <3> QED BY <2>1, <2>2, <3>2, ValidSelected
  <2>3. CASE p \notin ValidScopes
    BY <2>1, <2>3, ValidSelected
  <2> QED BY <2>2, <2>3
<1> QED BY <1>4, ChangeRefined

LEMMA TruthStays ==
  ASSUME UNCHANGED <<row, context, query>>, NEW q \in Requests
  PROVE  Truth(q)' = Truth(q)
BY DEF Truth, Matching

\* AcquireNew takes the truth, and leaves all other selections as they are: what is swept was no
\* selection any more.
LEMMA NewRefined ==
  ASSUME SelectionInv, NEW q \in Requests, AcquireNew(q)
  PROVE  Fixed!Take(q)
<1>1. TypeOK /\ RequestTrue(q)
  BY DEF SelectionInv, RequestsTrue
<1>2. PICK p \in Plans, new \in Scope :
        /\ p = Resolved(query[q], context)
        /\ new # None /\ ~new.void /\ new.expires = clock + TTL
        /\ new.filter = p.filter /\ new.schema = p.schema /\ new.members = Matching(p.filter, row)
        /\ scope'[q] = new /\ scope[q] = None
        /\ \A r \in Requests \ {q} : scope'[r] = Swept[r]
        /\ query[q] # Void /\ context.tableLive
  BY <1>1, NewScope
<1>3. UNCHANGED <<row, context, query, clock>> /\ clock \in Nat /\ TTL \in Nat \ {0}
  BY <1>1, SelectionAssumption DEF AcquireNew, TypeOK
<1>4. Truth(q) = <<p.filter, p.schema, new.members>>
  BY <1>2, NoneIsNothing DEF Truth
<1>5. Selected(q) = None /\ Selected(q)' = Truth(q)
  <2>1. Selected(q) = None
    BY <1>2 DEF Selected, Kept
  <2>2. q \in Kept' /\ ~(Expired(scope[q])')
    BY <1>2, <1>3 DEF Kept, Expired
  <2>3. Selected(q)' = <<new.filter, new.schema, new.members>>
    BY <1>2, <2>2 DEF Selected
  <2> QED BY <1>2, <1>4, <2>1, <2>3
<1>6. Truth(q) # None
  <2>1. <<p.filter, p.schema, new.members>> \in Filters \X Schemas \X SUBSET Records
    BY DEF Plans, Scope
  <2> QED BY <1>4, <2>1, NoneAssumption
<1>7. ASSUME NEW r \in Requests \ {q} PROVE Selected(r)' = Selected(r)
  <2>1. scope'[r] = IF r \notin Kept \/ Expired(scope[r]) THEN None
                    ELSE IF scope[r].void THEN [scope[r] EXCEPT !.members = {}] ELSE scope[r]
    BY <1>2 DEF Swept
  <2>2. CASE r \notin Kept \/ Expired(scope[r])
    <3>1. scope'[r] = None
      BY <2>1, <2>2
    <3> QED BY <2>2, <3>1 DEF Selected, Kept
  <2>3. CASE r \in Kept /\ ~Expired(scope[r])
    <3>1. PICK s \in Scope : s = scope[r] /\ s # None /\ ~(clock >= s.expires)
      BY <1>1, <2>3 DEF Kept, TypeOK, Expired
    <3>2. CASE s.void
      <4>1. PICK t : t = [s EXCEPT !.members = {}]
        OBVIOUS
      <4>2. t \in Scope /\ t.void /\ t.expires = s.expires
        BY <3>2, <4>1 DEF Scope
      <4>3. scope'[r] = t /\ t # None
        BY <2>1, <2>3, <3>1, <3>2, <4>1, <4>2, NoneIsNothing
      <4> QED BY <1>3, <2>3, <3>1, <3>2, <4>2, <4>3 DEF Selected, Kept, Expired
    <3>3. CASE ~s.void
      <4>1. scope'[r] = scope[r]
        BY <2>1, <2>3, <3>1, <3>3
      <4> QED BY <1>3, <4>1 DEF Selected, Kept, Expired
    <3> QED BY <3>2, <3>3
  <2> QED BY <2>2, <2>3
<1> QED BY <1>3, <1>5, <1>6, <1>7, TruthStays, TakeRefined

\* Time runs out for selections, and only for them does it matter that their scopes are deleted.
LEMMA TimeRefined ==
  ASSUME TypeOK, CleanupScopes \/ Tick
  PROVE  Fixed!Fade
<1>1. UNCHANGED <<row, context, query>>
  BY DEF CleanupScopes, Tick
<1>2. ASSUME NEW q \in Requests PROVE Selected(q)' \in {Selected(q), None}
  <2>1. CASE CleanupScopes
    <3>1. PICK doomed \in SUBSET {p \in Kept : Expired(scope[p])} :
            scope' = [p \in Requests |-> IF p \in doomed THEN None ELSE scope[p]]
      BY <2>1 DEF CleanupScopes
    <3>2. clock' = clock /\ scope'[q] \in {scope[q], None}
      BY <2>1, <3>1 DEF CleanupScopes
    <3> QED BY <3>2 DEF Selected, Kept, Expired
  <2>2. CASE Tick
    <3>1. scope' = scope /\ clock' = clock + 1 /\ clock \in Nat
      BY <2>2 DEF Tick, TypeOK
    <3>2. CASE q \notin Kept
      BY <3>1, <3>2 DEF Selected, Kept
    <3>3. CASE q \in Kept
      <4>1. PICK s \in Scope : s = scope[q] /\ s # None
        BY <3>3 DEF TypeOK, Kept
      <4>2. s.expires \in Nat
        BY DEF Scope
      <4>3. Expired(scope[q]) => Expired(scope[q])'
        BY <3>1, <4>1, <4>2 DEF Expired
      <4>4. q \in Kept'
        BY <3>1, <3>3 DEF Kept
      <4>5. CASE Expired(scope[q])'
        BY <4>5 DEF Selected
      <4>6. CASE ~(Expired(scope[q])')
        BY <3>1, <3>3, <4>3, <4>4, <4>6 DEF Selected
      <4> QED BY <4>5, <4>6
    <3> QED BY <3>2, <3>3
  <2> QED BY <2>1, <2>2
<1> QED BY <1>1, <1>2, TruthStays, FadeRefined

LEMMA NextRefined ==
  ASSUME SelectionInv, [Next]_vars
  PROVE  [Fixed!Change \/ Fixed!Fade \/ \E q \in Requests : Fixed!Take(q)]_(Fixed!fixedVars)
<1>1. TypeOK
  BY DEF SelectionInv
<1>2. CASE MutateRecords \/ UpdateView \/ DeleteOrRestoreView \/ DeleteOrRestoreField \/ ConvertField
  BY <1>1, <1>2, MutateCommits, ContextCommits, ConvertCommits, CommitRefined
<1>3. CASE DeleteTable \/ RestoreTable
  BY <1>3, TableRefined
<1>4. CASE CleanupScopes \/ Tick
  BY <1>1, <1>4, TimeRefined
<1>5. ASSUME NEW q \in Requests, Send(q) PROVE Fixed!Change
  BY <1>5, SendRefined
<1>6. ASSUME NEW q \in Requests, AcquireNew(q) PROVE Fixed!Take(q)
  BY <1>6, NewRefined
<1>7. ASSUME \/ \E q \in Requests : AcquireAgain(q)
             \/ \E c \in Readers : StartPage(c) \/ ReadPage(c) \/ GiveUp(c)
             \/ UNCHANGED vars
      PROVE  UNCHANGED Fixed!fixedVars
  <2>1. UNCHANGED <<row, context, query, scope, clock>>
    BY <1>7 DEF AcquireAgain, StartPage, ReadPage, GiveUp, OnlyRead, vars
  <2>2. \A q \in Requests : Selected(q)' = Selected(q)
    BY <2>1 DEF Selected, Kept, Expired
  <2> QED BY <2>1, <2>2, TruthStays, StutterRefined
<1>8. CASE \E q \in Requests : Send(q) \/ AcquireNew(q)
  BY <1>5, <1>6, <1>8
<1>9. CASE \/ \E q \in Requests : AcquireAgain(q)
           \/ \E c \in Readers : StartPage(c) \/ ReadPage(c) \/ GiveUp(c)
           \/ UNCHANGED vars
  BY <1>7, <1>9
<1> QED BY <1>2, <1>3, <1>4, <1>8, <1>9 DEF Next

\* Selection scopes and all their writers implement FixedSelection: a scope becomes void in the
\* very step that makes it wrong and in no other, and is never valid again.
THEOREM ScopesRefineFixedSelections == Spec => ImplementsFixedSelection
<1>1. SelectionInv /\ [Next]_vars => [Fixed!Change \/ Fixed!Fade \/ \E q \in Requests : Fixed!Take(q)]_(Fixed!fixedVars)
  BY NextRefined
<1> QED BY <1>1, InitRefined, SelectionCorrect, PTL DEF Spec, ImplementsFixedSelection, Fixed!FixedSpec

=============================================================================

--------------------------- MODULE SelectionScope ---------------------------
(***************************************************************************)
(* Selection scopes: AcquireSelection fixes the Records that match a query *)
(* and every writer of the Table voids, in its own transaction, the scopes *)
(* whose members it has changed.  A client then reads the scope page by    *)
(* page.                                                                   *)
(*                                                                         *)
(* Acquisition and every writer hold the Table FOR UPDATE until they       *)
(* commit, and readers use one snapshot, so that each is one step.  Only   *)
(* the pages of one reading, and the two transactions of a page, are       *)
(* separate steps.                                                         *)
(***************************************************************************)
EXTENDS Integers, FiniteSets, Sequences

CONSTANTS
  Records,       \* identities of Records, numbered as they sort
  Values,        \* values of the Field that filters refer to, 0 when unset
  Filters,       \* each filter is the set of the values it matches
  Requests,      \* identities that clients select under
  Readers,       \* clients that read a scope page by page
  Writes,        \* what is written meanwhile, a subset of AllWrites
  TTL,           \* SelectionTTL (5 minutes)
  ScopeLimit,    \* valid scopes per Table (4), Actor (8) and server (64)
  RequestLimit,  \* scopes that are kept, void ones included (64, 256)
  MemberLimit,   \* SelectionMemberLimit (100,000)
  TotalLimit,    \* members of all valid scopes (1,000,000)
  CleanupLimit,  \* scopes that one cleanup deletes (8)
  MaxClock,      \* bound: the clock
  MaxTail,       \* bound: Changes of the Table
  None, Void

AllWrites == {"record", "view", "viewLife", "field", "convert", "table"}

ASSUME SelectionAssumption ==
  /\ Records \subseteq Nat /\ IsFiniteSet(Records)
  /\ Values \subseteq Nat /\ 0 \in Values
  /\ Filters \subseteq SUBSET Values
  /\ {TTL, ScopeLimit, RequestLimit, MemberLimit, TotalLimit, CleanupLimit} \subseteq Nat \ {0}
  /\ Writes \subseteq AllWrites

VARIABLES
  row,      \* Records of the Table
  context,  \* the View, the Field and the Table that a query refers to
  query,    \* the query of each request, None until it is sent
  sent,     \* when it was sent first
  scope,    \* selection_scopes and selection_scope_members, per request
  told,     \* history: the selections that a request was answered with
  read,     \* readings under way
  tail,     \* the last Change of the Table
  clock

vars == <<row, context, query, sent, scope, told, read, tail, clock>>

-----------------------------------------------------------------------------
Row == [live : BOOLEAN, value : Values]

NoRow == [live |-> FALSE, value |-> 0]

(* kind is the type of the Field. *)
Context == [viewFilter : Filters, viewLive : BOOLEAN, fieldLive : BOOLEAN, kind : {"text", "number"}, tableLive : BOOLEAN]

(* A query has a filter of its own or, with None, that of the View. *)
Query == Filters \cup {None}

(* The plan of a query: its filter, and the type of the Field that it refers to. *)
Schemas == {"text", "number", None}

Plans == [filter : Filters, schema : Schemas]

Scope == [filter : Filters, schema : Schemas, members : SUBSET Records, void : BOOLEAN,
          created : Nat, expires : Nat]

ASSUME NoneAssumption ==
  /\ None # Void /\ {None, Void} \cap Filters = {}
  /\ None \notin Plans \cup Scope
  /\ {None, Void} \cap (Filters \X Schemas \X SUBSET Records) = {}

(* of is the scope, by its request and the end of its time; at is the Change tail of the last page. *)
Reading == [pc : {"idle", "first", "more", "next", "done"}, of : (Requests \X Nat) \cup {None},
            kind : Schemas, seen : Seq(Values \X Records), at : Nat]

Idle == [pc |-> "idle", of |-> None, kind |-> None, seen |-> <<>>, at |-> 0]

TypeOK ==
  /\ row \in [Records -> Row]
  /\ context \in Context
  /\ query \in [Requests -> Query \cup {Void}]
  /\ sent \in [Requests -> Nat]
  /\ scope \in [Requests -> Scope \cup {None}]
  /\ \A q \in Requests : scope[q] # None => Cardinality(scope[q].members) <= MemberLimit
  /\ told \in [Requests -> SUBSET (SUBSET Records)]
  /\ read \in [Readers -> Reading]
  /\ tail \in Nat /\ clock \in Nat

Init ==
  /\ row \in [Records -> {NoRow} \cup [live : {TRUE}, value : Values]]
  /\ \E f \in Filters : context = [viewFilter |-> f, viewLive |-> TRUE, fieldLive |-> TRUE, kind |-> "text", tableLive |-> TRUE]
  /\ query = [q \in Requests |-> Void]
  /\ sent = [q \in Requests |-> 0]
  /\ scope = [q \in Requests |-> None]
  /\ told = [q \in Requests |-> {}]
  /\ read = [c \in Readers |-> Idle]
  /\ tail = 0 /\ clock = 0

-----------------------------------------------------------------------------
(* The filter of a query and the Fields it refers to (SelectionPlan's        *)
(* fingerprint and schema); None when the View or the Field is gone.         *)
Plan(f, ctx) ==
  IF f = Values THEN [filter |-> f, schema |-> None]
  ELSE IF ctx.fieldLive THEN [filter |-> f, schema |-> ctx.kind] ELSE None

Resolved(query_, ctx) ==
  IF query_ # None THEN Plan(query_, ctx)
  ELSE IF ctx.viewLive THEN Plan(ctx.viewFilter, ctx) ELSE None

Matching(f, rows) == {r \in Records : rows[r].live /\ rows[r].value \in f}

PlanOf(s) == [filter |-> s.filter, schema |-> s.schema]

Expired(s) == clock >= s.expires

Kept == {q \in Requests : scope[q] # None}

ValidScopes == {q \in Kept : ~scope[q].void /\ ~Expired(scope[q])}

(* Mutant: only Records that leave the scope void it. *)
OutdatedByLeaving(q, ctx, rows, changed) ==
  LET s == scope[q]
      p == Resolved(query[q], ctx)
  IN  \/ p # PlanOf(s)
      \/ \E r \in changed : r \in s.members /\ r \notin Matching(p.filter, rows)

(* Mutant: every Record that changes voids the scope it is in. *)
OutdatedByEdit(q, ctx, rows, changed) ==
  LET s == scope[q]
      p == Resolved(query[q], ctx)
  IN  \/ p # PlanOf(s)
      \/ \E r \in changed : r \in s.members \/ r \in Matching(p.filter, rows)

Outdated(q, ctx, rows, changed) ==
  LET s == scope[q]
      p == Resolved(query[q], ctx)
  IN  \/ p # PlanOf(s)
      \/ \E r \in changed : (r \in s.members) # (r \in Matching(p.filter, rows))

(* invalidateSelections, at the end of each writer. *)
Invalidated(ctx, rows, changed) ==
  [q \in Requests |-> IF q \in ValidScopes /\ Outdated(q, ctx, rows, changed)
                      THEN [scope[q] EXCEPT !.void = TRUE] ELSE scope[q]]

(* revoke_ancestor_selection_scopes, when the Table is deleted. *)
Revoked == [q \in Requests |-> IF q \in Kept THEN [scope[q] EXCEPT !.void = TRUE] ELSE scope[q]]

-----------------------------------------------------------------------------
(* Writers.  Each has one Change per Record, or one for the rest.           *)

OnlyWrite == UNCHANGED <<query, sent, told, read, clock>>

Commit(ctx, rows, changed, n) ==
  /\ context.tableLive /\ tail + n <= MaxTail
  /\ context' = ctx /\ row' = rows
  /\ scope' = Invalidated(ctx, rows, changed)
  /\ tail' = tail + n
  /\ OnlyWrite

(* MutateRecords (and DuplicateRecord): created, updated, deleted, restored. *)
MutateRecords ==
  /\ "record" \in Writes
  /\ \E changed \in (SUBSET Records) \ {{}} : \E new \in [changed -> Row] :
       /\ \A r \in changed : new[r] # row[r]
       /\ \A r \in changed : new[r].live = row[r].live \/ new[r].value = row[r].value \/ row[r] = NoRow
       /\ Commit(context, [r \in Records |-> IF r \in changed THEN new[r] ELSE row[r]], changed, Cardinality(changed))

(* A new filter, or the same one and another name or layout. *)
UpdateView ==
  /\ "view" \in Writes /\ context.viewLive
  /\ \E f \in Filters :
       /\ f # Values => context.fieldLive
       /\ Commit([context EXCEPT !.viewFilter = f], row, {}, 1)

DeleteOrRestoreView ==
  /\ "viewLife" \in Writes
  /\ Commit([context EXCEPT !.viewLive = ~@], row, {}, 1)

DeleteOrRestoreField ==
  /\ "field" \in Writes
  /\ Commit([context EXCEPT !.fieldLive = ~@], row, {}, 1)

(* Values that do not convert are lost; the Records have no Change of their own. *)
ConvertField ==
  /\ "convert" \in Writes /\ context.fieldLive
  /\ \E lost \in SUBSET Records :
       Commit([context EXCEPT !.kind = IF @ = "text" THEN "number" ELSE "text"],
              [r \in Records |-> IF r \in lost THEN [row[r] EXCEPT !.value = 0] ELSE row[r]],
              {r \in Records : row[r].value # 0}, 1)

DeleteTable ==
  /\ "table" \in Writes /\ context.tableLive
  /\ context' = [context EXCEPT !.tableLive = FALSE]
  /\ scope' = Revoked
  /\ UNCHANGED <<row, tail>> /\ OnlyWrite

RestoreTable ==
  /\ "table" \in Writes /\ ~context.tableLive
  /\ context' = [context EXCEPT !.tableLive = TRUE]
  /\ UNCHANGED <<row, tail, scope>> /\ OnlyWrite

-----------------------------------------------------------------------------
(* AcquireSelection *)

(* A request is sent for the first time. *)
Send(q) ==
  /\ query[q] = Void
  /\ \E f \in Query : query' = [query EXCEPT ![q] = f]
  /\ sent' = [sent EXCEPT ![q] = clock]
  /\ UNCHANGED <<row, context, scope, told, read, tail, clock>>

(* A client does not repeat a request that is older than the TTL. *)
MayAcquire(q) == query[q] # Void /\ clock < sent[q] + TTL /\ context.tableLive

Tell(q, members) == told' = [told EXCEPT ![q] = @ \cup {members}]

(* A repeated request is answered with its scope as long as that is valid;   *)
(* any other answer is an error, and nothing changes.                        *)
AcquireAgain(q) ==
  /\ MayAcquire(q) /\ q \in ValidScopes
  /\ Resolved(query[q], context) = PlanOf(scope[q])
  /\ Tell(q, scope[q].members)
  /\ UNCHANGED <<row, context, query, sent, scope, read, tail, clock>>

(* Mutant: void scopes are deleted with the expired ones. *)
SweptWithVoid == [q \in Requests |-> IF q \in ValidScopes THEN scope[q] ELSE None]

(* Expired scopes are deleted, and void ones lose their members. *)
Swept ==
  [q \in Requests |->
     IF q \notin Kept \/ Expired(scope[q]) THEN None
     ELSE IF scope[q].void THEN [scope[q] EXCEPT !.members = {}] ELSE scope[q]]

MembersOf(valid) == {m \in valid \X Records : m[2] \in scope[m[1]].members}

WithinBudget(members) ==
  /\ Cardinality(ValidScopes) < ScopeLimit
  /\ Cardinality({q \in Requests : Swept[q] # None}) < RequestLimit
  /\ Cardinality(members) <= MemberLimit
  /\ Cardinality(MembersOf(ValidScopes)) + Cardinality(members) <= TotalLimit

AcquireNew(q) ==
  LET p == Resolved(query[q], context) IN
  /\ MayAcquire(q) /\ q \notin Kept
  /\ p # None
  /\ LET members == Matching(p.filter, row) IN
     /\ WithinBudget(members)
     /\ scope' = [Swept EXCEPT ![q] = [filter |-> p.filter, schema |-> p.schema, members |-> members,
                                       void |-> FALSE, created |-> clock, expires |-> clock + TTL]]
     /\ Tell(q, members)
  /\ UNCHANGED <<row, context, query, sent, read, tail, clock>>

(* CleanupRetention *)
CleanupScopes ==
  /\ \E doomed \in (SUBSET {q \in Kept : Expired(scope[q])}) \ {{}} :
       /\ Cardinality(doomed) <= CleanupLimit
       /\ scope' = [q \in Requests |-> IF q \in doomed THEN None ELSE scope[q]]
  /\ UNCHANGED <<row, context, query, sent, told, read, tail, clock>>

Tick ==
  /\ clock < MaxClock
  /\ clock' = clock + 1
  /\ UNCHANGED <<row, context, query, sent, scope, told, read, tail>>

-----------------------------------------------------------------------------
(* QueryRecords with a scope, sorted by value and limited to one Record.    *)

(* validateSelectionInTx, for the scope that the token names by its times.  *)
Usable(q, expires) ==
  /\ q \in ValidScopes /\ scope[q].expires = expires
  /\ context.tableLive
  /\ Resolved(query[q], context) = PlanOf(scope[q])

Before(k1, k2) == k1[1] < k2[1] \/ (k1[1] = k2[1] /\ k1[2] < k2[2])

Keys(rs) == {<<row[r].value, r>> : r \in rs}

Page(q) == Keys(scope[q].members \cap Matching(scope[q].filter, row))

OnlyRead == UNCHANGED <<row, context, query, sent, scope, told, tail, clock>>

(* A first page, or the one after; the token is that of the request.        *)
StartPage(c) ==
  /\ \/ /\ read[c].pc \in {"idle", "done"}
        /\ \E q \in Requests :
             /\ told[q] # {} /\ q \in Kept
             /\ Usable(q, scope[q].expires)
             /\ read' = [read EXCEPT ![c] = [Idle EXCEPT !.pc = "first", !.of = <<q, scope[q].expires>>, !.kind = context.kind]]
     \/ /\ read[c].pc = "more"
        /\ Usable(read[c].of[1], read[c].of[2])
        /\ read' = [read EXCEPT ![c] = [@ EXCEPT !.pc = "next", !.kind = context.kind]]
  /\ OnlyRead

(* Mutant: a page is read whatever has changed since the last one. *)
SamePageSequenceAny(c) == TRUE

(* Pages after the first need the Change tail of the page before.           *)
SamePageSequence(c) == read[c].pc = "next" => read[c].at = tail

ReadPage(c) ==
  LET q    == read[c].of[1]
      seen == read[c].seen
      rest == {k \in Page(q) : seen = <<>> \/ Before(seen[Len(seen)], k)}
  IN
  /\ read[c].pc \in {"first", "next"}
  /\ Usable(q, read[c].of[2]) /\ context.kind = read[c].kind /\ SamePageSequence(c)
  /\ read' = [read EXCEPT ![c] =
       IF rest = {} THEN [@ EXCEPT !.pc = "done", !.at = tail]
       ELSE LET k == CHOOSE k \in rest : \A l \in rest \ {k} : Before(k, l) IN
            [@ EXCEPT !.pc = IF rest = {k} THEN "done" ELSE "more", !.seen = Append(seen, k), !.at = tail]]
  /\ OnlyRead

(* CURSOR_EXPIRED, QUERY_SNAPSHOT_EXPIRED, or the client has lost interest. *)
GiveUp(c) ==
  /\ read[c].pc \in {"first", "next", "more"}
  /\ read' = [read EXCEPT ![c] = Idle]
  /\ OnlyRead

-----------------------------------------------------------------------------
Next ==
  \/ MutateRecords \/ UpdateView \/ DeleteOrRestoreView \/ DeleteOrRestoreField \/ ConvertField
  \/ DeleteTable \/ RestoreTable
  \/ \E q \in Requests : Send(q) \/ AcquireAgain(q) \/ AcquireNew(q)
  \/ CleanupScopes \/ Tick
  \/ \E c \in Readers : StartPage(c) \/ ReadPage(c) \/ GiveUp(c)

Spec == Init /\ [][Next]_vars

-----------------------------------------------------------------------------
(* Properties *)

(* A valid scope is what its query selects now: no writer has left a member *)
(* that does not match, or a match that is no member (invalidateSelections).*)
ValidIsTrue ==
  \A q \in ValidScopes :
    /\ context.tableLive
    /\ Resolved(query[q], context) = PlanOf(scope[q])
    /\ scope[q].members = Matching(scope[q].filter, row)

BudgetsKept ==
  /\ Cardinality(ValidScopes) <= ScopeLimit
  /\ Cardinality(Kept) <= RequestLimit
  /\ Cardinality(MembersOf(Kept)) <= TotalLimit

RepeatedIsSame == \A q \in Requests : Cardinality(told[q]) <= 1

(* The budgets of AcquireSelection hold, for valid scopes, for requests that *)
(* are kept and for the members of all scopes, void ones that were not swept *)
(* yet included; and a request that is repeated within its time is never     *)
(* answered with another selection, even after the first has become void.    *)
ScopesInv == TypeOK /\ BudgetsKept /\ RepeatedIsSame

(* A reading that comes to its end has read every member of the scope once,  *)
(* in the order that the Records have now, whatever was written meanwhile.   *)
ReadingComplete ==
  [][\A c \in Readers : read'[c].pc = "done" /\ read[c].pc # "done" =>
       LET seen == read'[c].seen IN
       /\ {seen[i] : i \in DOMAIN seen} = Keys(scope[read[c].of[1]].members)
       /\ \A i, j \in DOMAIN seen : i < j => Before(seen[i], seen[j])]_read

-----------------------------------------------------------------------------
(* Refinement *)

(* What the query of q selects now. *)
Truth(q) ==
  IF query[q] = Void \/ ~context.tableLive \/ Resolved(query[q], context) = None THEN None
  ELSE LET p == Resolved(query[q], context) IN <<p.filter, p.schema, Matching(p.filter, row)>>

Selected(q) ==
  IF q \notin Kept \/ Expired(scope[q]) THEN None
  ELSE IF scope[q].void THEN Void
  ELSE <<scope[q].filter, scope[q].schema, scope[q].members>>

Fixed == INSTANCE FixedSelection WITH
  truth <- [q \in Requests |-> Truth(q)],
  selection <- [q \in Requests |-> Selected(q)]

(* Scopes are fixed selections: void as soon as their members or their       *)
(* context change, but never for an edit that leaves them as they are, and   *)
(* never valid again.                                                        *)
ImplementsFixedSelection == Fixed!FixedSpec
=============================================================================

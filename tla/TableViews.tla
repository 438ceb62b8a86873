----------------------------- MODULE TableViews -----------------------------
(***************************************************************************)
(* The Views of one Table: their order, which a trigger keeps equal to the *)
(* set of active Views, the default View, and the requests that change     *)
(* them.                                                                   *)
(*                                                                         *)
(* Every writer holds the Table FOR UPDATE until it commits, so that a     *)
(* transaction is one step; what comes before it (the service reading the  *)
(* View or the Fields) and the statements of a listing are steps of their  *)
(* own.  Clients work from the last listing they got.                      *)
(***************************************************************************)
EXTENDS Integers, Sequences, FiniteSets, SequencesExt

CONSTANTS
  Views,      \* identities Views may get
  Clients,    \* clients that list Views and edit them
  Keys,       \* Idempotency-Keys
  Handlers,   \* connections that run requests with a key
  Edits,      \* what clients do, a subset of AllEdits
  ViewLimit,  \* ViewLimitPerTable (100)
  MaxChanges, \* bound: rows of changes up to which anything changes
  None

AllEdits == {"update", "delete", "restore", "default", "create", "reorder", "field", "table", "expire"}

ASSUME ViewsAssumption ==
  /\ Edits \subseteq AllEdits
  /\ {ViewLimit, MaxChanges} \subseteq Nat \ {0}
  /\ None \notin Views \cup Keys
  /\ "order" \notin Views

VARIABLES
  view,       \* rows of views
  order,      \* view_order_revision and view_order of the Table
  tableLive,  \* the Table is not deleted
  fieldLive,  \* the Field that View configurations refer to is not deleted
  changes,    \* rows of changes: object and revision
  receipt,    \* idempotency_keys
  guard,      \* mutation_identity_guards
  list,       \* per client, a listing under way and the last one received
  edit,       \* per client, a PATCH between the service and the store
  request,    \* the request of each key
  handler,
  told        \* history: what the client of a key was told after its request had committed

vars == <<view, order, tableLive, fieldLive, changes, receipt, guard, list, edit,
          request, handler, told>>

-----------------------------------------------------------------------------
(* uses: the configuration refers to the Field. *)
View == [rev : Nat, live : BOOLEAN, isDefault : BOOLEAN, uses : BOOLEAN]

NoView == [rev |-> 0, live |-> FALSE, isDefault |-> FALSE, uses |-> FALSE]

Order == [rev : Nat \ {0}, ids : Seq(Views)]

Answers == {"created", "applied", "unchanged", "expired", "invalid", "notFound", "refused"}

Listing == [pc : {"idle", "begun", "ordered", "failed", "done"}, snapOrder : Order,
            snapView : [Views -> View], order : Order, view : [Views -> View]]

Edit == [at : Views \cup {None}, rev : Nat, uses : BOOLEAN]

Request == [op : {"none", "create", "reorder"}, uses : BOOLEAN, rev : Nat,
            ids : Seq(Views), saw : Seq(Views)]

NoRequest == [op |-> "none", uses |-> FALSE, rev |-> 0, ids |-> <<>>, saw |-> <<>>]

NoList == [pc |-> "idle", snapOrder |-> [rev |-> 1, ids |-> <<>>], snapView |-> [v \in Views |-> NoView],
           order |-> [rev |-> 1, ids |-> <<>>], view |-> [v \in Views |-> NoView]]

NoEdit == [at |-> None, rev |-> 0, uses |-> FALSE]

TypeOK ==
  /\ view \in [Views -> View]
  /\ order \in Order /\ Len(order.ids) <= ViewLimit  \* view_order CHECK
  /\ {tableLive, fieldLive} \subseteq BOOLEAN
  /\ changes \subseteq [object : Views \cup {"order"}, rev : Nat]
  /\ receipt \in [Keys -> Answers \cup {"none"}]
  /\ guard \in [Keys -> BOOLEAN]
  /\ list \in [Clients -> Listing]
  /\ edit \in [Clients -> Edit]
  /\ request \in [Keys -> Request]
  /\ handler \in [Handlers -> Keys \cup {None}]
  /\ told \in [Keys -> SUBSET Answers]

Elems(s) == {s[i] : i \in DOMAIN s}

(* CreateTable makes one View, the default one, and CreateView others.      *)
Init ==
  /\ \E ids \in UNION {[1 .. n -> Views] : n \in 1 .. ViewLimit} :
       /\ \A i, j \in DOMAIN ids : ids[i] = ids[j] => i = j
       /\ view = [v \in Views |->
            IF v \in Elems(ids) THEN [NoView EXCEPT !.rev = 1, !.live = TRUE, !.isDefault = (v = ids[1])]
            ELSE NoView]
       /\ order = [rev |-> Len(ids) + 1, ids |-> ids]
  /\ tableLive = TRUE /\ fieldLive = TRUE
  /\ changes = {}
  /\ receipt = [k \in Keys |-> "none"]
  /\ guard = [k \in Keys |-> FALSE]
  /\ list = [c \in Clients |-> NoList]
  /\ edit = [c \in Clients |-> NoEdit]
  /\ request = [k \in Keys |-> NoRequest]
  /\ handler = [h \in Handlers |-> None]
  /\ told = [k \in Keys |-> {}]

(* What is left of an order, which holds a View at most once (OrderIsActive).  *)
Without(ids, v) ==
  IF v \in Elems(ids) THEN RemoveAt(ids, CHOOSE i \in DOMAIN ids : ids[i] = v) ELSE ids

(* maintain_view_order, after a View has been inserted or its deleted_at     *)
(* has changed.                                                              *)
Maintained(v, live) ==
  LET ids == IF live
             THEN IF v \in Elems(order.ids) THEN order.ids ELSE Append(order.ids, v)
             ELSE Without(order.ids, v)
  IN  [rev |-> IF ids = order.ids THEN order.rev ELSE order.rev + 1, ids |-> ids]

ChangeOf(v, rev) == [object |-> v, rev |-> rev]

Bounded == Cardinality(changes) < MaxChanges

-----------------------------------------------------------------------------
(* ListViewsSnapshot: a REPEATABLE READ transaction of three statements. *)

OnlyList == UNCHANGED <<view, order, tableLive, fieldLive, changes, receipt, guard, edit,
                        request, handler, told>>

BeginList(c) ==
  /\ list[c].pc \in {"idle", "done"} /\ edit[c] = NoEdit
  /\ tableLive
  /\ list' = [list EXCEPT ![c] = [NoList EXCEPT !.pc = "begun", !.snapOrder = order, !.snapView = view]]
  /\ OnlyList

ReadOrder(c) ==
  /\ list[c].pc = "begun"
  /\ list' = [list EXCEPT ![c] = [@ EXCEPT !.pc = "ordered", !.order = list[c].snapOrder]]
  /\ OnlyList

Live(rows) == {v \in Views : rows[v].rev > 0 /\ rows[v].live}

Listed(c, rows) ==
  LET ids == list[c].order.ids
      ok  == Len(ids) = Cardinality(Live(rows)) /\ Elems(ids) = Live(rows)
  IN  list' = [list EXCEPT ![c] = [NoList EXCEPT !.pc = IF ok THEN "done" ELSE "failed",
                                                 !.order = list[c].order, !.view = rows]]

(* Mutant: READ COMMITTED, where each statement has a snapshot of its own. *)
ReadViewsCommitted(c) ==
  /\ list[c].pc = "ordered"
  /\ Listed(c, view)
  /\ OnlyList

(* Active Views are listed by the order, and any mismatch is an error;      *)
(* deleted Views are listed on request.                                     *)
ReadViews(c) ==
  /\ list[c].pc = "ordered"
  /\ Listed(c, list[c].snapView)
  /\ OnlyList

-----------------------------------------------------------------------------
(* Requests without a key.  A client names the Revision it has seen.        *)

OnlyRows == UNCHANGED <<tableLive, fieldLive, receipt, guard, list, edit, request, handler, told>>

(* checkViewRevision, and lockAccessibleView before it. *)
AsSeen(c, v) ==
  /\ list[c].pc = "done"
  /\ view[v].rev > 0 /\ view[v].rev = list[c].view[v].rev
  /\ tableLive /\ Bounded

(* The service reads the View and the Fields before the transaction. *)
StartUpdate(c) ==
  /\ "update" \in Edits
  /\ \E v \in Views, uses \in BOOLEAN :
       /\ edit[c] = NoEdit /\ AsSeen(c, v) /\ view[v].live
       /\ uses => fieldLive
       /\ edit' = [edit EXCEPT ![c] = [at |-> v, rev |-> view[v].rev, uses |-> uses]]
  /\ UNCHANGED <<view, order, tableLive, fieldLive, changes, receipt, guard, list, request, handler, told>>

(* Mutant: the Revision is compared by the service only. *)
UpdateViewUnchecked(c) ==
  LET v == edit[c].at IN
  /\ v # None
  /\ \/ /\ tableLive /\ view[v].live
        /\ view[v].uses # edit[c].uses
        /\ view' = [view EXCEPT ![v] = [@ EXCEPT !.rev = view[v].rev + 1, !.uses = edit[c].uses]]
        /\ changes' = changes \cup {ChangeOf(v, view[v].rev + 1)}
     \/ UNCHANGED <<view, changes>>
  /\ edit' = [edit EXCEPT ![c] = NoEdit]
  /\ UNCHANGED <<order, tableLive, fieldLive, receipt, guard, list, request, handler, told>>

(* Applied, or a no-op, an error or an abort. *)
UpdateView(c) ==
  LET v == edit[c].at IN
  /\ v # None
  /\ \/ /\ tableLive /\ view[v].live /\ view[v].rev = edit[c].rev
        /\ view[v].uses # edit[c].uses
        /\ view' = [view EXCEPT ![v] = [@ EXCEPT !.rev = view[v].rev + 1, !.uses = edit[c].uses]]
        /\ changes' = changes \cup {ChangeOf(v, view[v].rev + 1)}
     \/ UNCHANGED <<view, changes>>
  /\ edit' = [edit EXCEPT ![c] = NoEdit]
  /\ UNCHANGED <<order, tableLive, fieldLive, receipt, guard, list, request, handler, told>>

(* A View that is deleted while it is the default one keeps is_default. *)
DeleteView(c, v) ==
  /\ "delete" \in Edits
  /\ AsSeen(c, v) /\ view[v].live
  /\ view' = [view EXCEPT ![v] = [@ EXCEPT !.rev = view[v].rev + 1, !.live = FALSE]]
  /\ order' = Maintained(v, FALSE)
  /\ changes' = changes \cup {ChangeOf(v, view[v].rev + 1)}
  /\ OnlyRows

RestoreView(c, v) ==
  /\ "restore" \in Edits
  /\ AsSeen(c, v) /\ ~view[v].live
  /\ view' = [view EXCEPT ![v] = [@ EXCEPT !.rev = view[v].rev + 1, !.live = TRUE, !.isDefault = FALSE]]
  /\ order' = Maintained(v, TRUE)
  /\ changes' = changes \cup {ChangeOf(v, view[v].rev + 1)}
  /\ OnlyRows

Defaults == {v \in Views : view[v].isDefault /\ view[v].live}

SetDefaultView(c, v) ==
  /\ "default" \in Edits
  /\ AsSeen(c, v) /\ view[v].live /\ ~view[v].isDefault
  /\ view' = [w \in Views |->
       IF w = v THEN [view[v] EXCEPT !.rev = @ + 1, !.isDefault = TRUE]
       ELSE IF w \in Defaults THEN [view[w] EXCEPT !.rev = @ + 1, !.isDefault = FALSE]
       ELSE view[w]]
  /\ changes' = changes \cup {ChangeOf(w, view[w].rev + 1) : w \in Defaults \cup {v}}
  /\ UNCHANGED order /\ OnlyRows

-----------------------------------------------------------------------------
(* Requests with a key, sent as often as the client likes. *)

Compose(k) ==
  /\ request[k] = NoRequest
  /\ \/ /\ "create" \in Edits
        /\ \E uses \in BOOLEAN : request' = [request EXCEPT ![k] = [NoRequest EXCEPT !.op = "create", !.uses = uses]]
     \/ /\ "reorder" \in Edits
        /\ \E c \in Clients :
             LET saw == list[c].order.ids IN
             /\ list[c].pc = "done"
             /\ \E ids \in [1 .. Len(saw) -> Elems(saw)] :
                  request' = [request EXCEPT ![k] = [op |-> "reorder", uses |-> FALSE,
                                rev |-> list[c].order.rev, ids |-> ids, saw |-> saw]]
  /\ UNCHANGED <<view, order, tableLive, fieldLive, changes, receipt, guard, list, edit, handler, told>>

Tell(k, code) == told' = [told EXCEPT ![k] = @ \cup {code}]

(* A refusal is of no interest before the request has committed. *)
TellRefused(k, code) == IF told[k] = {} THEN UNCHANGED told ELSE Tell(k, code)

Committed(k) == receipt[k] # "none" \/ guard[k]

(* CreateView in the service: the configuration is checked against the      *)
(* Fields of the Table before the store looks for a receipt.                *)
Accept(h, k) ==
  /\ handler[h] = None /\ request[k] # NoRequest
  /\ \/ /\ request[k].op = "create" /\ ~tableLive
        /\ TellRefused(k, "notFound") /\ UNCHANGED handler
     \/ /\ request[k].op = "create" /\ tableLive /\ request[k].uses /\ ~fieldLive
        /\ TellRefused(k, "invalid") /\ UNCHANGED handler
     \/ /\ request[k].op = "create" => tableLive /\ (request[k].uses => fieldLive)
        /\ handler' = [handler EXCEPT ![h] = k] /\ UNCHANGED told
  /\ UNCHANGED <<view, order, tableLive, fieldLive, changes, receipt, guard, list, edit, request>>

Done(h) == handler' = [handler EXCEPT ![h] = None]

(* An error after the receipt was looked for; nothing is committed. *)
Refuse(h) ==
  /\ TellRefused(handler[h], "refused")
  /\ Done(h)
  /\ UNCHANGED <<view, order, changes, receipt, guard>>

(* replayIdempotent: the first answer, or the guard of an expired receipt.  *)
ReplayTx(h) ==
  LET k == handler[h] IN
  /\ k # None /\ Committed(k)
  /\ Tell(k, IF receipt[k] # "none" THEN receipt[k] ELSE "expired")
  /\ Done(h)
  /\ UNCHANGED <<view, order, tableLive, fieldLive, changes, receipt, guard, list, edit, request>>

Existing == {v \in Views : view[v].rev > 0}

(* Views that are deleted count, too. *)
Full == Cardinality(Existing) >= ViewLimit

CreateTx(h) ==
  LET k == handler[h] IN
  /\ k # None /\ request[k].op = "create" /\ ~Committed(k)
  /\ \/ (~tableLive \/ Full) /\ Refuse(h)
     \/ /\ tableLive /\ ~Full /\ Bounded
        /\ \E v \in Views \ Existing :
             /\ view' = [view EXCEPT ![v] = [NoView EXCEPT !.rev = 1, !.live = TRUE, !.uses = request[k].uses]]
             /\ order' = Maintained(v, TRUE)
             /\ changes' = changes \cup {ChangeOf(v, 1)}
        /\ receipt' = [receipt EXCEPT ![k] = "created"]
        /\ Tell(k, "created")
        /\ Done(h) /\ UNCHANGED guard
  /\ UNCHANGED <<tableLive, fieldLive, list, edit, request>>

OrderUnchanged(rev) == order.rev = rev

(* A complete permutation of the stored order. *)
IsPermutation(ids) == Len(ids) = Len(order.ids) /\ Elems(ids) = Elems(order.ids)

Reorder(ids) ==
  /\ order' = [rev |-> order.rev + 1, ids |-> ids]
  /\ changes' = changes \cup {ChangeOf("order", order.rev + 1)}

(* An order that is already there is a success, too, and leaves a receipt. *)
ReorderTx(h) ==
  LET k == handler[h]
      r == request[k]
  IN
  /\ k # None /\ r.op = "reorder" /\ ~Committed(k)
  /\ \/ ~(tableLive /\ OrderUnchanged(r.rev) /\ IsPermutation(r.ids)) /\ Refuse(h)
     \/ /\ tableLive /\ OrderUnchanged(r.rev) /\ IsPermutation(r.ids) /\ Bounded
        /\ IF r.ids = order.ids
           THEN UNCHANGED <<order, changes>>
           ELSE Reorder(r.ids)
        /\ LET code == IF r.ids = order.ids THEN "unchanged" ELSE "applied" IN
             receipt' = [receipt EXCEPT ![k] = code] /\ Tell(k, code)
        /\ guard' = [guard EXCEPT ![k] = TRUE]
        /\ Done(h) /\ UNCHANGED view
  /\ UNCHANGED <<tableLive, fieldLive, list, edit, request>>

(* A crash or a lost connection: the request is sent again. *)
Abort(h) ==
  /\ handler[h] # None
  /\ Done(h)
  /\ UNCHANGED <<view, order, tableLive, fieldLive, changes, receipt, guard, list, edit, request, told>>

(* Mutant: cleanup takes the guard as well. *)
ExpireAll(k) ==
  /\ "expire" \in Edits
  /\ receipt[k] # "none"
  /\ receipt' = [receipt EXCEPT ![k] = "none"]
  /\ guard' = [guard EXCEPT ![k] = FALSE]
  /\ UNCHANGED <<view, order, tableLive, fieldLive, changes, list, edit, request, handler, told>>

Expire(k) ==
  /\ "expire" \in Edits
  /\ receipt[k] # "none"
  /\ receipt' = [receipt EXCEPT ![k] = "none"]
  /\ UNCHANGED <<view, order, tableLive, fieldLive, changes, guard, list, edit, request, handler, told>>

(* DeleteField and RestoreField; DeleteTable and RestoreTable. *)
Toggle ==
  /\ \/ "field" \in Edits /\ tableLive /\ fieldLive' = ~fieldLive /\ UNCHANGED tableLive
     \/ "table" \in Edits /\ tableLive' = ~tableLive /\ UNCHANGED fieldLive
  /\ UNCHANGED <<view, order, changes, receipt, guard, list, edit, request, handler, told>>

-----------------------------------------------------------------------------
ClientStep(c) ==
  \/ BeginList(c) \/ ReadOrder(c) \/ ReadViews(c) \/ StartUpdate(c) \/ UpdateView(c)
  \/ \E v \in Views : DeleteView(c, v) \/ RestoreView(c, v) \/ SetDefaultView(c, v)

HandlerStep(h) ==
  (\E k \in Keys : Accept(h, k)) \/ ReplayTx(h) \/ CreateTx(h) \/ ReorderTx(h) \/ Abort(h)

Next ==
  \/ \E c \in Clients : ClientStep(c)
  \/ \E h \in Handlers : HandlerStep(h)
  \/ \E k \in Keys : Compose(k) \/ Expire(k)
  \/ Toggle

Spec == Init /\ [][Next]_vars

-----------------------------------------------------------------------------
(* Properties *)

OrderIsActive ==
  /\ Elems(order.ids) = Live(view)
  /\ \A i, j \in DOMAIN order.ids : order.ids[i] = order.ids[j] => i = j

ListNeverFails == \A c \in Clients : list[c].pc # "failed"

OneDefault == Cardinality(Defaults) <= 1

(* The stored order holds every active View once and nothing else, so that  *)
(* ListViewsSnapshot, which reads the order and the Views by two statements, *)
(* never finds a mismatch (migration 008's trigger, ReorderViews'            *)
(* permutation check, REPEATABLE READ), and a Table never has two active       *)
(* default Views, although a deleted View keeps is_default and may come     *)
(* back (views_single_default_per_table would fail the transaction).        *)
ViewsInv == TypeOK /\ OrderIsActive /\ ListNeverFails /\ OneDefault

(* A reorder is applied to the very order that its client saw: none that    *)
(* was made meanwhile, by a reorder or by a View that came or went, is lost. *)
(* Nor is a View changed but by a client that has seen what it changes; but *)
(* SetDefaultView also takes is_default from another View.                  *)
WrittenAsSeen ==
  [][/\ \A k \in Keys : guard'[k] /\ ~guard[k] => request[k].saw = order.ids
     /\ \A v \in Views : view[v].rev > 0 /\
          <<view'[v].live, view'[v].uses>> # <<view[v].live, view[v].uses>> =>
            \E c \in Clients : list[c].view[v] = view[v]]_<<guard, view>>

(* A reorder that has committed is answered with its first result or with   *)
(* MUTATION_RECEIPT_EXPIRED, whatever became of Views, Table and receipt.   *)
ReorderReplayed ==
  \A k \in Keys : request[k].op = "reorder" =>
    Cardinality(told[k] \ {"expired"}) <= 1 /\ told[k] \subseteq {"applied", "unchanged", "expired"}

(* Not so where a Field of its configuration was deleted meanwhile:          *)
(* "Retrying the same method, path, and canonical body replays the first 201 *)
(* response" (docs/api/openapi.yaml, IdempotencyKey).                        *)
CreationReplayed ==
  \A k \in Keys : request[k].op = "create" => told[k] \subseteq {"created"}

=============================================================================

# Verification of LoomTable Server

TLA+ models, TLC runs and TLAPS proofs about the LoomTable Server in this
repository: a Go service over PostgreSQL that keeps Workspaces, Bases, Tables,
Fields, Views, Records and Attachments, and lets several clients edit and follow
them. Paths below are relative to the repository.

## 1. Inventory

### Layers

`internal/httpapi` decodes requests and maps errors; `internal/catalog`,
`internal/record`, `internal/attachment` and `internal/auth` validate and
normalise; `internal/storage/postgres` runs the transactions. Almost all state is
in PostgreSQL, almost all control that can go wrong is in the transactions, so the
models follow `internal/storage/postgres` statement by statement and bring in the
service layer where it decides what a transaction is given. Transactions are READ
COMMITTED unless noted. The lock order is Actor, Workspace/Base, Table, Field or
View, Record.

### Components

| Component | State | Operations | What makes it hard | What makes it correct |
|---|---|---|---|---|
| Change feed (`change.go`, `record/change.go`) | `changes`, one sequence for all Tables | ChangeTail, PullChanges | numbers are drawn before commit; four separate statements per pull; lost pages | every change reaches every follower once; nothing commits behind a cursor; gaps are reported |
| Change history (`history.go`, `record/history.go`) | the same rows, read backwards | History | the same, with the tail read first | the history and the feed meet without a gap |
| Retention (`retention.go`, `maintenance`) | `change_retention_watermarks`, receipts, Audit | cleanup in batches under an advisory lock | concurrent with everything; ordered by start time, not by number | deletions are announced by a watermark |
| Record mutation (`record.go`, `record/service.go`) | `records`, `idempotency_keys`, `mutation_identity_guards` | create, update, delete, restore in one all-or-nothing request | concurrent clients, lost responses and retries, receipts that expire | no lost update, applied once, all or nothing |
| Attachments (`attachment.go`, `attachment/service.go`, `file_store.go`) | `attachments` rows and files on disk | initialise, upload, open, delete | two stores without a common transaction | a ready Attachment has its content |
| Views: order and default (`view.go`, `view_order.go`, migration 008) | `views`, `tables.view_order` | create, update, delete, restore, set default, reorder | triggers and handlers maintain one list together | order is a permutation of the live Views, one default at most |
| Selection scopes (`selection.go`) | `selection_scopes`, members | acquire, resolve, invalidate | every writer must invalidate; expiry; idempotent acquire | a scope that resolves has exactly its members |
| Record order (`order.go`) | `records.position` | move, duplicate | midpoints, deleted records keep a position | an order without ties |
| Fields and choices (`field.go`, `choice.go`, `convert.go`) | `fields`, options, values | create, update, delete, restore, convert, choose | options and values change together; preview before conversion | values refer to Options that exist and conform to the type; a conversion does what its preview showed |
| Catalog (`catalog.go`, `table.go`) | Workspaces, Bases, Tables | create, rename, delete, restore | creations repeated while the first is under way, counts before inserts, receipts that expire | one object per key and receipt, limits hold |
| Audit (`audit.go`, migrations 010, 011) | `audit_events`, retention generation | captured by triggers, read in pages | one rename writes to the trails of many Tables; associated with Changes; retention | pages below one bound miss nothing; what is captured of an object is a chain |
| Queries (`query.go`, `values.go`, `map.go`, `cursor`) | none | keyset pages in one snapshot | concurrent writes between pages | items and `changeCursor` from one snapshot |
| Authentication (`auth.go`, `internal/auth`) | `actors`, `auth_tokens`, `server_secrets` | bootstrap, create, revoke, authenticate, the key of the cursors | two administrators or servers at once; an answer is lost after the COMMIT | one Actor, unique active names, a printed secret works |
| Migrations (`postgres.go`, `loomtable-migrate`) | `schema_migrations` | apply, check readiness | two processes, of different releases; a stop between two files | each takes effect once and in order; ready means all |
| HTTP, configuration, IDs, CLI, backup scripts | none in memory | formatting, process control | - | - |

## 2. The modules and the code

| Module | Models | Kind |
|---|---|---|
| `ChangeLog` | what the Change feed promises | abstract specification |
| `ChangeFeed` | `storage/postgres/change.go`, `retention.go`, the Change rows that writers commit | statement by statement |
| `ChangeFeedProofs` | theorems about `ChangeFeed` | proofs |
| `MutationLog` | what Record mutation promises | abstract specification |
| `RecordMutation` | `storage/postgres/record.go`, `choice.go`, `catalog.go` (receipts), `record/service.go`, `record/value.go`, edits of a Select Field in `field.go` and `catalog/service.go` | statement by statement |
| `RecordMutationProofs` | theorems about `RecordMutation` | proofs |
| `AttachmentUpload` | `attachment/service.go`, `file_store.go`, `storage/postgres/attachment.go` | row and file, step by step |
| `TableViews` | `view.go`, `view_order.go`, migrations 006 and 008, the service before them | one step per transaction, and per statement of a listing |
| `TableViewsProofs` | theorems about `TableViews` | proofs |
| `FixedSelection` | what a selection scope promises | abstract specification |
| `SelectionScope` | `selection.go`, its calls from every writer, migration 009, pages of `query.go` within a scope | one step per transaction |
| `SelectionScopeProofs` | theorems about `SelectionScope` | proofs |
| `RecordOrder` | `order.go`, positions in `record.go`, migration 005, keyset pages of `query.go` | one step per transaction |
| `RecordOrderProofs` | theorems about `RecordOrder` | proofs |
| `FieldValues` | `convert.go` (storage and catalog), the projection of `record/value.go`, sorted, filtered and distinct pages of `query.go` and `values.go` | one step per transaction |
| `FieldValuesProofs` | theorems about `FieldValues` | proofs |
| `Catalog` | `catalog.go`, `table.go`, the triggers of migration 010 | statement by statement |
| `TableAudit` | `audit.go`, `audit_transaction.go`, `history.go`, the cleanup of Audit, Changes and receipts; EXTENDS `Catalog` | readers over `Catalog` |
| `TableAuditProofs` | theorems about `Catalog` and `TableAudit` | proofs |
| `Installation` | `postgres.go`, `auth.go`, `auth/admin.go`, `auth/token.go` | statement by statement |
| `ServerProofs` | theorems about `AttachmentUpload` and `Installation` | proofs |

`MC<module>` instantiates a module for TLC. Actions have the names of the Go
functions where one action is one function, otherwise the names of what the
statement does (`LockTable`, `ReadReceipt`, `InsertChange`); `PROJECT.json` maps
every definition to its lines.

How fine a model is follows from what the locks leave open. Where a transaction
takes the Table `FOR UPDATE` first and keeps it to COMMIT, two writers cannot
interleave and the transaction is one step (`TableViews`, `SelectionScope`,
`RecordOrder`). In `ChangeFeed` and `RecordMutation` the locks themselves are the
question, so that BEGIN, each lock, each read and COMMIT are steps, and a crash, a
timeout or a cancelled request may end a transaction at each of them.
A snapshot (`REPEATABLE READ`) is a copy of the rows taken at its first statement.

**ChangeFeed.** Writers begin, lock their Table, draw numbers from the one sequence
(`nextSeq`), read the tail for their answer and commit or roll back; `lifecycle`
writers delete and restore the Table. The cleanup run (`cleaner`) picks expired rows
batch by batch in the order of `occurred_at`, and commits the deletion together with
the watermark, unless the foreign key of `change_retention_watermarks` has to wait
for a writer that holds the Table. A pull is `PullTail`, `PullWatermark`, `PullRows`
and the delivery of a page, which may be lost. A row's `at` is the start of its
transaction, as in PostgreSQL's `now()`. `got`, `base` and `purged` are history.

**RecordMutation.** One Table with one Select Field; Records hold the ID of an
Option or 0. A request is a sequence of commands, as clients write them down: its
Revisions are those that the client saw. A handler goes through `BeginTx`,
`LockActor`, `ReadReceipt`, `ReadGuard`, `LockTable`, `LoadFields`, `CheckChoices`,
`ResolveChoice`, `SaveOptions`, one `Apply...` per command and `Commit`; `handler[h].rows`,
`.field` and `.log` are its uncommitted writes. Editors are PATCH, DELETE and
restore of the Field and of the Table; `EditorRead` is the read in the service,
before the transaction. `done` (what was committed under a key) and `forgotten`
(keys whose receipt expired without a guard) are history.

**AttachmentUpload.** `StartUpload` is the read of the row, `Rename` the rename over
the final name, `Inspect` the test of the content type and the reading of image
dimensions, `MarkReady` the transaction, `Remove` the repair after an error.
Contents differ in what the checks see: accepted, contradicting the declared type,
not of the declared size. `disturbed` is history.

**TableViews.** `Maintained` is the trigger of migration 008. A client works from
its last listing (`list`), may have a PATCH between the service and the store
(`edit`), and requests with a key (`request`) that it repeats at will. `told` is
what its client was told after the commit.

**SelectionScope.** The query of a request is a filter over the values of one Field,
its own or that of the View. `context` is what a query refers to: the View, the
Field with its type, the Table. Search text, excluded and probed identities are
further parts of a filter and have no state of their own. All Actors use one Table,
so that the limits per Table, per Actor and of the server are one limit.
Every writer ends with `Invalidated`, and `DeleteTable` with `Revoked`, the trigger.

**RecordOrder.** Positions are multiples of the distance between two adjacent
floating-point numbers: `Mid` rounds as a midpoint does when the two run out of
numbers between them, so that ties occur after a few moves and not after fifty. The
distance of new positions, `Step` (1024.0), is more than one such unit. `InOrder` is the
ORDER BY of a page.

**FieldValues.** A value is the kind of its JSON and the words, numbers or Option IDs
in it; of the Field types those are kept that differ in how they fold, compare or
convert (`text`, `number`, `date`, `select`, `multiSelect`). `convert` is the table of
conversions, `Scan` the sum that a preview shows and that the transaction compares with
(`Verified`). `records[r].query` and `.search` are the projection: a write rebuilds
it from the Field as it is, a conversion only where the JSON of the value changes, and
the deletion or restoration of a Field not at all. A reader plans with the Field
of one transaction (`ResolveQuery`, `ResolveDistinct`) and reads pages in later ones;
`calm` says that nothing was written since and is history. A request to convert carries
a Revision that the client has seen (`expected`), which the transaction compares, and a
token, which the service compares before it. `TextKey` is the place of a text
in the collation, whose only property is that different texts have different places;
`ListLimit` is the limit of 100 Option IDs in one value.

**Catalog and TableAudit.** A Slot runs one transaction from BEGIN over its locks and
receipts to COMMIT or ROLLBACK; `tx` holds its uncommitted rows, events and Changes.
Renaming a Workspace or a Base goes down to each of its Tables and locks it (`CaptureAncestor`).
`reading` is a client in the middle of an Audit or of a history: the pages of an Audit
keep the bound and the generation of the first one, a history keeps the tail of its first
page. The import of migration 010 is part of the initial states: such an event names its
Change and has no snapshots. Retention removes receipts at any time (`cleanupReceipts`);
`forgotten`, the objects that the removed ones named, is history. `nextNumber` stands for
three sequences, of which only the order within one Table matters.

**Installation.** The three actors are the three commands: `Migrators` execute files
1, 2, ... of their own release, `Operators` bootstrap, create and revoke Tokens,
`Servers` check that they are ready and read or create the key of the cursors. Any of
them may stop between two statements. `shown` (what was printed) is history.

## 3. What the runs show

Each passing run checks its properties on every reachable state of the instance.

| Run | Instance | Shows |
|---|---|---|
| `feed_follow` | 2 Tables, 2 writers, 1 client, 3 numbers, retention "forever" | `NoLateCommit`, `FollowerComplete`, `OnceInOrder`, `EveryChangeArrives` |
| `feed_retention` | 1 Table deleted and restored, 2 writers, 1 client, 2 numbers, cleanup runs of 2 batches of 1, clock to 2 | `FeedInv`, `GapReported`, `ImplementsChangeLog` |
| `mutation_writers` | 3 Records, 2 keys, 2 handlers, 1 editor that drops an Option, receipts expire | `MutationInv`, `RevisionsHaveChanges`, `OptionNamesUnique`, `ConflictIsFinal`, `ImplementsMutationLog` |
| `mutation_options` | 2 Records, 1 key that is reused, 1 handler, an editor that adds, drops or revives one Option per PATCH and deletes and restores Field and Table, 3 names, budgets of 2 active and 3 Options | `ValuesHaveOptions`, `AppliedOnce`, `AppliedIsTrue` |
| `attachments` | 1 Attachment, 2 uploads, a download, a deletion, a Record mutation, 4 contents | `ContentKept`, `RecordedOnce` |
| `views` | 3 identities of Views of which 2 may be used, 2 keys, every operation, 3 Changes | `ViewsInv`, `ReorderReplayed`, `WrittenAsSeen` |
| `selection` | 2 Records, 2 requests for one scope, 1 reader, every writer, 2 Changes | `ScopesInv`, `ValidIsTrue`, `ReadingComplete`, `ImplementsFixedSelection` |
| `order` | 3 Records, pages of 1, resolution of a quarter of a step, 3 Changes | `PagesAndChangesComplete`, `PlacedAsAsked` |
| `fields` | 2 Records, 4 words of which two differ in case and one is a number and one a date, 2 Option IDs, 1 client that converts, 1 reader, 2 writes of the Field, 1 of a Record | `ValuesConform`, `ProjectionNeverWrong`, `ReadingsComplete`, `ConvertedAsShown` |
| `audit` | 3 Workspaces, 3 Bases of which 2 may share a parent, 3 Tables, 2 Records, 2 transactions at a time, 2 keys whose receipts expire, pages of 1, numbers to 4 | `AuditComplete`, `HistoryMeetsFeed`, `SnapshotsChain`, `ChangesAssociated`, `CreatedOnce` |
| `installation` | 2 migrating processes, 2 files of which the second is checked, 2 operators, 2 servers, 1 name, 3 secrets | `ReadyIsMigrated`, `OneActor`, `ShownSecretsWork`, `NamesUnique`, `CursorKeyShared` |

Some properties are conjunctions, because their parts are about one piece of state:
`FeedInv`, `MutationInv`, `ViewsInv` (`OrderIsActive`, `ListNeverFails`, `OneDefault`),
`ScopesInv` (`BudgetsKept`, `RepeatedIsSame`), `ContentKept` (`DownloadsTrue`),
`ReadingsComplete` (`ReadingComplete`, `DistinctComplete`). One invariant of each run
includes the `TypeOK` of its module, except for `ChangeFeed` and `RecordMutation`, whose type
invariants are theorems.

### Bounds, and why they are enough

Every bound is a constant of its module whose comment begins with "bound:". Bounds
stop new work (a request is not composed, a number not drawn), never work under
way, so that what has begun is carried through.

- Feed: an order of commits other than that of the numbers needs two writers and two
  numbers of one Table, and the third shows a client going on after it. Tables share
  nothing but the sequence. Cleanup against a pull needs one row that goes and one
  that stays; a page of one row makes every pull with two rows a partial one.
- Mutation: a lost update, a doubled Option or a copy of a request overtaking another
  needs two handlers and two requests; a third can only repeat what the second does.
  Two commands per request are enough for a failure after a write. The
  budgets are reached in `mutation_options` only; `MutationWithinBudget` has them for any limits.
- Attachments do not touch each other; two uploads are the least that race.
- Views: the initial states are those after any number of creations. Each of the
  hazards needs at most three changes after that. The limit is 2, so that it is
  reached; a permutation of two is the least that a reorder can change.
- Selection: two members and pages of one are the least with something between two
  pages; two requests for a limit of one is the least that competes (the budgets of members are not
  reached; `ScopesAreFixed` has all of them). A
  filter that matches part of the values and one that matches all of them separate
  changes that do and do not affect membership.
- Fields: what goes wrong with a conversion needs one Record that is written between the
  preview and the commit and one that is not; a tie and a page boundary need two
  Records. Two writes of the Field are a conversion and the deletion, restoration or conversion
  before or after it. The words are the smallest set with a fold, a parse
  that succeeds and one that fails, and with two names that become one Option.
- Audit: an event below the bound that appears late needs two transactions and two Tables;
  a chain of snapshots needs two writes of one object; four numbers are two writes
  with their Changes, or a rename that reaches two Tables beside another transaction. With
  room for two Bases below one Workspace a request repeated after its receipt was removed
  makes a second object, and the limit refuses the next; two keys are two such requests.
- Installation: every hazard is between two processes of a kind. With two files the
  check asks for the last one only, which is the gap that the readiness check leaves. Three
  secrets are the least for a Token beside those of two bootstraps.
- Order: three Records, as a move names two others. A resolution of a quarter of a
  step is used up by two moves.

Symmetry is used for writers, handlers, Views, clients, keys, requests, transactions,
operators, servers and migrating processes where no property and no action names one; not
in the run with a liveness property. Deadlock is checked where something can always
happen (views, order, installation); the other models stop when their bounded clocks,
numbers and requests are used up.

### Fairness

Only `EveryChangeArrives` needs fairness (`FairSpec`), and it asks nothing of writers,
cleanup or the clock. A client polls while it is open and the three statements of a
pull end, as each has a context with a deadline (weak fairness of `PullTail`,
`PullWatermark`, `PullRows`); of infinitely many answers one arrives (strong fairness
of `DeliverPage`), because a client that loses an answer asks again with the same
cursor. The property is about Tables that stay active from some time on: a
deleted one answers NOT_FOUND.

### Disagreements between the code and its documents

One run ends with a violation, on purpose:

- `attachment_overwrite`: the loser of two uploads of one pending Attachment removes
  the file of the winner, while `docs/design/detailed.md:96` does not let success be reported
  when a file that the database refers to is not complete. `ContentKept` is what does hold, for Attachments whose
  uploads did not overlap and whose COMMIT was not misreported.

Others are stated by definitions that no run checks, each with the instance that TLC
refutes it on:

- `FollowerComplete` (`ChangeFeed`) with retention: the watermark and the rows of a pull
  are read by two autocommit statements. A cleanup batch that commits between them removes
  rows after the cursor, and the page goes on past them without CURSOR_EXPIRED. On
  `ChangeFeedRetention.cfg`. `GapReported` is what does hold: a gap that was there
  when the request came in is reported.
- `TailNotExpired` (`ChangeFeed`): once the last Changes of a quiet Table have been purged,
  the tail that a new client is given is 0, behind the watermark, and its next pull is
  expired; a fresh start gives it the same cursor, until the Table changes. On
  `ChangeFeedRetention.cfg`.
- `CreationReplayed` (`TableViews`): a repeated creation of a View is answered with an
  error when a Field of its configuration was deleted meanwhile, as the check comes
  before the receipt. On `TableViews.cfg`.
- `SearchIsOfText` (`FieldValues`): a Record that was written while the Field was deleted
  is not found by a search after the Field is restored, and a conversion that leaves the JSON
  as it is (`convert.go:165`: a date becomes a text) leaves the search text of the
  old type. `ProjectionNeverWrong` is what does hold. On `FieldValues.cfg`.
- `EveryValueListed` (`FieldValues`): the pages of the distinct values of a number Field
  are sorted as numbers, but the cursor is compared as a string
  (`record/values.go:145`), so that the page after "9" leaves out "10". With the numerals
  "9" and "10" and the initial type "number".
  `ReadingsComplete` makes the exception.

Further ones were met with the same models and are only described here:

- Two bootstraps at once: `docs/design/detailed.md:381` says that a bootstrap of an
  initialised server only reports its status. The second of two that run at once took
  its snapshot before it waited, and fails with a serialization error instead
  (`told = "serialization"` in `Installation`). `OneActor` is what does hold.
- A creation that is repeated after retention has removed its receipt (30 days by default,
  `config.go:41`) makes a second object: unlike a Record mutation it leaves no identity guard
  (`catalog.go:402`). `docs/design/detailed.md:193` promises one object and limits the promise
  by the retention policy. `CreatedOnce` states it: one object per key and receipt.
- `docs/wave1.5/contracts/g2-atomic-choice.md` asks for a single migrating
  process. `ReadyIsMigrated` shows that a second one does no harm: the row of
  `schema_migrations` is inserted in the transaction of the file, and its primary key makes
  the loser roll back; the loser ends with an error.
- A history in which retention deletes below its cursor between the watermark and the
  rows of a page simply ends early. It is the tail of the first page from which a client
  follows on, so that nothing is lost to the feed (`HistoryMeetsFeed`).
- A preview and its conversion are compared by their sums only (`Verified`): a Record that
  lost its value and another that gained one in between are not noticed.
  `ConvertedAsShown` states what the comparison gives.
- A COMMIT of `MarkReady` that succeeds but is reported as an error makes `Upload`
  remove the file of the Attachment it has made ready (with `LostCommit = TRUE` and
  one uploader).
- `docs/wave1.5/contracts/g2-atomic-choice.md:56` takes a 404 as a proof that nothing
  was written. It is none: the answer depends on the Table being deleted, and a copy
  of the request that still waits for the Actor is applied after a restoration.
  `ConflictIsFinal` states what holds: conflicts are final.
- `docs/api/openapi.yaml:1424` promises "strictly between" and "directly after". After
  some fifty moves into one gap the midpoint equals an end of it; and a
  restored Record can share its position with another, so that a move beside one
  ends beside the other. `PlacedAsAsked` states when the promise holds.

## 4. What is proved

Eight modules of theorems, each about every value of the constants that satisfies the
named assumptions of its module. Every safety property of section 3 has a theorem that
states it; `EveryChangeArrives`, the one liveness property, has none.

| Module | Theorem | States |
|---|---|---|
| `ChangeFeedProofs` | `FeedTypeOK`, `FeedInvariant` | `TypeOK` and `FeedInv` are invariants |
| | `PurgeIsAnnounced`, `CursorsStayValid` | what cleanup has deleted is behind the watermark; an issued cursor is never INVALID_CURSOR |
| | `CommitsFollowCursors` | `NoLateCommit`, an action property |
| | `ClientsAreTold`, `GapsAreReported`, `FollowersComplete` | what a client holds; `GapReported`; `FollowerComplete` where `Age = 0`, retention "forever" |
| | `PagesFollow` | `OnceInOrder`, an action property |
| | `FeedRefinesLog` | `ImplementsChangeLog`, a refinement |
| `RecordMutationProofs` | `MutationTypeOK`, `MutationInvariant`, `MutationWithinBudget` | `TypeOK`, `MutationInv` and `WorkWithinBudget` are invariants |
| | `MutationAppliedOnce`, `MutationAppliedIsTrue`, `MutationRevisionsHaveChanges` | `AppliedOnce`, `AppliedIsTrue`, `RevisionsHaveChanges` |
| | `MutationOptionNamesUnique`, `MutationValuesHaveOptions`, `MutationConflictIsFinal` | `OptionNamesUnique`, `ValuesHaveOptions`, `ConflictIsFinal` |
| | `MutationRefinesLog` | `ImplementsMutationLog`, a refinement |
| `TableViewsProofs` | `ViewsAgree`, `ReordersReplay`, `ChangesAreSeen` | `ViewsInv`, `ReorderReplayed`; `WrittenAsSeen`, an action property |
| `SelectionScopeProofs` | `SelectionCorrect`, `ValidScopesAreTrue`, `ScopesAreFixed`, `ReadingsAreComplete` | the inductive invariant, `ValidIsTrue`, `ScopesInv`, `ReadingComplete` |
| | `ScopesRefineFixedSelections` | `ImplementsFixedSelection`, a refinement |
| `RecordOrderProofs` | `OrderTypeOK`, `OrderPagesComplete`, `OrderPlaces` | `TypeOK`, `PagesAndChangesComplete`, `PlacedAsAsked` |
| `FieldValuesProofs` | `FieldsInvariant` | the inductive invariant |
| | `ValuesAlwaysConform`, `ProjectionIsNeverWrong` | `ValuesConform`, `ProjectionNeverWrong` |
| | `ConversionsAreAsShown` | `ConvertedAsShown`, an action property |
| | `ReadingsAreComplete` | `ReadingsComplete` |
| `TableAuditProofs` | `AuditTypeOK`, `AuditCreatedOnce`, `AuditSnapshotsChain`, `AuditChangesAssociated` | types, `CreatedOnce`, `SnapshotsChain`, `ChangesAssociated` |
| | `AuditPagesComplete`, `AuditHistoryMeetsFeed` | `AuditComplete`, `HistoryMeetsFeed` |
| `ServerProofs` | `ContentStays`, `HashRecordedOnce` | `ContentKept`; `RecordedOnce`, an action property |
| | `MigratedOnceInOrder`, `OneActorEver`, `PrintedSecretsWork`, `NamesStayUnique`, `OneCursorKey` | `ReadyIsMigrated`, `OneActor`, `ShownSecretsWork`, `NamesUnique`, `CursorKeyShared` |

### Assumptions

Sets of Tables, clients, writers, handlers, Attachments, Views, Operators and the like may
have any size, finite or not; limits and bounds are any positive numbers. Records
are finite where they are counted or sorted (`RecordOrder`, `SelectionScope`, `FieldValues`), objects
where the children of a parent are counted (`Catalog`). A null is not one of the values beside it (`NoneAssumption` and the like).
`InitialAssumption` gives `Catalog` a first Workspace, Base and Table within the limits.
`Step > 1` in `RecordOrder`: with new positions that are adjacent numbers a move beside the
last Record would have no room.
`FieldValuesAssumption`: an Option ID is not a word, folding leaves a date alone (a date is
digits and hyphens), and the collation tells different texts apart. Of the sets of words
nothing is assumed, not even that they are finite; folding may be any function, one that
is not idempotent included.

### The inductive invariants

No property is inductive as it stands. What is added is, throughout, what a transaction or
a client has read and still relies on.

**The feed.** `NoLateCommit` depends on when the numbers of a commit were drawn. `FeedInv`
adds that the Table lock is exclusive and only its holder has rows (`LocksExclusive`), that
these rows are ahead of everything published (`RowsAhead`), that numbers in use are below
`nextSeq` (`Numbered`), and that a cursor is 0 or a published number (`CursorsPublished`);
then a commit publishes rows that are ahead of all published numbers, hence of all cursors.
`CursorsCovered` links the tail and the watermark that a pull reads at two instants: the
cursor is below one of them, whatever cleanup did between. `FollowInv` says what a client
has been told: every row above the watermark between its base and its cursor, and of the page
under way every row that the page passes. `KeptForever` is the case `Age = 0`. The
refinement maps the log of a Table to its published rows, purged ones included, and
shows each step to be a growth past every cursor, a forgetting, a delivery or a stutter.

**Mutation.** A handler's step is *quiet* (it changes only its own state, in one of a
few ways), a commit or a delivery, so that each group of invariants is proved for these
three, for `Compose`, `Expire` and the editors. `LocksExclusive` makes what a handler
has read stay true (`KeysUnused`); a key with a commit keeps its receipt or its guard unless
it is forgotten (`Remembered`), and both vouch for a commit of the very request
(`ReceiptsTrue`). The history of Change rows is complete, committed rows plus those of
the one handler that is under way (`WritesHaveChanges`); budgets hold in the
copy of the Field that a handler or an editor is about to write (`WorkWithinBudget`).
`LogInv` is about what a handler has done so far: its Options and rows are the effect
of the commands before `next` on what is stored (`WorkTrue`, `Resolved`, `Applied`), which is
what `MutationLog` asks of the commit; an editor that holds the Table has read the definition it
replaces, because the Revision it brings is still the stored one (`EditorTrue`). A request that
met a conflict stays hopeless, because Revisions only grow (`Hopeless`, `Final`).

**Attachments.** `UploadInv`: an upload that has been alone since it read the row finds the row
pending and the file it has renamed (`UploadsUndisturbed`); the file of a ready row is
its content (`InStep`), and the row that a download has found still describes it
(`ReadersInStep`).

**Views.** `TableViewsInv`: the order holds each live View once (`Agrees`), as the trigger and
the permutation check maintain it; the snapshots of listings agree as well
(`SnapshotsAgree`); what a client has listed is older or the same (`OrdersPast`,
`RowsPast`); what a key has left is one answer (`KeysTrue`). That a list is free of
repetitions is proved from its length by the pigeonhole theorem on surjections, as the
code compares lengths (`DistinctLength`).

**Selection scopes.** `SelectionInv`: a scope lives at least as long as its request may be
repeated, and a request whose scope is valid was told its members (`RequestTrue`); the token
names one scope, by the end of its time (`Named`); a reading has read exactly what sorts
up to its last key, while neither the tail nor the scope has changed (`ReadingTrue`). Each writer is
shown to be a `Commit` whose invalidation leaves only scopes whose query selects the same
as before.

**The order.** `OrderInv` is `Placed`, `PlacedAsAsked` and `ReadingsTold`. `Placed` bounds the
positions, so that they are finitely many and a greatest and a least exist. A move is
proved by cases on its two neighbours, from what a midpoint is (`MidBetween`): strictly
between if there is a number between. `Told` is about a client in the middle of its pages:
of a Record that no Change since its first page names it has seen the truth or nothing, and
it has seen it if the Record does not sort after the last key. A page is an ascending
enumeration of what sorts after that key (`InOrderLists`).

**Fields and values.** `Invariant` says of every Record that its value conforms to the Field
as it is now and that its query value is the projection of that value or null
(`InKeeping`); of a client, that the Field it has read is that of now if the Revision is
still the same (`Since`). The heart of it is one lemma per type (`ConvertText` and so on): a value that
conforms to the Field of old becomes one that conforms to the new Field, and its outcome is one of
the four that a scan counts. A preview may have scanned values under a Field that had
changed since it was read; the transaction compares the Revision and the sums again, so that
what it rewrites is what the scan of now has counted: the outcomes split the Records in
use (`OutcomesSplit`) and the sizes of the parts add up to what was shown.
`CalmOK` is about a reading during which nothing was written: its rows are an ascending
listing of all rows up to the last one (`Sweep`), its distinct values are the first ones
of the ordered list (`PrefixOf`). That the next page neither skips nor repeats needs the
keyset condition to be a strict order that compares any two rows: the terms
of rows of one sort have the same length, or differ in the first term, the null bucket
(`SortTerms`, `TermsTotal`), and rows that tie are told apart by their IDs. Distinct
values go on by index for Options and by the text of the last value
otherwise; both come to the same place because equal texts are one value (`StartIs`). The
proof of this step fails for numbers, whose order is not that of their texts: the
disagreement `EveryValueListed` above.

**The catalog and its Audit** (`AuditEverything`), in layers. `CatalogInv`: locks are
exclusive, a lock is held for every row that a transaction is about to write, and what it
has read under a lock is still so. `TrailInv`: the events and the Changes under way have numbers
that were drawn under the lock of their Table, hence above all committed ones of
that Table, and every row that is to change has its event. `ChainInv`: a captured event
and the next one of its object agree on the state between them, and imported events come
before all captured ones. `AssociationInv`: operations tell
transactions apart, and one transaction has one event for an effect.
`CreationInv`: the children of a parent are within the limit, and the objects beyond the
first ones are those answered, each to one key and once (`AnswersOf`). `AuditInv` and
`HistoryInv`: nothing in flight comes under the bound of a reading, and what was
listed is all that is down to the cursor.

**Installation.** `InstallationInv`: the migrations that took effect are the first ones
(`FirstOnes`), a process that has come to a file found the ones before it, and at most one
is about to commit a file (`CommitsAlone`); what an Operator has found out under
its lock or in its snapshot is true until its COMMIT (`CommandTrue`).

### Induction

The prover has no rule of induction over a predicate. Where a proof needs one, on the
pages of a reading or to enumerate a finite set in order, it is stated with a set of numbers
in place of the predicate: `LeastNumber` and `AllNumbers` follow from the
well-foundedness of `<`, and `OrderExists` (every finite set of Records has an ordered
listing) from `AllNumbers` and the set of the sizes for which it holds. `ListingExists` in
`FieldValuesProofs` does it for any strict order without induction on the set: the place of
a member is the number of those before it. `JoinExists` shows in the same way that the
function exists by which names are joined to a text.

### Only model-checked

- `EveryChangeArrives`: liveness is beyond the prover.

The other way round, `PurgeIsAnnounced` and `CursorsStayValid` are consequences of `FeedInv`, and
`MutationWithinBudget` states a part of `MutationInv`, that no run lists beside these.

## 5. What is not modelled

- HTTP, configuration, process control, signing of cursors, generation of
  identifiers: no state that several actors share. A token is what was issued, and
  identifiers are distinct.
- Row locks other than those of Actor and Table, and with them deadlocks that
  PostgreSQL resolves by ending a transaction. The models allow a transaction to end
  anywhere, which covers the outcome but not its frequency.
- Audit: payloads and their redaction (migration 011), and writers that do not set
  the operation of a transaction. The triggers of Fields and Views are those of Tables.
- Select Options: new names, and several changes of Options in one PATCH.
- Field types that behave like one of the five that are modelled, and the configurations of
  Fields other than Options. A conversion to a longer or shorter text is the limit of a text.
- Aggregation and map clusters: computations on one snapshot, without a state or an
  order of steps; what they compute is floating-point arithmetic and counting.
- The filters of the feed, of the history and of the Audit: they select among rows that
  the models have.

## 6. Plan

Done: `ChangeLog`, `ChangeFeed`, `ChangeFeedProofs`; `MutationLog`, `RecordMutation`,
`RecordMutationProofs`; `AttachmentUpload`; `TableViews`, `TableViewsProofs`;
`FixedSelection`, `SelectionScope`, `SelectionScopeProofs`; `RecordOrder`,
`RecordOrderProofs`; `FieldValues`, `FieldValuesProofs`; `Catalog`, `TableAudit`,
`TableAuditProofs`; `Installation`; `ServerProofs`.

Next, in this order:

1. Action properties that follow from the invariants proved: Revisions and
   `generation` never fall, a receipt is never replaced.
2. `RowLocks`: the order of row locks, for deadlock freedom.
3. `MapClusters`: the grouping of map positions against a reference definition.

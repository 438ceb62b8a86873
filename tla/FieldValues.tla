----------------------------- MODULE FieldValues -----------------------------
(***************************************************************************)
(* One Field of one Table, the values its Records hold for it, and the     *)
(* projection of those values that queries read.                           *)
(*                                                                         *)
(* A Record keeps a value twice: as the client wrote it (values) and folded*)
(* and typed for the database to compare (query_values, search_text).  The *)
(* projection is rebuilt by some writes and left alone by others, a Field  *)
(* changes its type under the values, and a query learns the type in one   *)
(* transaction and reads the projection in a later one.                    *)
(*                                                                         *)
(* Every write is one transaction under the lock of the Table (see         *)
(* RecordMutation) and is one action.  A conversion is four: the Field is  *)
(* read and the values are scanned for the preview, the Field is read      *)
(* again, and the transaction rewrites the values.                         *)
(*                                                                         *)
(* A JSON value is its kind and the words, numbers or Option IDs it holds; *)
(* null and an absent key are one value, which every reader of the code    *)
(* treats alike.                                                           *)
(***************************************************************************)
EXTENDS Integers, Sequences, FiniteSets, SequencesExt

CONSTANTS Records,      \* Record IDs
          Clients,      \* clients that preview and convert
          Words,        \* words of texts, numerals and dates among them
          Numerals,     \* the words that parse as a number
          Dates,        \* the words that parse as a date
          FoldWord,     \* [Words -> Words]: Unicode case folding
          OptionIDs,    \* Option IDs, each minted once
          TextKey(_),   \* place of a text, or of a value read as text, in the collation
          NumberRank,   \* order of numerals as numbers
          TextLimit,    \* words in a text value (10,000 characters)
          ListLimit,    \* Option IDs in one value (100)
          NameLimit,    \* words in an Option name (100 characters)
          OptionLimit,  \* Options of a Field (500)
          InitialTypes, \* types the Field is created with
          MaxRevision,  \* bound: writes of the Field
          MaxWrites     \* bound: writes of Records

Texts == BoundedSeq(Words, TextLimit) \cup BoundedSeq(OptionIDs, ListLimit)

\* A Table has finitely many Records; IDs are never words; a date has no letters
\* (2006-01-02), so that folding leaves it alone; different texts are different to
\* the collation.  A text may be one word long, a value may be one Option.
ASSUME FieldValuesAssumption ==
    /\ IsFiniteSet(Records) /\ IsFiniteSet(OptionIDs) /\ Words \cap OptionIDs = {}
    /\ Numerals \subseteq Words /\ Dates \subseteq Words
    /\ FoldWord \in [Words -> Words] /\ \A d \in Dates : FoldWord[d] = d
    /\ \A t \in Texts : TextKey(t) \in Nat /\ \A u \in Texts : TextKey(t) = TextKey(u) => t = u
    /\ NumberRank \in [Numerals -> Nat]
    /\ InitialTypes \subseteq {"text", "number", "date", "select", "multiSelect"}
    /\ {TextLimit, ListLimit, MaxRevision} \subseteq Nat \ {0}
    /\ {NameLimit, OptionLimit, MaxWrites} \subseteq Nat

VARIABLES field,    \* the Field: type, revision, deleted, names of its Options
          records,  \* per Record: used, deleted, values, query_values, search_text
          minted,   \* Option IDs given out
          clients,  \* per client: the Field it read, its target, its preview token, its request
          reader,   \* a client that reads pages
          writes    \* writes of Records so far

vars == <<field, records, minted, clients, reader, writes>>

-----------------------------------------------------------------------------
(* Values. *)

NoValue == [json |-> "null", atoms |-> <<>>]
Text(atoms) == [json |-> "string", atoms |-> atoms]
Number(word) == [json |-> "number", atoms |-> <<word>>]
List(ids) == [json |-> "list", atoms |-> ids]

\* Option IDs have no case.
FoldText(atoms) == [i \in DOMAIN atoms |-> IF atoms[i] \in Words THEN FoldWord[atoms[i]] ELSE atoms[i]]

\* What a client may write, validated against the Field (short texts only).
normalizeFieldValue(f) ==
    CASE f.type = "text" -> {Text(<<>>)} \cup {Text(<<w>>) : w \in Words}
      [] f.type = "number" -> {Number(w) : w \in Numerals}
      [] f.type = "date" -> {Text(<<w>>) : w \in Dates}
      [] f.type = "select" -> {Text(<<o>>) : o \in DOMAIN f.options}
      [] f.type = "multiSelect" ->
            {List(ids) : ids \in {q \in BoundedSeq(DOMAIN f.options, ListLimit) : IsInjective(q)}}

\* A value that the type of the Field admits, long texts included.
Conforms(f, v) ==
    \/ v = NoValue
    \/ /\ f.type = "text"
       /\ v.json = "string" /\ v.atoms \in Seq(Words) /\ Len(v.atoms) =< TextLimit
    \/ f.type # "text" /\ v \in normalizeFieldValue(f)

\* The query value and the search text of a value; "before" is the projection
\* of the Record until now.
buildQueryProjection(f, v) ==
    IF f.deleted \/ v = NoValue THEN [query |-> NoValue, search |-> <<>>]
    ELSE IF f.type = "text" THEN [query |-> Text(FoldText(v.atoms)), search |-> FoldText(v.atoms)]
    ELSE [query |-> v, search |-> <<>>]

\* Mutant: the projection folds what it folded before.
RewrittenOnce(f, rec, v) ==
    LET p == buildQueryProjection(f, IF rec.query = NoValue THEN v ELSE rec.value)
    IN [rec EXCEPT !.value = v, !.query = p.query, !.search = p.search]

Rewritten(f, rec, v) ==
    LET p == buildQueryProjection(f, v)
    IN [rec EXCEPT !.value = v, !.query = p.query, !.search = p.search]

Unused == [used |-> FALSE, deleted |-> FALSE, value |-> NoValue, query |-> NoValue, search |-> <<>>]
Used == {r \in Records : records[r].used}

-----------------------------------------------------------------------------
(* Conversion of one value. *)

conversionModes ==
    [text        |-> [number |-> "parse", date |-> "parse",
                      select |-> "distinctOptions", multiSelect |-> "distinctOptions"],
     number      |-> [text |-> "format", select |-> "distinctOptions", multiSelect |-> "distinctOptions"],
     date        |-> [text |-> "format", select |-> "distinctOptions", multiSelect |-> "distinctOptions"],
     select      |-> [text |-> "optionName", multiSelect |-> "singleElement"],
     multiSelect |-> [text |-> "joinNames", select |-> "firstOption"]]

Types == DOMAIN conversionModes
Targets(type) == DOMAIN conversionModes[type]

\* Options are made from the values: the source has none of its own.
OptionTarget(from, to) == conversionModes[from][to] = "distinctOptions"

OK(v) == [outcome |-> "ok", value |-> v]
Lossy(v) == [outcome |-> "lossy", value |-> v]
Lost == [outcome |-> "lost", value |-> NoValue]
Empty == [outcome |-> "empty", value |-> NoValue]

\* An Option the Field does not know loses the value.
optionName(f, atoms) ==
    IF Len(atoms) = 1 /\ atoms[1] \in DOMAIN f.options THEN OK(Text(f.options[atoms[1]])) ELSE Lost

\* So does a text that is too long.
joinNames(f, ids) ==
    LET joined == FlattenSeq([i \in DOMAIN ids |-> f.options[ids[i]]])
    IN IF \/ \E i \in DOMAIN ids : ids[i] \notin DOMAIN f.options
          \/ Len(joined) > TextLimit
       THEN Lost ELSE OK(Text(joined))

parseText(to, atoms) ==
    CASE atoms = <<>> -> Empty
      [] to = "number" /\ Len(atoms) = 1 /\ atoms[1] \in Numerals -> OK(Number(atoms[1]))
      [] to = "date" /\ Len(atoms) = 1 /\ atoms[1] \in Dates -> OK(Text(atoms))
      [] OTHER -> Lost

distinctOption(atoms) ==
    IF atoms = <<>> THEN Empty
    ELSE IF Len(atoms) > NameLimit THEN Lost ELSE OK(Text(atoms))

firstOption(ids) ==
    CASE ids = <<>> -> Empty
      [] Len(ids) = 1 -> OK(Text(ids))
      [] OTHER -> Lossy(Text(<<ids[1]>>))

\* A list has no words to format or to make an Option of.
scalarString(v) == IF v.json = "list" THEN <<>> ELSE v.atoms

\* The JSON that each mode expects; a scan whose Field has changed since it was
\* read meets others, and loses them, or takes them for empty texts.
Expects(mode, json) ==
    CASE mode \in {"parse", "optionName", "singleElement"} -> json = "string"
      [] mode \in {"joinNames", "firstOption"} -> json = "list"
      [] mode \in {"format", "distinctOptions"} -> TRUE

convert(f, to, v) ==
    LET mode == conversionModes[f.type][to]
    IN IF v = NoValue THEN Empty
       ELSE IF ~Expects(mode, v.json) THEN Lost
       ELSE CASE mode = "parse" -> parseText(to, v.atoms)
              [] mode = "format" -> OK(Text(scalarString(v)))
              [] mode = "distinctOptions" -> distinctOption(scalarString(v))
              [] mode = "optionName" -> optionName(f, v.atoms)
              [] mode = "joinNames" -> IF v.atoms = <<>> THEN Empty ELSE joinNames(f, v.atoms)
              [] mode = "singleElement" -> OK(List(v.atoms))
              [] mode = "firstOption" -> firstOption(v.atoms)

\* What a scan of all Records, deleted ones included, adds up to.
Scan(f, to) ==
    LET out == [r \in Used |-> convert(f, to, records[r].value)]
        Count(o) == Cardinality({r \in Used : out[r].outcome = o})
    IN [ok |-> Count("ok"), lossy |-> Count("lossy"), lost |-> Count("lost"), empty |-> Count("empty"),
        distincts |-> IF OptionTarget(f.type, to)
                      THEN {FoldText(out[r].value.atoms) : r \in {q \in Used : out[q].value # NoValue}}
                      ELSE {}]

-----------------------------------------------------------------------------
(* Writers of Records.  A write rebuilds the projection of its Record from  *)
(* the Field as the transaction finds it.                                   *)

Idle == [at |-> "idle"]
NoOptions == [o \in {} |-> <<>>]

\* Some Records were created since the Field was.
Init ==
    /\ field \in [type : InitialTypes, revision : {1}, deleted : {FALSE}, options : {NoOptions}]
    /\ records \in [Records -> {Unused} \cup
          {Rewritten(field, [Unused EXCEPT !.used = TRUE], v) : v \in {NoValue} \cup normalizeFieldValue(field)}]
    /\ minted = {}
    /\ clients = [c \in Clients |-> Idle]
    /\ reader = Idle
    /\ writes = 0

\* A reading is calm until something is written.
Disturb == reader' = IF reader.at = "idle" THEN reader ELSE [reader EXCEPT !.calm = FALSE]

WriteRecord(r, rec) ==
    /\ writes < MaxWrites
    /\ writes' = writes + 1
    /\ records' = [records EXCEPT ![r] = rec]
    /\ Disturb
    /\ UNCHANGED <<field, minted, clients>>

\* Values of a deleted Field are refused; a Record without one is not.
CreateRecord(r) ==
    /\ ~records[r].used
    /\ \E v \in {NoValue} \cup (IF field.deleted THEN {} ELSE normalizeFieldValue(field)) :
          WriteRecord(r, Rewritten(field, [Unused EXCEPT !.used = TRUE], v))

\* A deleted Record is not updated.  The value is set, unset, or left as it is
\* while another Field is written.
UpdateRecord(r) ==
    /\ records[r].used /\ ~records[r].deleted
    /\ \E v \in {records[r].value} \cup
                (IF field.deleted THEN {} ELSE {NoValue} \cup normalizeFieldValue(field)) :
          WriteRecord(r, Rewritten(field, records[r], v))

\* The lifecycle leaves the values and their projection alone.
applyRecordLifecycle(r) ==
    /\ records[r].used
    /\ WriteRecord(r, [records[r] EXCEPT !.deleted = ~@])

-----------------------------------------------------------------------------
(* Writers of the Field.                                                    *)

SetField(f) ==
    /\ field' = [f EXCEPT !.revision = @ + 1]
    /\ Disturb
    /\ UNCHANGED writes

\* Deletion and restoration do not touch the Records.
FieldLifecycle ==
    /\ field.revision < MaxRevision
    /\ SetField([field EXCEPT !.deleted = ~@])
    /\ UNCHANGED <<records, minted, clients>>

PreviewRead(c) ==
    /\ clients[c].at = "idle"
    /\ reader.at = "idle" \* bound: a preview is made before a reading or after it
    /\ ~field.deleted
    /\ \E to \in Targets(field.type) :
          clients' = [clients EXCEPT ![c] = [at |-> "scanning", field |-> field, to |-> to]]
    /\ UNCHANGED <<field, records, minted, reader, writes>>

\* The values are those of now, the type and the Options those of the reading.
PreviewScan(c) ==
    /\ clients[c].at = "scanning"
    /\ reader.at = "idle" \* bound: a preview is made before a reading or after it
    /\ clients' = [clients EXCEPT ![c] =
          [at |-> "previewed", field |-> clients[c].field, to |-> clients[c].to,
           shown |-> Scan(clients[c].field, clients[c].to)]]
    /\ UNCHANGED <<field, records, minted, reader, writes>>

Forget(c) ==
    /\ clients' = [clients EXCEPT ![c] = Idle]
    /\ UNCHANGED <<field, records, minted, reader, writes>>

\* The service compares the token with the Field before the transaction.  The request
\* carries a Revision of its own, one that the client has seen.
ConvertRead(c) ==
    /\ clients[c].at = "previewed"
    /\ reader.at = "idle" \* bound: a preview is made before a reading or after it
    /\ IF field.deleted \/ field.type # clients[c].field.type \/ field.revision # clients[c].field.revision
       THEN Forget(c)
       ELSE /\ \E expected \in 1 .. field.revision :
                  clients' = [clients EXCEPT ![c] =
                     [at |-> "converting", field |-> clients[c].field, to |-> clients[c].to,
                      shown |-> clients[c].shown, expected |-> expected]]
            /\ UNCHANGED <<field, records, minted, reader, writes>>

\* Mutant: the Records are not counted again.
VerifiedNot(c) == Scan(field, clients[c].to).distincts = clients[c].shown.distincts

\* Verify: the values under the lock add up to what the preview showed.
Verified(c) == Scan(field, clients[c].to) = clients[c].shown

\* What the transaction checks before it writes.
Admitted(c) ==
    /\ field.revision = clients[c].expected /\ ~field.deleted
    /\ Verified(c)
    /\ Cardinality(clients[c].shown.distincts) =< OptionLimit

ConvertRefused(c) ==
    /\ clients[c].at = "converting"
    /\ ~Admitted(c)
    /\ Forget(c)

\* Options for the names that differ beyond their case, each spelled as one of
\* its Records spells it, under IDs never used before.  A conversion between
\* selects keeps the Options, any other conversion has none.
buildConvertedConfig(to, distincts) ==
    LET names == {convert(field, to, records[r].value).value.atoms : r \in Used}
        ids == CHOOSE s \in SUBSET (OptionIDs \ minted) : Cardinality(s) = Cardinality(distincts)
    IN CASE to \notin {"select", "multiSelect"} -> {NoOptions}
         [] OptionTarget(field.type, to) ->
                {new \in [ids -> names] : {FoldText(new[o]) : o \in ids} = distincts}
         [] OTHER -> {field.options}

\* The names are replaced by the Options made from them.
ResolveValue(to, options, v) ==
    LET id == CHOOSE o \in DOMAIN options : FoldText(options[o]) = FoldText(v.atoms)
    IN IF to = "multiSelect" THEN List(<<id>>) ELSE Text(<<id>>)

\* Mutant: Options are resolved for the active Records only.
ConvertRecordActive(f, to, options, rec) ==
    LET out == convert(field, to, rec.value)
        v == IF out.value # NoValue /\ OptionTarget(field.type, to) /\ ~rec.deleted
             THEN ResolveValue(to, options, out.value) ELSE out.value
    IN IF ~rec.used \/ v = rec.value THEN rec ELSE Rewritten(f, rec, v)

\* A Record whose value stays the same JSON is not rewritten.
ConvertRecord(f, to, options, rec) ==
    LET out == convert(field, to, rec.value)
        v == IF out.value # NoValue /\ OptionTarget(field.type, to)
             THEN ResolveValue(to, options, out.value) ELSE out.value
    IN IF ~rec.used \/ v = rec.value THEN rec ELSE Rewritten(f, rec, v)

ConvertField(c) ==
    LET to == clients[c].to
    IN /\ clients[c].at = "converting"
       /\ field.revision < MaxRevision
       /\ Admitted(c)
       /\ Cardinality(clients[c].shown.distincts) =< Cardinality(OptionIDs \ minted) \* bound
       /\ \E new \in buildConvertedConfig(to, clients[c].shown.distincts) :
             /\ minted' = minted \cup DOMAIN new
             /\ SetField([field EXCEPT !.type = to, !.options = new])
             /\ records' = [r \in Records |->
                   ConvertRecord([field EXCEPT !.type = to, !.options = new], to, new, records[r])]
       /\ clients' = [clients EXCEPT ![c] = Idle]

-----------------------------------------------------------------------------
(* Readers: pages of one row, of Records sorted by the Field ("query") or of *)
(* its distinct values ("distinct").  The plan takes the Field from a        *)
(* transaction of its own; the page is one later snapshot.                   *)

\* ->> reads any JSON as text; two texts are equal when their JSON is.
AsText(q) == IF q.json = "list" THEN q ELSE [q EXCEPT !.json = "string"]

OneOf(set, q) == q.json # "list" /\ Len(q.atoms) = 1 /\ q.atoms[1] \in set

\* The cast that the plan's type puts around a value fails on any other text.
CastFails(type, q) ==
    type = "number" /\ q # NoValue /\ ~OneOf(Numerals, q)

IsEmpty(type, q) ==
    \/ q = NoValue
    \/ type = "text" /\ q = Text(<<>>)
    \/ type = "multiSelect" /\ q = List(<<>>)

compileFilterSQL(type, filter, q) ==
    CASE filter.op = "all" -> TRUE
      [] filter.op = "isEmpty" -> IsEmpty(type, q)
      [] filter.op = "is" -> q # NoValue /\ AsText(q) = AsText(filter.value)
      [] filter.op = "includes" -> q # NoValue /\ filter.value.atoms[1] \in ToSet(q.atoms)

\* Filters the plan admits for a Field of the type, texts folded; of the values
\* those that some Record holds (bound).
validateFilterRule(f) ==
    {[op |-> "all"], [op |-> "isEmpty"]} \cup
    {[op |-> IF f.type = "multiSelect" THEN "includes" ELSE "is", value |-> v] :
        v \in {q \in {records[r].query : r \in Used} : Len(q.atoms) = 1}}

\* Options stand in the order of their folded names.
selectOptionRank(f, o) ==
    Cardinality({p \in DOMAIN f.options : TextKey(FoldText(f.options[p])) < TextKey(FoldText(f.options[o]))})

\* The terms of the sort, ascending; an unset value has the null bucket.
buildSortTerms(f, nulls, q) ==
    LET null == IF (q = NoValue) = (nulls = "last") THEN 1 ELSE 0
    IN IF f.type = "multiSelect" THEN <<>>   \* cannot be sorted by: the order of Records
       ELSE IF q = NoValue THEN <<null>>
       ELSE CASE f.type = "number" -> <<null, NumberRank[q.atoms[1]]>>
              [] f.type = "select" -> IF OneOf(DOMAIN f.options, q)
                                      THEN <<null, 0, selectOptionRank(f, q.atoms[1])>>
                                      ELSE <<null, 1, TextKey(q.atoms)>>
              [] OTHER -> <<null, TextKey(q.atoms)>>

\* SQL compares a row with a position term by term; comparing with null is
\* never true, and only the last term that differs may be greater.
IdOrder == CHOOSE order \in [Records -> 1 .. Cardinality(Records)] : IsInjective(order)

buildKeysetCondition(here, after) ==
    \/ \E i \in DOMAIN after.terms \cap DOMAIN here.terms :
          /\ \A j \in 1 .. (i - 1) : here.terms[j] = after.terms[j]
          /\ here.terms[i] > after.terms[i]
    \/ here.terms = after.terms /\ IdOrder[here.id] > IdOrder[after.id]

Row(f, r) == [id |-> r, terms |-> buildSortTerms(f, reader.nulls, records[r].query)]

Active == {r \in Used : ~records[r].deleted}

\* The members of S, each once, in the order of the pairs.
InOrder(S, pairs) ==
    CHOOSE s \in [1 .. Cardinality(S) -> S] :
        \A i, j \in 1 .. Cardinality(S) : i < j => <<s[i], s[j]>> \in pairs

\* The rows of the snapshot that the filter admits, behind the last row of the
\* page before, in order.
QueryRecords(f) ==
    LET all == {Row(f, r) : r \in {q \in Active : compileFilterSQL(f.type, reader.filter, records[q].query)}}
        rows == {row \in all : reader.listed = <<>> \/ buildKeysetCondition(row, Last(reader.listed))}
    IN InOrder(rows, {pair \in rows \X rows : buildKeysetCondition(pair[2], pair[1])})

\* The values in use, one by one when they are lists.
StoredDistinct(f) ==
    LET in == {records[r].query : r \in {q \in Active : ~IsEmpty(f.type, records[q].query)}}
    IN IF f.type = "multiSelect" THEN {Text(<<o>>) : o \in UNION {ToSet(q.atoms) : q \in in}} ELSE in

\* Numbers by value, Options by rank, anything else, and what ties, by its text;
\* what a plan of an earlier type does not know comes last.
DistinctKey(f, q) ==
    CASE f.type = "number" /\ OneOf(Numerals, q) -> <<0, NumberRank[q.atoms[1]], TextKey(q.atoms)>>
      [] f.type \in {"select", "multiSelect"} /\ OneOf(DOMAIN f.options, q) ->
            <<0, selectOptionRank(f, q.atoms[1]), TextKey(q.atoms)>>
      [] OTHER -> <<1, 0, TextKey(q.atoms)>>

KeyBefore(x, y) == \E i \in 1 .. 3 : x[i] < y[i] /\ \A j \in 1 .. (i - 1) : x[j] = y[j]

orderDistinctValues(f) ==
    LET in == StoredDistinct(f)
    IN InOrder(in, {pair \in in \X in : KeyBefore(DistinctKey(f, pair[1]), DistinctKey(f, pair[2]))})

\* Mutant: one value too many is skipped.
DistinctStartSkips(f, ordered, last) == Len(reader.listed) + 1

\* Where the next page starts: by index for Options, by the text of the last
\* value for every other type.
DistinctStart(f, ordered, last) ==
    IF f.type \in {"select", "multiSelect"} THEN Len(reader.listed)
    ELSE LET Behind(n) == \A i \in 1 .. n : TextKey(ordered[i].atoms) =< TextKey(last.atoms)
         IN CHOOSE n \in 0 .. Len(ordered) : Behind(n) /\ (n < Len(ordered) => ~Behind(n + 1))

\* An error of the database: a cast, or a list expected where there is none.
PageFails(f) ==
    \E r \in Active :
       LET q == records[r].query
       IN IF reader.kind = "query"
          THEN CastFails(f.type, q) /\ (reader.filter.op = "is" \/ compileFilterSQL(f.type, reader.filter, q))
          ELSE f.type = "multiSelect" /\ (~IsEmpty(f.type, q)) /\ q.json # "list"

\* What a cursor remembers of the Fields of its query: their revisions.
querySchemaHash(f) == f.revision

normalizeSort == {"first", "last"}  \* the null bucket; the direction mirrors the order

Plan(kind, nulls, filter) ==
    /\ reader.at = "idle"
    /\ ~field.deleted
    /\ reader' = [at |-> "planned", kind |-> kind, nulls |-> nulls, filter |-> filter,
                  field |-> field, listed |-> <<>>, total |-> 0, calm |-> TRUE]
    /\ UNCHANGED <<field, records, minted, clients, writes>>

ResolveQuery ==
    \E nulls \in normalizeSort, filter \in validateFilterRule(field) :
       /\ filter.op # "all" => nulls = "last" \* bound: one of the two at a time
       /\ Plan("query", nulls, filter)

\* Rules on the Field itself are taken out of the Filter.
ResolveDistinct == Plan("distinct", "last", [op |-> "all"])

\* The rows of the page and those behind it.
Remaining ==
    LET f == reader.field
        first == reader.listed = <<>>
    IN IF reader.kind = "query"
       THEN QueryRecords(f)
       ELSE LET ordered == orderDistinctValues(f)
                start == IF first THEN 0 ELSE DistinctStart(f, ordered, Last(reader.listed))
            IN IF start >= Len(ordered) THEN <<>> ELSE SubSeq(ordered, start + 1, Len(ordered))

ReadPage ==
    /\ reader.at = "planned"
    /\ reader' = IF PageFails(reader.field) THEN Idle
                 ELSE [reader EXCEPT !.at = IF Len(Remaining) > 1 THEN "paging" ELSE "done",
                                     !.total = IF reader.listed = <<>> THEN Len(Remaining) ELSE @,
                                     !.listed = @ \o IF Remaining = <<>> THEN <<>> ELSE <<Head(Remaining)>>]
    /\ UNCHANGED <<field, records, minted, clients, writes>>

\* The cursor carries the revisions of the Fields of the query, and expires.
NextPage ==
    /\ reader.at = "paging"
    /\ \/ /\ ~field.deleted /\ querySchemaHash(field) = querySchemaHash(reader.field)
          /\ reader' = [reader EXCEPT !.at = "planned"]
       \/ reader' = Idle
    /\ UNCHANGED <<field, records, minted, clients, writes>>

Close ==
    /\ reader.at = "done"
    /\ reader' = Idle
    /\ UNCHANGED <<field, records, minted, clients, writes>>

Next ==
    \/ \E r \in Records : CreateRecord(r) \/ UpdateRecord(r) \/ applyRecordLifecycle(r)
    \/ FieldLifecycle
    \/ \E c \in Clients : PreviewRead(c) \/ PreviewScan(c) \/ ConvertRead(c) \/ ConvertRefused(c) \/ ConvertField(c)
    \/ ResolveQuery \/ ResolveDistinct \/ ReadPage \/ NextPage \/ Close

Spec == Init /\ [][Next]_vars

-----------------------------------------------------------------------------
(* Properties. *)

\* Types of the variables.
TypeOK ==
    /\ field.type \in Types /\ field.revision \in 1 .. MaxRevision /\ field.deleted \in BOOLEAN
    /\ DOMAIN field.options \subseteq minted /\ minted \subseteq OptionIDs
    /\ \A r \in Records : records[r].used \in BOOLEAN /\ records[r].deleted \in BOOLEAN
    /\ writes \in 0 .. MaxWrites
    /\ \A c \in Clients : clients[c].at \in {"idle", "scanning", "previewed", "converting"}
    /\ reader.at \in {"idle", "planned", "paging", "done"}

\* Whatever writers and conversions race, and whether or not a Record or the
\* Field is deleted meanwhile, a stored value is one that the type and the
\* Options of the Field admit (normalizeFieldValue, ConvertField).
ValuesConform == TypeOK /\ \A r \in Records : Conforms(field, records[r].value)

\* The projection never holds anything but the value of its Record: a Filter
\* may miss a value whose Field was deleted when its Record was written, but
\* it matches none that the Record does not have (buildQueryProjection).
ProjectionNeverWrong ==
    \A r \in Records : records[r].query # NoValue =>
        records[r].query = buildQueryProjection([field EXCEPT !.deleted = FALSE], records[r].value).query

\* A conversion that succeeds loses and keeps as many values as the preview
\* showed, and makes as many Options, although the values were scanned and the
\* Field was read in transactions before it (ConvertField, Verify).
ConvertedAsShown ==
    [][\A c \in Clients :
          clients[c].at = "converting" /\ clients'[c].at = "idle" /\ field'.type # field.type =>
             LET shown == clients[c].shown
             IN /\ Cardinality({r \in Records : records'[r].value # NoValue}) = shown.ok + shown.lossy
                /\ Cardinality(Used) = shown.ok + shown.lossy + shown.lost + shown.empty
                /\ Cardinality(DOMAIN field'.options \ DOMAIN field.options) = Cardinality(shown.distincts)]_vars

\* What a Filter says of a value, folded as the API folds texts.
Means(filter, v) ==
    LET text == IF field.type = "text" THEN FoldText(v.atoms) ELSE v.atoms
    IN CASE filter.op = "all" -> TRUE
         [] filter.op = "isEmpty" -> IsEmpty(field.type, v)
         [] filter.op = "is" -> v # NoValue /\ text = filter.value.atoms
         [] filter.op = "includes" -> filter.value.atoms[1] \in ToSet(v.atoms)

ReadingComplete ==
    reader.at = "done" /\ reader.kind = "query" /\ reader.calm =>
        /\ Len(reader.listed) = reader.total
        /\ \A r \in Active : (records[r].query = NoValue) = (records[r].value = NoValue) =>
            Cardinality({i \in DOMAIN reader.listed : reader.listed[i].id = r}) =
                IF Means(reader.filter, records[r].value) THEN 1 ELSE 0

\* The pages of the distinct values of the Field hold each value once: not so when
\* they are numbers, for the cursor compares them as strings.
EveryValueListed ==
    reader.at = "done" /\ reader.kind = "distinct" /\ reader.calm =>
        /\ ToSet(reader.listed) = StoredDistinct(field)
        /\ IsInjective(reader.listed)

DistinctComplete == field.type # "number" => EveryValueListed

\* When nothing was written from the first transaction of a reading to its last page,
\* the pages of a query hold every active Record whose value the Filter means once,
\* and no other, as many as the first page counted, null values and values that tie
\* included, unless the projection has lost the value (QueryRecords,
\* buildKeysetCondition); and the pages of the distinct values of a Field that does
\* not hold numbers hold each value once (DistinctValues).
ReadingsComplete == ReadingComplete /\ DistinctComplete

\* The search text of a Record is that of its value if the Field is a text, and empty
\* otherwise: not so for a Record that was not rewritten by a conversion, or written
\* since the Field was restored.
SearchIsOfText ==
    ~field.deleted => \A r \in Used :
        records[r].search = IF field.type = "text" THEN FoldText(records[r].value.atoms) ELSE <<>>
=============================================================================

--------------------------- MODULE FieldValuesProofs ---------------------------
(***************************************************************************)
(* Theorems about FieldValues, for every value of its constants: any       *)
(* number of Records, clients, Options and words, any limits, any folding  *)
(* that leaves dates alone and any collation that tells texts apart.       *)
(***************************************************************************)
EXTENDS FieldValues, FiniteSetTheorems, SequenceTheorems, WellFoundedInduction, TLAPS

(***************************************************************************)
(* Numbers and sequences.  The induction is about sets of numbers.         *)
(***************************************************************************)

LessThan == {pair \in Nat \X Nat : pair[1] < pair[2]}

\* The order of the numbers is well-founded.
LEMMA LessThanWellFounded == IsWellFoundedOn(LessThan, Nat)
  BY NatLessThanWellFounded DEF OpToRel, LessThan

\* A set of numbers that is not empty has a least one.
LEMMA LeastNumber ==
  ASSUME NEW S \in SUBSET Nat, S # {}
  PROVE  \E x \in S : \A y \in S : x <= y
<1>1. PICK x \in S : \A y \in S : ~ (<<y, x>> \in LessThan)
  BY WFMin, LessThanWellFounded
<1>2. ASSUME NEW y \in S PROVE x <= y
  <2>1. <<y, x>> \in Nat \X Nat /\ <<y, x>>[1] = y /\ <<y, x>>[2] = x
    OBVIOUS
  <2>. QED
    BY <1>1, <2>1 DEF LessThan
<1>. QED
  BY <1>2

\* Induction over the numbers.
LEMMA AllNumbers ==
  ASSUME NEW S \in SUBSET Nat, 0 \in S, \A n \in S : n + 1 \in S
  PROVE  S = Nat
<1>1. SUFFICES ASSUME Nat \ S # {} PROVE FALSE
  OBVIOUS
<1>2. PICK x \in Nat \ S : \A y \in Nat \ S : x <= y
  BY <1>1, LeastNumber
<1>. QED
  BY <1>2

\* The first i sequences one behind the other: what FlattenSeq computes with.
Joins(F, seqs) == F = [i \in 1 .. Len(seqs) |-> IF i = 1 THEN seqs[i] ELSE F[i - 1] \o seqs[i]]

\* That function exists: it is extended by one sequence after the other.
LEMMA JoinExists ==
  ASSUME NEW S, NEW n \in Nat, NEW seqs \in [1 .. n -> Seq(S)]
  PROVE  \E F : Joins(F, seqs)
<1> DEFINE Good(F, m) == \A i \in 1 .. m : F[i] = IF i = 1 THEN seqs[i] ELSE F[i - 1] \o seqs[i]
           Has(m) == \E F \in [1 .. m -> Seq(S)] : Good(F, m)
           Reached == {m \in Nat : m <= n => Has(m)}
<1>1. 0 \in Reached
  <2>1. PICK F : F = [i \in 1 .. 0 |-> seqs[i]]
    OBVIOUS
  <2>2. F \in [1 .. 0 -> Seq(S)] /\ Good(F, 0)
    BY <2>1
  <2>. QED
    BY <2>2
<1>2. ASSUME NEW m \in Reached PROVE m + 1 \in Reached
  <2>. SUFFICES ASSUME m + 1 <= n PROVE Has(m + 1)
    <3>. HIDE DEF Has
    <3>. QED
      OBVIOUS
  <2>0. m \in Nat /\ m <= n /\ Has(m)
    <3>. HIDE DEF Has
    <3>. QED
      OBVIOUS
  <2>1. PICK F \in [1 .. m -> Seq(S)] : Good(F, m)
    BY <2>0
  <2>2. seqs[m + 1] \in Seq(S)
    OBVIOUS
  <2>3. PICK last : last = IF m + 1 = 1 THEN seqs[m + 1] ELSE F[m] \o seqs[m + 1]
    OBVIOUS
  <2>4. last \in Seq(S)
    <3>1. CASE m = 0
      BY <2>2, <2>3, <3>1
    <3>2. CASE m # 0
      <4>1. m \in 1 .. m /\ m + 1 # 1 /\ (m + 1) - 1 = m
        BY <2>0, <3>2
      <4>2. F[m] \in Seq(S) /\ last = F[m] \o seqs[m + 1]
        BY <2>3, <4>1
      <4>. QED
        BY <2>2, <4>2
    <3>. QED
      BY <3>1, <3>2
  <2>5. PICK G : G = [i \in 1 .. m + 1 |-> IF i = m + 1 THEN last ELSE F[i]]
    OBVIOUS
  <2>6. G \in [1 .. m + 1 -> Seq(S)]
    BY <2>4, <2>5
  <2>7. ASSUME NEW i \in 1 .. m + 1
        PROVE  G[i] = IF i = 1 THEN seqs[i] ELSE G[i - 1] \o seqs[i]
    <3>1. CASE i = m + 1
      <4>1. CASE m = 0
        BY <2>3, <2>5, <3>1, <4>1
      <4>2. CASE m # 0
        <5>1. G[i - 1] = F[m] /\ G[i] = last
          BY <2>5, <3>1, <4>2
        <5>. QED
          BY <2>3, <3>1, <4>2, <5>1
      <4>. QED
        BY <4>1, <4>2
    <3>2. CASE i # m + 1
      <4>1. i \in 1 .. m /\ G[i] = F[i] /\ (i # 1 => G[i - 1] = F[i - 1])
        BY <2>5, <3>2
      <4>. QED
        BY <2>1, <4>1
    <3>. QED
      BY <3>1, <3>2
  <2>. QED
    BY <2>6, <2>7
<1>3. n \in Reached
  <2>. HIDE DEF Reached
  <2>1. Reached \in SUBSET Nat
    BY DEF Reached
  <2>. QED
    BY <1>1, <1>2, <2>1, AllNumbers
<1>4. PICK F \in [1 .. n -> Seq(S)] : Good(F, n)
  BY <1>3
<1>5. Len(seqs) = n
  OBVIOUS
<1>6. F = [i \in 1 .. n |-> IF i = 1 THEN seqs[i] ELSE F[i - 1] \o seqs[i]]
  BY <1>4
<1>. QED
  BY <1>5, <1>6 DEF Joins

\* One sequence behind the other is a sequence of the same members.
LEMMA FlattenMembers ==
  ASSUME NEW S, NEW n \in Nat \ {0}, NEW seqs \in [1 .. n -> Seq(S)]
  PROVE  FlattenSeq(seqs) \in Seq(S) /\ (n = 1 => FlattenSeq(seqs) = seqs[1])
<1>1. Len(seqs) = n
  OBVIOUS
<1>2. PICK F : F = CHOOSE f : f = [i \in 1 .. Len(seqs) |-> IF i = 1 THEN seqs[i] ELSE f[i - 1] \o seqs[i]]
  OBVIOUS
<1>3. FlattenSeq(seqs) = F[n]
  BY <1>1, <1>2 DEF FlattenSeq
<1>4. F = [i \in 1 .. n |-> IF i = 1 THEN seqs[i] ELSE F[i - 1] \o seqs[i]]
  <2>1. PICK G : G = [i \in 1 .. Len(seqs) |-> IF i = 1 THEN seqs[i] ELSE G[i - 1] \o seqs[i]]
    BY JoinExists DEF Joins
  <2>. QED
    BY <1>1, <1>2, <2>1
<1> DEFINE Sound == {m \in Nat : m + 1 <= n => F[m + 1] \in Seq(S)}
<1>5. 0 \in Sound
  BY <1>4
<1>6. ASSUME NEW m \in Sound PROVE m + 1 \in Sound
  <2>. SUFFICES ASSUME m + 2 <= n PROVE F[m + 2] \in Seq(S)
    OBVIOUS
  <2>1. F[m + 1] \in Seq(S) /\ seqs[m + 2] \in Seq(S)
    OBVIOUS
  <2>2. m + 2 \in 1 .. n /\ m + 2 # 1 /\ (m + 2) - 1 = m + 1
    OBVIOUS
  <2>3. F[m + 2] = F[m + 1] \o seqs[m + 2]
    BY <1>4, <2>2
  <2>. QED
    BY <2>1, <2>3
<1>7. n - 1 \in Sound
  <2>. HIDE DEF Sound
  <2>1. Sound \in SUBSET Nat
    BY DEF Sound
  <2>2. Sound = Nat
    BY <1>5, <1>6, <2>1, AllNumbers
  <2>. QED
    BY <2>2
<1>8. F[n] \in Seq(S)
  BY <1>7
<1>9. n = 1 => F[n] = seqs[1]
  BY <1>4
<1>. QED
  BY <1>3, <1>8, <1>9

(***************************************************************************)
(* Values and what a type admits.                                          *)
(***************************************************************************)

Atom == Words \cup OptionIDs
Value == [json : {"null", "string", "number", "list"}, atoms : Seq(Atom)]
WordTexts == {t \in Seq(Words) : Len(t) <= TextLimit}
Lists(ids) == {q \in BoundedSeq(ids, ListLimit) : IsInjective(q)}
FieldTypes == {"text", "number", "date", "select", "multiSelect"}
Field == [type : FieldTypes, revision : Nat, deleted : BOOLEAN,
          options : UNION {[ids -> WordTexts] : ids \in SUBSET OptionIDs}]

\* The values of a type, written out.
ValueOf(f, v) ==
  \/ f.type = "text" /\ \E t \in WordTexts : v = Text(t)
  \/ f.type = "number" /\ \E w \in Numerals : v = Number(w)
  \/ f.type = "date" /\ \E d \in Dates : v = Text(<<d>>)
  \/ f.type = "select" /\ \E o \in DOMAIN f.options : v = Text(<<o>>)
  \/ f.type = "multiSelect" /\ \E ids \in Lists(DOMAIN f.options) : v = List(ids)

LEMMA OptionsAre ==
  ASSUME NEW f \in Field
  PROVE  DOMAIN f.options \subseteq OptionIDs /\ f.options \in [DOMAIN f.options -> WordTexts]
<1>1. PICK ids \in SUBSET OptionIDs : f.options \in [ids -> WordTexts]
  BY DEF Field
<1>. QED
  BY <1>1

\* Sequences of at most ListLimit members.
LEMMA ListsAre ==
  ASSUME NEW S
  PROVE  /\ \A q \in Lists(S) : q \in Seq(S) /\ IsInjective(q)
         /\ \A o \in S : <<o>> \in Lists(S)
<1>1. 1 \in 0 .. ListLimit
  BY FieldValuesAssumption
<1>2. ASSUME NEW q \in Lists(S) PROVE q \in Seq(S) /\ IsInjective(q)
  <2>1. PICK m \in 0 .. ListLimit : q \in [1 .. m -> S]
    BY DEF Lists, BoundedSeq, SeqOf
  <2>2. m \in Nat
    BY FieldValuesAssumption
  <2>. QED
    BY <2>1, <2>2 DEF Lists
<1>3. ASSUME NEW o \in S PROVE <<o>> \in Lists(S)
  <2>1. <<o>> \in [1 .. 1 -> S]
    OBVIOUS
  <2>2. <<o>> \in BoundedSeq(S, ListLimit)
    BY <1>1, <2>1 DEF BoundedSeq, SeqOf
  <2>3. IsInjective(<<o>>)
    BY DEF IsInjective
  <2>. QED
    BY <2>2, <2>3 DEF Lists
<1>. QED
  BY <1>2, <1>3

\* A word by itself is a text.
LEMMA OneWord ==
  ASSUME NEW w \in Words
  PROVE  <<w>> \in WordTexts /\ <<w>> # <<>>
BY FieldValuesAssumption DEF WordTexts

LEMMA NoWords == <<>> \in WordTexts
BY FieldValuesAssumption DEF WordTexts

LEMMA ValuesAreValues ==
  ASSUME NEW f \in Field, NEW v, ValueOf(f, v)
  PROVE  v \in Value /\ v # NoValue
<1>1. CASE \E t \in WordTexts : v = Text(t)
  BY <1>1 DEF Text, Value, NoValue, WordTexts, Atom
<1>2. CASE \E w \in Numerals : v = Number(w)
  BY <1>2, FieldValuesAssumption DEF Number, Value, NoValue, Atom
<1>3. CASE \E d \in Dates : v = Text(<<d>>)
  BY <1>3, FieldValuesAssumption DEF Text, Value, NoValue, Atom
<1>4. CASE \E o \in DOMAIN f.options : v = Text(<<o>>)
  <2>1. PICK o \in OptionIDs : v = Text(<<o>>)
    BY <1>4, OptionsAre
  <2>. QED
    BY <2>1 DEF Text, Value, NoValue, Atom
<1>5. CASE \E ids \in Lists(DOMAIN f.options) : v = List(ids)
  <2>1. PICK ids \in Seq(DOMAIN f.options) : v = List(ids)
    BY <1>5, ListsAre
  <2>2. ids \in Seq(Atom)
    BY OptionsAre DEF Atom
  <2>. QED
    BY <2>1, <2>2 DEF List, Value, NoValue
<1>. QED
  BY <1>1, <1>2, <1>3, <1>4, <1>5 DEF ValueOf

\* What a client may write is a value of the type.
LEMMA WrittenIsValue ==
  ASSUME NEW f \in Field, NEW v \in normalizeFieldValue(f)
  PROVE  ValueOf(f, v)
<1>1. f.type \in FieldTypes
  BY DEF Field
<1>2. CASE f.type = "text"
  <2>1. v = Text(<<>>) \/ \E w \in Words : v = Text(<<w>>)
    BY <1>2 DEF normalizeFieldValue
  <2>. QED
    BY <1>2, <2>1, OneWord, NoWords DEF ValueOf
<1>3. CASE f.type # "text"
  BY <1>1, <1>3 DEF normalizeFieldValue, ValueOf, FieldTypes, Lists
<1>. QED
  BY <1>2, <1>3

\* Conforms says what ValueOf says.
LEMMA ConformsIs ==
  ASSUME NEW f \in Field, NEW v \in Value
  PROVE  Conforms(f, v) <=> v = NoValue \/ ValueOf(f, v)
<1>1. f.type \in FieldTypes
  BY DEF Field
<1>2. CASE f.type = "text"
  <2>1. Conforms(f, v) <=> v = NoValue \/ (v.json = "string" /\ v.atoms \in WordTexts)
    BY <1>2 DEF Conforms, WordTexts
  <2>2. ASSUME v.json = "string" PROVE v = Text(v.atoms)
    BY <2>2 DEF Value, Text
  <2>3. ASSUME NEW t \in WordTexts, v = Text(t) PROVE v.json = "string" /\ v.atoms = t
    BY <2>3 DEF Text
  <2>4. ValueOf(f, v) <=> \E t \in WordTexts : v = Text(t)
    BY <1>2 DEF ValueOf
  <2>. QED
    BY <2>1, <2>2, <2>3, <2>4
<1>3. CASE f.type # "text"
  <2>1. Conforms(f, v) <=> v = NoValue \/ v \in normalizeFieldValue(f)
    BY <1>3 DEF Conforms
  <2>2. v \in normalizeFieldValue(f) <=> ValueOf(f, v)
    BY <1>1, <1>3 DEF normalizeFieldValue, ValueOf, FieldTypes, Lists
  <2>. QED
    BY <2>1, <2>2
<1>. QED
  BY <1>2, <1>3

(***************************************************************************)
(* What a conversion makes of a value.                                     *)
(***************************************************************************)

\* The table of the conversions, written out.
LEMMA ModesAre ==
  /\ Types = FieldTypes
  /\ Targets("text") = {"number", "date", "select", "multiSelect"}
  /\ Targets("number") = {"text", "select", "multiSelect"}
  /\ Targets("date") = {"text", "select", "multiSelect"}
  /\ Targets("select") = {"text", "multiSelect"}
  /\ Targets("multiSelect") = {"text", "select"}
BY DEF Types, Targets, conversionModes, FieldTypes

LEMMA OptionTargets ==
  ASSUME NEW from \in FieldTypes, NEW to \in Targets(from)
  PROVE  /\ to \in FieldTypes /\ to # from
         /\ OptionTarget(from, to) <=> from \in {"text", "number", "date"} /\ to \in {"select", "multiSelect"}
BY ModesAre DEF OptionTarget, conversionModes, FieldTypes

LEMMA Modes ==
  ASSUME NEW from \in FieldTypes, NEW to \in Targets(from), NEW mode, mode = conversionModes[from][to]
  PROVE  /\ OptionTarget(from, to) => mode = "distinctOptions"
         /\ from = "text" /\ ~OptionTarget(from, to) => mode = "parse"
         /\ from \in {"number", "date"} /\ ~OptionTarget(from, to) => mode = "format"
         /\ from = "select" /\ to = "text" => mode = "optionName"
         /\ from = "select" /\ to = "multiSelect" => mode = "singleElement"
         /\ from = "multiSelect" /\ to = "text" => mode = "joinNames"
         /\ from = "multiSelect" /\ to = "select" => mode = "firstOption"
BY ModesAre DEF OptionTarget, conversionModes, FieldTypes

\* What convert does in a mode.
LEMMA ConvertModes ==
  ASSUME NEW f, NEW to, NEW v, v # NoValue, NEW mode, mode = conversionModes[f.type][to]
  PROVE  /\ mode = "parse" /\ v.json = "string" => convert(f, to, v) = parseText(to, v.atoms)
         /\ mode = "format" /\ v.json \in {"string", "number"} => convert(f, to, v) = OK(Text(v.atoms))
         /\ mode = "distinctOptions" /\ v.json \in {"string", "number"} => convert(f, to, v) = distinctOption(v.atoms)
         /\ mode = "optionName" /\ v.json = "string" => convert(f, to, v) = optionName(f, v.atoms)
         /\ mode = "joinNames" /\ v.json = "list" =>
               convert(f, to, v) = IF v.atoms = <<>> THEN Empty ELSE joinNames(f, v.atoms)
         /\ mode = "singleElement" /\ v.json = "string" => convert(f, to, v) = OK(List(v.atoms))
         /\ mode = "firstOption" /\ v.json = "list" => convert(f, to, v) = firstOption(v.atoms)
<1>1. PICK m : m = conversionModes[f.type][to]
  OBVIOUS
<1>. QED
  BY <1>1 DEF convert, Expects, scalarString

\* The parts of a value.
LEMMA TextParts == ASSUME NEW t PROVE Text(t).json = "string" /\ Text(t).atoms = t /\ Text(t) # NoValue
BY DEF Text, NoValue

LEMMA NumberParts ==
  ASSUME NEW w PROVE Number(w).json = "number" /\ Number(w).atoms = <<w>> /\ Number(w) # NoValue
BY DEF Number, NoValue

LEMMA ListParts == ASSUME NEW t PROVE List(t).json = "list" /\ List(t).atoms = t /\ List(t) # NoValue
BY DEF List, NoValue

\* An outcome has the value that it names.
IsOutcome(out) ==
  /\ out.outcome \in {"ok", "lossy", "lost", "empty"}
  /\ out.value = NoValue <=> out.outcome \in {"lost", "empty"}

LEMMA OutcomeParts ==
  ASSUME NEW v
  PROVE  /\ OK(v).value = v /\ Lossy(v).value = v /\ Lost.value = NoValue /\ Empty.value = NoValue
         /\ IsOutcome(Lost) /\ IsOutcome(Empty)
         /\ v # NoValue => IsOutcome(OK(v)) /\ IsOutcome(Lossy(v))
BY DEF OK, Lossy, Lost, Empty, IsOutcome

\* What a text is parsed to is a number or a date.
LEMMA Parsed ==
  ASSUME NEW to \in {"number", "date"}, NEW t \in WordTexts, NEW out, out = parseText(to, t)
  PROVE  /\ IsOutcome(out)
         /\ \/ out.value = NoValue
            \/ to = "number" /\ \E w \in Numerals : out.value = Number(w)
            \/ to = "date" /\ \E d \in Dates : t = <<d>> /\ out.value = Text(t)
<1>1. CASE t = <<>>
  BY <1>1, OutcomeParts DEF parseText
<1>2. CASE t # <<>> /\ to = "number" /\ Len(t) = 1 /\ t[1] \in Numerals
  <2>1. out = OK(Number(t[1]))
    BY <1>2 DEF parseText
  <2>. QED
    BY <1>2, <2>1, OutcomeParts, NumberParts
<1>3. CASE t # <<>> /\ to = "date" /\ Len(t) = 1 /\ t[1] \in Dates
  <2>1. out = OK(Text(t))
    BY <1>3 DEF parseText
  <2>2. t = <<t[1]>>
    BY <1>3 DEF WordTexts
  <2>. QED
    BY <1>3, <2>1, <2>2, OutcomeParts, TextParts
<1>4. CASE /\ t # <<>>
           /\ ~(to = "number" /\ Len(t) = 1 /\ t[1] \in Numerals)
           /\ ~(to = "date" /\ Len(t) = 1 /\ t[1] \in Dates)
  <2>1. out = Lost
    BY <1>4 DEF parseText
  <2>. QED
    BY <2>1, OutcomeParts
<1>. QED
  BY <1>1, <1>2, <1>3, <1>4

LEMMA Distinct ==
  ASSUME NEW t \in WordTexts, NEW out, out = distinctOption(t)
  PROVE  IsOutcome(out) /\ (out.value = NoValue \/ out.value = Text(t))
<1>1. out \in {Empty, Lost, OK(Text(t))}
  BY DEF distinctOption
<1>. QED
  BY <1>1, OutcomeParts, TextParts

\* Names of Options, one behind the other, are a text.
LEMMA Joined ==
  ASSUME NEW f \in Field, NEW ids \in Seq(DOMAIN f.options), ids # <<>>, NEW out, out = joinNames(f, ids)
  PROVE  IsOutcome(out) /\ (out.value = NoValue \/ \E t \in WordTexts : out.value = Text(t))
<1>1. PICK n \in Nat \ {0} : n = Len(ids) /\ ids \in [1 .. n -> DOMAIN f.options]
  BY DEF Seq
<1>2. PICK names : names = [i \in DOMAIN ids |-> f.options[ids[i]]]
  OBVIOUS
<1>3. names \in [1 .. n -> Seq(Words)]
  <2>1. \A i \in 1 .. n : f.options[ids[i]] \in Seq(Words)
    BY <1>1, OptionsAre DEF WordTexts
  <2>. QED
    BY <1>1, <1>2, <2>1
<1>4. PICK joined : joined = FlattenSeq(names)
  OBVIOUS
<1>5. joined \in Seq(Words)
  BY <1>3, <1>4, FlattenMembers
<1>6. out = Lost \/ (Len(joined) <= TextLimit /\ out = OK(Text(joined)))
  <2>1. \A i \in DOMAIN ids : ids[i] \in DOMAIN f.options
    BY <1>1
  <2>2. out = IF Len(joined) > TextLimit THEN Lost ELSE OK(Text(joined))
    BY <1>2, <1>4, <2>1 DEF joinNames
  <2>3. Len(joined) \in Nat /\ TextLimit \in Nat
    BY <1>5, FieldValuesAssumption
  <2>. QED
    BY <2>2, <2>3
<1>7. CASE out = Lost
  BY <1>7, OutcomeParts
<1>8. CASE Len(joined) <= TextLimit /\ out = OK(Text(joined))
  <2>1. joined \in WordTexts
    BY <1>5, <1>8 DEF WordTexts
  <2>. QED
    BY <1>8, <2>1, OutcomeParts, TextParts
<1>. QED
  BY <1>6, <1>7, <1>8

\* What a conversion may make of a value that is not null.
Made(f, to, w) ==
  \/ w = NoValue
  \/ OptionTarget(f.type, to) /\ \E t \in WordTexts : w = Text(t)
  \/ ~OptionTarget(f.type, to) /\ \A g \in Field : g.type = to /\ g.options = f.options => ValueOf(g, w)

LEMMA MadeNull == ASSUME NEW f, NEW to PROVE Made(f, to, NoValue)
BY DEF Made

LEMMA MadeOption ==
  ASSUME NEW f, NEW to, OptionTarget(f.type, to), NEW t \in WordTexts PROVE Made(f, to, Text(t))
BY DEF Made

LEMMA MadeText ==
  ASSUME NEW f, NEW to, ~OptionTarget(f.type, to), to = "text", NEW t \in WordTexts PROVE Made(f, to, Text(t))
BY DEF Made, ValueOf

LEMMA MadeNumber ==
  ASSUME NEW f, NEW to, ~OptionTarget(f.type, to), to = "number", NEW w \in Numerals PROVE Made(f, to, Number(w))
BY DEF Made, ValueOf

LEMMA MadeDate ==
  ASSUME NEW f, NEW to, ~OptionTarget(f.type, to), to = "date", NEW d \in Dates PROVE Made(f, to, Text(<<d>>))
BY DEF Made, ValueOf

LEMMA MadeSelect ==
  ASSUME NEW f, NEW to, ~OptionTarget(f.type, to), to = "select", NEW o \in DOMAIN f.options
  PROVE  Made(f, to, Text(<<o>>))
BY DEF Made, ValueOf

LEMMA MadeMultiSelect ==
  ASSUME NEW f, NEW to, ~OptionTarget(f.type, to), to = "multiSelect", NEW ids \in Lists(DOMAIN f.options)
  PROVE  Made(f, to, List(ids))
BY DEF Made, ValueOf

LEMMA ConvertText ==
  ASSUME NEW f \in Field, f.type = "text", NEW to \in Targets("text"), NEW t \in WordTexts,
         NEW out, out = convert(f, to, Text(t))
  PROVE  IsOutcome(out) /\ Made(f, to, out.value)
<1>1. CASE to \in {"number", "date"}
  <2>1. out = parseText(to, t)
    BY <1>1, TextParts, OptionTargets, Modes, ConvertModes DEF FieldTypes
  <2>2. ~OptionTarget(f.type, to)
    BY <1>1, OptionTargets DEF FieldTypes
  <2>3. IsOutcome(out)
    BY <1>1, <2>1, Parsed
  <2>4. \/ out.value = NoValue
        \/ to = "number" /\ \E w \in Numerals : out.value = Number(w)
        \/ to = "date" /\ \E d \in Dates : t = <<d>> /\ out.value = Text(t)
    BY <1>1, <2>1, Parsed
  <2>. QED
    BY <2>2, <2>3, <2>4, MadeNull, MadeNumber, MadeDate
<1>2. CASE to \in {"select", "multiSelect"}
  <2>1. out = distinctOption(t)
    BY <1>2, TextParts, OptionTargets, Modes, ConvertModes DEF FieldTypes
  <2>2. OptionTarget(f.type, to)
    BY <1>2, OptionTargets DEF FieldTypes
  <2>. QED
    BY <2>1, <2>2, Distinct, MadeNull, MadeOption
<1>. QED
  BY <1>1, <1>2, ModesAre

LEMMA ConvertNumber ==
  ASSUME NEW f \in Field, f.type = "number", NEW to \in Targets("number"), NEW w \in Numerals,
         NEW out, out = convert(f, to, Number(w))
  PROVE  IsOutcome(out) /\ Made(f, to, out.value)
<1>1. <<w>> \in WordTexts
  BY OneWord, FieldValuesAssumption
<1>2. CASE to = "text"
  <2>1. out = OK(Text(<<w>>))
    BY <1>2, NumberParts, OptionTargets, Modes, ConvertModes DEF FieldTypes
  <2>2. ~OptionTarget(f.type, to)
    BY <1>2, OptionTargets DEF FieldTypes
  <2>. QED
    BY <1>1, <1>2, <2>1, <2>2, OutcomeParts, TextParts, MadeText
<1>3. CASE to \in {"select", "multiSelect"}
  <2>1. out = distinctOption(<<w>>)
    BY <1>3, NumberParts, OptionTargets, Modes, ConvertModes DEF FieldTypes
  <2>2. OptionTarget(f.type, to)
    BY <1>3, OptionTargets DEF FieldTypes
  <2>. QED
    BY <1>1, <2>1, <2>2, Distinct, MadeNull, MadeOption
<1>. QED
  BY <1>2, <1>3, ModesAre

LEMMA ConvertDate ==
  ASSUME NEW f \in Field, f.type = "date", NEW to \in Targets("date"), NEW d \in Dates,
         NEW out, out = convert(f, to, Text(<<d>>))
  PROVE  IsOutcome(out) /\ Made(f, to, out.value)
<1>1. <<d>> \in WordTexts
  BY OneWord, FieldValuesAssumption
<1>2. CASE to = "text"
  <2>1. out = OK(Text(<<d>>))
    BY <1>2, TextParts, OptionTargets, Modes, ConvertModes DEF FieldTypes
  <2>2. ~OptionTarget(f.type, to)
    BY <1>2, OptionTargets DEF FieldTypes
  <2>. QED
    BY <1>1, <1>2, <2>1, <2>2, OutcomeParts, TextParts, MadeText
<1>3. CASE to \in {"select", "multiSelect"}
  <2>1. out = distinctOption(<<d>>)
    BY <1>3, TextParts, OptionTargets, Modes, ConvertModes DEF FieldTypes
  <2>2. OptionTarget(f.type, to)
    BY <1>3, OptionTargets DEF FieldTypes
  <2>. QED
    BY <1>1, <2>1, <2>2, Distinct, MadeNull, MadeOption
<1>. QED
  BY <1>2, <1>3, ModesAre

LEMMA ConvertSelect ==
  ASSUME NEW f \in Field, f.type = "select", NEW to \in Targets("select"), NEW o \in DOMAIN f.options,
         NEW out, out = convert(f, to, Text(<<o>>))
  PROVE  IsOutcome(out) /\ Made(f, to, out.value)
<1>1. ~OptionTarget(f.type, to)
  BY OptionTargets DEF FieldTypes
<1>2. CASE to = "text"
  <2>1. out = optionName(f, <<o>>)
    BY <1>2, TextParts, OptionTargets, Modes, ConvertModes DEF FieldTypes
  <2>2. PICK t \in WordTexts : t = f.options[o]
    BY OptionsAre
  <2>3. out = OK(Text(t))
    BY <2>1, <2>2 DEF optionName
  <2>. QED
    BY <1>1, <1>2, <2>3, OutcomeParts, TextParts, MadeText
<1>3. CASE to = "multiSelect"
  <2>1. out = OK(List(<<o>>))
    BY <1>3, TextParts, OptionTargets, Modes, ConvertModes DEF FieldTypes
  <2>2. <<o>> \in Lists(DOMAIN f.options)
    BY ListsAre
  <2>. QED
    BY <1>1, <1>3, <2>1, <2>2, OutcomeParts, ListParts, MadeMultiSelect
<1>. QED
  BY <1>2, <1>3, ModesAre

LEMMA ConvertMultiSelect ==
  ASSUME NEW f \in Field, f.type = "multiSelect", NEW to \in Targets("multiSelect"),
         NEW ids \in Lists(DOMAIN f.options), NEW out, out = convert(f, to, List(ids))
  PROVE  IsOutcome(out) /\ Made(f, to, out.value)
<1>1. ~OptionTarget(f.type, to)
  BY OptionTargets DEF FieldTypes
<1>2. ids \in Seq(DOMAIN f.options)
  BY ListsAre
<1>3. CASE to = "text"
  <2>1. out = IF ids = <<>> THEN Empty ELSE joinNames(f, ids)
    BY <1>3, ListParts, OptionTargets, Modes, ConvertModes DEF FieldTypes
  <2>2. CASE ids = <<>>
    BY <2>1, <2>2, OutcomeParts, MadeNull
  <2>3. CASE ids # <<>>
    <3>1. IsOutcome(out) /\ (out.value = NoValue \/ \E t \in WordTexts : out.value = Text(t))
      BY <1>2, <2>1, <2>3, Joined
    <3>. QED
      BY <1>1, <1>3, <3>1, MadeNull, MadeText
  <2>. QED
    BY <2>2, <2>3
<1>4. CASE to = "select"
  <2>1. out = firstOption(ids)
    BY <1>4, ListParts, OptionTargets, Modes, ConvertModes DEF FieldTypes
  <2>2. CASE ids = <<>>
    BY <2>1, <2>2, OutcomeParts, MadeNull DEF firstOption
  <2>3. CASE ids # <<>>
    <3>1. ids[1] \in DOMAIN f.options /\ Len(ids) \in Nat \ {0}
      BY <1>2, <2>3
    <3>2. Len(ids) = 1 => ids = <<ids[1]>>
      BY <1>2
    <3>3. out \in {OK(Text(<<ids[1]>>)), Lossy(Text(<<ids[1]>>))}
      BY <2>1, <2>3, <3>2 DEF firstOption
    <3>. QED
      BY <1>1, <1>4, <3>1, <3>3, OutcomeParts, TextParts, MadeSelect
  <2>. QED
    BY <2>2, <2>3
<1>. QED
  BY <1>3, <1>4, ModesAre

\* The outcome of a value that the Field admits.
LEMMA Converts ==
  ASSUME NEW f \in Field, NEW to \in Targets(f.type), NEW v \in Value, Conforms(f, v),
         NEW out, out = convert(f, to, v)
  PROVE  IsOutcome(out) /\ Made(f, to, out.value) /\ (v = NoValue => out.value = NoValue)
<1>1. CASE v = NoValue
  <2>1. convert(f, to, NoValue) = Empty
    BY DEF convert
  <2>2. out = Empty
    BY <1>1, <2>1
  <2>. QED
    BY <2>2, OutcomeParts, MadeNull
<1>2. CASE v # NoValue
  <2>1. ValueOf(f, v)
    BY <1>2, ConformsIs
  <2>. QED
    BY <1>2, <2>1, ConvertText, ConvertNumber, ConvertDate, ConvertSelect, ConvertMultiSelect DEF ValueOf
<1>. QED
  BY <1>1, <1>2

(***************************************************************************)
(* The projection of a value.                                              *)
(***************************************************************************)

\* The query value of a value while the Field is not deleted.
Projected(f, v) == buildQueryProjection([f EXCEPT !.deleted = FALSE], v).query

LEMMA ProjectedIs ==
  ASSUME NEW f \in Field, NEW v
  PROVE  Projected(f, v) = IF v = NoValue THEN NoValue
                           ELSE IF f.type = "text" THEN Text(FoldText(v.atoms)) ELSE v
<1>1. PICK g : g = [f EXCEPT !.deleted = FALSE]
  OBVIOUS
<1>2. g.deleted = FALSE /\ g.type = f.type
  BY <1>1 DEF Field
<1>. QED
  BY <1>1, <1>2 DEF Projected, buildQueryProjection

LEMMA Folds ==
  /\ \A t \in Seq(Atom) : FoldText(t) \in Seq(Atom)
  /\ \A t \in WordTexts : FoldText(t) \in WordTexts
  /\ \A d \in Dates : FoldText(<<d>>) = <<d>>
<1>1. \A w \in Words : FoldWord[w] \in Words
  BY FieldValuesAssumption
<1>2. ASSUME NEW S, \A a \in S : (IF a \in Words THEN FoldWord[a] ELSE a) \in S, NEW t \in Seq(S)
      PROVE  FoldText(t) \in Seq(S) /\ Len(FoldText(t)) = Len(t)
  <2>1. PICK n \in Nat : n = Len(t) /\ t \in [1 .. n -> S]
    BY DEF Seq
  <2>2. DOMAIN t = 1 .. n
    BY <2>1
  <2>3. FoldText(t) \in [1 .. n -> S]
    BY <1>2, <2>1, <2>2 DEF FoldText
  <2>. QED
    BY <2>1, <2>3
<1>3. ASSUME NEW t \in Seq(Atom) PROVE FoldText(t) \in Seq(Atom)
  <2>1. \A a \in Atom : (IF a \in Words THEN FoldWord[a] ELSE a) \in Atom
    BY <1>1 DEF Atom
  <2>. QED
    BY <1>2, <2>1
<1>4. ASSUME NEW t \in WordTexts PROVE FoldText(t) \in WordTexts
  <2>1. \A a \in Words : (IF a \in Words THEN FoldWord[a] ELSE a) \in Words
    BY <1>1
  <2>2. t \in Seq(Words) /\ Len(t) <= TextLimit
    BY DEF WordTexts
  <2>3. FoldText(t) \in Seq(Words) /\ Len(FoldText(t)) = Len(t)
    BY <1>2, <2>1, <2>2
  <2>. QED
    BY <2>2, <2>3 DEF WordTexts
<1>5. ASSUME NEW d \in Dates PROVE FoldText(<<d>>) = <<d>>
  <2>1. d \in Words /\ FoldWord[d] = d
    BY FieldValuesAssumption
  <2>2. FoldText(<<d>>) = [i \in 1 .. 1 |-> d]
    BY <2>1 DEF FoldText
  <2>. QED
    BY <2>2
<1>. QED
  BY <1>3, <1>4, <1>5

\* A Field type that is not text stores a value and projects it as it is; a
\* value of two types has one projection.
LEMMA SameProjection ==
  ASSUME NEW f \in Field, NEW g \in Field, f.type # g.type, NEW v, ValueOf(f, v), ValueOf(g, v)
  PROVE  Projected(f, v) = Projected(g, v)
<1>1. ASSUME NEW h \in Field, h.type = "number", ValueOf(h, v) PROVE v.json = "number"
  BY <1>1, NumberParts DEF ValueOf
<1>2. ASSUME NEW h \in Field, h.type = "multiSelect", ValueOf(h, v) PROVE v.json = "list"
  BY <1>2, ListParts DEF ValueOf
<1>3. ASSUME NEW h \in Field, h.type = "text", ValueOf(h, v) PROVE v.json = "string" /\ v.atoms \in WordTexts
  BY <1>3, TextParts DEF ValueOf
<1>4. ASSUME NEW h \in Field, h.type = "date", ValueOf(h, v)
      PROVE  v.json = "string" /\ \E d \in Dates : v = Text(<<d>>) /\ v.atoms = <<d>>
  BY <1>4, TextParts DEF ValueOf
<1>5. ASSUME NEW h \in Field, h.type = "select", ValueOf(h, v)
      PROVE  v.json = "string" /\ \E o \in OptionIDs : v.atoms = <<o>>
  <2>1. PICK o \in DOMAIN h.options : v = Text(<<o>>)
    BY <1>5 DEF ValueOf
  <2>. QED
    BY <2>1, TextParts, OptionsAre
<1>6. ASSUME NEW o \in OptionIDs PROVE <<o>> \notin WordTexts
  <2>1. SUFFICES ASSUME <<o>> \in Seq(Words) PROVE FALSE
    BY DEF WordTexts
  <2>2. o \in Words
    BY <2>1
  <2>. QED
    BY <2>2, FieldValuesAssumption
<1>7. \A d \in Dates : <<d>> \in WordTexts
  BY OneWord, FieldValuesAssumption
<1>8. ASSUME NEW h \in Field, h.type # "text", ValueOf(h, v) PROVE Projected(h, v) = v
  BY <1>8, ProjectedIs, ValuesAreValues
<1>9. ASSUME NEW h \in Field, NEW d \in Dates, ValueOf(h, v), v = Text(<<d>>) PROVE Projected(h, v) = v
  <2>1. v # NoValue /\ Text(FoldText(v.atoms)) = v
    BY <1>9, TextParts, Folds
  <2>. QED
    BY <2>1, ProjectedIs
<1>10. f.type \in FieldTypes /\ g.type \in FieldTypes
  BY DEF Field
<1>11. CASE f.type # "text" /\ g.type # "text"
  BY <1>8, <1>11
<1>12. CASE f.type = "text"
  <2>1. g.type = "date"
    BY <1>1, <1>2, <1>3, <1>5, <1>6, <1>10, <1>12 DEF FieldTypes
  <2>. QED
    BY <1>4, <1>9, <2>1
<1>13. CASE g.type = "text"
  <2>1. f.type = "date"
    BY <1>1, <1>2, <1>3, <1>5, <1>6, <1>10, <1>13 DEF FieldTypes
  <2>. QED
    BY <1>4, <1>9, <2>1
<1>. QED
  BY <1>11, <1>12, <1>13

(***************************************************************************)
(* A Record that a write has left.                                         *)
(***************************************************************************)

Record == [used : BOOLEAN, deleted : BOOLEAN, value : Value, query : Value, search : Seq(Atom)]

\* The value conforms, and the query value is that of the value or none.
InKeeping(f, rec) ==
  /\ Conforms(f, rec.value)
  /\ rec.query = NoValue \/ rec.query = Projected(f, rec.value)
  /\ ~rec.used => rec.value = NoValue /\ rec.query = NoValue

LEMMA NullIsValue == NoValue \in Value /\ \A f : Conforms(f, NoValue)
BY DEF NoValue, Value, Conforms

LEMMA UnusedInKeeping ==
  ASSUME NEW f PROVE Unused \in Record /\ InKeeping(f, Unused) /\ ~Unused.used
BY NullIsValue DEF Unused, Record, InKeeping

\* A write of a value that the Field admits keeps the Record so.
LEMMA RewrittenInKeeping ==
  ASSUME NEW f \in Field, NEW rec \in Record, rec.used, NEW v \in Value, Conforms(f, v),
         NEW new, new = Rewritten(f, rec, v)
  PROVE  new \in Record /\ InKeeping(f, new) /\ new.value = v /\ new.used /\ new.deleted = rec.deleted
<1>1. PICK p : p = buildQueryProjection(f, v)
  OBVIOUS
<1>2. v # NoValue => v.atoms \in Seq(Atom) /\ (f.type = "text" => Text(FoldText(v.atoms)) \in Value)
  <2>1. v.atoms \in Seq(Atom) /\ FoldText(v.atoms) \in Seq(Atom)
    BY Folds DEF Value
  <2>. QED
    BY <2>1 DEF Value, Text
<1>3. p.query \in Value /\ p.search \in Seq(Atom) /\ (p.query = NoValue \/ p.query = Projected(f, v))
  <2>1. CASE f.deleted \/ v = NoValue
    <3>1. p.query = NoValue /\ p.search = <<>>
      BY <1>1, <2>1 DEF buildQueryProjection
    <3>. QED
      BY <3>1, NullIsValue
  <2>2. CASE ~f.deleted /\ v # NoValue /\ f.type = "text"
    <3>1. p.query = Text(FoldText(v.atoms)) /\ p.search = FoldText(v.atoms)
      BY <1>1, <2>2 DEF buildQueryProjection
    <3>. QED
      BY <1>2, <2>2, <3>1, Folds, ProjectedIs
  <2>3. CASE ~f.deleted /\ v # NoValue /\ f.type # "text"
    <3>1. p.query = v /\ p.search = <<>>
      BY <1>1, <2>3 DEF buildQueryProjection
    <3>. QED
      BY <2>3, <3>1, ProjectedIs
  <2>. QED
    BY <2>1, <2>2, <2>3
<1>4. new = [rec EXCEPT !.value = v, !.query = p.query, !.search = p.search]
  BY <1>1 DEF Rewritten
<1>5. new \in Record /\ new.value = v /\ new.query = p.query /\ new.used /\ new.deleted = rec.deleted
  BY <1>3, <1>4 DEF Record
<1>. QED
  BY <1>3, <1>5 DEF InKeeping

(***************************************************************************)
(* Finite sets.                                                            *)
(***************************************************************************)

\* The image of a finite set is finite.
LEMMA ImageFinite ==
  ASSUME NEW S, IsFiniteSet(S), NEW g, DOMAIN g = S, NEW T, T = {g[x] : x \in S}
  PROVE  IsFiniteSet(T)
<1>1. PICK h : h = [x \in S |-> g[x]]
  OBVIOUS
<1>2. h \in [S -> T]
  BY <1>1
<1>3. h \in Surjection(S, T)
  BY <1>1, <1>2 DEF Surjection
<1>. QED
  BY <1>3, FS_Surjection

\* A finite set has a subset of every size up to its own.
LEMMA SubsetOfSize ==
  ASSUME NEW S, IsFiniteSet(S), NEW n \in Nat, n <= Cardinality(S)
  PROVE  \E T \in SUBSET S : Cardinality(T) = n
<1>1. PICK m \in Nat : m = Cardinality(S) /\ ExistsBijection(1 .. m, S)
  BY FS_CardinalityType
<1>2. PICK f \in Bijection(1 .. m, S) : TRUE
  BY <1>1 DEF ExistsBijection
<1>3. f \in [1 .. m -> S] /\ \A i, j \in 1 .. m : f[i] = f[j] => i = j
  BY <1>2 DEF Bijection, Injection, IsInjective
<1>4. PICK T : T = {f[i] : i \in 1 .. n}
  OBVIOUS
<1>5. PICK g : g = [i \in 1 .. n |-> f[i]]
  OBVIOUS
<1>6. 1 .. n \subseteq 1 .. m
  BY <1>1
<1>7. g \in [1 .. n -> T] /\ \A i, j \in 1 .. n : g[i] = g[j] => i = j
  BY <1>3, <1>4, <1>5, <1>6
<1>8. \A t \in T : \E i \in 1 .. n : g[i] = t
  BY <1>4, <1>5
<1>9. g \in Bijection(1 .. n, T)
  BY <1>7, <1>8 DEF Bijection, Injection, Surjection, IsInjective
<1>10. Cardinality(T) = n
  BY <1>9, FS_CountingElements DEF ExistsBijection
<1>11. T \subseteq S
  BY <1>3, <1>4, <1>6
<1>. QED
  BY <1>10, <1>11

(***************************************************************************)
(* What is stored.                                                         *)
(***************************************************************************)

StoredOK ==
  /\ field \in Field /\ field.revision \in 1 .. MaxRevision
  /\ minted \subseteq OptionIDs /\ DOMAIN field.options \subseteq minted
  /\ records \in [Records -> Record]
  /\ \A r \in Records : InKeeping(field, records[r])

Out(to, r) == convert(field, to, records[r].value)

LEMMA OutcomesAre ==
  ASSUME StoredOK, NEW to \in Targets(field.type), NEW r \in Records
  PROVE  /\ IsOutcome(Out(to, r)) /\ Made(field, to, Out(to, r).value)
         /\ records[r].value = NoValue => Out(to, r).value = NoValue
<1>1. field \in Field /\ records[r].value \in Value /\ Conforms(field, records[r].value)
  BY DEF StoredOK, Record, InKeeping
<1>. QED
  BY <1>1, Converts DEF Out

\* The Records that keep a value, and the distinct names that a scan finds.
Keeping(to) == {r \in Used : Out(to, r).value # NoValue}
Names(to) == {FoldText(Out(to, r).value.atoms) : r \in Keeping(to)}

LEMMA ScanDistincts ==
  ASSUME NEW to, OptionTarget(field.type, to)
  PROVE  Scan(field, to).distincts = Names(to)
<1>1. PICK out : out = [r \in Used |-> convert(field, to, records[r].value)]
  OBVIOUS
<1>2. Scan(field, to).distincts = {FoldText(out[r].value.atoms) : r \in {q \in Used : out[q].value # NoValue}}
  BY <1>1 DEF Scan
<1>3. \A r \in Used : out[r] = Out(to, r)
  BY <1>1 DEF Out
<1>4. {q \in Used : out[q].value # NoValue} = Keeping(to)
  BY <1>3 DEF Keeping
<1>5. \A r \in Keeping(to) : out[r] = Out(to, r)
  BY <1>3 DEF Keeping
<1>. QED
  BY <1>2, <1>4, <1>5 DEF Names

\* The Options of a conversion: those made from the distinct names, the old
\* ones, or none.
OptionsFrom(to, distincts, new) ==
  /\ OptionTarget(field.type, to) =>
       /\ new \in [DOMAIN new -> WordTexts] /\ DOMAIN new \subseteq OptionIDs \ minted
       /\ Cardinality(DOMAIN new) = Cardinality(distincts)
       /\ {FoldText(new[o]) : o \in DOMAIN new} = distincts
  /\ ~OptionTarget(field.type, to) /\ to \in {"select", "multiSelect"} => new = field.options
  /\ to \notin {"select", "multiSelect"} => new = NoOptions

LEMMA OptionsMade ==
  ASSUME StoredOK, NEW to \in Targets(field.type), NEW distincts, distincts = Scan(field, to).distincts,
         Cardinality(distincts) <= Cardinality(OptionIDs \ minted),
         NEW new \in buildConvertedConfig(to, distincts)
  PROVE  OptionsFrom(to, distincts, new)
<1>1. field.type \in FieldTypes /\ to \in FieldTypes
  BY OptionTargets DEF StoredOK, Field
<1>2. CASE to \notin {"select", "multiSelect"}
  <2>1. ~OptionTarget(field.type, to)
    BY <1>1, <1>2, OptionTargets
  <2>2. new = NoOptions
    BY <1>2, <2>1 DEF buildConvertedConfig
  <2>. QED
    BY <1>2, <2>1, <2>2 DEF OptionsFrom
<1>3. CASE to \in {"select", "multiSelect"} /\ ~OptionTarget(field.type, to)
  <2>1. new = field.options
    BY <1>3 DEF buildConvertedConfig
  <2>. QED
    BY <1>3, <2>1 DEF OptionsFrom
<1>4. CASE to \in {"select", "multiSelect"} /\ OptionTarget(field.type, to)
  <2>1. PICK names : names = {Out(to, r).value.atoms : r \in Used}
    OBVIOUS
  <2>2. PICK ids : ids = CHOOSE s \in SUBSET (OptionIDs \ minted) : Cardinality(s) = Cardinality(distincts)
    OBVIOUS
  <2>3. new \in [ids -> names] /\ {FoldText(new[o]) : o \in ids} = distincts
    BY <1>4, <2>1, <2>2 DEF buildConvertedConfig, Out
  <2>5. IsFiniteSet(distincts)
    <3>1. IsFiniteSet(Keeping(to))
      BY FS_Subset, FieldValuesAssumption DEF Used, Keeping
    <3>2. PICK g : g = [r \in Keeping(to) |-> FoldText(Out(to, r).value.atoms)]
      OBVIOUS
    <3>3. distincts = Names(to)
      BY <1>4, ScanDistincts
    <3>4. distincts = {g[r] : r \in Keeping(to)} /\ DOMAIN g = Keeping(to)
      BY <3>2, <3>3 DEF Names
    <3>. QED
      BY <3>1, <3>4, ImageFinite
  <2>6. IsFiniteSet(OptionIDs \ minted)
    BY FS_Difference, FieldValuesAssumption
  <2>7. PICK n \in Nat : n = Cardinality(distincts)
    BY <2>5, FS_CardinalityType
  <2>8. \E s \in SUBSET (OptionIDs \ minted) : Cardinality(s) = n
    BY <2>6, <2>7, SubsetOfSize
  <2>9. ids \in SUBSET (OptionIDs \ minted) /\ Cardinality(ids) = Cardinality(distincts)
    BY <2>2, <2>7, <2>8
  <2>10. names \subseteq WordTexts
    <3>1. ASSUME NEW r \in Used PROVE Out(to, r).value.atoms \in WordTexts
      <4>1. Made(field, to, Out(to, r).value)
        BY OutcomesAre DEF Used
      <4>2. CASE Out(to, r).value = NoValue
        BY <4>2, NoWords DEF NoValue
      <4>3. CASE \E t \in WordTexts : Out(to, r).value = Text(t)
        BY <4>3, TextParts
      <4>. QED
        BY <1>4, <4>1, <4>2, <4>3 DEF Made
    <3>. QED
      BY <2>1, <3>1
  <2>11. DOMAIN new = ids /\ new \in [DOMAIN new -> WordTexts]
    BY <2>3, <2>10
  <2>. QED
    BY <1>4, <2>3, <2>9, <2>11 DEF OptionsFrom
<1>. QED
  BY <1>2, <1>3, <1>4

(***************************************************************************)
(* The conversion of a Record.                                             *)
(***************************************************************************)

\* What is kept does not depend on the Revision or the deletion of the Field.
LEMMA SameKeeping ==
  ASSUME NEW f \in Field, NEW g \in Field, f.type = g.type, f.options = g.options,
         NEW rec \in Record, InKeeping(f, rec)
  PROVE  InKeeping(g, rec)
<1>1. rec.value \in Value
  BY DEF Record
<1>2. ValueOf(f, rec.value) => ValueOf(g, rec.value)
  BY DEF ValueOf
<1>3. Conforms(g, rec.value)
  BY <1>1, <1>2, ConformsIs DEF InKeeping
<1>4. Projected(f, rec.value) = Projected(g, rec.value)
  BY ProjectedIs
<1>. QED
  BY <1>3, <1>4 DEF InKeeping

\* The value of a Record after a conversion.
After(to, new, r) ==
  IF Out(to, r).value # NoValue /\ OptionTarget(field.type, to)
  THEN ResolveValue(to, new, Out(to, r).value) ELSE Out(to, r).value

LEMMA Resolved ==
  ASSUME StoredOK, NEW to \in {"select", "multiSelect"}, NEW distincts, NEW new,
         new \in [DOMAIN new -> WordTexts], {FoldText(new[o]) : o \in DOMAIN new} = distincts,
         NEW g \in Field, g.type = to, g.options = new,
         NEW t \in WordTexts, FoldText(t) \in distincts, NEW w, w = ResolveValue(to, new, Text(t))
  PROVE  ValueOf(g, w)
<1>0. PICK v : v = Text(t)
  OBVIOUS
<1>1. PICK o : o = CHOOSE x \in DOMAIN new : FoldText(new[x]) = FoldText(v.atoms)
  OBVIOUS
<1>2. \E x \in DOMAIN new : FoldText(new[x]) = FoldText(v.atoms)
  BY <1>0, TextParts
<1>3. o \in DOMAIN new
  BY <1>1, <1>2
<1>4. w = IF to = "multiSelect" THEN List(<<o>>) ELSE Text(<<o>>)
  BY <1>0, <1>1 DEF ResolveValue
<1>5. <<o>> \in Lists(DOMAIN g.options)
  BY <1>3, ListsAre
<1>. QED
  BY <1>3, <1>4, <1>5 DEF ValueOf

LEMMA AfterIsValue ==
  ASSUME StoredOK, NEW to \in Targets(field.type), NEW distincts, distincts = Scan(field, to).distincts,
         NEW new, OptionsFrom(to, distincts, new),
         NEW g \in Field, g.type = to, g.options = new,
         NEW r \in Used, NEW w, w = After(to, new, r)
  PROVE  /\ w = NoValue \/ ValueOf(g, w)
         /\ w = NoValue <=> Out(to, r).value = NoValue
<1>1. Made(field, to, Out(to, r).value)
  BY OutcomesAre DEF Used
<1>2. field \in Field /\ field.type \in FieldTypes
  BY DEF StoredOK, Field
<1>3. CASE Out(to, r).value = NoValue
  BY <1>3 DEF After
<1>4. CASE Out(to, r).value # NoValue /\ OptionTarget(field.type, to)
  <2>1. PICK t \in WordTexts : Out(to, r).value = Text(t)
    BY <1>1, <1>4 DEF Made
  <2>3. distincts = Names(to)
    BY <1>4, ScanDistincts
  <2>4. r \in Keeping(to) /\ Out(to, r).value.atoms = t
    BY <1>4, <2>1, TextParts DEF Keeping
  <2>5. FoldText(t) \in distincts
    BY <2>3, <2>4 DEF Names
  <2>6. to \in {"select", "multiSelect"}
    BY <1>2, <1>4, OptionTargets
  <2>7. /\ new \in [DOMAIN new -> WordTexts]
        /\ {FoldText(new[o]) : o \in DOMAIN new} = distincts
    BY <1>4 DEF OptionsFrom
  <2>8. w = ResolveValue(to, new, Text(t))
    BY <1>4, <2>1 DEF After
  <2>9. ValueOf(g, w)
    BY <2>5, <2>6, <2>7, <2>8, Resolved
  <2>. QED
    BY <1>4, <2>9, ValuesAreValues
<1>5. CASE Out(to, r).value # NoValue /\ ~OptionTarget(field.type, to)
  <2>1. w = Out(to, r).value
    BY <1>5 DEF After
  <2>2. \A h \in Field : h.type = to /\ h.options = field.options => ValueOf(h, w)
    BY <1>1, <1>5, <2>1 DEF Made
  <2>3. PICK h : h = [g EXCEPT !.options = field.options]
    OBVIOUS
  <2>4. h \in Field /\ h.type = to /\ h.options = field.options
    BY <1>2, <2>3 DEF Field
  <2>5. ValueOf(h, w)
    BY <2>2, <2>4
  <2>6. CASE to \in {"select", "multiSelect"}
    BY <1>5, <2>1, <2>2, <2>6 DEF OptionsFrom
  <2>7. CASE to \notin {"select", "multiSelect"}
    BY <1>5, <2>1, <2>4, <2>5, <2>7 DEF ValueOf
  <2>. QED
    BY <2>6, <2>7
<1>. QED
  BY <1>3, <1>4, <1>5

LEMMA ConvertedInKeeping ==
  ASSUME StoredOK, NEW to \in Targets(field.type), NEW distincts, distincts = Scan(field, to).distincts,
         NEW new, OptionsFrom(to, distincts, new),
         NEW g \in Field, g.type = to, g.options = new,
         NEW r \in Records, NEW rec, rec = ConvertRecord(g, to, new, records[r])
  PROVE  /\ rec \in Record /\ InKeeping(g, rec)
         /\ rec.used = records[r].used /\ rec.deleted = records[r].deleted
         /\ rec.value = IF records[r].used THEN After(to, new, r) ELSE NoValue
<1>1. records[r] \in Record /\ InKeeping(field, records[r]) /\ field \in Field /\ field.type # to
  <2>1. field \in Field /\ field.type \in FieldTypes
    BY DEF StoredOK, Field
  <2>. QED
    BY <2>1, OptionTargets DEF StoredOK
<1>2. PICK w : w = After(to, new, r)
  OBVIOUS
<1>3. rec = IF ~records[r].used \/ w = records[r].value THEN records[r] ELSE Rewritten(g, records[r], w)
  BY <1>2 DEF ConvertRecord, After, Out
<1>4. CASE ~records[r].used
  <2>1. rec = records[r] /\ rec.value = NoValue /\ rec.query = NoValue
    BY <1>1, <1>3, <1>4 DEF InKeeping
  <2>. QED
    BY <1>1, <1>4, <2>1, NullIsValue DEF InKeeping
<1>5. CASE records[r].used
  <2>1. w = NoValue \/ ValueOf(g, w)
    BY <1>2, <1>5, AfterIsValue DEF Used
  <2>2. w \in Value /\ Conforms(g, w)
    BY <2>1, ValuesAreValues, ConformsIs, NullIsValue
  <2>3. CASE w = records[r].value
    <3>1. rec = records[r] /\ records[r].value \in Value
      BY <1>1, <1>3, <1>5, <2>3 DEF Record
    <3>2. rec.query = NoValue \/ rec.query = Projected(g, rec.value)
      <4>1. CASE w = NoValue
        BY <1>1, <2>3, <3>1, <4>1, ProjectedIs DEF InKeeping
      <4>2. CASE w # NoValue
        <5>1. ValueOf(field, w) /\ ValueOf(g, w)
          BY <1>1, <2>1, <2>3, <3>1, <4>2, ConformsIs DEF InKeeping
        <5>2. Projected(field, w) = Projected(g, w)
          BY <1>1, <5>1, SameProjection
        <5>. QED
          BY <1>1, <2>3, <3>1, <5>2 DEF InKeeping
      <4>. QED
        BY <4>1, <4>2
    <3>. QED
      BY <1>1, <1>2, <1>5, <2>2, <2>3, <3>1, <3>2 DEF InKeeping
  <2>4. CASE w # records[r].value
    <3>1. rec = Rewritten(g, records[r], w)
      BY <1>3, <1>5, <2>4
    <3>2. /\ rec \in Record /\ InKeeping(g, rec) /\ rec.value = w /\ rec.used
          /\ rec.deleted = records[r].deleted
      BY <1>1, <1>5, <2>2, <3>1, RewrittenInKeeping
    <3>. QED
      BY <1>2, <1>5, <3>2
  <2>. QED
    BY <2>3, <2>4
<1>. QED
  BY <1>4, <1>5

(***************************************************************************)
(* The invariant.                                                          *)
(***************************************************************************)

\* A Field as a client has read it: an earlier one, unless its Revision says
\* that it is that of now.
Since(f) ==
  /\ f \in Field /\ f.revision <= field.revision
  /\ f.revision = field.revision => f = field

ClientOK(c) ==
  \/ clients[c] = Idle
  \/ /\ Since(clients[c].field) /\ clients[c].to \in Targets(clients[c].field.type)
     /\ \/ clients[c] = [at |-> "scanning", field |-> clients[c].field, to |-> clients[c].to]
        \/ clients[c] = [at |-> "previewed", field |-> clients[c].field, to |-> clients[c].to,
                         shown |-> clients[c].shown]
        \/ /\ clients[c] = [at |-> "converting", field |-> clients[c].field, to |-> clients[c].to,
                            shown |-> clients[c].shown, expected |-> clients[c].expected]
           /\ clients[c].expected \in Nat /\ clients[c].expected <= clients[c].field.revision

ClientsOK == clients = [c \in Clients |-> clients[c]] /\ \A c \in Clients : ClientOK(c)

ReaderForm ==
  \/ reader = Idle
  \/ /\ reader.at \in {"planned", "paging", "done"}
     /\ reader = [at |-> reader.at, kind |-> reader.kind, nulls |-> reader.nulls, filter |-> reader.filter,
                  field |-> reader.field, listed |-> reader.listed, total |-> reader.total,
                  calm |-> reader.calm]

Invariant == StoredOK /\ ClientsOK /\ ReaderForm /\ writes \in 0 .. MaxWrites

\* What the writes of Records leave of the invariant.
LEMMA FieldKept ==
  ASSUME Invariant, field' = field, minted' = minted
  PROVE  /\ field' \in Field /\ field'.revision \in 1 .. MaxRevision
         /\ minted' \subseteq OptionIDs /\ DOMAIN field'.options \subseteq minted'
BY DEF Invariant, StoredOK

LEMMA ClientsKept ==
  ASSUME Invariant, field' = field, clients' = clients
  PROVE  ClientsOK'
BY DEF Invariant, ClientsOK, ClientOK, Since

LEMMA RecordsKept ==
  ASSUME Invariant, field' = field, minted' = minted, records' = records
  PROVE  StoredOK'
BY DEF Invariant, StoredOK

\* A reading that a write disturbs is otherwise as it was.
LEMMA Disturbed ==
  ASSUME ReaderForm, Disturb
  PROVE  /\ ReaderForm' /\ reader'.at = reader.at
         /\ reader.at # "idle" => reader'.calm = FALSE
<1>1. CASE reader = Idle
  BY <1>1 DEF Disturb, ReaderForm, Idle
<1>2. CASE reader # Idle
  BY <1>2 DEF Disturb, ReaderForm
<1>. QED
  BY <1>1, <1>2

\* A Record is written as the Field admits it.
LEMMA WriteKeeps ==
  ASSUME Invariant, NEW r \in Records, NEW rec \in Record, InKeeping(field, rec), WriteRecord(r, rec)
  PROVE  Invariant'
<1>1. /\ field' = field /\ minted' = minted /\ clients' = clients /\ Disturb
      /\ writes < MaxWrites /\ writes' = writes + 1 /\ records' = [records EXCEPT ![r] = rec]
  BY DEF WriteRecord
<1>2. records \in [Records -> Record] /\ \A q \in Records : InKeeping(field, records[q])
  BY DEF Invariant, StoredOK
<1>3. records' \in [Records -> Record]
  BY <1>1, <1>2
<1>4. ASSUME NEW q \in Records PROVE InKeeping(field, records'[q])
  <2>1. records'[q] = IF q = r THEN rec ELSE records[q]
    BY <1>1, <1>2
  <2>. QED
    BY <1>2, <2>1
<1>5. \A q \in Records : InKeeping(field', records'[q])
  BY <1>1, <1>4
<1>7. StoredOK'
  BY <1>1, <1>3, <1>5, FieldKept DEF StoredOK
<1>8. ClientsOK'
  BY <1>1, ClientsKept
<1>9. ReaderForm'
  BY <1>1, Disturbed DEF Invariant
<1>10. writes' \in 0 .. MaxWrites
  BY <1>1, FieldValuesAssumption DEF Invariant
<1>. QED
  BY <1>7, <1>8, <1>9, <1>10 DEF Invariant

\* What a client may write, null included, conforms.
LEMMA WrittenConforms ==
  ASSUME NEW f \in Field, NEW v, v = NoValue \/ v \in normalizeFieldValue(f)
  PROVE  v \in Value /\ Conforms(f, v)
<1>1. CASE v = NoValue
  BY <1>1, NullIsValue
<1>2. CASE v \in normalizeFieldValue(f)
  <2>1. ValueOf(f, v)
    BY <1>2, WrittenIsValue
  <2>. QED
    BY <2>1, ValuesAreValues, ConformsIs
<1>. QED
  BY <1>1, <1>2

LEMMA NewRecord ==
  ASSUME NEW rec, rec = [Unused EXCEPT !.used = TRUE]
  PROVE  rec \in Record /\ rec.used
BY UnusedInKeeping DEF Unused, Record

LEMMA CreateKeeps ==
  ASSUME Invariant, NEW r \in Records, CreateRecord(r)
  PROVE  Invariant'
<1>1. PICK rec0 : rec0 = [Unused EXCEPT !.used = TRUE]
  OBVIOUS
<1>2. PICK v : /\ v = NoValue \/ v \in normalizeFieldValue(field)
               /\ WriteRecord(r, Rewritten(field, rec0, v))
  BY <1>1 DEF CreateRecord
<1>3. PICK f : f = field
  OBVIOUS
<1>4. PICK rec : rec = Rewritten(f, rec0, v)
  OBVIOUS
<1>5. f \in Field
  BY <1>3 DEF Invariant, StoredOK
<1>6. v \in Value /\ Conforms(f, v)
  BY <1>2, <1>3, <1>5, WrittenConforms
<1>7. rec \in Record /\ InKeeping(f, rec)
  BY <1>1, <1>4, <1>5, <1>6, NewRecord, RewrittenInKeeping
<1>8. WriteRecord(r, rec)
  BY <1>2, <1>3, <1>4
<1>. QED
  BY <1>3, <1>7, <1>8, WriteKeeps

LEMMA UpdateKeeps ==
  ASSUME Invariant, NEW r \in Records, UpdateRecord(r)
  PROVE  Invariant'
<1>1. PICK rec0 : rec0 = records[r]
  OBVIOUS
<1>2. PICK v : /\ v = rec0.value \/ v = NoValue \/ v \in normalizeFieldValue(field)
               /\ WriteRecord(r, Rewritten(field, rec0, v))
  BY <1>1 DEF UpdateRecord
<1>3. PICK f : f = field
  OBVIOUS
<1>4. PICK rec : rec = Rewritten(f, rec0, v)
  OBVIOUS
<1>5. f \in Field /\ rec0 \in Record /\ InKeeping(f, rec0) /\ rec0.used
  BY <1>1, <1>3 DEF Invariant, StoredOK, UpdateRecord
<1>6. v \in Value /\ Conforms(f, v)
  <2>1. CASE v = rec0.value
    BY <1>5, <2>1 DEF Record, InKeeping
  <2>2. CASE v # rec0.value
    BY <1>2, <1>3, <1>5, <2>2, WrittenConforms
  <2>. QED
    BY <2>1, <2>2
<1>7. rec \in Record /\ InKeeping(f, rec)
  BY <1>4, <1>5, <1>6, RewrittenInKeeping
<1>8. WriteRecord(r, rec)
  BY <1>2, <1>3, <1>4
<1>. QED
  BY <1>3, <1>7, <1>8, WriteKeeps

LEMMA RecordLifecycleKeeps ==
  ASSUME Invariant, NEW r \in Records, applyRecordLifecycle(r)
  PROVE  Invariant'
<1>1. PICK rec : rec = [records[r] EXCEPT !.deleted = ~@]
  OBVIOUS
<1>2. records[r] \in Record /\ InKeeping(field, records[r]) /\ WriteRecord(r, rec)
  BY <1>1 DEF Invariant, StoredOK, applyRecordLifecycle
<1>3. /\ rec \in Record /\ rec.value = records[r].value /\ rec.query = records[r].query
      /\ rec.used = records[r].used
  BY <1>1, <1>2 DEF Record
<1>4. InKeeping(field, rec)
  BY <1>2, <1>3 DEF InKeeping
<1>. QED
  BY <1>2, <1>3, <1>4, WriteKeeps

\* A write of the Field leaves what the clients have read behind.
LEMMA OlderClients ==
  ASSUME Invariant, NEW c \in Clients, clients'[c] = clients[c], field'.revision = field.revision + 1
  PROVE  ClientOK(c)'
<1>1. ClientOK(c) /\ field.revision \in Nat
  BY DEF Invariant, StoredOK, ClientsOK, Field
<1>2. PICK cl : cl = clients[c]
  OBVIOUS
<1>3. cl # Idle => cl.field.revision \in Nat
  BY <1>1, <1>2 DEF ClientOK, Since, Field
<1>. QED
  BY <1>1, <1>2, <1>3 DEF ClientOK, Since

LEMMA FieldWritten ==
  ASSUME Invariant, NEW f \in Field, f.revision = field.revision, field.revision < MaxRevision, SetField(f)
  PROVE  /\ field' \in Field /\ field'.revision \in 1 .. MaxRevision /\ field'.revision = field.revision + 1
         /\ field'.type = f.type /\ field'.options = f.options /\ field'.deleted = f.deleted
         /\ ReaderForm' /\ writes' \in 0 .. MaxWrites
<1>1. field' = [f EXCEPT !.revision = @ + 1] /\ Disturb /\ writes' = writes
  BY DEF SetField
<1>2. field.revision \in 1 .. MaxRevision /\ MaxRevision \in Nat
  BY FieldValuesAssumption DEF Invariant, StoredOK
<1>3. /\ field' \in Field /\ field'.revision \in 1 .. MaxRevision /\ field'.revision = field.revision + 1
      /\ field'.type = f.type /\ field'.options = f.options /\ field'.deleted = f.deleted
  BY <1>1, <1>2 DEF Field
<1>. QED
  BY <1>1, <1>3, Disturbed DEF Invariant

LEMMA FieldLifecycleKeeps ==
  ASSUME Invariant, FieldLifecycle
  PROVE  Invariant'
<1>1. PICK f : f = [field EXCEPT !.deleted = ~@]
  OBVIOUS
<1>2. PICK old : old = field
  OBVIOUS
<1>3. f \in Field /\ f.revision = old.revision /\ f.type = old.type /\ f.options = old.options /\ old \in Field
  BY <1>1, <1>2 DEF Invariant, StoredOK, Field
<1>4. SetField(f) /\ field.revision < MaxRevision /\ records' = records /\ minted' = minted /\ clients' = clients
  BY <1>1 DEF FieldLifecycle
<1>5. PICK new : new = field'
  OBVIOUS
<1>6. /\ new \in Field /\ new.revision \in 1 .. MaxRevision /\ new.revision = field.revision + 1
      /\ new.type = old.type /\ new.options = old.options /\ ReaderForm' /\ writes' \in 0 .. MaxWrites
  BY <1>2, <1>3, <1>4, <1>5, FieldWritten
<1>7. ASSUME NEW r \in Records PROVE InKeeping(new, records[r])
  <2>1. PICK rec : rec = records[r]
    OBVIOUS
  <2>2. rec \in Record /\ InKeeping(old, rec)
    BY <1>2, <2>1 DEF Invariant, StoredOK
  <2>3. InKeeping(new, rec)
    BY <1>3, <1>6, <2>2, SameKeeping
  <2>. QED
    BY <2>1, <2>3
<1>8. \A r \in Records : InKeeping(field', records'[r])
  BY <1>4, <1>5, <1>7
<1>9. StoredOK'
  BY <1>2, <1>4, <1>5, <1>6, <1>8 DEF Invariant, StoredOK
<1>10. ClientsOK'
  <2>1. \A c \in Clients : ClientOK(c)'
    BY <1>4, <1>5, <1>6, OlderClients
  <2>. QED
    BY <1>4, <2>1 DEF Invariant, ClientsOK
<1>. QED
  BY <1>6, <1>9, <1>10 DEF Invariant

LEMMA ForgottenKeeps ==
  ASSUME Invariant, NEW c \in Clients, Forget(c)
  PROVE  Invariant'
<1>1. /\ clients' = [clients EXCEPT ![c] = Idle]
      /\ UNCHANGED <<field, records, minted, reader, writes>>
  BY DEF Forget
<1>2. ClientsOK'
  BY <1>1 DEF Invariant, ClientsOK, ClientOK, Since
<1>3. StoredOK' /\ ReaderForm' /\ writes' \in 0 .. MaxWrites
  BY <1>1, RecordsKept DEF Invariant, ReaderForm
<1>. QED
  BY <1>2, <1>3 DEF Invariant

\* A client that has read the Field is a client all the same.
LEMMA ClientSteps ==
  ASSUME Invariant, NEW c \in Clients, NEW cl, clients' = [clients EXCEPT ![c] = cl],
         UNCHANGED <<field, records, minted, reader, writes>>,
         Since(cl.field), cl.to \in Targets(cl.field.type),
         \/ cl = [at |-> "scanning", field |-> cl.field, to |-> cl.to]
         \/ cl = [at |-> "previewed", field |-> cl.field, to |-> cl.to, shown |-> cl.shown]
         \/ /\ cl = [at |-> "converting", field |-> cl.field, to |-> cl.to, shown |-> cl.shown,
                     expected |-> cl.expected]
            /\ cl.expected \in Nat /\ cl.expected <= cl.field.revision
  PROVE  Invariant'
<1>1. ClientOK(c)'
  BY DEF Invariant, ClientsOK, ClientOK, Since
<1>2. \A d \in Clients \ {c} : ClientOK(d)'
  BY DEF Invariant, ClientsOK, ClientOK, Since
<1>3. ClientsOK'
  BY <1>1, <1>2 DEF Invariant, ClientsOK
<1>4. StoredOK' /\ ReaderForm' /\ writes' \in 0 .. MaxWrites
  BY RecordsKept DEF Invariant, ReaderForm
<1>. QED
  BY <1>3, <1>4 DEF Invariant

LEMMA PreviewReadKeeps ==
  ASSUME Invariant, NEW c \in Clients, PreviewRead(c)
  PROVE  Invariant'
<1>1. PICK to \in Targets(field.type) :
         clients' = [clients EXCEPT ![c] = [at |-> "scanning", field |-> field, to |-> to]]
  BY DEF PreviewRead
<1>2. PICK f : f = field
  OBVIOUS
<1>3. PICK cl : cl = [at |-> "scanning", field |-> f, to |-> to]
  OBVIOUS
<1>4. Since(cl.field) /\ cl.to \in Targets(cl.field.type)
  BY <1>1, <1>2, <1>3 DEF Invariant, StoredOK, Since, Field
<1>5. clients' = [clients EXCEPT ![c] = cl] /\ UNCHANGED <<field, records, minted, reader, writes>>
  BY <1>1, <1>2, <1>3 DEF PreviewRead
<1>. QED
  BY <1>3, <1>4, <1>5, ClientSteps

LEMMA PreviewScanKeeps ==
  ASSUME Invariant, NEW c \in Clients, PreviewScan(c)
  PROVE  Invariant'
<1>1. PICK old : old = clients[c]
  OBVIOUS
<1>2. PICK shown : shown = Scan(clients[c].field, clients[c].to)
  OBVIOUS
<1>3. PICK cl : cl = [at |-> "previewed", field |-> old.field, to |-> old.to, shown |-> shown]
  OBVIOUS
<1>4. old # Idle
  BY <1>1 DEF PreviewScan, Idle
<1>5. Since(old.field) /\ old.to \in Targets(old.field.type)
  BY <1>1, <1>4 DEF Invariant, ClientsOK, ClientOK
<1>6. clients' = [clients EXCEPT ![c] = cl] /\ UNCHANGED <<field, records, minted, reader, writes>>
  <2>1. clients' = [clients EXCEPT ![c] = [at |-> "previewed", field |-> clients[c].field, to |-> clients[c].to,
                                           shown |-> Scan(clients[c].field, clients[c].to)]]
    BY DEF PreviewScan
  <2>2. cl = [at |-> "previewed", field |-> clients[c].field, to |-> clients[c].to,
              shown |-> Scan(clients[c].field, clients[c].to)]
    BY <1>1, <1>2, <1>3
  <2>3. clients' = [clients EXCEPT ![c] = cl]
    BY <2>1, <2>2
  <2>. QED
    BY <2>3 DEF PreviewScan
<1>7. /\ cl.field = old.field /\ cl.to = old.to
      /\ cl = [at |-> "previewed", field |-> cl.field, to |-> cl.to, shown |-> cl.shown]
  BY <1>3
<1>. QED
  BY <1>5, <1>6, <1>7, ClientSteps

LEMMA ConvertReadKeeps ==
  ASSUME Invariant, NEW c \in Clients, ConvertRead(c)
  PROVE  Invariant'
<1>1. CASE Forget(c)
  BY <1>1, ForgottenKeeps
<1>2. CASE ~Forget(c)
  <2>1. PICK old : old = clients[c]
    OBVIOUS
  <2>2. /\ old.at = "previewed" /\ old.field.revision = field.revision
        /\ UNCHANGED <<field, records, minted, reader, writes>>
    BY <1>2, <2>1 DEF ConvertRead
  <2>3. Since(old.field) /\ old.to \in Targets(old.field.type)
    BY <2>1, <2>2 DEF Invariant, ClientsOK, ClientOK, Idle
  <2>4. PICK expected \in 1 .. field.revision :
           clients' = [clients EXCEPT ![c] = [at |-> "converting", field |-> old.field, to |-> old.to,
                                              shown |-> old.shown, expected |-> expected]]
    BY <1>2, <2>1 DEF ConvertRead
  <2>5. PICK cl : cl = [at |-> "converting", field |-> old.field, to |-> old.to, shown |-> old.shown,
                        expected |-> expected]
    OBVIOUS
  <2>6. clients' = [clients EXCEPT ![c] = cl]
    BY <2>4, <2>5
  <2>7. /\ cl.field = old.field /\ cl.to = old.to
        /\ cl = [at |-> "converting", field |-> cl.field, to |-> cl.to, shown |-> cl.shown,
                 expected |-> cl.expected]
        /\ cl.expected = expected
    BY <2>5
  <2>8. cl.expected \in Nat /\ cl.expected <= cl.field.revision
    BY <2>2, <2>7 DEF Invariant, StoredOK, Field
  <2>. QED
    BY <2>2, <2>3, <2>6, <2>7, <2>8, ClientSteps
<1>. QED
  BY <1>1, <1>2

\* A conversion, with the Options it makes and the Field it writes.
Converting(c, to, distincts, new, g) ==
  /\ to = clients[c].to /\ to \in Targets(field.type) /\ clients[c].shown = Scan(field, to)
  /\ distincts = Scan(field, to).distincts /\ OptionsFrom(to, distincts, new)
  /\ g \in Field /\ g.type = to /\ g.options = new /\ g.revision = field.revision
  /\ field.revision < MaxRevision /\ SetField(g)
  /\ minted' = minted \cup DOMAIN new /\ DOMAIN new \subseteq OptionIDs
  /\ records' = [r \in Records |-> ConvertRecord(g, to, new, records[r])]
  /\ clients' = [clients EXCEPT ![c] = Idle]

LEMMA ConversionIs ==
  ASSUME Invariant, NEW c \in Clients, ConvertField(c)
  PROVE  \E to, distincts, new, g : Converting(c, to, distincts, new, g)
<1>1. PICK to : to = clients[c].to
  OBVIOUS
<1>2. PICK distincts : distincts = clients[c].shown.distincts
  OBVIOUS
<1>3. PICK new \in buildConvertedConfig(to, distincts) :
         /\ minted' = minted \cup DOMAIN new
         /\ SetField([field EXCEPT !.type = to, !.options = new])
         /\ records' = [r \in Records |->
               ConvertRecord([field EXCEPT !.type = to, !.options = new], to, new, records[r])]
  BY <1>1, <1>2 DEF ConvertField
<1>4. PICK g : g = [field EXCEPT !.type = to, !.options = new]
  OBVIOUS
<1>5. clients[c] # Idle /\ Since(clients[c].field) /\ clients[c].to \in Targets(clients[c].field.type)
  BY DEF Invariant, ClientsOK, ClientOK, ConvertField, Idle
<1>6. clients[c].field = field /\ clients[c].shown = Scan(field, to)
  <2>1. clients[c].expected \in Nat /\ clients[c].expected <= clients[c].field.revision
    BY <1>5 DEF Invariant, ClientsOK, ClientOK, ConvertField
  <2>2. field.revision = clients[c].expected /\ Scan(field, to) = clients[c].shown
    BY <1>1 DEF ConvertField, Admitted, Verified
  <2>3. clients[c].field.revision \in Nat /\ clients[c].field.revision <= field.revision
    BY <1>5 DEF Since, Field
  <2>4. clients[c].field.revision = field.revision
    BY <2>1, <2>2, <2>3
  <2>. QED
    BY <1>5, <2>2, <2>4 DEF Since
<1>7. to \in Targets(field.type) /\ distincts = Scan(field, to).distincts
  BY <1>1, <1>2, <1>5, <1>6
<1>8. OptionsFrom(to, distincts, new)
  BY <1>2, <1>3, <1>7, OptionsMade DEF Invariant, ConvertField
<1>9. field \in Field /\ field.type \in FieldTypes /\ to \in FieldTypes
  BY <1>7, OptionTargets DEF Invariant, StoredOK, Field
<1>10. new \in UNION {[ids -> WordTexts] : ids \in SUBSET OptionIDs} /\ DOMAIN new \subseteq OptionIDs
  <2>1. CASE OptionTarget(field.type, to)
    BY <1>8, <2>1 DEF OptionsFrom
  <2>2. CASE ~OptionTarget(field.type, to) /\ to \in {"select", "multiSelect"}
    <3>1. new = field.options
      BY <1>8, <2>2 DEF OptionsFrom
    <3>. QED
      BY <1>9, <3>1, OptionsAre DEF Field
  <2>3. CASE to \notin {"select", "multiSelect"}
    <3>1. new = [o \in {} |-> <<>>]
      BY <1>8, <2>3 DEF OptionsFrom, NoOptions
    <3>2. new \in [{} -> WordTexts] /\ DOMAIN new = {}
      BY <3>1
    <3>. QED
      BY <3>2
  <2>. QED
    BY <2>1, <2>2, <2>3
<1>11. g \in Field /\ g.type = to /\ g.options = new /\ g.revision = field.revision
  BY <1>4, <1>9, <1>10 DEF Field
<1>12. /\ minted' = minted \cup DOMAIN new /\ SetField(g)
       /\ records' = [r \in Records |-> ConvertRecord(g, to, new, records[r])]
  BY <1>3, <1>4
<1>13. field.revision < MaxRevision /\ clients' = [clients EXCEPT ![c] = Idle]
  BY DEF ConvertField
<1>. QED
  BY <1>1, <1>6, <1>7, <1>8, <1>10, <1>11, <1>12, <1>13 DEF Converting

LEMMA ConvertKeeps ==
  ASSUME Invariant, NEW c \in Clients, ConvertField(c)
  PROVE  Invariant'
<1>1. PICK to, distincts, new, g : Converting(c, to, distincts, new, g)
  BY ConversionIs
<1>2. g \in Field /\ g.revision = field.revision /\ field.revision < MaxRevision /\ SetField(g)
  BY <1>1 DEF Converting
<1>3. PICK f : f = field'
  OBVIOUS
<1>4. /\ f \in Field /\ f.revision \in 1 .. MaxRevision /\ f.revision = field.revision + 1
      /\ f.type = g.type /\ f.options = g.options /\ ReaderForm' /\ writes' \in 0 .. MaxWrites
  BY <1>2, <1>3, FieldWritten
<1>5. ASSUME NEW r \in Records PROVE records'[r] \in Record /\ InKeeping(f, records'[r])
  <2>1. PICK rec : rec = ConvertRecord(g, to, new, records[r])
    OBVIOUS
  <2>2. records'[r] = rec
    BY <1>1, <2>1 DEF Converting
  <2>3. rec \in Record /\ InKeeping(g, rec)
    BY <1>1, <2>1, ConvertedInKeeping DEF Converting, Invariant
  <2>4. InKeeping(f, rec)
    BY <1>2, <1>4, <2>3, SameKeeping
  <2>. QED
    BY <2>2, <2>3, <2>4
<1>6. records' \in [Records -> Record]
  BY <1>1, <1>5 DEF Converting
<1>7. minted' \subseteq OptionIDs /\ DOMAIN field'.options \subseteq minted'
  <2>1. g.options = new /\ minted' = minted \cup DOMAIN new /\ DOMAIN new \subseteq OptionIDs
    BY <1>1 DEF Converting
  <2>. QED
    BY <1>3, <1>4, <2>1 DEF Invariant, StoredOK
<1>8. StoredOK'
  BY <1>3, <1>4, <1>5, <1>6, <1>7 DEF StoredOK
<1>9. ClientsOK'
  <2>1. clients' = [clients EXCEPT ![c] = Idle]
    BY <1>1 DEF Converting
  <2>2. ASSUME NEW d \in Clients \ {c} PROVE ClientOK(d)'
    <3>1. clients'[d] = clients[d]
      BY <2>1 DEF Invariant, ClientsOK
    <3>. QED
      BY <1>3, <1>4, <3>1, OlderClients
  <2>3. ClientOK(c)'
    BY <2>1 DEF Invariant, ClientsOK, ClientOK
  <2>. QED
    BY <2>1, <2>2, <2>3 DEF Invariant, ClientsOK
<1>. QED
  BY <1>4, <1>8, <1>9 DEF Invariant

\* A reader changes nothing but its own state.
LEMMA ReaderKeeps ==
  ASSUME Invariant, UNCHANGED <<field, records, minted, clients, writes>>, ReaderForm'
  PROVE  Invariant'
BY RecordsKept, ClientsKept DEF Invariant

LEMMA ReadersKeep ==
  ASSUME Invariant, ResolveQuery \/ ResolveDistinct \/ ReadPage \/ NextPage \/ Close
  PROVE  Invariant'
<1>1. UNCHANGED <<field, records, minted, clients, writes>>
  BY DEF ResolveQuery, ResolveDistinct, Plan, ReadPage, NextPage, Close
<1>. SUFFICES ReaderForm'
  BY <1>1, ReaderKeeps
<1>2. ReaderForm
  BY DEF Invariant
<1>3. ASSUME NEW kind, NEW nulls, NEW filter, Plan(kind, nulls, filter) PROVE ReaderForm'
  BY <1>3 DEF Plan, ReaderForm, Idle
<1>4. CASE ResolveQuery \/ ResolveDistinct
  BY <1>3, <1>4 DEF ResolveQuery, ResolveDistinct
<1>5. CASE ReadPage
  <2>1. CASE reader' = Idle
    BY <2>1 DEF ReaderForm, Idle
  <2>2. CASE reader' # Idle
    <3>0. ~PageFails(reader.field)
      BY <1>5, <2>2 DEF ReadPage
    <3>1. PICK at, total, listed :
             /\ at = IF Len(Remaining) > 1 THEN "paging" ELSE "done"
             /\ total = IF reader.listed = <<>> THEN Len(Remaining) ELSE reader.total
             /\ listed = reader.listed \o IF Remaining = <<>> THEN <<>> ELSE <<Head(Remaining)>>
      OBVIOUS
    <3>3. at \in {"paging", "done"} /\ reader' = [reader EXCEPT !.at = at, !.total = total, !.listed = listed]
      BY <1>5, <3>0, <3>1 DEF ReadPage
    <3>2. reader # Idle
      BY <1>5 DEF ReadPage, Idle
    <3>. QED
      BY <1>2, <3>2, <3>3 DEF ReaderForm, Idle
  <2>. QED
    BY <2>1, <2>2
<1>6. CASE NextPage
  <2>1. reader # Idle
    BY <1>6 DEF NextPage, Idle
  <2>. QED
    BY <1>2, <1>6, <2>1 DEF NextPage, ReaderForm, Idle
<1>7. CASE Close
  BY <1>7 DEF Close, ReaderForm, Idle
<1>. QED
  BY <1>4, <1>5, <1>6, <1>7

LEMMA InvariantInit == Init => Invariant
<1>. SUFFICES ASSUME Init PROVE Invariant
  OBVIOUS
<1>1. PICK f : f = field
  OBVIOUS
<1>2. /\ f.type \in FieldTypes /\ f.revision = 1 /\ f.deleted \in BOOLEAN /\ f.options = NoOptions
      /\ f = [type |-> f.type, revision |-> f.revision, deleted |-> f.deleted, options |-> f.options]
  BY <1>1, FieldValuesAssumption DEF Init, FieldTypes
<1>3. NoOptions \in [{} -> WordTexts] /\ DOMAIN NoOptions = {}
  <2>1. PICK none : none = [o \in {} |-> <<>>]
    OBVIOUS
  <2>2. none \in [{} -> WordTexts] /\ DOMAIN none = {}
    BY <2>1
  <2>3. NoOptions = none
    BY <2>1 DEF NoOptions
  <2>. QED
    BY <2>2, <2>3
<1>4. f \in Field
  <2>1. PICK none : none = {}
    OBVIOUS
  <2>2. none \in SUBSET OptionIDs /\ f.options \in [none -> WordTexts]
    BY <1>2, <1>3, <2>1
  <2>3. f.options \in UNION {[ids -> WordTexts] : ids \in SUBSET OptionIDs}
    BY <2>2
  <2>4. /\ f.type \in FieldTypes /\ f.revision \in Nat /\ f.deleted \in BOOLEAN
        /\ f = [type |-> f.type, revision |-> f.revision, deleted |-> f.deleted, options |-> f.options]
    BY <1>2
  <2>. QED
    BY <2>3, <2>4 DEF Field
<1>5. ASSUME NEW r \in Records PROVE records[r] \in Record /\ InKeeping(f, records[r])
  <2>1. PICK rec0 : rec0 = [Unused EXCEPT !.used = TRUE]
    OBVIOUS
  <2>2. CASE records[r] = Unused
    BY <2>2, UnusedInKeeping
  <2>3. CASE records[r] # Unused
    <3>1. PICK v : /\ v = NoValue \/ v \in normalizeFieldValue(f)
                   /\ records[r] = Rewritten(f, rec0, v)
      BY <1>1, <2>1, <2>3 DEF Init
    <3>2. PICK rec : rec = Rewritten(f, rec0, v)
      OBVIOUS
    <3>3. v \in Value /\ Conforms(f, v)
      BY <1>4, <3>1, WrittenConforms
    <3>. QED
      BY <1>4, <2>1, <3>1, <3>2, <3>3, NewRecord, RewrittenInKeeping
  <2>. QED
    BY <2>2, <2>3
<1>6. records \in [Records -> Record]
  BY <1>5 DEF Init
<1>7. 1 \in 1 .. MaxRevision /\ 0 \in 0 .. MaxWrites
  BY FieldValuesAssumption
<1>8. StoredOK
  BY <1>1, <1>2, <1>3, <1>4, <1>5, <1>6, <1>7 DEF StoredOK, Init
<1>9. ClientsOK
  BY DEF Init, ClientsOK, ClientOK
<1>. QED
  BY <1>7, <1>8, <1>9 DEF Invariant, ReaderForm, Init

LEMMA InvariantNext == Invariant /\ [Next]_vars => Invariant'
<1>. SUFFICES ASSUME Invariant, [Next]_vars PROVE Invariant'
  OBVIOUS
<1>1. ASSUME NEW r \in Records, CreateRecord(r) \/ UpdateRecord(r) \/ applyRecordLifecycle(r)
      PROVE  Invariant'
  BY <1>1, CreateKeeps, UpdateKeeps, RecordLifecycleKeeps
<1>2. CASE FieldLifecycle
  BY <1>2, FieldLifecycleKeeps
<1>3. ASSUME NEW c \in Clients,
             PreviewRead(c) \/ PreviewScan(c) \/ ConvertRead(c) \/ ConvertRefused(c) \/ ConvertField(c)
      PROVE  Invariant'
  <2>1. ConvertRefused(c) => Forget(c)
    BY DEF ConvertRefused
  <2>. QED
    BY <1>3, <2>1, PreviewReadKeeps, PreviewScanKeeps, ConvertReadKeeps, ForgottenKeeps, ConvertKeeps
<1>4. CASE ResolveQuery \/ ResolveDistinct \/ ReadPage \/ NextPage \/ Close
  BY <1>4, ReadersKeep
<1>5. CASE UNCHANGED vars
  BY <1>5, ReaderKeeps DEF vars, Invariant, ReaderForm
<1>. QED
  BY <1>1, <1>2, <1>3, <1>4, <1>5 DEF Next

\* The invariant holds for every number of Records, clients, Options and words.
THEOREM FieldsInvariant == Spec => []Invariant
BY InvariantInit, InvariantNext, PTL DEF Spec

LEMMA TypesFromInvariant == Invariant => TypeOK
<1>. SUFFICES ASSUME Invariant PROVE TypeOK
  OBVIOUS
<1>1. field.type \in Types /\ field.deleted \in BOOLEAN /\ field.revision \in 1 .. MaxRevision
  BY ModesAre DEF Invariant, StoredOK, Field
<1>2. \A r \in Records : records[r].used \in BOOLEAN /\ records[r].deleted \in BOOLEAN
  BY DEF Invariant, StoredOK, Record
<1>3. \A c \in Clients : clients[c].at \in {"idle", "scanning", "previewed", "converting"}
  BY DEF Invariant, ClientsOK, ClientOK, Idle
<1>4. reader.at \in {"idle", "planned", "paging", "done"}
  BY DEF Invariant, ReaderForm, Idle
<1>. QED
  BY <1>1, <1>2, <1>3, <1>4 DEF TypeOK, Invariant, StoredOK

\* Whatever writes, deletions and conversions race, a stored value is one that the
\* type and the Options of the Field admit (normalizeFieldValue, ConvertField):
\* what a conversion makes of a value of one type is a value of the other, and a
\* conversion is admitted only on the Field that its preview was made of.
THEOREM ValuesAlwaysConform == Spec => []ValuesConform
<1>1. Invariant => ValuesConform
  BY TypesFromInvariant DEF ValuesConform, Invariant, StoredOK, InKeeping
<1>. QED
  BY <1>1, FieldsInvariant, PTL

\* The projection that Filters read holds the value of the Record or none, also
\* where a conversion has left it alone because the value stayed the same JSON
\* (buildQueryProjection, ConvertField).
THEOREM ProjectionIsNeverWrong == Spec => []ProjectionNeverWrong
<1>1. Invariant => ProjectionNeverWrong
  BY DEF ProjectionNeverWrong, Invariant, StoredOK, InKeeping, Projected
<1>. QED
  BY <1>1, FieldsInvariant, PTL

(***************************************************************************)
(* A conversion does what its preview showed.                              *)
(***************************************************************************)

\* The Records with an outcome; a scan counts them.
Having(to, outcome) == {r \in Used : Out(to, r).outcome = outcome}

LEMMA ScanCounts ==
  ASSUME NEW to
  PROVE  /\ Scan(field, to).ok = Cardinality(Having(to, "ok"))
         /\ Scan(field, to).lossy = Cardinality(Having(to, "lossy"))
         /\ Scan(field, to).lost = Cardinality(Having(to, "lost"))
         /\ Scan(field, to).empty = Cardinality(Having(to, "empty"))
         /\ ~OptionTarget(field.type, to) => Scan(field, to).distincts = {}
<1>1. PICK out : out = [r \in Used |-> convert(field, to, records[r].value)]
  OBVIOUS
<1>2. ASSUME NEW o PROVE {r \in Used : out[r].outcome = o} = Having(to, o)
  BY <1>1 DEF Having, Out
<1>3. /\ Scan(field, to).ok = Cardinality({r \in Used : out[r].outcome = "ok"})
      /\ Scan(field, to).lossy = Cardinality({r \in Used : out[r].outcome = "lossy"})
      /\ Scan(field, to).lost = Cardinality({r \in Used : out[r].outcome = "lost"})
      /\ Scan(field, to).empty = Cardinality({r \in Used : out[r].outcome = "empty"})
  BY <1>1 DEF Scan
<1>4. ~OptionTarget(field.type, to) => Scan(field, to).distincts = {}
  BY DEF Scan
<1>. QED
  BY <1>2, <1>3, <1>4

\* The sizes of two sets without a common member add up.
LEMMA DisjointSizes ==
  ASSUME NEW S, NEW T, IsFiniteSet(S), IsFiniteSet(T), S \cap T = {}
  PROVE  /\ IsFiniteSet(S \cup T) /\ Cardinality(S) \in Nat /\ Cardinality(T) \in Nat
         /\ Cardinality(S \cup T) = Cardinality(S) + Cardinality(T)
<1>1. IsFiniteSet(S \cup T) /\ Cardinality(S \cup T) = Cardinality(S) + Cardinality(T) - Cardinality(S \cap T)
  BY FS_Union
<1>2. Cardinality(S \cap T) = 0
  BY FS_EmptySet
<1>3. Cardinality(S) \in Nat /\ Cardinality(T) \in Nat
  BY FS_CardinalityType
<1>. QED
  BY <1>1, <1>2, <1>3

LEMMA OutcomesSplit ==
  ASSUME StoredOK, NEW to \in Targets(field.type)
  PROVE  /\ Cardinality(Having(to, "ok") \cup Having(to, "lossy")) =
               Scan(field, to).ok + Scan(field, to).lossy
         /\ Cardinality(Used) = Scan(field, to).ok + Scan(field, to).lossy
                                  + Scan(field, to).lost + Scan(field, to).empty
<1>1. PICK ok, lossy, lost, empty :
         /\ ok = Having(to, "ok") /\ lossy = Having(to, "lossy")
         /\ lost = Having(to, "lost") /\ empty = Having(to, "empty")
  OBVIOUS
<1>2. IsFiniteSet(ok) /\ IsFiniteSet(lossy) /\ IsFiniteSet(lost) /\ IsFiniteSet(empty)
  BY <1>1, FS_Subset, FieldValuesAssumption DEF Having, Used
<1>3. /\ ok \cap lossy = {} /\ (ok \cup lossy) \cap lost = {}
      /\ ((ok \cup lossy) \cup lost) \cap empty = {}
  BY <1>1 DEF Having
<1>4. Used = ((ok \cup lossy) \cup lost) \cup empty
  <2>1. ASSUME NEW r \in Used PROVE Out(to, r).outcome \in {"ok", "lossy", "lost", "empty"}
    BY OutcomesAre DEF IsOutcome, Used
  <2>. QED
    BY <1>1, <2>1 DEF Having
<1>5. /\ IsFiniteSet(ok \cup lossy) /\ Cardinality(ok) \in Nat /\ Cardinality(lossy) \in Nat
      /\ Cardinality(ok \cup lossy) = Cardinality(ok) + Cardinality(lossy)
  BY <1>2, <1>3, DisjointSizes
<1>6. /\ IsFiniteSet((ok \cup lossy) \cup lost) /\ Cardinality(lost) \in Nat
      /\ Cardinality((ok \cup lossy) \cup lost) = Cardinality(ok \cup lossy) + Cardinality(lost)
  BY <1>2, <1>3, <1>5, DisjointSizes
<1>7. /\ Cardinality(empty) \in Nat
      /\ Cardinality(((ok \cup lossy) \cup lost) \cup empty) =
            Cardinality((ok \cup lossy) \cup lost) + Cardinality(empty)
  BY <1>2, <1>3, <1>6, DisjointSizes
<1>8. /\ Scan(field, to).ok = Cardinality(ok) /\ Scan(field, to).lossy = Cardinality(lossy)
      /\ Scan(field, to).lost = Cardinality(lost) /\ Scan(field, to).empty = Cardinality(empty)
  BY <1>1, ScanCounts
<1>. QED
  BY <1>1, <1>4, <1>5, <1>6, <1>7, <1>8

\* The Records that hold a value after a conversion are those that the scan said keep one.
LEMMA KeptAsShown ==
  ASSUME Invariant, NEW c \in Clients, NEW to, NEW distincts, NEW new, NEW g,
         Converting(c, to, distincts, new, g)
  PROVE  {r \in Records : records'[r].value # NoValue} = Having(to, "ok") \cup Having(to, "lossy")
<1>1. ASSUME NEW r \in Records
      PROVE  records'[r].value # NoValue <=> r \in Having(to, "ok") \cup Having(to, "lossy")
  <2>1. PICK rec : rec = ConvertRecord(g, to, new, records[r])
    OBVIOUS
  <2>2. records'[r] = rec
    BY <2>1 DEF Converting
  <2>3. rec.value = IF records[r].used THEN After(to, new, r) ELSE NoValue
    BY <2>1, ConvertedInKeeping DEF Converting, Invariant
  <2>4. CASE ~records[r].used
    BY <2>2, <2>3, <2>4 DEF Having, Used
  <2>5. CASE records[r].used
    <3>1. PICK w : w = After(to, new, r)
      OBVIOUS
    <3>2. w = NoValue <=> Out(to, r).value = NoValue
      BY <2>5, <3>1, AfterIsValue DEF Converting, Invariant, Used
    <3>3. IsOutcome(Out(to, r))
      BY OutcomesAre DEF Converting, Invariant
    <3>4. rec.value # NoValue <=> Out(to, r).outcome \in {"ok", "lossy"}
      BY <2>3, <2>5, <3>1, <3>2, <3>3 DEF IsOutcome
    <3>. QED
      BY <2>2, <2>5, <3>4 DEF Having, Used
  <2>. QED
    BY <2>4, <2>5
<1>. QED
  BY <1>1 DEF Having, Used

\* The Options that a conversion adds are as many as the names that the scan found.
LEMMA OptionsAsShown ==
  ASSUME Invariant, NEW c \in Clients, NEW to, NEW distincts, NEW new, NEW g,
         Converting(c, to, distincts, new, g)
  PROVE  Cardinality(DOMAIN new \ DOMAIN field.options) = Cardinality(distincts)
<1>1. OptionsFrom(to, distincts, new) /\ distincts = Scan(field, to).distincts
  BY DEF Converting
<1>2. DOMAIN field.options \subseteq minted
  BY DEF Invariant, StoredOK
<1>3. CASE OptionTarget(field.type, to)
  <2>1. DOMAIN new \subseteq OptionIDs \ minted /\ Cardinality(DOMAIN new) = Cardinality(distincts)
    BY <1>1, <1>3 DEF OptionsFrom
  <2>2. DOMAIN new \ DOMAIN field.options = DOMAIN new
    BY <1>2, <2>1
  <2>. QED
    BY <2>1, <2>2
<1>4. CASE ~OptionTarget(field.type, to)
  <2>1. distincts = {}
    BY <1>1, <1>4, ScanCounts
  <2>2. new = field.options \/ new = [o \in {} |-> <<>>]
    BY <1>1, <1>4 DEF OptionsFrom, NoOptions
  <2>3. DOMAIN new \ DOMAIN field.options = {}
    BY <2>2
  <2>. QED
    BY <2>1, <2>3
<1>. QED
  BY <1>3, <1>4

\* What ConvertedAsShown says of one client.
AsShown(c) ==
  LET shown == clients[c].shown
  IN /\ Cardinality({r \in Records : records'[r].value # NoValue}) = shown.ok + shown.lossy
     /\ Cardinality(Used) = shown.ok + shown.lossy + shown.lost + shown.empty
     /\ Cardinality(DOMAIN field'.options \ DOMAIN field.options) = Cardinality(shown.distincts)

LEMMA ConversionAsShown ==
  ASSUME Invariant, NEW c \in Clients, ConvertField(c)
  PROVE  AsShown(c)
<1>1. PICK to, distincts, new, g : Converting(c, to, distincts, new, g)
  BY ConversionIs
<1>2. clients[c].shown = Scan(field, to) /\ to \in Targets(field.type) /\ distincts = Scan(field, to).distincts
  BY <1>1 DEF Converting
<1>3. field'.options = new
  BY <1>1, FieldWritten DEF Converting
<1>4. Cardinality({r \in Records : records'[r].value # NoValue}) = Scan(field, to).ok + Scan(field, to).lossy
  BY <1>1, <1>2, KeptAsShown, OutcomesSplit DEF Invariant
<1>5. Cardinality(Used) = Scan(field, to).ok + Scan(field, to).lossy + Scan(field, to).lost + Scan(field, to).empty
  BY <1>2, OutcomesSplit DEF Invariant
<1>6. Cardinality(DOMAIN field'.options \ DOMAIN field.options) = Cardinality(Scan(field, to).distincts)
  BY <1>1, <1>2, <1>3, OptionsAsShown
<1>. QED
  BY <1>2, <1>4, <1>5, <1>6 DEF AsShown

\* No step but a conversion changes the type of the Field, and a conversion
\* ends the client that makes it.
LEMMA ConvertedByOne ==
  ASSUME Invariant, [Next]_vars, NEW c \in Clients,
         clients[c].at = "converting", clients'[c].at = "idle", field'.type # field.type
  PROVE  ConvertField(c)
<1>1. field \in Field
  BY DEF Invariant, StoredOK
<1>2. PICK f : f = [field EXCEPT !.deleted = ~@]
  OBVIOUS
<1>3. f.type = field.type
  BY <1>1, <1>2 DEF Field
<1>4. ~FieldLifecycle
  <2>1. [f EXCEPT !.revision = @ + 1].type = f.type
    BY <1>1, <1>2 DEF Field
  <2>. QED
    BY <1>2, <1>3, <2>1 DEF FieldLifecycle, SetField
<1>5. \A r \in Records : ~(CreateRecord(r) \/ UpdateRecord(r) \/ applyRecordLifecycle(r))
  BY DEF CreateRecord, UpdateRecord, applyRecordLifecycle, WriteRecord
<1>6. \A d \in Clients : ~(PreviewRead(d) \/ PreviewScan(d) \/ ConvertRead(d) \/ ConvertRefused(d))
  BY DEF PreviewRead, PreviewScan, ConvertRead, ConvertRefused, Forget
<1>7. ~(ResolveQuery \/ ResolveDistinct \/ ReadPage \/ NextPage \/ Close)
  BY DEF ResolveQuery, ResolveDistinct, Plan, ReadPage, NextPage, Close
<1>8. ~UNCHANGED vars
  BY DEF vars
<1>9. PICK d \in Clients : ConvertField(d)
  BY <1>4, <1>5, <1>6, <1>7, <1>8 DEF Next
<1>10. d = c
  <2>1. clients' = [clients EXCEPT ![d] = Idle] /\ clients = [e \in Clients |-> clients[e]]
    BY <1>9 DEF ConvertField, Invariant, ClientsOK
  <2>2. d # c => clients'[c] = clients[c]
    BY <2>1
  <2>. QED
    BY <2>2
<1>. QED
  BY <1>9, <1>10

\* A conversion keeps and loses the values that its preview counted and makes as many
\* Options, whatever was written between the transactions of the preview and its own
\* (ConvertField, Verify); for any number of clients, no step but the conversion of
\* that client changes the type while it ends.
THEOREM ConversionsAreAsShown == Spec => ConvertedAsShown
<1>1. ASSUME Invariant, [Next]_vars
      PROVE  [\A c \in Clients :
                 clients[c].at = "converting" /\ clients'[c].at = "idle" /\ field'.type # field.type =>
                    AsShown(c)]_vars
  BY <1>1, ConvertedByOne, ConversionAsShown
<1>2. Spec => [][\A c \in Clients :
                    clients[c].at = "converting" /\ clients'[c].at = "idle" /\ field'.type # field.type =>
                       AsShown(c)]_vars
  BY <1>1, FieldsInvariant, PTL DEF Spec
<1>. QED
  BY <1>2 DEF ConvertedAsShown, AsShown

(***************************************************************************)
(* Lists in order.                                                         *)
(***************************************************************************)

StrictOrder(S, pairs) ==
  /\ IsFiniteSet(S)
  /\ \A x \in S : <<x, x>> \notin pairs
  /\ \A x, y, z \in S : <<x, y>> \in pairs /\ <<y, z>> \in pairs => <<x, z>> \in pairs
  /\ \A x, y \in S : x # y => <<x, y>> \in pairs \/ <<y, x>> \in pairs

IsListing(S, pairs, s) ==
  /\ Cardinality(S) \in Nat /\ s \in [1 .. Cardinality(S) -> S]
  /\ \A i, j \in 1 .. Cardinality(S) : i < j => <<s[i], s[j]>> \in pairs
  /\ \A x \in S : \E i \in 1 .. Cardinality(S) : s[i] = x

\* The place of a member is the number of those before it, and no two share a place.
LEMMA ListingExists ==
  ASSUME NEW S, NEW pairs, StrictOrder(S, pairs)
  PROVE  \E s \in [1 .. Cardinality(S) -> S] :
            \A i, j \in 1 .. Cardinality(S) : i < j => <<s[i], s[j]>> \in pairs
<1>1. PICK n \in Nat : n = Cardinality(S) /\ IsFiniteSet(S)
  BY FS_CardinalityType DEF StrictOrder
<1>2. PICK before : before = [x \in S |-> {y \in S : <<y, x>> \in pairs}]
  OBVIOUS
<1>3. ASSUME NEW x \in S PROVE Cardinality(before[x]) \in Nat /\ Cardinality(before[x]) < n
  <2>1. before[x] \in SUBSET S /\ x \notin before[x]
    BY <1>2 DEF StrictOrder
  <2>2. /\ IsFiniteSet(before[x]) /\ Cardinality(before[x]) <= Cardinality(S)
        /\ Cardinality(S) = Cardinality(before[x]) => S = before[x]
    BY <1>1, <2>1, FS_Subset
  <2>3. Cardinality(before[x]) \in Nat
    BY <2>2, FS_CardinalityType
  <2>. QED
    BY <1>1, <2>1, <2>2, <2>3
<1>4. ASSUME NEW x \in S, NEW y \in S, <<x, y>> \in pairs
      PROVE  Cardinality(before[x]) < Cardinality(before[y])
  <2>1. before[x] \in SUBSET before[y] /\ x \in before[y] /\ x \notin before[x] /\ before[y] \in SUBSET S
    BY <1>2, <1>4 DEF StrictOrder
  <2>2. IsFiniteSet(before[y])
    BY <1>1, <2>1, FS_Subset
  <2>3. /\ Cardinality(before[x]) <= Cardinality(before[y])
        /\ Cardinality(before[y]) = Cardinality(before[x]) => before[y] = before[x]
    BY <2>1, <2>2, FS_Subset
  <2>. QED
    BY <1>3, <2>1, <2>3
<1>5. PICK rank : rank = [x \in S |-> Cardinality(before[x]) + 1]
  OBVIOUS
<1>6. rank \in [S -> 1 .. n] /\ \A x, y \in S : <<x, y>> \in pairs => rank[x] < rank[y]
  BY <1>3, <1>4, <1>5
<1>7. \A x, y \in S : rank[x] = rank[y] => x = y
  <2>1. ASSUME NEW x \in S, NEW y \in S, rank[x] = rank[y], x # y PROVE FALSE
    <3>1. <<x, y>> \in pairs \/ <<y, x>> \in pairs
      BY <2>1 DEF StrictOrder
    <3>2. rank[x] < rank[y] \/ rank[y] < rank[x]
      BY <1>6, <3>1
    <3>. QED
      BY <1>6, <2>1, <3>2
  <2>. QED
    BY <2>1
<1>8. rank \in Surjection(S, 1 .. n)
  <2>1. rank \in Injection(S, 1 .. n)
    BY <1>6, <1>7 DEF Injection, IsInjective
  <2>2. IsFiniteSet(1 .. n) /\ Cardinality(1 .. n) = n
    BY FS_Interval
  <2>. QED
    BY <1>1, <2>1, <2>2, FS_Injection
<1>9. \A i \in 1 .. n : \E x \in S : rank[x] = i
  BY <1>8 DEF Surjection
<1>10. PICK s : s = [i \in 1 .. n |-> CHOOSE x \in S : rank[x] = i]
  OBVIOUS
<1>11. s \in [1 .. n -> S] /\ \A i \in 1 .. n : rank[s[i]] = i
  BY <1>9, <1>10
<1>12. ASSUME NEW i \in 1 .. n, NEW j \in 1 .. n, i < j PROVE <<s[i], s[j]>> \in pairs
  <2>1. s[i] \in S /\ s[j] \in S /\ rank[s[i]] = i /\ rank[s[j]] = j
    BY <1>11
  <2>2. s[i] # s[j]
    BY <1>12, <2>1
  <2>3. <<s[i], s[j]>> \in pairs \/ <<s[j], s[i]>> \in pairs
    BY <2>1, <2>2 DEF StrictOrder
  <2>4. <<s[j], s[i]>> \in pairs => j < i
    BY <1>6, <2>1
  <2>. QED
    BY <1>12, <2>3, <2>4
<1>. QED
  BY <1>1, <1>11, <1>12

\* InOrder lists the members of a set, each once.
LEMMA InOrderLists ==
  ASSUME NEW S, NEW pairs, StrictOrder(S, pairs), NEW s, s = InOrder(S, pairs)
  PROVE  IsListing(S, pairs, s)
<1>1. s \in [1 .. Cardinality(S) -> S] /\ \A i, j \in 1 .. Cardinality(S) : i < j => <<s[i], s[j]>> \in pairs
  BY ListingExists DEF InOrder
<1>2. PICK n \in Nat : n = Cardinality(S) /\ IsFiniteSet(S)
  BY FS_CardinalityType DEF StrictOrder
<1>3. \A i, j \in 1 .. n : s[i] = s[j] => i = j
  <2>1. ASSUME NEW i \in 1 .. n, NEW j \in 1 .. n, i < j PROVE s[i] # s[j]
    BY <1>1, <1>2, <2>1 DEF StrictOrder
  <2>2. ASSUME NEW i \in 1 .. n, NEW j \in 1 .. n, s[i] = s[j], i # j PROVE FALSE
    <3>1. i < j \/ j < i
      BY <2>2
    <3>. QED
      BY <2>1, <2>2, <3>1
  <2>. QED
    BY <2>2
<1>4. s \in Injection(1 .. n, S)
  BY <1>1, <1>2, <1>3 DEF Injection, IsInjective
<1>5. Cardinality(1 .. n) = n
  BY FS_Interval
<1>6. s \in Surjection(1 .. n, S)
  BY <1>2, <1>4, <1>5, FS_Injection
<1>. QED
  BY <1>1, <1>2, <1>6 DEF IsListing, Surjection

\* The first of a listing is before all others.
LEMMA FirstListed ==
  ASSUME NEW S, NEW pairs, NEW s, IsListing(S, pairs, s), s # <<>>
  PROVE  /\ Len(s) = Cardinality(S) /\ Len(s) >= 1 /\ Head(s) \in S
         /\ \A x \in S \ {Head(s)} : <<Head(s), x>> \in pairs
         /\ Len(s) = 1 => S = {Head(s)}
<1>1. PICK n \in Nat : n = Cardinality(S)
  BY DEF IsListing
<1>2. s \in [1 .. n -> S] /\ s \in Seq(S) /\ Len(s) = n
  BY <1>1 DEF IsListing
<1>3. n >= 1 /\ Head(s) = s[1] /\ 1 \in 1 .. n
  BY <1>2
<1>4. ASSUME NEW x \in S, x # s[1] PROVE <<s[1], x>> \in pairs /\ n # 1
  <2>1. PICK i \in 1 .. n : s[i] = x
    BY <1>1 DEF IsListing
  <2>2. 1 < i
    BY <1>4, <2>1
  <2>. QED
    BY <1>1, <1>3, <2>1, <2>2 DEF IsListing
<1>5. s[1] \in S
  BY <1>2, <1>3
<1>. QED
  BY <1>1, <1>2, <1>3, <1>4, <1>5

\* What is listed is nothing only if there is nothing.
LEMMA NothingListed ==
  ASSUME NEW S, NEW pairs, NEW s, IsListing(S, pairs, s)
  PROVE  /\ s \in Seq(S) /\ Len(s) = Cardinality(S)
         /\ s = <<>> => S = {}
<1>1. PICK n \in Nat : n = Cardinality(S)
  BY DEF IsListing
<1>2. s \in [1 .. n -> S] /\ s \in Seq(S) /\ Len(s) = n
  BY <1>1 DEF IsListing
<1>3. ASSUME s = <<>> PROVE S = {}
  <2>1. n = 0
    BY <1>2, <1>3
  <2>. QED
    BY <1>1, <2>1 DEF IsListing
<1>. QED
  BY <1>1, <1>2, <1>3

(***************************************************************************)
(* Rows and distinct values are compared term by term.                     *)
(***************************************************************************)

\* One list of numbers is before another.
TermsBefore(x, y) ==
  \E i \in DOMAIN x \cap DOMAIN y : x[i] < y[i] /\ \A j \in 1 .. (i - 1) : x[j] = y[j]

LEMMA TermsNotBeforeThemselves ==
  ASSUME NEW x \in Seq(Nat) PROVE ~TermsBefore(x, x)
BY DEF TermsBefore

LEMMA TermsTransitive ==
  ASSUME NEW x \in Seq(Nat), NEW y \in Seq(Nat), NEW z \in Seq(Nat), TermsBefore(x, y), TermsBefore(y, z)
  PROVE  TermsBefore(x, z)
<1>1. PICK i \in DOMAIN x \cap DOMAIN y : x[i] < y[i] /\ \A j \in 1 .. (i - 1) : x[j] = y[j]
  BY DEF TermsBefore
<1>2. PICK k \in DOMAIN y \cap DOMAIN z : y[k] < z[k] /\ \A j \in 1 .. (k - 1) : y[j] = z[j]
  BY DEF TermsBefore
<1>3. PICK m : m = IF i <= k THEN i ELSE k
  OBVIOUS
<1>4. i \in Nat /\ k \in Nat /\ i >= 1 /\ k >= 1
  <2>1. i \in 1 .. Len(x) /\ k \in 1 .. Len(y)
    BY LenProperties
  <2>. QED
    BY <2>1, LenProperties, SMTT(20)
<1>5. m \in DOMAIN x \cap DOMAIN z /\ m \in DOMAIN y /\ m \in Nat
  <2>1. PICK a, b, c : a = Len(x) /\ b = Len(y) /\ c = Len(z)
    OBVIOUS
  <2>2. a \in Nat /\ b \in Nat /\ c \in Nat /\ DOMAIN x = 1 .. a /\ DOMAIN y = 1 .. b /\ DOMAIN z = 1 .. c
    BY <2>1, LenProperties
  <2>3. i \in 1 .. a /\ i \in 1 .. b /\ k \in 1 .. b /\ k \in 1 .. c
    BY <2>2
  <2>4. CASE i <= k
    <3>1. m = i /\ i \in 1 .. c
      BY <1>3, <1>4, <2>2, <2>3, <2>4
    <3>. QED
      BY <1>4, <2>2, <2>3, <3>1
  <2>5. CASE k < i
    <3>1. m = k /\ k \in 1 .. a
      BY <1>3, <1>4, <2>2, <2>3, <2>5
    <3>. QED
      BY <1>4, <2>2, <2>3, <3>1
  <2>. QED
    BY <1>4, <2>4, <2>5
<1>6. x[m] < z[m]
  <2>1. x[m] \in Nat /\ y[m] \in Nat /\ z[m] \in Nat
    <3>1. m \in 1 .. Len(x) /\ m \in 1 .. Len(y) /\ m \in 1 .. Len(z)
      BY <1>5, LenProperties
    <3>. QED
      BY <3>1, ElementOfSeq
  <2>2. CASE i < k
    <3>1. m = i /\ i \in 1 .. (k - 1)
      BY <1>3, <1>4, <2>2
    <3>. QED
      BY <1>1, <1>2, <2>1, <3>1
  <2>3. CASE i = k
    BY <1>1, <1>2, <1>3, <2>1, <2>3
  <2>4. CASE k < i
    <3>1. m = k /\ k \in 1 .. (i - 1)
      BY <1>3, <1>4, <2>4
    <3>. QED
      BY <1>1, <1>2, <2>1, <3>1
  <2>. QED
    BY <1>4, <2>2, <2>3, <2>4
<1>7. ASSUME NEW j \in 1 .. (m - 1) PROVE x[j] = z[j]
  <2>1. j \in 1 .. (i - 1) /\ j \in 1 .. (k - 1)
    BY <1>3, <1>4
  <2>. QED
    BY <1>1, <1>2, <2>1
<1>. QED
  BY <1>5, <1>6, <1>7 DEF TermsBefore

\* Of two lists that differ one is before the other, unless it goes on where the other ends.
LEMMA TermsTotal ==
  ASSUME NEW x \in Seq(Nat), NEW y \in Seq(Nat), x # y,
         \/ Len(x) = Len(y)
         \/ Len(x) >= 1 /\ Len(y) >= 1 /\ x[1] # y[1]
  PROVE  TermsBefore(x, y) \/ TermsBefore(y, x)
<1>1. PICK D : D = {i \in DOMAIN x \cap DOMAIN y : x[i] # y[i]}
  OBVIOUS
<1>2. D \in SUBSET Nat /\ D # {}
  <2>1. CASE Len(x) = Len(y)
    <3>1. PICK k \in 1 .. Len(x) : x[k] # y[k]
      BY <2>1, SeqEqual
    <3>2. k \in DOMAIN x /\ k \in DOMAIN y
      BY <2>1, <3>1, LenProperties
    <3>3. k \in D
      BY <1>1, <3>1, <3>2
    <3>4. D \in SUBSET Nat
      BY <1>1, LenProperties, SMTT(20)
    <3>. QED
      BY <3>3, <3>4
  <2>2. CASE Len(x) >= 1 /\ Len(y) >= 1 /\ x[1] # y[1]
    BY <1>1, <2>2
  <2>. QED
    BY <2>1, <2>2
<1>3. PICK i \in D : \A j \in D : i <= j
  BY <1>2, LeastNumber
<1>4. i \in DOMAIN x \cap DOMAIN y /\ x[i] # y[i] /\ i \in Nat /\ x[i] \in Nat /\ y[i] \in Nat
  <2>1. i \in DOMAIN x \cap DOMAIN y /\ x[i] # y[i]
    BY <1>1, <1>3
  <2>2. i \in 1 .. Len(x) /\ i \in 1 .. Len(y)
    BY <2>1, LenProperties
  <2>3. i \in Nat
    BY <2>2, LenProperties
  <2>4. x[i] \in Nat
    BY <2>2, ElementOfSeq
  <2>5. y[i] \in Nat
    BY <2>2, ElementOfSeq
  <2>. QED
    BY <2>1, <2>3, <2>4, <2>5
<1>5. ASSUME NEW j \in 1 .. (i - 1) PROVE x[j] = y[j]
  BY <1>1, <1>3, <1>4, SMTT(20)
<1>6. x[i] < y[i] \/ y[i] < x[i]
  BY <1>4
<1>. QED
  BY <1>4, <1>5, <1>6 DEF TermsBefore

\* The IDs have an order.
LEMMA IdOrderIs ==
  /\ IdOrder \in [Records -> 1 .. Cardinality(Records)]
  /\ \A r, q \in Records : IdOrder[r] = IdOrder[q] => r = q
<1>1. PICK n \in Nat : n = Cardinality(Records) /\ ExistsBijection(1 .. n, Records)
  BY FS_CardinalityType, FieldValuesAssumption
<1>2. PICK f \in Bijection(1 .. n, Records) : TRUE
  BY <1>1 DEF ExistsBijection
<1>3. f \in [1 .. n -> Records] /\ \A r \in Records : \E i \in 1 .. n : f[i] = r
  BY <1>2 DEF Bijection, Surjection
<1>4. PICK g : g = [r \in Records |-> CHOOSE i \in 1 .. n : f[i] = r]
  OBVIOUS
<1>5. g \in [Records -> 1 .. n] /\ \A r \in Records : f[g[r]] = r
  BY <1>3, <1>4
<1>6. IsInjective(g)
  <2>1. DOMAIN g = Records /\ \A r, q \in Records : g[r] = g[q] => r = q
    BY <1>5
  <2>. QED
    BY <2>1 DEF IsInjective
<1>7. IdOrder \in [Records -> 1 .. n] /\ IsInjective(IdOrder)
  BY <1>1, <1>5, <1>6 DEF IdOrder
<1>8. \A r, q \in Records : IdOrder[r] = IdOrder[q] => r = q
  BY <1>7 DEF IsInjective
<1>. QED
  BY <1>1, <1>7, <1>8

\* Rows that can be sorted: one for each Record, and no terms that go on where others end.
Comparable(x, y) ==
  \/ Len(x.terms) = Len(y.terms)
  \/ Len(x.terms) >= 1 /\ Len(y.terms) >= 1 /\ x.terms[1] # y.terms[1]

Sortable(rows) ==
  /\ IsFiniteSet(rows)
  /\ \A x \in rows : x.id \in Records /\ x.terms \in Seq(Nat)
  /\ \A x, y \in rows : (x.id = y.id => x = y) /\ Comparable(x, y)

LEMMA KeysetIs ==
  ASSUME NEW x, NEW y, x.terms \in Seq(Nat), y.terms \in Seq(Nat)
  PROVE  buildKeysetCondition(y, x) <=>
            TermsBefore(x.terms, y.terms) \/ (x.terms = y.terms /\ IdOrder[x.id] < IdOrder[y.id])
<1>1. (\E i \in DOMAIN x.terms \cap DOMAIN y.terms :
          /\ \A j \in 1 .. (i - 1) : y.terms[j] = x.terms[j]
          /\ y.terms[i] > x.terms[i]) <=> TermsBefore(x.terms, y.terms)
  <2>1. ASSUME NEW i \in DOMAIN x.terms \cap DOMAIN y.terms
        PROVE  y.terms[i] > x.terms[i] <=> x.terms[i] < y.terms[i]
    OBVIOUS
  <2>. QED
    BY <2>1 DEF TermsBefore
<1>2. IdOrder[y.id] > IdOrder[x.id] <=> IdOrder[x.id] < IdOrder[y.id]
  OBVIOUS
<1>. QED
  BY <1>1, <1>2 DEF buildKeysetCondition

\* The pairs of rows that the keyset condition puts in order.
KeysetPairs(rows) == {pair \in rows \X rows : buildKeysetCondition(pair[2], pair[1])}

LEMMA KeysetPair ==
  ASSUME NEW rows, Sortable(rows), NEW x \in rows, NEW y \in rows
  PROVE  /\ <<x, y>> \in KeysetPairs(rows) <=> buildKeysetCondition(y, x)
         /\ <<x, y>> \in KeysetPairs(rows) <=>
               TermsBefore(x.terms, y.terms) \/ (x.terms = y.terms /\ IdOrder[x.id] < IdOrder[y.id])
<1>1. <<x, y>> \in rows \X rows /\ <<x, y>>[1] = x /\ <<x, y>>[2] = y
  OBVIOUS
<1>2. <<x, y>> \in KeysetPairs(rows) <=> buildKeysetCondition(y, x)
  BY <1>1 DEF KeysetPairs
<1>. QED
  BY <1>2, KeysetIs DEF Sortable

LEMMA KeysetOrders ==
  ASSUME NEW rows, Sortable(rows)
  PROVE  StrictOrder(rows, KeysetPairs(rows))
<1>1. PICK pairs : pairs = KeysetPairs(rows)
  OBVIOUS
<1>2. ASSUME NEW x \in rows, NEW y \in rows
      PROVE  <<x, y>> \in pairs <=>
                TermsBefore(x.terms, y.terms) \/ (x.terms = y.terms /\ IdOrder[x.id] < IdOrder[y.id])
  BY <1>1, KeysetPair
<1>3. \A x \in rows : x.terms \in Seq(Nat) /\ x.id \in Records /\ IdOrder[x.id] \in Nat
  BY IdOrderIs DEF Sortable
<1>4. ASSUME NEW x \in rows PROVE <<x, x>> \notin pairs
  BY <1>2, <1>3, TermsNotBeforeThemselves
<1>5. ASSUME NEW x \in rows, NEW y \in rows, NEW z \in rows, <<x, y>> \in pairs, <<y, z>> \in pairs
      PROVE  <<x, z>> \in pairs
  <2>1. CASE TermsBefore(x.terms, y.terms) /\ TermsBefore(y.terms, z.terms)
    BY <1>2, <1>3, <2>1, TermsTransitive
  <2>2. CASE TermsBefore(x.terms, y.terms) /\ y.terms = z.terms
    BY <1>2, <2>2
  <2>3. CASE x.terms = y.terms /\ TermsBefore(y.terms, z.terms)
    BY <1>2, <2>3
  <2>4. CASE /\ x.terms = y.terms /\ IdOrder[x.id] < IdOrder[y.id]
             /\ y.terms = z.terms /\ IdOrder[y.id] < IdOrder[z.id]
    BY <1>2, <1>3, <2>4
  <2>. QED
    BY <1>2, <1>5, <2>1, <2>2, <2>3, <2>4
<1>6. ASSUME NEW x \in rows, NEW y \in rows, x # y PROVE <<x, y>> \in pairs \/ <<y, x>> \in pairs
  <2>1. CASE x.terms # y.terms
    <3>1. Comparable(x, y)
      BY DEF Sortable
    <3>2. TermsBefore(x.terms, y.terms) \/ TermsBefore(y.terms, x.terms)
      BY <1>3, <2>1, <3>1, TermsTotal DEF Comparable
    <3>. QED
      BY <1>2, <3>2
  <2>2. CASE x.terms = y.terms
    <3>1. x.id # y.id
      BY <1>6 DEF Sortable
    <3>2. IdOrder[x.id] # IdOrder[y.id]
      BY <1>3, <3>1, IdOrderIs
    <3>. QED
      BY <1>2, <1>3, <2>2, <3>2
  <2>. QED
    BY <2>1, <2>2
<1>. QED
  BY <1>1, <1>4, <1>5, <1>6 DEF StrictOrder, Sortable

(***************************************************************************)
(* The rows of a query.                                                    *)
(***************************************************************************)

\* Texts that the collation compares.
LEMMA Keys ==
  /\ \A t \in WordTexts : t \in Texts
  /\ \A o \in OptionIDs : <<o>> \in Texts
  /\ \A t \in Texts : TextKey(t) \in Nat
  /\ \A t, u \in Texts : TextKey(t) = TextKey(u) => t = u
<1>1. ASSUME NEW t \in WordTexts PROVE t \in Texts
  <2>1. PICK m \in Nat : m = Len(t) /\ t \in [1 .. m -> Words] /\ m <= TextLimit
    BY DEF WordTexts
  <2>2. m \in 0 .. TextLimit
    BY <2>1, FieldValuesAssumption
  <2>3. t \in BoundedSeq(Words, TextLimit)
    BY <2>1, <2>2 DEF BoundedSeq, SeqOf
  <2>. QED
    BY <2>3 DEF Texts
<1>2. ASSUME NEW o \in OptionIDs PROVE <<o>> \in Texts
  BY ListsAre DEF Texts, Lists
<1>. QED
  BY <1>1, <1>2, FieldValuesAssumption

\* What is projected is a value of the type as well.
LEMMA QueryIsValue ==
  ASSUME StoredOK, NEW r \in Records
  PROVE  /\ records[r].query = NoValue \/ ValueOf(field, records[r].query)
         /\ records[r].query \in Value
<1>1. PICK rec, f : rec = records[r] /\ f = field
  OBVIOUS
<1>2. rec \in Record /\ InKeeping(f, rec) /\ f \in Field /\ rec.value \in Value /\ rec.query \in Value
  BY <1>1 DEF StoredOK, Record
<1>3. CASE rec.query # NoValue
  <2>1. rec.query = Projected(f, rec.value)
    BY <1>2, <1>3 DEF InKeeping
  <2>2. rec.value # NoValue
    BY <1>2, <1>3, <2>1, ProjectedIs
  <2>3. ValueOf(f, rec.value)
    BY <1>2, <2>2, ConformsIs DEF InKeeping
  <2>4. CASE f.type = "text"
    <3>1. PICK t \in WordTexts : rec.value = Text(t)
      BY <2>3, <2>4 DEF ValueOf
    <3>2. rec.query = Text(FoldText(rec.value.atoms)) /\ rec.value.atoms = t
      BY <1>2, <2>1, <2>2, <2>4, <3>1, ProjectedIs, TextParts
    <3>3. FoldText(t) \in WordTexts
      BY Folds
    <3>. QED
      BY <1>1, <1>2, <2>4, <3>2, <3>3 DEF ValueOf
  <2>5. CASE f.type # "text"
    BY <1>1, <1>2, <2>1, <2>2, <2>3, <2>5, ProjectedIs
  <2>. QED
    BY <2>4, <2>5
<1>. QED
  BY <1>1, <1>2, <1>3

\* An Option's place among the names is a number.
LEMMA RankIsNumber ==
  ASSUME NEW f \in Field, NEW o PROVE selectOptionRank(f, o) \in Nat
<1>1. IsFiniteSet(DOMAIN f.options)
  BY OptionsAre, FS_Subset, FieldValuesAssumption
<1>2. PICK T : T = {p \in DOMAIN f.options : TextKey(FoldText(f.options[p])) < TextKey(FoldText(f.options[o]))}
  OBVIOUS
<1>3. IsFiniteSet(T)
  BY <1>1, <1>2, FS_Subset
<1>. QED
  BY <1>2, <1>3, FS_CardinalityType DEF selectOptionRank

\* The terms of one type have one length, but for the null bucket.
TermsAre(f, nulls, q, terms) ==
  /\ terms \in Seq(Nat)
  /\ f.type = "multiSelect" => Len(terms) = 0
  /\ f.type # "multiSelect" /\ q = NoValue => Len(terms) = 1 /\ terms[1] = IF nulls = "last" THEN 1 ELSE 0
  /\ f.type # "multiSelect" /\ q # NoValue =>
        /\ Len(terms) = IF f.type = "select" THEN 3 ELSE 2
        /\ terms[1] = IF nulls = "last" THEN 0 ELSE 1

LEMMA SortTerms ==
  ASSUME NEW f \in Field, NEW nulls, NEW q, q = NoValue \/ ValueOf(f, q),
         NEW terms, terms = buildSortTerms(f, nulls, q)
  PROVE  TermsAre(f, nulls, q, terms)
<1>1. PICK null : null = IF (q = NoValue) = (nulls = "last") THEN 1 ELSE 0
  OBVIOUS
<1>2. /\ null \in Nat
      /\ q = NoValue => null = IF nulls = "last" THEN 1 ELSE 0
      /\ q # NoValue => null = IF nulls = "last" THEN 0 ELSE 1
  BY <1>1
<1>3. CASE f.type = "multiSelect"
  <2>1. terms = <<>>
    BY <1>3 DEF buildSortTerms
  <2>. QED
    BY <1>3, <2>1 DEF TermsAre
<1>4. CASE f.type # "multiSelect" /\ q = NoValue
  <2>1. terms = <<null>>
    BY <1>1, <1>4 DEF buildSortTerms
  <2>2. terms \in Seq(Nat) /\ Len(terms) = 1 /\ terms[1] = null
    BY <1>2, <2>1
  <2>3. null = IF nulls = "last" THEN 1 ELSE 0
    BY <1>2, <1>4
  <2>. QED
    BY <1>4, <2>2, <2>3 DEF TermsAre
<1>5. ASSUME NEW n \in Nat, f.type \in {"text", "number", "date"}, q # NoValue, terms = <<null, n>>
      PROVE  TermsAre(f, nulls, q, terms)
  BY <1>2, <1>5 DEF TermsAre
<1>6. CASE f.type = "number" /\ q # NoValue
  <2>1. PICK w \in Numerals : q = Number(w)
    BY <1>6 DEF ValueOf
  <2>2. NumberRank[w] \in Nat /\ q.atoms[1] = w
    BY <2>1, NumberParts, FieldValuesAssumption
  <2>3. terms = <<null, NumberRank[q.atoms[1]]>>
    BY <1>1, <1>6 DEF buildSortTerms
  <2>. QED
    BY <1>5, <1>6, <2>2, <2>3
<1>7. CASE f.type \in {"text", "date"} /\ q # NoValue
  <2>1. TextKey(q.atoms) \in Nat
    <3>1. PICK t \in WordTexts : q = Text(t)
      BY <1>7, OneWord, FieldValuesAssumption DEF ValueOf
    <3>. QED
      BY <3>1, TextParts, Keys
  <2>2. terms = <<null, TextKey(q.atoms)>>
    BY <1>1, <1>7 DEF buildSortTerms
  <2>. QED
    BY <1>5, <1>7, <2>1, <2>2
<1>8. CASE f.type = "select" /\ q # NoValue
  <2>1. PICK o \in DOMAIN f.options : q = Text(<<o>>)
    BY <1>8 DEF ValueOf
  <2>2. q.json = "string" /\ q.atoms = <<o>>
    BY <2>1, TextParts
  <2>3. OneOf(DOMAIN f.options, q)
    BY <2>2 DEF OneOf
  <2>4. PICK n : n = selectOptionRank(f, q.atoms[1])
    OBVIOUS
  <2>5. n \in Nat
    BY <2>4, RankIsNumber
  <2>6. terms = <<null, 0, n>>
    BY <1>1, <1>8, <2>3, <2>4 DEF buildSortTerms
  <2>. QED
    BY <1>2, <1>8, <2>5, <2>6 DEF TermsAre
<1>9. f.type \in FieldTypes
  BY DEF Field
<1>. QED
  BY <1>3, <1>4, <1>6, <1>7, <1>8, <1>9 DEF FieldTypes

\* The rows that the filter admits, on every page.
Chosen == {q \in Active : compileFilterSQL(field.type, reader.filter, records[q].query)}
RowsAll == {Row(field, r) : r \in Chosen}

LEMMA RowIs ==
  ASSUME StoredOK, NEW r \in Records, NEW row, row = Row(field, r)
  PROVE  row.id = r /\ TermsAre(field, reader.nulls, records[r].query, row.terms)
<1>1. row = [id |-> r, terms |-> buildSortTerms(field, reader.nulls, records[r].query)]
  BY DEF Row
<1>2. row.id = r /\ row.terms = buildSortTerms(field, reader.nulls, records[r].query)
  BY <1>1
<1>3. PICK f, q, nulls : f = field /\ q = records[r].query /\ nulls = reader.nulls
  OBVIOUS
<1>4. f \in Field /\ (q = NoValue \/ ValueOf(f, q))
  BY <1>3, QueryIsValue DEF StoredOK
<1>5. TermsAre(f, nulls, q, row.terms)
  BY <1>2, <1>3, <1>4, SortTerms
<1>. QED
  BY <1>2, <1>3, <1>5

LEMMA RowsSortable ==
  ASSUME StoredOK
  PROVE  Sortable(RowsAll) /\ Chosen \subseteq Records
<1>1. Chosen \subseteq Records
  BY DEF Chosen, Active, Used
<1>2. IsFiniteSet(RowsAll)
  <2>1. IsFiniteSet(Chosen)
    BY <1>1, FS_Subset, FieldValuesAssumption
  <2>2. PICK g : g = [r \in Chosen |-> Row(field, r)]
    OBVIOUS
  <2>3. DOMAIN g = Chosen /\ RowsAll = {g[r] : r \in Chosen}
    BY <2>2 DEF RowsAll
  <2>. QED
    BY <2>1, <2>3, ImageFinite
<1>3. ASSUME NEW x \in RowsAll
      PROVE  \E r \in Records : /\ x = Row(field, r) /\ x.id = r
                                /\ TermsAre(field, reader.nulls, records[r].query, x.terms)
  BY <1>1, <1>3, RowIs DEF RowsAll
<1>4. ASSUME NEW x \in RowsAll PROVE x.id \in Records /\ x.terms \in Seq(Nat)
  BY <1>3, <1>4 DEF TermsAre
<1>5. ASSUME NEW x \in RowsAll, NEW y \in RowsAll PROVE (x.id = y.id => x = y) /\ Comparable(x, y)
  <2>1. PICK r \in Records : /\ x = Row(field, r) /\ x.id = r
                             /\ TermsAre(field, reader.nulls, records[r].query, x.terms)
    BY <1>3
  <2>2. PICK q \in Records : /\ y = Row(field, q) /\ y.id = q
                             /\ TermsAre(field, reader.nulls, records[q].query, y.terms)
    BY <1>3
  <2>3. Comparable(x, y)
    BY <2>1, <2>2 DEF TermsAre, Comparable
  <2>. QED
    BY <2>1, <2>2, <2>3
<1>. QED
  BY <1>1, <1>2, <1>4, <1>5 DEF Sortable

LEMMA SortableSubset ==
  ASSUME NEW all, Sortable(all), NEW rows \in SUBSET all PROVE Sortable(rows)
BY FS_Subset DEF Sortable

\* Pages so far: rows in order, and every other row behind the last one.
Covers(all, listed) == \A row \in all : \E i \in 1 .. Len(listed) : listed[i] = row

Sweep(all, listed) ==
  /\ listed \in Seq(all)
  /\ \A i, j \in 1 .. Len(listed) : i < j => buildKeysetCondition(listed[j], listed[i])
  /\ listed # <<>> => \A row \in all : \/ \E i \in 1 .. Len(listed) : listed[i] = row
                                       \/ buildKeysetCondition(row, Last(listed))

Behind(all, listed) == {row \in all : listed = <<>> \/ buildKeysetCondition(row, Last(listed))}

LEMMA SweepEnds ==
  ASSUME NEW all, Sortable(all), NEW listed, Sweep(all, listed), Behind(all, listed) = {}
  PROVE  Covers(all, listed)
<1>1. CASE listed = <<>>
  BY <1>1 DEF Covers, Behind
<1>2. CASE listed # <<>>
  BY <1>2 DEF Covers, Behind, Sweep
<1>. QED
  BY <1>1, <1>2

\* The first of the rows behind continues the pages.
LEMMA SweepGoesOn ==
  ASSUME NEW all, Sortable(all), NEW listed, Sweep(all, listed),
         NEW h \in Behind(all, listed),
         \A row \in Behind(all, listed) \ {h} : buildKeysetCondition(row, h),
         NEW next, next = Append(listed, h)
  PROVE  /\ Sweep(all, next) /\ next # <<>>
         /\ Behind(all, listed) = {h} => Covers(all, next)
<1>1. listed \in Seq(all) /\ h \in all
  BY DEF Sweep, Behind
<1>2. PICK n \in Nat : n = Len(listed)
  BY <1>1
<1>3. /\ next \in Seq(all) /\ Len(next) = n + 1 /\ next[n + 1] = h /\ Last(next) = h /\ next # <<>>
      /\ \A i \in 1 .. n : next[i] = listed[i]
  BY <1>1, <1>2 DEF Last
<1>4. listed # <<>> => n >= 1 /\ Last(listed) = listed[n] /\ n \in 1 .. n
  BY <1>1, <1>2 DEF Last
<1>5. ASSUME NEW i \in 1 .. n PROVE buildKeysetCondition(h, listed[i])
  <2>1. listed # <<>> /\ listed[n] \in all /\ listed[i] \in all
    BY <1>1, <1>2
  <2>2. buildKeysetCondition(h, listed[n])
    BY <1>4, <2>1 DEF Behind
  <2>3. CASE i = n
    BY <2>2, <2>3
  <2>4. CASE i # n
    <3>1. buildKeysetCondition(listed[n], listed[i])
      BY <1>2, <1>4, <2>1, <2>4 DEF Sweep
    <3>2. /\ <<listed[i], listed[n]>> \in KeysetPairs(all) /\ <<listed[n], h>> \in KeysetPairs(all)
      BY <1>1, <2>1, <2>2, <3>1, KeysetPair
    <3>3. <<listed[i], h>> \in KeysetPairs(all)
      BY <1>1, <2>1, <3>2, KeysetOrders DEF StrictOrder
    <3>. QED
      BY <1>1, <2>1, <3>3, KeysetPair
  <2>. QED
    BY <2>3, <2>4
<1>6. ASSUME NEW i \in 1 .. n + 1, NEW j \in 1 .. n + 1, i < j PROVE buildKeysetCondition(next[j], next[i])
  <2>1. i \in 1 .. n
    BY <1>6
  <2>2. CASE j = n + 1
    BY <1>3, <1>5, <2>1, <2>2
  <2>3. CASE j # n + 1
    <3>1. j \in 1 .. n
      BY <2>3
    <3>. QED
      BY <1>2, <1>3, <1>6, <2>1, <3>1 DEF Sweep
  <2>. QED
    BY <2>2, <2>3
<1>7. ASSUME NEW row \in all
      PROVE  (\E i \in 1 .. n + 1 : next[i] = row) \/ (row \in Behind(all, listed) \ {h})
  <2>1. CASE row = h
    BY <1>3, <2>1
  <2>2. CASE row # h /\ row \notin Behind(all, listed)
    <3>1. listed # <<>> /\ ~buildKeysetCondition(row, Last(listed))
      BY <2>2 DEF Behind
    <3>2. PICK i \in 1 .. n : listed[i] = row
      BY <1>2, <3>1 DEF Sweep
    <3>. QED
      BY <1>3, <3>2
  <2>. QED
    BY <2>1, <2>2
<1>8. \A row \in all : (\E i \in 1 .. Len(next) : next[i] = row) \/ buildKeysetCondition(row, Last(next))
  BY <1>3, <1>7
<1>9. Sweep(all, next)
  BY <1>3, <1>6, <1>8 DEF Sweep
<1>10. Behind(all, listed) = {h} => Covers(all, next)
  BY <1>3, <1>7 DEF Covers
<1>. QED
  BY <1>3, <1>9, <1>10

\* One page: what it makes of the pages so far.
LEMMA SweepPage ==
  ASSUME NEW all, Sortable(all), NEW listed, Sweep(all, listed),
         NEW s, s = InOrder(Behind(all, listed), KeysetPairs(Behind(all, listed))),
         NEW next, next = listed \o IF s = <<>> THEN <<>> ELSE <<Head(s)>>
  PROVE  /\ Sweep(all, next)
         /\ Len(s) \in Nat /\ (Len(s) <= 1 => Covers(all, next))
         /\ listed = <<>> => Len(s) = Cardinality(all)
         /\ next = <<>> => listed = <<>>
<1>1. PICK rows : rows = Behind(all, listed)
  OBVIOUS
<1>2. rows \in SUBSET all /\ Sortable(rows)
  BY <1>1, SortableSubset DEF Behind
<1>3. IsListing(rows, KeysetPairs(rows), s)
  BY <1>1, <1>2, KeysetOrders, InOrderLists
<1>4. s \in Seq(rows) /\ Len(s) = Cardinality(rows) /\ Len(s) \in Nat /\ (s = <<>> => rows = {})
  BY <1>3, NothingListed
<1>5. listed \in Seq(all)
  BY DEF Sweep
<1>6. listed = <<>> => rows = all
  BY <1>1 DEF Behind
<1>7. CASE s = <<>>
  <2>1. next = listed
    BY <1>5, <1>7
  <2>2. Covers(all, listed)
    BY <1>1, <1>4, <1>7, SweepEnds
  <2>. QED
    BY <1>4, <1>6, <2>1, <2>2
<1>8. CASE s # <<>>
  <2>1. PICK h : h = Head(s)
    OBVIOUS
  <2>2. /\ h \in rows /\ Len(s) >= 1 /\ (Len(s) = 1 => rows = {h})
        /\ \A x \in rows \ {h} : <<h, x>> \in KeysetPairs(rows)
    BY <1>3, <1>8, <2>1, FirstListed
  <2>3. \A x \in rows \ {h} : buildKeysetCondition(x, h)
    BY <1>2, <2>2, KeysetPair
  <2>4. next = Append(listed, h)
    BY <1>5, <1>8, <2>1
  <2>5. Sweep(all, next) /\ next # <<>> /\ (rows = {h} => Covers(all, next))
    BY <1>1, <2>2, <2>3, <2>4, SweepGoesOn
  <2>. QED
    BY <1>4, <1>6, <2>2, <2>5
<1>. QED
  BY <1>7, <1>8

\* Pages that cover all rows hold each once.
LEMMA SweepDone ==
  ASSUME NEW all, Sortable(all), NEW listed, Sweep(all, listed), Covers(all, listed)
  PROVE  /\ Len(listed) = Cardinality(all) /\ listed \in Seq(all)
         /\ \A i, j \in 1 .. Len(listed) : listed[i] = listed[j] => i = j
<1>1. PICK n \in Nat : n = Len(listed) /\ listed \in [1 .. n -> all] /\ listed \in Seq(all)
  BY DEF Sweep
<1>2. ASSUME NEW i \in 1 .. n, NEW j \in 1 .. n, i < j PROVE listed[i] # listed[j]
  <2>1. buildKeysetCondition(listed[j], listed[i]) /\ listed[i] \in all /\ listed[j] \in all
    BY <1>1, <1>2 DEF Sweep
  <2>2. <<listed[i], listed[j]>> \in KeysetPairs(all)
    BY <2>1, KeysetPair
  <2>. QED
    BY <2>1, <2>2, KeysetOrders DEF StrictOrder
<1>3. \A i, j \in 1 .. n : listed[i] = listed[j] => i = j
  <2>1. ASSUME NEW i \in 1 .. n, NEW j \in 1 .. n, listed[i] = listed[j], i # j PROVE FALSE
    <3>1. i < j \/ j < i
      BY <2>1
    <3>. QED
      BY <1>2, <2>1, <3>1
  <2>. QED
    BY <2>1
<1>4. listed \in Injection(1 .. n, all) /\ listed \in Surjection(1 .. n, all)
  BY <1>1, <1>3 DEF Covers, Injection, Surjection, IsInjective
<1>5. IsFiniteSet(all)
  BY DEF Sortable
<1>6. Cardinality(1 .. n) = n
  BY FS_Interval
<1>7. Cardinality(1 .. n) = Cardinality(all)
  BY <1>4, <1>5, FS_Injection
<1>. QED
  BY <1>1, <1>3, <1>6, <1>7

(***************************************************************************)
(* Filters.                                                                *)
(***************************************************************************)

\* Read as text, two values that are not lists are equal when their texts are.
LEMMA AsTextIs ==
  ASSUME NEW f \in Field, NEW q \in Value, ValueOf(f, q), f.type # "multiSelect"
  PROVE  AsText(q) = Text(q.atoms)
<1>1. q.json # "list"
  BY TextParts, NumberParts DEF ValueOf
<1>2. AsText(q) = [q EXCEPT !.json = "string"]
  BY <1>1 DEF AsText
<1>. QED
  BY <1>2 DEF Value, Text

LEMMA FoldsToNothing ==
  ASSUME NEW t \in WordTexts PROVE FoldText(t) = <<>> <=> t = <<>>
<1>1. PICK n \in Nat : n = Len(t) /\ t \in [1 .. n -> Words]
  BY DEF WordTexts
<1>2. FoldText(t) \in WordTexts /\ DOMAIN FoldText(t) = 1 .. n
  <2>1. DOMAIN t = 1 .. n
    BY <1>1
  <2>. QED
    BY <2>1, Folds DEF FoldText
<1>3. FoldText(t) = <<>> => n = 0
  <2>1. SUFFICES ASSUME FoldText(t) = <<>>, n # 0 PROVE FALSE
    OBVIOUS
  <2>2. 1 \in DOMAIN FoldText(t)
    BY <1>2, <2>1
  <2>. QED
    BY <2>1, <2>2
<1>4. n = 0 => t = <<>> /\ FoldText(t) = <<>>
  <2>1. ASSUME n = 0 PROVE t = <<>>
    BY <1>1, <2>1
  <2>2. ASSUME n = 0 PROVE FoldText(t) = <<>>
    <3>1. FoldText(t) \in Seq(Words) /\ DOMAIN FoldText(t) = 1 .. 0
      BY <1>2, <2>2 DEF WordTexts
    <3>. QED
      BY <3>1
  <2>. QED
    BY <2>1, <2>2
<1>. QED
  BY <1>1, <1>3, <1>4

\* A Record whose projection was not lost has the query value of its value.
LEMMA QueryIsProjected ==
  ASSUME StoredOK, NEW r \in Records, (records[r].query = NoValue) <=> (records[r].value = NoValue),
         NEW q, q = records[r].query, NEW v, v = records[r].value
  PROVE  /\ q = NoValue <=> v = NoValue
         /\ v # NoValue => ValueOf(field, v) /\ ValueOf(field, q)
         /\ v # NoValue /\ field.type = "text" => q.atoms = FoldText(v.atoms)
         /\ v # NoValue /\ field.type # "text" => q = v
<1>1. PICK f, rec : f = field /\ rec = records[r]
  OBVIOUS
<1>2. f \in Field /\ rec \in Record /\ InKeeping(f, rec) /\ v \in Value
  BY <1>1 DEF StoredOK, Record
<1>3. ASSUME v # NoValue PROVE q = Projected(f, v) /\ ValueOf(f, v) /\ ValueOf(f, q)
  <2>1. q # NoValue
    BY <1>3
  <2>2. q = Projected(f, v)
    BY <1>1, <1>2, <2>1 DEF InKeeping
  <2>3. ValueOf(f, v)
    BY <1>1, <1>2, <1>3, ConformsIs DEF InKeeping
  <2>4. ValueOf(f, q)
    BY <1>1, <2>1, QueryIsValue
  <2>. QED
    BY <2>2, <2>3, <2>4
<1>4. v # NoValue /\ f.type = "text" => q.atoms = FoldText(v.atoms)
  BY <1>2, <1>3, ProjectedIs, TextParts
<1>5. v # NoValue /\ f.type # "text" => q = v
  BY <1>2, <1>3, ProjectedIs
<1>. QED
  BY <1>1, <1>3, <1>4, <1>5

\* What the database compares is what the Filter means.
LEMMA FilterMeans ==
  ASSUME StoredOK, NEW r \in Records, (records[r].query = NoValue) <=> (records[r].value = NoValue),
         NEW filter \in validateFilterRule(field)
  PROVE  compileFilterSQL(field.type, filter, records[r].query) <=> Means(filter, records[r].value)
<1>1. PICK q, v, type : q = records[r].query /\ v = records[r].value /\ type = field.type
  OBVIOUS
<1>2. /\ q = NoValue <=> v = NoValue
      /\ v # NoValue => ValueOf(field, v) /\ ValueOf(field, q)
      /\ v # NoValue /\ type = "text" => q.atoms = FoldText(v.atoms)
      /\ v # NoValue /\ type # "text" => q = v
  BY <1>1, QueryIsProjected
<1>3. q \in Value /\ field \in Field
  BY <1>1, QueryIsValue DEF StoredOK
<1>4. CASE filter = [op |-> "all"]
  <2>1. filter.op = "all"
    BY <1>4
  <2>. QED
    BY <2>1 DEF compileFilterSQL, Means
<1>5. CASE filter = [op |-> "isEmpty"]
  <2>1. filter.op = "isEmpty"
    BY <1>5
  <2>2. compileFilterSQL(type, filter, q) <=> IsEmpty(type, q)
    BY <2>1 DEF compileFilterSQL
  <2>3. Means(filter, v) <=> IsEmpty(type, v)
    BY <1>1, <2>1 DEF Means
  <2>4. CASE v = NoValue
    BY <1>1, <1>2, <2>2, <2>3, <2>4
  <2>5. CASE v # NoValue /\ type # "text"
    BY <1>1, <1>2, <2>2, <2>3, <2>5
  <2>6. CASE v # NoValue /\ type = "text"
    <3>1. PICK t \in WordTexts : v = Text(t)
      BY <1>1, <1>2, <2>6 DEF ValueOf
    <3>2. PICK u \in WordTexts : q = Text(u)
      BY <1>1, <1>2, <2>6 DEF ValueOf
    <3>3. u = FoldText(t)
      BY <1>2, <2>6, <3>1, <3>2, TextParts
    <3>4. IsEmpty(type, q) <=> u = <<>>
      BY <1>2, <2>6, <3>2, TextParts DEF IsEmpty
    <3>5. IsEmpty(type, v) <=> t = <<>>
      BY <2>6, <3>1, TextParts DEF IsEmpty
    <3>. QED
      BY <1>1, <2>2, <2>3, <3>3, <3>4, <3>5, FoldsToNothing
  <2>. QED
    BY <2>4, <2>5, <2>6
<1>6. CASE filter # [op |-> "all"] /\ filter # [op |-> "isEmpty"]
  <2>1. PICK x \in Used : /\ Len(records[x].query.atoms) = 1
                          /\ filter = [op |-> IF field.type = "multiSelect" THEN "includes" ELSE "is",
                                       value |-> records[x].query]
    BY <1>6 DEF validateFilterRule
  <2>2. PICK w : w = records[x].query
    OBVIOUS
  <2>3. filter.op = (IF type = "multiSelect" THEN "includes" ELSE "is") /\ filter.value = w
    BY <1>1, <2>1, <2>2
  <2>4. w \in Value /\ ValueOf(field, w)
    <3>1. w \in Value /\ (w = NoValue \/ ValueOf(field, w))
      BY <2>2, QueryIsValue DEF Used
    <3>2. w # NoValue
      <4>1. Len(w.atoms) = 1
        BY <2>1, <2>2
      <4>2. Len(NoValue.atoms) = 0
        BY DEF NoValue
      <4>. QED
        BY <4>1, <4>2
    <3>. QED
      BY <3>1, <3>2
  <2>5. CASE type = "multiSelect"
    <3>1. compileFilterSQL(type, filter, q) <=> q # NoValue /\ w.atoms[1] \in ToSet(q.atoms)
      BY <2>3, <2>5 DEF compileFilterSQL
    <3>2. Means(filter, v) <=> w.atoms[1] \in ToSet(v.atoms)
      BY <2>3, <2>5 DEF Means
    <3>3. CASE v = NoValue
      <4>1. ToSet(v.atoms) = {}
        BY <3>3 DEF NoValue, ToSet
      <4>. QED
        BY <1>1, <1>2, <3>1, <3>2, <3>3, <4>1
    <3>4. CASE v # NoValue
      BY <1>1, <1>2, <2>5, <3>1, <3>2, <3>4
    <3>. QED
      BY <3>3, <3>4
  <2>6. CASE type # "multiSelect"
    <3>1. compileFilterSQL(type, filter, q) <=> q # NoValue /\ AsText(q) = AsText(w)
      BY <2>3, <2>6 DEF compileFilterSQL
    <3>2. PICK text : text = IF field.type = "text" THEN FoldText(v.atoms) ELSE v.atoms
      OBVIOUS
    <3>3. Means(filter, v) <=> v # NoValue /\ text = w.atoms
      BY <2>3, <2>6, <3>2 DEF Means
    <3>4. CASE v = NoValue
      BY <1>1, <1>2, <3>1, <3>3, <3>4
    <3>5. CASE v # NoValue
      <4>1. AsText(q) = Text(q.atoms) /\ AsText(w) = Text(w.atoms)
        BY <1>1, <1>2, <1>3, <2>4, <2>6, <3>5, AsTextIs
      <4>2. AsText(q) = AsText(w) <=> q.atoms = w.atoms
        BY <4>1, TextParts
      <4>3. text = q.atoms
        BY <1>1, <1>2, <3>2, <3>5
      <4>. QED
        BY <1>1, <1>2, <3>1, <3>3, <3>5, <4>2, <4>3
    <3>. QED
      BY <3>4, <3>5
  <2>. QED
    BY <2>5, <2>6
<1>. QED
  BY <1>4, <1>5, <1>6

(***************************************************************************)
(* Readings of a query.                                                    *)
(***************************************************************************)

\* The pages of a query so far, while nothing is written.
QueryOK ==
  /\ reader.filter \in validateFilterRule(field)
  /\ Sweep(RowsAll, reader.listed)
  /\ reader.listed # <<>> \/ reader.at = "done" => reader.total = Cardinality(RowsAll)
  /\ reader.at = "done" => Covers(RowsAll, reader.listed)

\* A page that is read changes the place of the reader, its rows and its total.
LEMMA PageRead ==
  ASSUME ReaderForm, ReadPage, reader'.at # "idle"
  PROVE  /\ UNCHANGED <<field, records>>
         /\ reader'.kind = reader.kind /\ reader'.nulls = reader.nulls /\ reader'.filter = reader.filter
         /\ reader'.field = reader.field /\ reader'.calm = reader.calm
         /\ reader'.at = IF Len(Remaining) > 1 THEN "paging" ELSE "done"
         /\ reader'.total = IF reader.listed = <<>> THEN Len(Remaining) ELSE reader.total
         /\ reader'.listed = reader.listed \o IF Remaining = <<>> THEN <<>> ELSE <<Head(Remaining)>>
<1>1. reader # Idle
  BY DEF ReadPage, Idle
<1>2. PICK at, total, listed :
         /\ at = IF Len(Remaining) > 1 THEN "paging" ELSE "done"
         /\ total = IF reader.listed = <<>> THEN Len(Remaining) ELSE reader.total
         /\ listed = reader.listed \o IF Remaining = <<>> THEN <<>> ELSE <<Head(Remaining)>>
  OBVIOUS
<1>3. ~PageFails(reader.field)
  BY DEF ReadPage, Idle
<1>4. reader' = [reader EXCEPT !.at = at, !.total = total, !.listed = listed]
  BY <1>2, <1>3 DEF ReadPage
<1>5. /\ reader'.kind = reader.kind /\ reader'.nulls = reader.nulls /\ reader'.filter = reader.filter
      /\ reader'.field = reader.field /\ reader'.calm = reader.calm
      /\ reader'.at = at /\ reader'.total = total /\ reader'.listed = listed
  BY <1>1, <1>4 DEF ReaderForm
<1>. QED
  BY <1>2, <1>5 DEF ReadPage

LEMMA SameRows ==
  ASSUME UNCHANGED <<field, records>>, reader'.nulls = reader.nulls, reader'.filter = reader.filter
  PROVE  RowsAll' = RowsAll /\ validateFilterRule(field)' = validateFilterRule(field)
BY DEF RowsAll, Chosen, Active, Used, Row, validateFilterRule

LEMMA RemainingRows ==
  ASSUME reader.kind = "query", reader.field = field
  PROVE  Remaining = InOrder(Behind(RowsAll, reader.listed), KeysetPairs(Behind(RowsAll, reader.listed)))
BY DEF Remaining, QueryRecords, RowsAll, Chosen, Behind, KeysetPairs

LEMMA QueryPage ==
  ASSUME StoredOK, ReaderForm, ReadPage, reader'.at # "idle", reader.kind = "query", reader.field = field, QueryOK
  PROVE  QueryOK'
<1>1. PICK all, listed, s, next :
         /\ all = RowsAll /\ listed = reader.listed /\ s = Remaining
         /\ next = listed \o IF s = <<>> THEN <<>> ELSE <<Head(s)>>
  OBVIOUS
<1>2. /\ Sortable(all) /\ Sweep(all, listed)
      /\ s = InOrder(Behind(all, listed), KeysetPairs(Behind(all, listed)))
  BY <1>1, RowsSortable, RemainingRows DEF QueryOK
<1>3. /\ Sweep(all, next)
      /\ Len(s) \in Nat /\ (Len(s) <= 1 => Covers(all, next))
      /\ listed = <<>> => Len(s) = Cardinality(all)
      /\ next = <<>> => listed = <<>>
  BY <1>1, <1>2, SweepPage
<1>4. /\ UNCHANGED <<field, records>> /\ reader'.nulls = reader.nulls /\ reader'.filter = reader.filter
      /\ reader'.listed = next /\ reader'.at = IF Len(s) > 1 THEN "paging" ELSE "done"
      /\ reader'.total = IF listed = <<>> THEN Len(s) ELSE reader.total
  BY <1>1, PageRead
<1>5. RowsAll' = all /\ validateFilterRule(field)' = validateFilterRule(field)
  BY <1>1, <1>4, SameRows
<1>6. reader'.filter \in validateFilterRule(field)'
  BY <1>4, <1>5 DEF QueryOK
<1>7. reader'.total = Cardinality(all)
  BY <1>1, <1>3, <1>4 DEF QueryOK
<1>8. reader'.at = "done" => Covers(all, next)
  BY <1>3, <1>4
<1>. QED
  BY <1>3, <1>4, <1>5, <1>6, <1>7, <1>8 DEF QueryOK

\* The pages hold a row of each Record that the Filter means, and no other.
LEMMA QueryComplete ==
  ASSUME StoredOK, QueryOK, reader.at = "done"
  PROVE  /\ Len(reader.listed) = reader.total
         /\ \A r \in Active : (records[r].query = NoValue) = (records[r].value = NoValue) =>
             Cardinality({i \in DOMAIN reader.listed : reader.listed[i].id = r}) =
                 IF Means(reader.filter, records[r].value) THEN 1 ELSE 0
<1>1. PICK all, listed : all = RowsAll /\ listed = reader.listed
  OBVIOUS
<1>2. Sortable(all) /\ Sweep(all, listed) /\ Covers(all, listed) /\ reader.total = Cardinality(all)
  BY <1>1, RowsSortable DEF QueryOK
<1>3. /\ Len(listed) = Cardinality(all) /\ listed \in Seq(all)
      /\ \A i, j \in 1 .. Len(listed) : listed[i] = listed[j] => i = j
  BY <1>2, SweepDone
<1>4. ASSUME NEW r \in Active, (records[r].query = NoValue) <=> (records[r].value = NoValue)
      PROVE  Cardinality({i \in DOMAIN listed : listed[i].id = r}) =
                IF Means(reader.filter, records[r].value) THEN 1 ELSE 0
  <2>1. r \in Records
    BY DEF Active, Used
  <2>2. r \in Chosen <=> Means(reader.filter, records[r].value)
    BY <1>4, <2>1, FilterMeans DEF QueryOK, Chosen
  <2>3. PICK at : at = {i \in DOMAIN listed : listed[i].id = r}
    OBVIOUS
  <2>4. DOMAIN listed = 1 .. Len(listed) /\ \A i \in 1 .. Len(listed) : listed[i] \in all
    BY <1>3
  <2>5. \A x \in all : \E q \in Chosen : q \in Records /\ x = Row(field, q) /\ x.id = q
    BY <1>1, RowsSortable, RowIs DEF RowsAll
  <2>6. CASE r \in Chosen
    <3>1. PICK row : row = Row(field, r)
      OBVIOUS
    <3>2. row \in all /\ row.id = r
      BY <1>1, <2>1, <2>6, <3>1, RowIs DEF RowsAll
    <3>3. PICK k \in 1 .. Len(listed) : listed[k] = row
      BY <1>2, <3>2 DEF Covers
    <3>4. ASSUME NEW i \in 1 .. Len(listed), listed[i].id = r PROVE i = k
      <4>1. listed[i] \in all /\ listed[i].id = row.id
        BY <2>4, <3>2, <3>4
      <4>2. listed[i] = row
        BY <1>2, <3>2, <4>1 DEF Sortable
      <4>. QED
        BY <1>3, <3>3, <4>2
    <3>5. at = {k}
      BY <2>3, <2>4, <3>2, <3>3, <3>4
    <3>6. Cardinality(at) = 1
      BY <3>5, FS_Singleton
    <3>. QED
      BY <2>2, <2>3, <2>6, <3>6
  <2>7. CASE r \notin Chosen
    <3>1. at = {}
      BY <2>3, <2>4, <2>5, <2>7
    <3>2. Cardinality(at) = 0
      BY <3>1, FS_EmptySet
    <3>. QED
      BY <2>2, <2>3, <2>7, <3>2
  <2>. QED
    BY <2>6, <2>7
<1>. QED
  BY <1>1, <1>2, <1>3, <1>4

(***************************************************************************)
(* Readings of the distinct values.                                        *)
(***************************************************************************)

\* The values in use are texts, or Options that are compared as texts.
LEMMA DistinctsAreTexts ==
  ASSUME StoredOK, field.type # "number", NEW q \in StoredDistinct(field)
  PROVE  \E t \in Texts : q = Text(t)
<1>1. field \in Field /\ field.type \in FieldTypes
  BY DEF StoredOK, Field
<1>2. ASSUME NEW r \in Used, ~IsEmpty(field.type, records[r].query) PROVE ValueOf(field, records[r].query)
  BY <1>2, QueryIsValue DEF IsEmpty, Used
<1>3. CASE field.type = "multiSelect"
  <2>1. PICK r, o : /\ r \in Used /\ ~IsEmpty(field.type, records[r].query)
                    /\ o \in ToSet(records[r].query.atoms) /\ q = Text(<<o>>)
    BY <1>3 DEF StoredDistinct, Active
  <2>2. PICK ids \in Lists(DOMAIN field.options) : records[r].query = List(ids)
    BY <1>2, <1>3, <2>1 DEF ValueOf
  <2>3. ids \in Seq(DOMAIN field.options) /\ records[r].query.atoms = ids
    BY <2>2, ListsAre, ListParts
  <2>4. o \in DOMAIN field.options
    BY <2>1, <2>3 DEF ToSet
  <2>. QED
    BY <1>1, <2>1, <2>4, OptionsAre, Keys
<1>4. CASE field.type # "multiSelect"
  <2>1. PICK r \in Used : q = records[r].query /\ ~IsEmpty(field.type, records[r].query)
    BY <1>4 DEF StoredDistinct, Active
  <2>2. ValueOf(field, q)
    BY <1>2, <2>1
  <2>3. (\E t \in WordTexts : q = Text(t)) \/ (\E o \in OptionIDs : q = Text(<<o>>))
    BY <1>1, <1>4, <2>2, OneWord, OptionsAre, FieldValuesAssumption DEF ValueOf
  <2>. QED
    BY <2>3, Keys
<1>. QED
  BY <1>3, <1>4

LEMMA DistinctsFinite ==
  ASSUME StoredOK PROVE IsFiniteSet(StoredDistinct(field))
<1>1. PICK rs : rs = {r \in Active : ~IsEmpty(field.type, records[r].query)}
  OBVIOUS
<1>2. IsFiniteSet(rs)
  BY <1>1, FS_Subset, FieldValuesAssumption DEF Active, Used
<1>3. PICK in : in = {records[r].query : r \in rs}
  OBVIOUS
<1>4. CASE field.type # "multiSelect"
  <2>1. PICK g : g = [r \in rs |-> records[r].query]
    OBVIOUS
  <2>2. DOMAIN g = rs /\ in = {g[r] : r \in rs}
    BY <1>3, <2>1
  <2>3. IsFiniteSet(in)
    BY <1>2, <2>2, ImageFinite
  <2>4. StoredDistinct(field) = in
    BY <1>1, <1>3, <1>4 DEF StoredDistinct
  <2>. QED
    BY <2>3, <2>4
<1>5. CASE field.type = "multiSelect"
  <2>1. PICK ids : ids = UNION {ToSet(q.atoms) : q \in in}
    OBVIOUS
  <2>2. ids \in SUBSET OptionIDs
    <3>1. ASSUME NEW r \in rs PROVE ToSet(records[r].query.atoms) \subseteq OptionIDs
      <4>1. r \in Records /\ field \in Field /\ records[r].query # NoValue
        BY <1>1 DEF Active, Used, IsEmpty, StoredOK
      <4>2. ValueOf(field, records[r].query)
        BY <4>1, QueryIsValue
      <4>3. PICK list \in Lists(DOMAIN field.options) : records[r].query = List(list)
        BY <1>5, <4>2 DEF ValueOf
      <4>4. list \in Seq(DOMAIN field.options) /\ records[r].query.atoms = list
        BY <4>3, ListsAre, ListParts
      <4>. QED
        BY <4>1, <4>4, OptionsAre DEF ToSet
    <3>. QED
      BY <1>3, <2>1, <3>1
  <2>3. IsFiniteSet(ids)
    BY <2>2, FS_Subset, FieldValuesAssumption
  <2>4. PICK g : g = [o \in ids |-> Text(<<o>>)]
    OBVIOUS
  <2>5. StoredDistinct(field) = {Text(<<o>>) : o \in ids}
    BY <1>1, <1>3, <1>5, <2>1 DEF StoredDistinct
  <2>6. DOMAIN g = ids /\ StoredDistinct(field) = {g[o] : o \in ids}
    BY <2>4, <2>5
  <2>. QED
    BY <2>3, <2>6, ImageFinite
<1>. QED
  BY <1>4, <1>5

\* What a distinct value is ordered by ends with its text.
LEMMA DistinctKeys ==
  ASSUME NEW f \in Field, f.type # "number", NEW t \in Texts, NEW key, key = DistinctKey(f, Text(t))
  PROVE  /\ key \in Seq(Nat) /\ Len(key) = 3 /\ key[3] = TextKey(t)
         /\ f.type \in {"text", "date"} => key[1] = 1 /\ key[2] = 0
<1>1. PICK q : q = Text(t)
  OBVIOUS
<1>2. q.atoms = t /\ TextKey(t) \in Nat
  BY <1>1, TextParts, Keys
<1>3. PICK n : n = selectOptionRank(f, q.atoms[1])
  OBVIOUS
<1>4. n \in Nat
  BY <1>3, RankIsNumber
<1>5. CASE f.type \in {"select", "multiSelect"} /\ OneOf(DOMAIN f.options, q)
  <2>1. key = <<0, n, TextKey(t)>>
    BY <1>1, <1>2, <1>3, <1>5 DEF DistinctKey
  <2>. QED
    BY <1>2, <1>4, <1>5, <2>1
<1>6. CASE ~(f.type \in {"select", "multiSelect"} /\ OneOf(DOMAIN f.options, q))
  <2>1. key = <<1, 0, TextKey(t)>>
    BY <1>1, <1>2, <1>6 DEF DistinctKey
  <2>. QED
    BY <1>2, <2>1
<1>. QED
  BY <1>5, <1>6

DistinctPairs(f) ==
  {pair \in StoredDistinct(f) \X StoredDistinct(f) : KeyBefore(DistinctKey(f, pair[1]), DistinctKey(f, pair[2]))}

LEMMA KeyBeforeIs ==
  ASSUME NEW x \in Seq(Nat), NEW y \in Seq(Nat), Len(x) = 3, Len(y) = 3
  PROVE  KeyBefore(x, y) <=> TermsBefore(x, y)
<1>1. DOMAIN x \cap DOMAIN y = 1 .. 3
  OBVIOUS
<1>. QED
  BY <1>1 DEF KeyBefore, TermsBefore

LEMMA DistinctPair ==
  ASSUME StoredOK, field.type # "number", NEW x \in StoredDistinct(field), NEW y \in StoredDistinct(field)
  PROVE  <<x, y>> \in DistinctPairs(field) <=> TermsBefore(DistinctKey(field, x), DistinctKey(field, y))
<1>1. <<x, y>> \in StoredDistinct(field) \X StoredDistinct(field) /\ <<x, y>>[1] = x /\ <<x, y>>[2] = y
  OBVIOUS
<1>2. <<x, y>> \in DistinctPairs(field) <=> KeyBefore(DistinctKey(field, x), DistinctKey(field, y))
  BY <1>1 DEF DistinctPairs
<1>3. ASSUME NEW q \in StoredDistinct(field)
      PROVE  DistinctKey(field, q) \in Seq(Nat) /\ Len(DistinctKey(field, q)) = 3
  BY DistinctsAreTexts, DistinctKeys DEF StoredOK
<1>. QED
  BY <1>2, <1>3, KeyBeforeIs

LEMMA DistinctOrders ==
  ASSUME StoredOK, field.type # "number"
  PROVE  StrictOrder(StoredDistinct(field), DistinctPairs(field))
<1>1. PICK in, pairs : in = StoredDistinct(field) /\ pairs = DistinctPairs(field)
  OBVIOUS
<1>2. PICK key : key = [q \in in |-> DistinctKey(field, q)]
  OBVIOUS
<1>3. ASSUME NEW q \in in
      PROVE  key[q] \in Seq(Nat) /\ Len(key[q]) = 3 /\ \E t \in Texts : q = Text(t) /\ key[q][3] = TextKey(t)
  <2>1. PICK t \in Texts : q = Text(t)
    BY <1>1, DistinctsAreTexts
  <2>2. key[q] = DistinctKey(field, Text(t))
    BY <1>2, <2>1
  <2>. QED
    BY <2>1, <2>2, DistinctKeys DEF StoredOK
<1>4. \A x, y \in in : <<x, y>> \in pairs <=> TermsBefore(key[x], key[y])
  BY <1>1, <1>2, DistinctPair
<1>5. \A x \in in : <<x, x>> \notin pairs
  BY <1>3, <1>4, TermsNotBeforeThemselves
<1>6. \A x, y, z \in in : <<x, y>> \in pairs /\ <<y, z>> \in pairs => <<x, z>> \in pairs
  BY <1>3, <1>4, TermsTransitive
<1>7. ASSUME NEW x \in in, NEW y \in in, x # y PROVE <<x, y>> \in pairs \/ <<y, x>> \in pairs
  <2>1. PICK t \in Texts : x = Text(t) /\ key[x][3] = TextKey(t)
    BY <1>3
  <2>2. PICK u \in Texts : y = Text(u) /\ key[y][3] = TextKey(u)
    BY <1>3
  <2>3. key[x] # key[y]
    BY <1>7, <2>1, <2>2, Keys
  <2>. QED
    BY <1>3, <1>4, <2>3, TermsTotal
<1>. QED
  BY <1>1, <1>5, <1>6, <1>7, DistinctsFinite DEF StrictOrder

\* The pages of the distinct values so far, while nothing is written.
PrefixOf(ordered, listed) ==
  /\ listed \in Seq({ordered[i] : i \in 1 .. Len(ordered)}) /\ Len(listed) <= Len(ordered)
  /\ \A i \in 1 .. Len(listed) : listed[i] = ordered[i]

DistinctOK ==
  field.type # "number" =>
     /\ PrefixOf(orderDistinctValues(field), reader.listed)
     /\ reader.at = "done" => Len(reader.listed) = Len(orderDistinctValues(field))

LEMMA OrderedDistincts ==
  ASSUME StoredOK, field.type # "number", NEW ordered, ordered = orderDistinctValues(field)
  PROVE  /\ IsListing(StoredDistinct(field), DistinctPairs(field), ordered)
         /\ ordered \in Seq(StoredDistinct(field)) /\ Len(ordered) = Cardinality(StoredDistinct(field))
<1>1. ordered = InOrder(StoredDistinct(field), DistinctPairs(field))
  BY DEF orderDistinctValues, DistinctPairs
<1>2. IsListing(StoredDistinct(field), DistinctPairs(field), ordered)
  BY <1>1, DistinctOrders, InOrderLists
<1>. QED
  BY <1>2, NothingListed

\* The values of a text or a date stand in the order of their texts.
LEMMA DistinctsAscend ==
  ASSUME StoredOK, field.type \in {"text", "date"}, NEW ordered, ordered = orderDistinctValues(field),
         NEW i \in 1 .. Len(ordered), NEW j \in 1 .. Len(ordered), i < j
  PROVE  /\ TextKey(ordered[i].atoms) \in Nat /\ TextKey(ordered[j].atoms) \in Nat
         /\ TextKey(ordered[i].atoms) < TextKey(ordered[j].atoms)
<1>1. PICK x, y : x = ordered[i] /\ y = ordered[j]
  OBVIOUS
<1>2. x \in StoredDistinct(field) /\ y \in StoredDistinct(field) /\ <<x, y>> \in DistinctPairs(field)
  BY <1>1, OrderedDistincts DEF IsListing
<1>3. PICK t \in Texts : x = Text(t)
  BY <1>2, DistinctsAreTexts
<1>4. PICK u \in Texts : y = Text(u)
  BY <1>2, DistinctsAreTexts
<1>5. PICK a, b : a = DistinctKey(field, Text(t)) /\ b = DistinctKey(field, Text(u))
  OBVIOUS
<1>6. /\ a \in Seq(Nat) /\ Len(a) = 3 /\ a[1] = 1 /\ a[2] = 0 /\ a[3] = TextKey(t)
      /\ b \in Seq(Nat) /\ Len(b) = 3 /\ b[1] = 1 /\ b[2] = 0 /\ b[3] = TextKey(u)
  BY <1>5, DistinctKeys DEF StoredOK
<1>7. TermsBefore(a, b)
  BY <1>2, <1>3, <1>4, <1>5, DistinctPair
<1>8. TextKey(t) < TextKey(u)
  <2>1. PICK k \in DOMAIN a \cap DOMAIN b : a[k] < b[k]
    BY <1>7 DEF TermsBefore
  <2>2. k \in 1 .. 3
    BY <1>6, <2>1
  <2>. QED
    BY <1>6, <2>1, <2>2
<1>. QED
  BY <1>1, <1>3, <1>4, <1>8, TextParts, Keys

\* A page starts behind the values that are listed.
LEMMA StartIs ==
  ASSUME StoredOK, field.type # "number", NEW ordered, ordered = orderDistinctValues(field),
         PrefixOf(ordered, reader.listed), reader.listed # <<>>
  PROVE  DistinctStart(field, ordered, Last(reader.listed)) = Len(reader.listed)
<1>1. field.type \in FieldTypes
  BY DEF StoredOK, Field
<1>2. CASE field.type \in {"select", "multiSelect"}
  BY <1>2 DEF DistinctStart
<1>3. CASE field.type \in {"text", "date"}
  <2>1. PICK m, k : m = Len(ordered) /\ k = Len(reader.listed)
    OBVIOUS
  <2>2. /\ m \in Nat /\ k \in Nat /\ k >= 1 /\ k <= m /\ k \in 1 .. k
        /\ Last(reader.listed) = reader.listed[k]
    BY <2>1, OrderedDistincts DEF PrefixOf, Last
  <2>3. PICK last : last = Last(reader.listed)
    OBVIOUS
  <2>4. last = ordered[k]
    BY <2>1, <2>2, <2>3 DEF PrefixOf
  <2>5. PICK key : key = [i \in 1 .. m |-> TextKey(ordered[i].atoms)]
    OBVIOUS
  <2>6. \A i, j \in 1 .. m : i < j => key[i] \in Nat /\ key[j] \in Nat /\ key[i] < key[j]
    BY <1>3, <2>1, <2>5, DistinctsAscend
  <2>7. k \in 1 .. m /\ TextKey(last.atoms) = key[k]
    BY <2>2, <2>4, <2>5
  <2> DEFINE Upto(n) == \A i \in 1 .. n : TextKey(ordered[i].atoms) =< TextKey(last.atoms)
             Start(n) == Upto(n) /\ (n < m => ~Upto(n + 1))
  <2>8. ASSUME NEW n \in 0 .. m PROVE Upto(n) <=> n <= k
    <3>1. ASSUME n <= k, NEW i \in 1 .. n PROVE TextKey(ordered[i].atoms) =< TextKey(last.atoms)
      <4>1. i \in 1 .. m /\ (i = k \/ i < k)
        BY <2>2, <3>1
      <4>2. key[i] = TextKey(ordered[i].atoms)
        BY <2>5, <4>1
      <4>3. CASE i < k
        BY <2>6, <2>7, <4>1, <4>2, <4>3
      <4>4. CASE i = k
        <5>1. TextKey(last.atoms) \in Nat
          <6>1. PICK x : x = ordered[k]
            OBVIOUS
          <6>2. x \in StoredDistinct(field)
            BY <2>1, <2>7, <6>1, OrderedDistincts
          <6>3. PICK t \in Texts : x = Text(t)
            BY <1>3, <6>2, DistinctsAreTexts
          <6>. QED
            BY <2>4, <6>1, <6>3, TextParts, Keys
        <5>. QED
          BY <2>7, <4>2, <4>4, <5>1
      <4>. QED
        BY <4>1, <4>3, <4>4
    <3>2. ASSUME Upto(n), n > k PROVE FALSE
      <4>1. k + 1 \in 1 .. n /\ k + 1 \in 1 .. m /\ k < k + 1
        BY <2>2, <3>2
      <4>2. TextKey(ordered[k + 1].atoms) =< TextKey(last.atoms)
        BY <3>2, <4>1
      <4>3. key[k + 1] = TextKey(ordered[k + 1].atoms)
        BY <2>5, <4>1
      <4>4. key[k] < key[k + 1] /\ key[k] \in Nat /\ key[k + 1] \in Nat
        BY <2>6, <2>7, <4>1
      <4>. QED
        BY <2>7, <4>2, <4>3, <4>4
    <3>. QED
      BY <2>2, <3>1, <3>2
  <2>9. k \in 0 .. m /\ \A n \in 0 .. m : Start(n) <=> n = k
    <3>1. k \in 0 .. m
      BY <2>2
    <3>2. ASSUME NEW n \in 0 .. m PROVE Start(n) <=> n = k
      <4>1. n < m => (Upto(n + 1) <=> n + 1 <= k)
        <5>1. n < m => n + 1 \in 0 .. m
          BY <2>2
        <5>. HIDE DEF Upto
        <5>. QED
          BY <2>8, <5>1
      <4>2. Upto(n) <=> n <= k
        BY <2>8
      <4>. HIDE DEF Upto
      <4>. QED
        BY <2>2, <4>1, <4>2
    <3>. QED
      BY <3>1, <3>2
  <2>10. PICK start : start = CHOOSE n \in 0 .. m : Start(n)
    OBVIOUS
  <2>11. start = k
    <3>. HIDE DEF Start
    <3>. QED
      BY <2>9, <2>10
  <2>12. DistinctStart(field, ordered, last) = start
    BY <1>3, <2>1, <2>10 DEF DistinctStart
  <2>. QED
    BY <2>1, <2>3, <2>11, <2>12
<1>. QED
  BY <1>1, <1>2, <1>3 DEF FieldTypes

LEMMA SameDistincts ==
  ASSUME UNCHANGED <<field, records>>
  PROVE  orderDistinctValues(field)' = orderDistinctValues(field)
BY DEF orderDistinctValues, StoredDistinct, Active, Used

\* The values behind those that are listed.
LEMMA RemainingDistincts ==
  ASSUME StoredOK, field.type # "number", reader.kind = "distinct", reader.field = field,
         NEW ordered, ordered = orderDistinctValues(field), PrefixOf(ordered, reader.listed)
  PROVE  Remaining = IF Len(reader.listed) >= Len(ordered) THEN <<>>
                     ELSE SubSeq(ordered, Len(reader.listed) + 1, Len(ordered))
<1>1. PICK start : start = IF reader.listed = <<>> THEN 0 ELSE DistinctStart(field, ordered, Last(reader.listed))
  OBVIOUS
<1>2. Remaining = IF start >= Len(ordered) THEN <<>> ELSE SubSeq(ordered, start + 1, Len(ordered))
  BY <1>1 DEF Remaining
<1>3. start = Len(reader.listed)
  BY <1>1, StartIs
<1>. QED
  BY <1>2, <1>3

LEMMA DistinctPage ==
  ASSUME StoredOK, ReaderForm, ReadPage, reader'.at # "idle", reader.kind = "distinct", reader.field = field,
         DistinctOK
  PROVE  DistinctOK'
<1>0. UNCHANGED <<field, records>>
  BY PageRead
<1>. SUFFICES ASSUME field.type # "number"
     PROVE  /\ PrefixOf(orderDistinctValues(field)', reader'.listed)
            /\ reader'.at = "done" => Len(reader'.listed) = Len(orderDistinctValues(field)')
  BY <1>0 DEF DistinctOK
<1>1. PICK ordered, listed, s, next :
         /\ ordered = orderDistinctValues(field) /\ listed = reader.listed /\ s = Remaining
         /\ next = listed \o IF s = <<>> THEN <<>> ELSE <<Head(s)>>
  OBVIOUS
<1>2. PrefixOf(ordered, listed)
  BY <1>1 DEF DistinctOK
<1>3. s = IF Len(listed) >= Len(ordered) THEN <<>> ELSE SubSeq(ordered, Len(listed) + 1, Len(ordered))
  BY <1>1, <1>2, RemainingDistincts
<1>4. reader'.listed = next /\ reader'.at = IF Len(s) > 1 THEN "paging" ELSE "done"
  BY <1>1, PageRead
<1>5. orderDistinctValues(field)' = ordered
  BY <1>0, <1>1, SameDistincts
<1>6. ordered \in Seq(StoredDistinct(field))
  BY <1>1, OrderedDistincts
<1>7. PICK k, m : k = Len(listed) /\ m = Len(ordered)
  OBVIOUS
<1>8. PICK S : S = {ordered[i] : i \in 1 .. m}
  OBVIOUS
<1>9. /\ k \in Nat /\ m \in Nat /\ k <= m /\ listed \in Seq(S) /\ \A i \in 1 .. k : listed[i] = ordered[i]
      /\ ordered \in Seq(S)
  BY <1>2, <1>6, <1>7, <1>8 DEF PrefixOf
<1>10. CASE k = m
  <2>1. s = <<>> /\ next = listed
    BY <1>1, <1>3, <1>7, <1>9, <1>10
  <2>. QED
    BY <1>2, <1>4, <1>5, <1>7, <1>10, <2>1
<1>11. CASE k < m
  <2>1. s = SubSeq(ordered, k + 1, m)
    BY <1>3, <1>7, <1>9, <1>11
  <2>2. Len(s) = m - k /\ s # <<>> /\ Head(s) = ordered[k + 1] /\ ordered[k + 1] \in S
    <3>1. k + 1 \in 1 .. m /\ m - k \in Nat /\ 1 \in 1 .. m - k
      BY <1>9, <1>11
    <3>2. s \in Seq(S) /\ Len(s) = m - k /\ \A i \in 1 .. m - k : s[i] = ordered[k + 1 + i - 1]
      BY <1>7, <1>9, <2>1, <3>1, SubSeqProperties
    <3>3. Head(s) = s[1] /\ s[1] = ordered[k + 1] /\ s # <<>>
      BY <1>9, <3>1, <3>2
    <3>. QED
      BY <1>8, <3>1, <3>2, <3>3
  <2>3. next = Append(listed, ordered[k + 1])
    BY <1>1, <1>9, <2>2
  <2>4. next \in Seq(S) /\ Len(next) = k + 1 /\ \A i \in 1 .. k + 1 : next[i] = ordered[i]
    <3>1. /\ next \in Seq(S) /\ Len(next) = k + 1 /\ next[k + 1] = ordered[k + 1]
          /\ \A i \in 1 .. k : next[i] = listed[i]
      BY <1>7, <1>9, <2>2, <2>3, AppendProperties
    <3>2. ASSUME NEW i \in 1 .. k + 1 PROVE next[i] = ordered[i]
      <4>1. CASE i = k + 1
        BY <3>1, <4>1
      <4>2. CASE i # k + 1
        <5>1. i \in 1 .. k
          BY <1>9, <4>2
        <5>. QED
          BY <1>9, <3>1, <5>1
      <4>. QED
        BY <4>1, <4>2
    <3>. QED
      BY <3>1, <3>2
  <2>5. PrefixOf(ordered, next)
    <3>1. Len(next) \in Nat /\ Len(next) <= Len(ordered)
      BY <1>7, <1>9, <1>11, <2>4
    <3>2. next \in Seq({ordered[i] : i \in 1 .. Len(ordered)})
      BY <1>7, <1>8, <2>4
    <3>3. \A i \in 1 .. Len(next) : next[i] = ordered[i]
      BY <2>4
    <3>. QED
      BY <3>1, <3>2, <3>3 DEF PrefixOf
  <2>6. reader'.at = "done" => Len(next) = m
    BY <1>4, <1>9, <1>11, <2>2, <2>4
  <2>. QED
    BY <1>4, <1>5, <1>7, <2>5, <2>6
<1>. QED
  BY <1>9, <1>10, <1>11

\* The pages hold every value in use once.
LEMMA DistinctsComplete ==
  ASSUME StoredOK, DistinctOK, reader.at = "done", field.type # "number"
  PROVE  ToSet(reader.listed) = StoredDistinct(field) /\ IsInjective(reader.listed)
<1>1. PICK ordered, listed, in, pairs :
         /\ ordered = orderDistinctValues(field) /\ listed = reader.listed
         /\ in = StoredDistinct(field) /\ pairs = DistinctPairs(field)
  OBVIOUS
<1>2. PrefixOf(ordered, listed) /\ Len(listed) = Len(ordered)
  BY <1>1 DEF DistinctOK
<1>3. IsListing(in, pairs, ordered) /\ ordered \in Seq(in) /\ Len(ordered) = Cardinality(in) /\ StrictOrder(in, pairs)
  BY <1>1, OrderedDistincts, DistinctOrders
<1>4. listed \in Seq(in) /\ Len(listed) = Len(ordered) /\ \A i \in 1 .. Len(ordered) : listed[i] = ordered[i]
  BY <1>2, <1>3 DEF PrefixOf
<1>5. listed = ordered
  BY <1>3, <1>4, SeqEqual
<1>6. PICK n \in Nat : n = Cardinality(in) /\ DOMAIN listed = 1 .. n
  BY <1>3, <1>4
<1>7. ToSet(listed) = in
  BY <1>3, <1>5, <1>6 DEF ToSet, IsListing
<1>8. ASSUME NEW i \in 1 .. n, NEW j \in 1 .. n, i < j PROVE listed[i] # listed[j]
  BY <1>3, <1>5, <1>6, <1>8 DEF IsListing, StrictOrder
<1>9. \A i, j \in 1 .. n : listed[i] = listed[j] => i = j
  <2>1. ASSUME NEW i \in 1 .. n, NEW j \in 1 .. n, listed[i] = listed[j], i # j PROVE FALSE
    <3>1. i < j \/ j < i
      BY <2>1
    <3>. QED
      BY <1>8, <2>1, <3>1
  <2>. QED
    BY <2>1
<1>10. IsInjective(listed)
  BY <1>6, <1>9 DEF IsInjective
<1>. QED
  BY <1>1, <1>7, <1>10

(***************************************************************************)
(* Readings while nothing is written.                                      *)
(***************************************************************************)

CalmOK ==
  reader.at # "idle" /\ reader.calm =>
     /\ reader.field = field /\ reader.kind \in {"query", "distinct"}
     /\ reader.kind = "query" => QueryOK
     /\ reader.kind = "distinct" => DistinctOK

\* What is written ends the calm of a reading.
LEMMA DisturbedCalm ==
  ASSUME Invariant, Disturb
  PROVE  CalmOK'
<1>1. reader'.at = reader.at /\ (reader.at # "idle" => reader'.calm = FALSE)
  BY Disturbed DEF Invariant
<1>. QED
  BY <1>1 DEF CalmOK

\* What is neither written nor read leaves a reading as it is.
LEMMA UndisturbedCalm ==
  ASSUME CalmOK, UNCHANGED <<field, records>>,
         \/ reader' = reader
         \/ reader.at # "idle" /\ reader'.at = "planned" /\ reader'.calm = reader.calm
            /\ reader'.kind = reader.kind /\ reader'.field = reader.field
            /\ reader'.nulls = reader.nulls /\ reader'.filter = reader.filter
            /\ reader'.listed = reader.listed /\ reader'.total = reader.total
  PROVE  CalmOK'
<1>1. RowsAll' = RowsAll /\ validateFilterRule(field)' = validateFilterRule(field)
  BY SameRows
<1>2. orderDistinctValues(field)' = orderDistinctValues(field)
  BY SameDistincts
<1>3. QueryOK => QueryOK'
  BY <1>1 DEF QueryOK
<1>4. DistinctOK => DistinctOK'
  BY <1>2 DEF DistinctOK
<1>5. reader'.at # "idle" /\ reader'.calm => reader.at # "idle" /\ reader.calm
  OBVIOUS
<1>6. reader'.field = reader.field /\ reader'.kind = reader.kind /\ field' = field
  OBVIOUS
<1>. QED
  BY <1>3, <1>4, <1>5, <1>6 DEF CalmOK

LEMMA PlannedCalm ==
  ASSUME Invariant, ResolveQuery \/ ResolveDistinct
  PROVE  CalmOK'
<1>1. PICK kind, nulls, filter :
         /\ Plan(kind, nulls, filter)
         /\ \/ kind = "query" /\ filter \in validateFilterRule(field)
            \/ kind = "distinct"
  <2>1. CASE ResolveQuery
    BY <2>1 DEF ResolveQuery
  <2>2. CASE ResolveDistinct
    BY <2>2 DEF ResolveDistinct
  <2>. QED
    BY <2>1, <2>2
<1>2. /\ UNCHANGED <<field, records>>
      /\ reader'.at = "planned" /\ reader'.kind = kind /\ reader'.filter = filter
      /\ reader'.field = field /\ reader'.listed = <<>>
  BY <1>1 DEF Plan
<1>3. validateFilterRule(field)' = validateFilterRule(field)
  BY <1>2 DEF validateFilterRule, Used
<1>4. CASE kind = "query" /\ filter \in validateFilterRule(field)
  <2>1. PICK all : all = RowsAll'
    OBVIOUS
  <2>2. Sweep(all, <<>>)
    BY DEF Sweep
  <2>3. QueryOK'
    BY <1>2, <1>3, <1>4, <2>1, <2>2 DEF QueryOK
  <2>. QED
    BY <1>2, <1>4, <2>3 DEF CalmOK
<1>5. CASE kind = "distinct"
  <2>1. PICK ordered : ordered = orderDistinctValues(field)' /\ ordered = orderDistinctValues(field)
    BY <1>2, SameDistincts
  <2>2. field.type # "number" => PrefixOf(ordered, <<>>)
    BY <2>1, OrderedDistincts DEF Invariant, PrefixOf
  <2>3. DistinctOK'
    BY <1>2, <2>1, <2>2 DEF DistinctOK
  <2>. QED
    BY <1>2, <1>5, <2>3 DEF CalmOK
<1>. QED
  BY <1>1, <1>4, <1>5

\* A page keeps a calm reading in step with the rows, or with the values, of now.
LEMMA ReadCalm ==
  ASSUME Invariant, CalmOK, ReadPage
  PROVE  CalmOK'
<1>1. CASE reader'.at = "idle"
  BY <1>1 DEF CalmOK
<1>2. CASE reader'.at # "idle"
  <2>1. StoredOK /\ ReaderForm
    BY DEF Invariant
  <2>2. /\ UNCHANGED <<field, records>> /\ reader'.kind = reader.kind
        /\ reader'.field = reader.field /\ reader'.calm = reader.calm
    BY <1>2, <2>1, PageRead
  <2>. SUFFICES ASSUME reader.calm
       PROVE  CalmOK'
    BY <2>2 DEF CalmOK
  <2>3. /\ reader.field = field /\ reader.kind \in {"query", "distinct"}
        /\ reader.kind = "query" => QueryOK
        /\ reader.kind = "distinct" => DistinctOK
    BY DEF CalmOK, ReadPage
  <2>4. reader.kind = "query" => QueryOK'
    BY <1>2, <2>1, <2>3, QueryPage
  <2>5. reader.kind = "distinct" => DistinctOK'
    BY <1>2, <2>1, <2>3, DistinctPage
  <2>. QED
    BY <2>2, <2>3, <2>4, <2>5 DEF CalmOK
<1>. QED
  BY <1>1, <1>2

LEMMA NextCalm ==
  ASSUME Invariant, CalmOK, NextPage
  PROVE  CalmOK'
<1>1. CASE reader' = Idle
  BY <1>1 DEF CalmOK, Idle
<1>2. CASE reader' = [reader EXCEPT !.at = "planned"]
  <2>1. reader # Idle
    BY DEF NextPage, Idle
  <2>2. /\ reader.at # "idle" /\ reader'.at = "planned" /\ reader'.calm = reader.calm
        /\ reader'.kind = reader.kind /\ reader'.field = reader.field
        /\ reader'.nulls = reader.nulls /\ reader'.filter = reader.filter
        /\ reader'.listed = reader.listed /\ reader'.total = reader.total
    BY <1>2, <2>1 DEF NextPage, Invariant, ReaderForm
  <2>. QED
    BY <2>2, UndisturbedCalm DEF NextPage
<1>. QED
  BY <1>1, <1>2 DEF NextPage

LEMMA CalmInit == Init => CalmOK
BY DEF Init, Idle, CalmOK

LEMMA CalmNext == Invariant /\ CalmOK /\ [Next]_vars => CalmOK'
<1>. SUFFICES ASSUME Invariant, CalmOK, [Next]_vars PROVE CalmOK'
  OBVIOUS
<1>1. ASSUME NEW r \in Records, CreateRecord(r) \/ UpdateRecord(r) \/ applyRecordLifecycle(r)
      PROVE  CalmOK'
  <2>1. Disturb
    BY <1>1 DEF CreateRecord, UpdateRecord, applyRecordLifecycle, WriteRecord
  <2>. QED
    BY <2>1, DisturbedCalm
<1>2. CASE FieldLifecycle
  BY <1>2, DisturbedCalm DEF FieldLifecycle, SetField
<1>3. ASSUME NEW c \in Clients, PreviewRead(c) \/ PreviewScan(c) \/ ConvertRead(c) \/ ConvertRefused(c)
      PROVE  CalmOK'
  <2>1. UNCHANGED <<field, records, reader>>
    BY <1>3 DEF PreviewRead, PreviewScan, ConvertRead, ConvertRefused, Forget
  <2>. QED
    BY <2>1, UndisturbedCalm
<1>4. ASSUME NEW c \in Clients, ConvertField(c)
      PROVE  CalmOK'
  <2>1. Disturb
    BY <1>4 DEF ConvertField, SetField
  <2>. QED
    BY <2>1, DisturbedCalm
<1>5. CASE ResolveQuery \/ ResolveDistinct
  BY <1>5, PlannedCalm
<1>6. CASE ReadPage
  BY <1>6, ReadCalm
<1>7. CASE NextPage
  BY <1>7, NextCalm
<1>8. CASE Close
  BY <1>8 DEF Close, Idle, CalmOK
<1>9. CASE UNCHANGED vars
  BY <1>9, UndisturbedCalm DEF vars
<1>. QED
  BY <1>1, <1>2, <1>3, <1>4, <1>5, <1>6, <1>7, <1>8, <1>9 DEF Next

\* When nothing is written from the first transaction of a reading to its last page,
\* the pages of a query hold every active Record whose value the Filter means once and
\* no other, as many as the first page counted (QueryRecords, buildKeysetCondition),
\* and those of the distinct values of a Field that does not hold numbers each value
\* once (DistinctValues).
THEOREM ReadingsAreComplete == Spec => []ReadingsComplete
<1>1. Spec => []CalmOK
  <2>1. Spec => []Invariant
    BY FieldsInvariant
  <2>. QED
    BY <2>1, CalmInit, CalmNext, PTL DEF Spec
<1>2. Invariant /\ CalmOK => ReadingsComplete
  <2>. SUFFICES ASSUME Invariant, CalmOK PROVE ReadingsComplete
    OBVIOUS
  <2>1. ReadingComplete
    <3>. SUFFICES ASSUME reader.at = "done", reader.kind = "query", reader.calm
         PROVE  /\ Len(reader.listed) = reader.total
                /\ \A r \in Active : (records[r].query = NoValue) = (records[r].value = NoValue) =>
                    Cardinality({i \in DOMAIN reader.listed : reader.listed[i].id = r}) =
                        IF Means(reader.filter, records[r].value) THEN 1 ELSE 0
      BY DEF ReadingComplete
    <3>1. StoredOK /\ QueryOK
      BY DEF Invariant, CalmOK
    <3>. QED
      BY <3>1, QueryComplete
  <2>2. DistinctComplete
    <3>. SUFFICES ASSUME field.type # "number", reader.at = "done", reader.kind = "distinct", reader.calm
         PROVE  ToSet(reader.listed) = StoredDistinct(field) /\ IsInjective(reader.listed)
      BY DEF DistinctComplete, EveryValueListed
    <3>1. StoredOK /\ DistinctOK
      BY DEF Invariant, CalmOK
    <3>. QED
      BY <3>1, DistinctsComplete
  <2>. QED
    BY <2>1, <2>2 DEF ReadingsComplete
<1>. QED
  BY <1>1, <1>2, FieldsInvariant, PTL

=============================================================================

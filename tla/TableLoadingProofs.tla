-------------------------- MODULE TableLoadingProofs --------------------------
(***************************************************************************)
(* A table says of every document what the document says, its schema lists *)
(* the names in order, and just the arrays of flat objects load: for every *)
(* set of texts, any number of documents and of fields.                    *)
(***************************************************************************)
EXTENDS TableLoading, DataProofs

\* A value of a document that a table can hold.
Flat(j) == /\ j.type \notin {"array", "object"}
           /\ j.type = "number_unsigned" => j.v <= Int64Max

IsTabular == text.kind = "json" /\ text.document.type = "array"

FlatDocument(d) ==
    /\ Documents[d].type = "object"
    /\ \A f \in DOMAIN Documents[d].members : Flat(Documents[d].members[f])

\* What the table says of the document d.
RowSays(d) ==
    LET members == Documents[d].members
    IN  /\ rows[d] = [ordinal |-> d - 1, values |-> rows[d].values]
        /\ rows[d].values \in [DOMAIN schema -> Value]
        /\ \A c \in DOMAIN schema :
              IF schema[c] \in DOMAIN members
              THEN Keeps(members[schema[c]], rows[d].values[c])
              ELSE rows[d].values[c] = Null

Phases ==
    /\ text \in Texts
    /\ phase \in {"parsing", "collecting", "filling", "loaded", "failed"}
    /\ phase \in {"collecting", "filling", "loaded"} =>
          IsTabular /\ next \in 1 .. Len(Documents) + 1
    /\ phase = "loaded" => next = Len(Documents) + 1

\* The first pass has the names of the documents before next.
Collecting ==
    /\ phase = "parsing" => next = 1 /\ field_names = {} /\ rows = <<>>
    /\ phase = "collecting" =>
          /\ \A d \in 1 .. next - 1 : Documents[d].type = "object"
          /\ field_names = UNION {DOMAIN Documents[d].members : d \in 1 .. next - 1}
          /\ IsFiniteSet(field_names)
          /\ rows = <<>>

\* The second pass has the rows of the documents before next.
Filling ==
    phase \in {"filling", "loaded"} =>
        /\ \A d \in 1 .. Len(Documents) : Documents[d].type = "object"
        /\ field_names = UNION {DOMAIN Documents[d].members : d \in 1 .. Len(Documents)}
        /\ IsFiniteSet(field_names)
        /\ schema = Ascending(field_names)
        /\ rows \in Seq(ToSet(rows)) /\ Len(rows) = next - 1
        /\ \A d \in 1 .. next - 1 : FlatDocument(d) /\ RowSays(d)

\* Only a text that is no table has failed.
Failing ==
    phase = "failed" => ~(IsTabular /\ \A d \in 1 .. Len(Documents) : FlatDocument(d))

IInv == Phases /\ Collecting /\ Filling /\ Failing

LEMMA DocumentsAreJson ==
    ASSUME text \in Texts, IsTabular
    PROVE  /\ Len(Documents) \in Nat /\ DOMAIN Documents = 1 .. Len(Documents)
           /\ \A d \in 1 .. Len(Documents) : Documents[d].type = "object" =>
                /\ IsFiniteSet(DOMAIN Documents[d].members)
                /\ DOMAIN Documents[d].members \subseteq Strings
                /\ \A f \in DOMAIN Documents[d].members : IsJson(Documents[d].members[f])
<1>1. IsJson(text.document)
  BY TextsAssumption DEF IsText, IsTabular
<1>2. Documents \in Seq(ToSet(Documents))
  BY <1>1, ArraysAndObjects DEF IsTabular, Documents
<1>3. Len(Documents) \in Nat /\ DOMAIN Documents = 1 .. Len(Documents)
  BY <1>2
<1>4. ASSUME NEW d \in 1 .. Len(Documents), Documents[d].type = "object"
      PROVE  /\ IsFiniteSet(DOMAIN Documents[d].members)
             /\ DOMAIN Documents[d].members \subseteq Strings
             /\ \A f \in DOMAIN Documents[d].members : IsJson(Documents[d].members[f])
  <2>1. Documents[d] \in ToSet(Documents)
    BY <1>3 DEF ToSet
  <2>2. /\ IsJson(Documents[d])
        /\ DOMAIN Documents[d].members \subseteq Strings
        /\ \A f \in DOMAIN Documents[d].members : IsJson(Documents[d].members[f])
    BY <1>4, <2>1, TextsAssumption DEF IsText, IsTabular, Documents
  <2>. QED  BY <1>4, <2>2, ArraysAndObjects
<1>. QED  BY <1>3, <1>4

\* The row of a document: it is there just when all values are flat, and each of
\* them is in the column of its name.
LEMMA ValuesOfSay ==
    ASSUME NEW doc, IsFiniteSet(DOMAIN doc.members), DOMAIN doc.members \subseteq Strings,
           \A f \in DOMAIN doc.members : IsJson(doc.members[f])
    PROVE  /\ ValuesOf(doc).error = "none" <=> \A f \in DOMAIN doc.members : Flat(doc.members[f])
           /\ ValuesOf(doc).error = "none" =>
                 /\ ValuesOf(doc).value \in [DOMAIN schema -> Value]
                 /\ \A c \in DOMAIN schema :
                       IF schema[c] \in DOMAIN doc.members
                       THEN Keeps(doc.members[schema[c]], ValuesOf(doc).value[c])
                       ELSE ValuesOf(doc).value[c] = Null
<1> DEFINE keys  == Keys(doc)
           n     == Cardinality(DOMAIN doc.members)
           cells == [i \in DOMAIN keys |-> Scalar(doc.members[keys[i]], "kInvalidDataShape")]
<1>1. /\ n \in Nat /\ keys \in [1 .. n -> DOMAIN doc.members]
      /\ \A f \in DOMAIN doc.members : \E i \in 1 .. n : keys[i] = f
  <2>1. Strings \subseteq Int
    BY StringsAssumption
  <2>2. DOMAIN doc.members \in SUBSET Int
    BY <2>1
  <2>. QED  BY <2>2, AscendingLists DEF Keys
<1>2. ValuesOf(doc) = IF GivesAll(cells).error # "none" THEN GivesAll(cells)
                      ELSE Gives(Placed(keys, cells))
  BY DEF ValuesOf, Made
<1>. HIDE DEF keys
<1>3. DOMAIN cells = 1 .. n
  BY <1>1
<1>4. \A i \in 1 .. n : cells[i] = Scalar(doc.members[keys[i]], "kInvalidDataShape")
  BY <1>1
<1>. HIDE DEF cells, n
<1>5. GivesAll(cells).error = "none" <=> \A i \in 1 .. n : cells[i].error = "none"
  BY <1>1, <1>3, GivesAllOf
<1>6. ValuesOf(doc).error = "none" <=> GivesAll(cells).error = "none"
  BY <1>2 DEF Gives
<1>7. ASSUME NEW i \in 1 .. n
      PROVE  /\ cells[i].error = "none" <=> Flat(doc.members[keys[i]])
             /\ cells[i].error = "none" => /\ Keeps(doc.members[keys[i]], cells[i].value)
                                           /\ cells[i].value \in Value
  <2>1. IsJson(doc.members[keys[i]])
    BY <1>1
  <2>. QED  BY <1>4, <2>1, ScalarKeeps DEF Flat, Keeps
<1>8. ValuesOf(doc).error = "none" <=> \A f \in DOMAIN doc.members : Flat(doc.members[f])
  BY <1>1, <1>5, <1>6, <1>7
<1>9. ASSUME ValuesOf(doc).error = "none", NEW c \in DOMAIN schema
      PROVE  IF schema[c] \in DOMAIN doc.members
             THEN /\ Keeps(doc.members[schema[c]], ValuesOf(doc).value[c])
                  /\ ValuesOf(doc).value[c] \in Value
             ELSE ValuesOf(doc).value[c] = Null
  <2> DEFINE at == {i \in DOMAIN keys : keys[i] = schema[c]}
  <2>1. ValuesOf(doc).value = Placed(keys, cells)
    BY <1>2, <1>6, <1>9 DEF Gives
  <2>2. ValuesOf(doc).value[c] = IF at = {} THEN Null ELSE cells[Min(at)].value
    BY <2>1 DEF Placed
  <2>3. CASE schema[c] \in DOMAIN doc.members
    <3>1. at # {} /\ at \in SUBSET (1 .. n)
      BY <1>1, <2>3
    <3>2. Min(at) \in at
      BY <1>1, <3>1, LeastPlace
    <3>3. Min(at) \in 1 .. n /\ keys[Min(at)] = schema[c]
      BY <3>1, <3>2
    <3>. HIDE DEF at
    <3>4. Keeps(doc.members[keys[Min(at)]], cells[Min(at)].value) /\ cells[Min(at)].value \in Value
      BY <1>5, <1>6, <1>7, <1>9, <3>3
    <3>. QED  BY <2>2, <2>3, <3>1, <3>3, <3>4
  <2>4. CASE schema[c] \notin DOMAIN doc.members
    <3>1. at = {}
      BY <1>1, <2>4
    <3>. QED  BY <2>2, <2>4, <3>1
  <2>. QED  BY <2>3, <2>4
<1>10. ASSUME ValuesOf(doc).error = "none" PROVE ValuesOf(doc).value \in [DOMAIN schema -> Value]
  <2> DEFINE values == ValuesOf(doc).value
  <2>1. values = Placed(keys, cells)
    BY <1>2, <1>6, <1>10 DEF Gives
  <2>2. values = [c \in DOMAIN schema |-> values[c]]
    BY <2>1 DEF Placed
  <2>3. \A c \in DOMAIN schema : values[c] \in Value
    <3>1. Null \in Value
      BY DEF Value
    <3>. QED  BY <1>9, <1>10, <3>1
  <2>. HIDE DEF values
  <2>4. values \in [DOMAIN schema -> Value]
    BY <2>2, <2>3
  <2>. QED  BY <2>4 DEF values
<1>. QED  BY <1>8, <1>9, <1>10

LEMMA InitInv == Init => IInv
BY DEF Init, IInv, Phases, Collecting, Filling, Failing

\* A text that cannot be read, or is no array, is no table.
LEMMA ParsingInv ==
    ASSUME IInv, OpenFails \/ ParseFails \/ Parse
    PROVE  IInv'
<1>1. phase = "parsing" /\ text \in Texts /\ next = 1 /\ field_names = {} /\ rows = <<>>
  BY DEF IInv, Phases, Collecting, OpenFails, ParseFails, Parse
<1>2. CASE OpenFails \/ ParseFails
  <2>1. text.kind # "json"
    BY <1>2 DEF OpenFails, ParseFails, ParseOutcome
  <2>2. phase' = "failed" /\ text' = text
    BY <1>2 DEF OpenFails, ParseFails, Throw
  <2>. QED  BY <1>1, <2>1, <2>2 DEF IInv, Phases, Collecting, Filling, Failing, IsTabular
<1>3. CASE Parse
  <2>1. text.kind = "json"
    BY <1>1, <1>3, TextsAssumption DEF IsText, Parse, ParseOutcome
  <2>2. CASE text.document.type = "array"
    <3>1. IsTabular /\ phase' = "collecting"
          /\ UNCHANGED <<text, next, field_names, schema, rows, thrown>>
      BY <1>3, <2>1, <2>2 DEF Parse, IsTabular
    <3>2. Len(Documents) \in Nat
      BY <1>1, <3>1, DocumentsAreJson
    <3>3. Phases'
      BY <1>1, <3>1, <3>2 DEF Phases, IsTabular, Documents
    <3>4. IsFiniteSet({}) /\ 1 .. 1 - 1 = {}
      BY FS_EmptySet
    <3>5. Collecting'
      BY <1>1, <3>1, <3>4 DEF Collecting, Documents
    <3>. QED  BY <3>1, <3>3, <3>5 DEF IInv, Filling, Failing
  <2>3. CASE text.document.type # "array"
    <3>1. ~IsTabular /\ phase' = "failed" /\ text' = text
      BY <1>3, <2>3 DEF Parse, Throw, IsTabular
    <3>. QED  BY <1>1, <3>1 DEF IInv, Phases, Collecting, Filling, Failing, IsTabular
  <2>. QED  BY <2>2, <2>3
<1>. QED  BY <1>2, <1>3

\* The first pass adds the fields of a document, or meets one that is no object.
LEMMA CollectNextInv ==
    ASSUME IInv, CollectNext
    PROVE  IInv'
<1> DEFINE doc == Documents[next]
<1>1. /\ phase = "collecting" /\ text \in Texts /\ IsTabular /\ next \in 1 .. Len(Documents)
      /\ Len(Documents) \in Nat /\ rows = <<>> /\ IsFiniteSet(field_names)
      /\ \A d \in 1 .. next - 1 : Documents[d].type = "object"
      /\ field_names = UNION {DOMAIN Documents[d].members : d \in 1 .. next - 1}
  BY DocumentsAreJson DEF IInv, Phases, Collecting, CollectNext
<1>2. CASE doc.type # "object" /\ Throw(QueryLumeError("kInvalidDataShape"))
  <2>1. phase' = "failed" /\ text' = text
    BY <1>2 DEF Throw
  <2>. QED  BY <1>1, <1>2, <2>1
            DEF IInv, Phases, Collecting, Filling, Failing, FlatDocument, Documents, IsTabular
<1>3. CASE /\ doc.type = "object"
           /\ field_names' = FieldsWith(doc) /\ next' = next + 1
           /\ UNCHANGED <<text, phase, schema, rows, thrown>>
  <2>1. Documents' = Documents /\ text' = text /\ phase' = phase /\ rows' = rows
        /\ next' = next + 1
    BY <1>3 DEF Documents
  <2>2. Phases'
    BY <1>1, <2>1 DEF Phases, IsTabular
  <2>3. 1 .. next' - 1 = (1 .. next - 1) \cup {next}
    BY <1>1, <2>1
  <2>4. field_names' = UNION {DOMAIN Documents[d].members : d \in 1 .. next' - 1}
    BY <1>1, <1>3, <2>3 DEF FieldsWith
  <2>5. IsFiniteSet(field_names')
    <3>1. IsFiniteSet(DOMAIN doc.members)
      BY <1>1, <1>3, DocumentsAreJson
    <3>. QED  BY <1>1, <1>3, <3>1, FS_Union DEF FieldsWith
  <2>6. \A d \in 1 .. next' - 1 : Documents[d].type = "object"
    BY <1>1, <1>3, <2>3
  <2>7. Collecting'
    BY <1>1, <2>1, <2>4, <2>5, <2>6 DEF Collecting
  <2>. QED  BY <1>1, <2>1, <2>2, <2>7 DEF IInv, Filling, Failing
<1>. QED  BY <1>2, <1>3 DEF CollectNext

LEMMA CollectEndsInv ==
    ASSUME IInv, CollectEnds
    PROVE  IInv'
<1>1. /\ phase = "collecting" /\ text \in Texts /\ IsTabular /\ next = Len(Documents) + 1
      /\ Len(Documents) \in Nat /\ rows = <<>> /\ IsFiniteSet(field_names)
      /\ \A d \in 1 .. next - 1 : Documents[d].type = "object"
      /\ field_names = UNION {DOMAIN Documents[d].members : d \in 1 .. next - 1}
  BY DocumentsAreJson DEF IInv, Phases, Collecting, CollectEnds
<1>2. /\ phase' = "filling" /\ next' = 1 /\ schema' = Ascending(field_names)
      /\ Documents' = Documents /\ UNCHANGED <<text, field_names, rows>>
  BY DEF CollectEnds, Documents
<1>3. next - 1 = Len(Documents) /\ 1 .. next' - 1 = {}
  BY <1>1, <1>2
<1>4. Phases' /\ Collecting' /\ Failing'
  BY <1>1, <1>2 DEF Phases, Collecting, Failing, IsTabular
<1>5. rows' \in Seq(ToSet(rows')) /\ Len(rows') = next' - 1
  BY <1>1, <1>2
<1>6. Filling'
  BY <1>1, <1>2, <1>3, <1>5 DEF Filling
<1>. QED  BY <1>4, <1>6 DEF IInv

\* The second pass adds the row of a document, or meets one that is not flat.
LEMMA FillNextInv ==
    ASSUME IInv, FillNext
    PROVE  IInv'
<1> DEFINE doc == Documents[next]
           v   == ValuesOf(doc)
<1>1. /\ phase = "filling" /\ text \in Texts /\ IsTabular /\ next \in 1 .. Len(Documents)
      /\ Len(Documents) \in Nat
      /\ \A d \in 1 .. Len(Documents) : Documents[d].type = "object"
      /\ \A d \in 1 .. next - 1 : FlatDocument(d) /\ RowSays(d)
      /\ Len(rows) = next - 1 /\ rows \in Seq(ToSet(rows))
  BY DocumentsAreJson DEF IInv, Phases, Filling, FillNext
<1>2. /\ v.error = "none" <=> \A f \in DOMAIN doc.members : Flat(doc.members[f])
      /\ v.error = "none" =>
            /\ v.value \in [DOMAIN schema -> Value]
            /\ \A c \in DOMAIN schema :
                  IF schema[c] \in DOMAIN doc.members
                  THEN Keeps(doc.members[schema[c]], v.value[c]) ELSE v.value[c] = Null
  <2>1. /\ IsFiniteSet(DOMAIN doc.members) /\ DOMAIN doc.members \subseteq Strings
        /\ \A f \in DOMAIN doc.members : IsJson(doc.members[f])
    BY <1>1, DocumentsAreJson
  <2>. QED  BY <2>1, ValuesOfSay
<1>. HIDE DEF v
<1>3. CASE v.error # "none" /\ Throw(QueryLumeError(v.error))
  <2>1. phase' = "failed" /\ text' = text /\ Documents' = Documents
    BY <1>3 DEF Throw, Documents
  <2>2. ~FlatDocument(next)
    BY <1>2, <1>3 DEF FlatDocument
  <2>3. Failing'
    BY <1>1, <2>1, <2>2 DEF Failing, FlatDocument
  <2>. QED  BY <1>1, <2>1, <2>3 DEF IInv, Phases, Collecting, Filling
<1>4. CASE /\ v.error = "none"
           /\ rows' = Append(rows, [ordinal |-> next - 1, values |-> v.value])
           /\ next' = next + 1
           /\ UNCHANGED <<text, phase, field_names, schema, thrown>>
  <2>1. /\ Documents' = Documents /\ next' = next + 1
        /\ UNCHANGED <<text, phase, field_names, schema>>
    BY <1>4 DEF Documents
  <2>2. Phases' /\ Collecting' /\ Failing'
    BY <1>1, <2>1 DEF Phases, Collecting, Failing, IsTabular
  <2>3. /\ Len(rows') = next
        /\ rows'[next] = [ordinal |-> next - 1, values |-> v.value]
        /\ \A d \in 1 .. next - 1 : rows'[d] = rows[d]
        /\ rows' \in Seq(ToSet(rows'))
    <3> DEFINE row == [ordinal |-> next - 1, values |-> v.value]
    <3>1. rows \in Seq(ToSet(rows) \cup {row})
      BY <1>1
    <3>. HIDE DEF row
    <3>2. /\ rows' = Append(rows, row) /\ Len(rows') = next /\ rows'[next] = row
          /\ \A d \in 1 .. next - 1 : rows'[d] = rows[d]
          /\ rows' \in Seq(ToSet(rows) \cup {row}) /\ DOMAIN rows' = 1 .. next
      BY <1>1, <1>4, <3>1 DEF row
    <3>3. rows' \in Seq(ToSet(rows'))
      BY <1>1, <3>2 DEF ToSet
    <3>. QED  BY <3>2, <3>3 DEF row
  <2>4. ASSUME NEW d \in 1 .. next' - 1 PROVE FlatDocument(d)' /\ RowSays(d)'
    <3>1. CASE d = next
      <4>1. FlatDocument(d)
        BY <1>1, <1>2, <1>4, <3>1 DEF FlatDocument
      <4>2. FlatDocument(d)'
        BY <2>1, <4>1 DEF FlatDocument
      <4>3. rows'[d] = [ordinal |-> d - 1, values |-> v.value] /\ Documents[d] = doc
        BY <2>3, <3>1
      <4>4. rows'[d] = [ordinal |-> d - 1, values |-> rows'[d].values] /\ rows'[d].values = v.value
        BY <4>3
      <4>5. /\ rows'[d] = [ordinal |-> d - 1, values |-> rows'[d].values]
            /\ rows'[d].values \in [DOMAIN schema -> Value]
            /\ \A c \in DOMAIN schema :
                  IF schema[c] \in DOMAIN Documents[d].members
                  THEN Keeps(Documents[d].members[schema[c]], rows'[d].values[c])
                  ELSE rows'[d].values[c] = Null
        BY <1>2, <1>4, <4>3, <4>4
      <4>6. RowSays(d)'
        BY <2>1, <4>5 DEF RowSays
      <4>. QED  BY <4>2, <4>6
    <3>2. CASE d \in 1 .. next - 1
      <4>1. rows'[d] = rows[d] /\ FlatDocument(d) /\ RowSays(d)
        BY <1>1, <2>3, <3>2
      <4>2. FlatDocument(d)'
        BY <2>1, <4>1 DEF FlatDocument
      <4>3. RowSays(d)'
        BY <2>1, <4>1 DEF RowSays
      <4>. QED  BY <4>2, <4>3
    <3>. QED  BY <1>1, <2>1, <3>1, <3>2
  <2>5. Filling'
    BY <1>1, <2>1, <2>3, <2>4 DEF IInv, Filling
  <2>. QED  BY <2>2, <2>5 DEF IInv
<1>. QED  BY <1>3, <1>4 DEF FillNext, v

LEMMA NextInv == IInv /\ [Next]_vars => IInv'
<1>. SUFFICES ASSUME IInv, [Next]_vars PROVE IInv'
  OBVIOUS
<1>1. CASE FillEnds
  <2>1. phase = "filling" /\ next > Len(Documents) /\ phase' = "loaded"
        /\ Documents' = Documents /\ UNCHANGED <<text, next, field_names, schema, rows>>
    BY <1>1 DEF FillEnds, Documents
  <2>2. Len(Documents) \in Nat /\ next \in 1 .. Len(Documents) + 1
    BY <2>1, DocumentsAreJson DEF IInv, Phases
  <2>3. Phases' /\ Collecting' /\ Failing'
    BY <2>1, <2>2 DEF IInv, Phases, Collecting, Failing, IsTabular
  <2>4. \A d \in 1 .. next - 1 : (FlatDocument(d) => FlatDocument(d)') /\ (RowSays(d) => RowSays(d)')
    BY <2>1 DEF FlatDocument, RowSays
  <2>5. Filling'
    BY <2>1, <2>4 DEF IInv, Filling
  <2>. QED  BY <2>3, <2>5 DEF IInv
<1>2. CASE UNCHANGED vars
  BY <1>2 DEF IInv, vars, Phases, Collecting, Filling, Failing, FlatDocument, RowSays, IsTabular,
              Documents
<1>. QED  BY <1>1, <1>2, ParsingInv, CollectNextInv, CollectEndsInv, FillNextInv
          DEF Next, Step, Over

LEMMA Invariant == Spec => []IInv
BY InitInv, NextInv, PTL DEF Spec

\* The names of the schema are those of the documents, in order.
LEMMA SchemaLists ==
    ASSUME IInv, phase \in {"filling", "loaded"}
    PROVE  /\ ToSet(schema) = UNION {DOMAIN Documents[d].members : d \in 1 .. Len(Documents)}
           /\ \A i, j \in DOMAIN schema : i < j => schema[i] < schema[j]
<1>1. /\ text \in Texts /\ IsTabular /\ schema = Ascending(field_names) /\ IsFiniteSet(field_names)
      /\ field_names = UNION {DOMAIN Documents[d].members : d \in 1 .. Len(Documents)}
      /\ \A d \in 1 .. Len(Documents) : Documents[d].type = "object"
  BY DEF IInv, Phases, Filling
<1>2. field_names \in SUBSET Int
  <2>1. \A d \in 1 .. Len(Documents) : DOMAIN Documents[d].members \subseteq Strings
    BY <1>1, DocumentsAreJson
  <2>2. \A f \in field_names : f \in Strings
    BY <1>1, <2>1
  <2>3. Strings \subseteq Int
    BY StringsAssumption
  <2>. QED  BY <2>2, <2>3
<1>3. /\ schema \in [1 .. Cardinality(field_names) -> field_names]
      /\ \A x \in field_names : \E i \in 1 .. Cardinality(field_names) : schema[i] = x
      /\ \A i, j \in 1 .. Cardinality(field_names) : i < j => schema[i] < schema[j]
  <2> DEFINE names == Ascending(field_names)
  <2>1. field_names \in SUBSET Int /\ IsFiniteSet(field_names)
    BY <1>1, <1>2
  <2>2. /\ names \in [1 .. Cardinality(field_names) -> field_names]
        /\ \A x \in field_names : \E i \in 1 .. Cardinality(field_names) : names[i] = x
        /\ \A i, j \in 1 .. Cardinality(field_names) : i < j => names[i] < names[j]
    BY <2>1, AscendingLists
  <2>3. schema = names
    BY <1>1
  <2>. HIDE DEF names
  <2>. QED  BY <2>2, <2>3
<1>4. /\ DOMAIN schema = 1 .. Cardinality(field_names)
      /\ \A i \in DOMAIN schema : schema[i] \in field_names
      /\ \A x \in field_names : \E i \in DOMAIN schema : schema[i] = x
      /\ \A i, j \in DOMAIN schema : i < j => schema[i] < schema[j]
  BY <1>3
<1>5. ToSet(schema) = field_names
  BY <1>4 DEF ToSet
<1>. QED  BY <1>1, <1>4, <1>5

\* The schema is a list of strings.
LEMMA SchemaIsNames ==
    ASSUME IInv, phase = "loaded"
    PROVE  schema \in Seq(Strings)
<1>1. /\ text \in Texts /\ IsTabular /\ schema = Ascending(field_names) /\ IsFiniteSet(field_names)
      /\ field_names = UNION {DOMAIN Documents[d].members : d \in 1 .. Len(Documents)}
      /\ \A d \in 1 .. Len(Documents) : Documents[d].type = "object"
  BY DEF IInv, Phases, Filling
<1>2. field_names \subseteq Strings
  BY <1>1, DocumentsAreJson
<1>3. field_names \in SUBSET Int
  BY <1>2, StringsAssumption
<1>4. schema \in [1 .. Cardinality(field_names) -> field_names]
  BY <1>1, <1>3, AscendingLists
<1>. QED  BY <1>1, <1>2, <1>4, FS_CardinalityType, ListIsSequence

\* The rows of a loaded table.
LEMMA TableIsFilled ==
    ASSUME IInv, phase = "loaded"
    PROVE  /\ text \in Texts /\ IsTabular
           /\ Len(Documents) \in Nat /\ DOMAIN Documents = 1 .. Len(Documents)
           /\ rows \in Seq(ToSet(rows)) /\ Len(rows) = Len(Documents)
           /\ \A d \in 1 .. Len(Documents) : FlatDocument(d) /\ RowSays(d)
<1>1. /\ text \in Texts /\ IsTabular
      /\ Len(Documents) \in Nat /\ DOMAIN Documents = 1 .. Len(Documents)
      /\ next = Len(Documents) + 1
  BY DocumentsAreJson DEF IInv, Phases
<1>2. next - 1 = Len(Documents)
  BY <1>1
<1>. QED  BY <1>1, <1>2 DEF IInv, Filling

\* A loaded table says of every field of every document what the document says of
\* it, and null where the document has no such field (json_loader.cpp:69-83).
THEOREM TablesAreFaithful == Spec => []LoadedFaithfully
<1>1. IInv => LoadedFaithfully
  <2>. SUFFICES ASSUME IInv, phase = "loaded" PROVE LoadedFaithfully
    BY DEF LoadedFaithfully
  <2>1. /\ DOMAIN Documents = 1 .. Len(Documents) /\ Len(Documents) \in Nat
        /\ next = Len(Documents) + 1
    BY DocumentsAreJson DEF IInv, Phases
  <2>2. Len(rows) = Len(Documents) /\ \A d \in DOMAIN Documents : RowSays(d)
    BY <2>1 DEF IInv, Filling
  <2>3. \A d \in DOMAIN Documents : DOMAIN Documents[d].members \subseteq ToSet(schema)
    BY <2>1, SchemaLists
  <2>4. ASSUME NEW d \in DOMAIN Documents PROVE rows[d].ordinal = d - 1
    <3>1. rows[d] = [ordinal |-> d - 1, values |-> rows[d].values]
      BY <2>2 DEF RowSays
    <3>. QED  BY <3>1
  <2>. QED  BY <2>2, <2>3, <2>4 DEF LoadedFaithfully, RowSays
<1>. QED  BY <1>1, Invariant, PTL

\* The schema lists the names of all documents in order, whatever the order of the
\* documents and of their fields (json_loader.cpp:52-67).
THEOREM SchemasAreCanonical == Spec => []SchemaIsCanonical
<1>1. IInv => SchemaIsCanonical
  <2>. SUFFICES ASSUME IInv, phase \in {"filling", "loaded"} PROVE SchemaIsCanonical
    BY DEF SchemaIsCanonical
  <2>1. DOMAIN Documents = 1 .. Len(Documents)
    BY DocumentsAreJson DEF IInv, Phases
  <2>2. {DOMAIN d.members : d \in ToSet(Documents)}
          = {DOMAIN Documents[d].members : d \in 1 .. Len(Documents)}
    BY <2>1 DEF ToSet
  <2>. QED  BY <2>2, SchemaLists DEF SchemaIsCanonical
<1>. QED  BY <1>1, Invariant, PTL

\* A text loads just when it is an array of flat objects with no integer beyond
\* int64 (json_loader.cpp:15-56).
THEOREM JustTheTablesLoad == Spec => []LoadsJustTheTables
<1>1. IInv => LoadsJustTheTables
  <2>. SUFFICES ASSUME IInv, Finished
                PROVE  phase = "loaded" <=>
                          IsTabular /\ \A d \in ToSet(Documents) :
                              d.type = "object" /\ \A f \in DOMAIN d.members : Flat(d.members[f])
    BY DEF LoadsJustTheTables, Flat, IsTabular
  <2>1. ASSUME IsTabular
        PROVE  (\A d \in ToSet(Documents) :
                   d.type = "object" /\ \A f \in DOMAIN d.members : Flat(d.members[f]))
               <=> \A d \in 1 .. Len(Documents) : FlatDocument(d)
    <3>1. DOMAIN Documents = 1 .. Len(Documents)
      BY <2>1, DocumentsAreJson DEF IInv, Phases
    <3>. QED  BY <3>1 DEF ToSet, FlatDocument
  <2>2. CASE phase = "loaded"
    <3>1. IsTabular /\ next - 1 = Len(Documents)
      BY <2>2, DocumentsAreJson DEF IInv, Phases
    <3>. QED  BY <2>1, <2>2, <3>1 DEF IInv, Filling
  <2>3. CASE phase = "failed"
    BY <2>1, <2>3 DEF IInv, Failing
  <2>. QED  BY <2>2, <2>3 DEF Finished
<1>. QED  BY <1>1, Invariant, PTL
==============================================================================

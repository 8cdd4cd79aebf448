---------------------------- MODULE TableLoading ----------------------------
(***************************************************************************)
(* loadTableFromJsonFile() (src/data/json_loader.cpp): the text of a file  *)
(* is parsed, a first pass over the documents collects the names of all    *)
(* fields, a second one fills a row for each document.                     *)
(*                                                                         *)
(* The JSON parser is external; of a text it is told whether the file can  *)
(* be opened, whether it is JSON, whether it has a number no double can    *)
(* hold, and otherwise the document in it.                                 *)
(***************************************************************************)
EXTENDS JsonValues

CONSTANT Texts  \* records of kind, and document if the kind is "json"

\* A file that holds JSON holds a document of values of JSON, and the names of the
\* fields of a table are strings.
IsText(t) ==
    /\ t.kind \in {"unreadable", "malformed", "trailing", "overflow", "json"}
    /\ t.kind = "json" => IsJson(t.document)
    /\ t.kind = "json" /\ t.document.type = "array" =>
          \A d \in ToSet(t.document.elements) :
              /\ IsJson(d)
              /\ d.type = "object" =>
                    /\ DOMAIN d.members \subseteq Strings
                    /\ \A f \in DOMAIN d.members : IsJson(d.members[f])

ASSUME TextsAssumption == \A t \in Texts : IsText(t)

VARIABLES text,
          phase,        \* which of its functions the loader is in
          next,         \* the document the loop is at
          field_names,  \* the std::set of the first pass
          schema,       \* Table::schema
          rows,         \* Table::rows
          thrown        \* the type of the exception, and of a QueryLumeError its code

vars == <<text, phase, next, field_names, schema, rows, thrown>>

NoException == [type |-> "none", code |-> "none"]
QueryLumeError(c) == [type |-> "QueryLumeError", code |-> c]
OutOfRange == [type |-> "nlohmann::json::out_of_range", code |-> "none"]

Init ==
    /\ text \in Texts
    /\ phase = "parsing"
    /\ next = 1
    /\ field_names = {}
    /\ schema = <<>>
    /\ rows = <<>>
    /\ thrown = NoException

Throw(e) ==
    /\ phase' = "failed" /\ thrown' = e
    /\ UNCHANGED <<text, next, field_names, schema, rows>>

Documents == text.document.elements

\* What nlohmann::json::parse() makes of a text: a document, a parse_error, also of
\* anything after the document, or, of a number that overflows, an out_of_range.
ParseOutcome == CASE text.kind = "json" -> "document"
                  [] text.kind \in {"malformed", "trailing"} -> "parse_error"
                  [] text.kind = "overflow" -> "out_of_range"

OpenFails ==
    /\ phase = "parsing" /\ text.kind = "unreadable"
    /\ Throw(QueryLumeError("kJsonParseError"))

\* The handler is for parse_error alone.
ParseFails ==
    /\ phase = "parsing" /\ text.kind # "unreadable" /\ ParseOutcome # "document"
    /\ Throw(IF ParseOutcome = "parse_error" THEN QueryLumeError("kJsonParseError")
                                             ELSE OutOfRange)

Parse ==
    /\ phase = "parsing" /\ text.kind # "unreadable" /\ ParseOutcome = "document"
    /\ IF text.document.type = "array"
       THEN phase' = "collecting" /\ UNCHANGED <<text, next, field_names, schema, rows, thrown>>
       ELSE Throw(QueryLumeError("kInvalidDataShape"))

\* Seeded fault: the fields of the last document are taken for those of all.
FieldsOfLast(doc) == DOMAIN doc.members

\* The names of all fields up to this document.
FieldsWith(doc) == field_names \cup DOMAIN doc.members

\* The first pass.
CollectNext ==
    /\ phase = "collecting" /\ next <= Len(Documents)
    /\ LET doc == Documents[next]
       IN  \/ doc.type # "object" /\ Throw(QueryLumeError("kInvalidDataShape"))
           \/ /\ doc.type = "object"
              /\ field_names' = FieldsWith(doc)
              /\ next' = next + 1
              /\ UNCHANGED <<text, phase, schema, rows, thrown>>

CollectEnds ==
    /\ phase = "collecting" /\ next > Len(Documents)
    /\ phase' = "filling"
    /\ next' = 1
    /\ schema' = Ascending(field_names)
    /\ UNCHANGED <<text, field_names, rows, thrown>>

\* Seeded fault: the values of a document go to the first columns.
PlacedInTurn(keys, cells) ==
    [i \in DOMAIN schema |-> IF i \in DOMAIN keys THEN cells[i].value ELSE Null]

\* Row::values: each cell goes to the column of its name, the others stay null.
Placed(keys, cells) ==
    [i \in DOMAIN schema |->
        LET at == {k \in DOMAIN keys : keys[k] = schema[i]}
        IN  IF at = {} THEN Null ELSE cells[Min(at)].value]

\* The row of a document: its cells are converted in the order of its keys, and the
\* first that cannot be decides.
ValuesOf(doc) ==
    LET keys  == Keys(doc)
        cells == [k \in DOMAIN keys |-> Scalar(doc.members[keys[k]], "kInvalidDataShape")]
    IN  Made(LAMBDA values : Placed(keys, cells), GivesAll(cells))

\* The second pass.
FillNext ==
    /\ phase = "filling" /\ next <= Len(Documents)
    /\ LET v == ValuesOf(Documents[next])
       IN  \/ v.error # "none" /\ Throw(QueryLumeError(v.error))
           \/ /\ v.error = "none"
              /\ rows' = Append(rows, [ordinal |-> next - 1, values |-> v.value])
              /\ next' = next + 1
              /\ UNCHANGED <<text, phase, field_names, schema, thrown>>

FillEnds ==
    /\ phase = "filling" /\ next > Len(Documents)
    /\ phase' = "loaded"
    /\ UNCHANGED <<text, next, field_names, schema, rows, thrown>>

Finished == phase \in {"loaded", "failed"}

Over == Finished /\ UNCHANGED vars

Step ==
    \/ OpenFails \/ ParseFails \/ Parse
    \/ CollectNext \/ CollectEnds
    \/ FillNext \/ FillEnds

Next == Step \/ Over

Spec == Init /\ [][Next]_vars
-----------------------------------------------------------------------------
\* The types a value of a document may have in a table.
Keeps(j, value) ==
    /\ value.v = j.v
    /\ <<j.type, value.type>> \in
          {<<"null", "kNull">>, <<"boolean", "kBool">>, <<"number_integer", "kInt64">>,
           <<"number_unsigned", "kInt64">>, <<"number_float", "kDouble">>, <<"string", "kString">>}

\* A loaded table says of every field of every document what the document says of
\* it: the value in the column of that name, and null where the document has no
\* such field, whichever documents have it; no number has changed on the way
\* (README.md "Data model", json_loader.cpp:69-83).
LoadedFaithfully ==
    phase = "loaded" =>
        /\ Len(rows) = Len(Documents)
        /\ \A d \in DOMAIN Documents :
              LET members == Documents[d].members
              IN  /\ rows[d].ordinal = d - 1
                  /\ DOMAIN members \subseteq ToSet(schema)
                  /\ \A c \in DOMAIN schema :
                        IF schema[c] \in DOMAIN members
                        THEN Keeps(members[schema[c]], rows[d].values[c])
                        ELSE rows[d].values[c] = Null

\* The schema does not depend on the order of the documents or of their fields
\* (test SchemaUsesCanonicalLexicographicOrder).
SchemaIsCanonical ==
    phase \in {"filling", "loaded"} =>
        /\ ToSet(schema) = UNION {DOMAIN d.members : d \in ToSet(Documents)}
        /\ \A i, j \in DOMAIN schema : i < j => schema[i] < schema[j]

\* A text loads just when it is an array of flat objects with no integer beyond
\* int64, and nothing but that stops it: one bad cell in the last document does.
LoadsJustTheTables ==
    LET Flat(j) == /\ j.type \notin {"array", "object"}
                   /\ j.type = "number_unsigned" => j.v <= Int64Max
        Tabular == /\ text.kind = "json" /\ text.document.type = "array"
                   /\ \A d \in ToSet(Documents) :
                         d.type = "object" /\ \A f \in DOMAIN d.members : Flat(d.members[f])
    IN  Finished => (phase = "loaded" <=> Tabular)

\* What src/include/querylume/common/error.h:23-26 says: whatever the input,
\* a failure is a QueryLumeError.
OnlyQueryLumeErrors == phase = "failed" => thrown.type = "QueryLumeError"
==============================================================================

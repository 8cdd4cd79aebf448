--------------------------- MODULE MCTableLoading ---------------------------
(***************************************************************************)
(* Texts of up to three documents over two fields, each with any of these  *)
(* values or none, nested ones and integers at the edge of int64 among     *)
(* them, or with a document that is no object; and texts with no document. *)
(***************************************************************************)
EXTENDS TableLoading

MCInt64Min == -4
MCInt64Max == 3
MCDoubles == {-20, -8, -2, 0, 2, 20}
MCStrings == 0 .. 3

Scalars == {JNull, JInteger(-4), JUnsigned(3), JString(1)}
Cells == Scalars \cup {JUnsigned(4), JArray(<<>>)}

Objects(fields, cells) == {JObject(m) : m \in UNION {[F -> cells] : F \in SUBSET fields}}

Elements == {JFloat(2)} \cup Objects({1, 2}, Cells)

Arrays ==
    UNION {[1 .. n -> Elements] : n \in 0 .. 2}
    \cup [1 .. 3 -> Objects({1, 2, 3}, {JBool(1)}) \cup {JMember(2, JObject(<<>>))}]

MCTexts ==
    {[kind |-> k] : k \in {"unreadable", "malformed", "overflow"}}
    \cup {[kind |-> "trailing", document |-> JArray(<<>>)]}
    \cup {[kind |-> "json", document |-> d] : d \in {JMember(1, JNull)} \cup {JArray(e) : e \in Arrays}}
==============================================================================

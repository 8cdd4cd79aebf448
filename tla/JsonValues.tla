------------------------------ MODULE JsonValues ------------------------------
(***************************************************************************)
(* The JSON documents that reach QueryLume, as nlohmann::json holds them,  *)
(* and the conversion of a scalar to a Value that the loader and the       *)
(* pipeline parser make.                                                   *)
(*                                                                         *)
(* A document is a record of its value_t and a payload.  A string is its   *)
(* rank in byte order, as in Values; the keys of an object are such ranks  *)
(* too, but for the names of stages and operators, which are kept.         *)
(***************************************************************************)
EXTENDS Values, Sequences, SequencesExt, FiniteSetsExt

Json(t, v) == [type |-> t, v |-> v]

JNull        == Json("null", 0)
JBool(b)     == Json("boolean", b)
JInteger(i)  == Json("number_integer", i)
JUnsigned(u) == Json("number_unsigned", u)
JFloat(f)    == Json("number_float", f)
JString(s)   == Json("string", s)
JArray(e)    == [type |-> "array", elements |-> e]
JObject(m)   == [type |-> "object", members |-> m]

\* An object of the one member k: v.
JMember(k, v) == JObject([x \in {k} |-> v])

IsInteger(j) == j.type \in {"number_integer", "number_unsigned"}
IsSingleKeyObject(j) == j.type = "object" /\ Cardinality(DOMAIN j.members) = 1
OnlyKey(j) == CHOOSE k \in DOMAIN j.members : TRUE

\* The members of an object are visited in the order of their keys.
Keys(j) == Ascending(DOMAIN j.members)

\* What nlohmann::json may hold: numbers are int64, uint64 or double, and no NaN.
JScalars ==
    {JNull} \cup {JBool(b) : b \in {0, 1}}
    \cup [type : {"number_integer"}, v : Int64Min .. Int64Max]
    \cup [type : {"number_unsigned"}, v : Nat]
    \cup [type : {"number_float"}, v : Doubles]
    \cup [type : {"string"}, v : Strings]

IsJson(j) ==
    \/ j.type = "array" /\ j.elements \in Seq(ToSet(j.elements))
    \/ j.type = "object" /\ IsFiniteSet(DOMAIN j.members)
    \/ j \in JScalars

\* Every step below gives a value or the ErrorCode it throws.
Gives(x) == [error |-> "none", value |-> x]
Throws(code) == [error |-> code, value |-> Null]

\* The steps of s are taken in order; the first that throws decides.
GivesAll(s) ==
    LET bad == {i \in DOMAIN s : s[i].error # "none"}
    IN  IF bad # {} THEN s[Min(bad)] ELSE Gives([i \in DOMAIN s |-> s[i].value])

\* What F makes of the value given, unless something was thrown.
Made(F(_), given) == IF given.error # "none" THEN given ELSE Gives(F(given.value))

\* Seeded fault: a large unsigned integer is cast to int64.
UnsignedWraps(u) == Gives(Int64(((u - Int64Min) % (Int64Max - Int64Min + 1)) + Int64Min))

\* An unsigned integer, which int64 has to hold.
Unsigned(u) == IF u > Int64Max THEN Throws("kUnsupportedValueType") ELSE Gives(Int64(u))

\* convertScalar() and jsonToLiteral(), which differ in the error for a nested
\* value.
Scalar(j, nested) ==
    CASE j.type = "null"            -> Gives(Null)
      [] j.type = "boolean"         -> Gives(Bool(j.v))
      [] j.type = "number_integer"  -> Gives(Int64(j.v))
      [] j.type = "number_unsigned" -> Unsigned(j.v)
      [] j.type = "number_float"    -> Gives(Double(j.v))
      [] j.type = "string"          -> Gives(String(j.v))
      [] OTHER                      -> Throws(nested)
==============================================================================

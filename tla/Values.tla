------------------------------- MODULE Values -------------------------------
(***************************************************************************)
(* The scalar cells of a QueryLume table and the two comparisons every     *)
(* filter and every sort is built from: compare() and valuesEqual() of     *)
(* src/data/value.cpp.                                                     *)
(*                                                                         *)
(* A Value is a record of its ValueType and a payload.  Numbers are        *)
(* counted in halves: the int64 i has the payload i and stands for 2*i     *)
(* halves, a double has its number of halves as payload.  A half is the    *)
(* one fraction the code can tell from a whole number, which it does by    *)
(* comparing a double with its own truncation.  A double has few           *)
(* significant digits, so Doubles need not hold every whole number: that   *)
(* gap, between int64 and double, is what compareIntToDouble() is for.     *)
(* A string is its rank in byte order.  A comparison that throws has the   *)
(* ErrorCode as its outcome.                                               *)
(***************************************************************************)
EXTENDS Integers, FiniteSets

CONSTANTS Int64Min,  \* INT64_MIN and
          Int64Max,  \* INT64_MAX: the width of the integer payload
          Doubles,   \* the doubles other than NaN, in halves
          NaN,       \* the double that is not a number
          Strings    \* the strings, as ranks in byte order

Truncate(f) == IF f >= 0 THEN f \div 2 ELSE -((-f) \div 2)

\* The members of a set of numbers in ascending order.  For names this is the order
\* in which a std::map or a std::set of strings is visited.
Ascending(S) ==
    [i \in 1 .. Cardinality(S) |-> CHOOSE x \in S : Cardinality({y \in S : y < x}) = i - 1]

\* -2^63 and 2^63 of compareIntToDouble(), in halves.
LowerBound == 2 * Int64Min
UpperBound == 2 * (Int64Max + 1)

ASSUME Int64Assumption ==
    Int64Min \in Int /\ Int64Max \in Int /\ Int64Min <= 0 /\ 0 <= Int64Max

\* NaN is no number, and dropping the fraction of a double of the int64 range
\* leaves a double: it needs no more digits.
ASSUME DoublesAssumption ==
    /\ Doubles \subseteq Int
    /\ NaN \notin Int
    /\ \A f \in Doubles :
          LowerBound <= f /\ f < UpperBound => 2 * Truncate(f) \in Doubles

ASSUME StringsAssumption == Strings \subseteq Nat

-----------------------------------------------------------------------------
Null      == [type |-> "kNull",   v |-> 0]
Bool(b)   == [type |-> "kBool",   v |-> b]
Int64(i)  == [type |-> "kInt64",  v |-> i]
Double(f) == [type |-> "kDouble", v |-> f]
String(s) == [type |-> "kString", v |-> s]

Value == {Null}
         \cup {Bool(b)   : b \in {0, 1}}
         \cup {Int64(i)  : i \in Int64Min .. Int64Max}
         \cup {Double(f) : f \in Doubles \cup {NaN}}
         \cup {String(s) : s \in Strings}

CompareResult == {"kLess", "kEqual", "kGreater", "kUnordered"}
ComparisonError == {"kIncompatibleTypes", "kUnsupportedValueType"}

IsNumeric(a) == a.type \in {"kInt64", "kDouble"}

\* The number a numeric cell stands for, in halves.
Exact(a) == IF a.type = "kInt64" THEN 2 * a.v ELSE a.v

\* a < b, a > b or neither, of one C++ type.
Order(a, b) == IF a < b THEN "kLess" ELSE IF a > b THEN "kGreater" ELSE "kEqual"

CompareDoubles(f, g) == IF NaN \in {f, g} THEN "kUnsupportedValueType" ELSE Order(f, g)

Magnitude(n) == IF n < 0 THEN -n ELSE n

\* static_cast<double> of the integer i: a nearest double.
ToDouble(i) == CHOOSE f \in Doubles :
                   \A g \in Doubles : Magnitude(f - 2 * i) <= Magnitude(g - 2 * i)

\* Seeded fault: the integer is cast to double and rounded.
CompareIntToDoubleByCast(i, f) == CompareDoubles(ToDouble(i), f)

CompareIntToDouble(i, f) ==
    IF f = NaN              THEN "kUnsupportedValueType"
    ELSE IF f < LowerBound  THEN "kGreater"
    ELSE IF f >= UpperBound THEN "kLess"
    ELSE LET t == Truncate(f)
         IN  IF i # t THEN Order(i, t) ELSE Order(ToDouble(t), f)

Invert(r) == CASE r = "kLess"    -> "kGreater"
               [] r = "kGreater" -> "kLess"
               [] OTHER          -> r

\* Seeded fault: a double on the left is not turned around.
CompareNumericUninverted(a, b) ==
    CASE a.type = "kInt64"  /\ b.type = "kInt64"  -> Order(a.v, b.v)
      [] a.type = "kDouble" /\ b.type = "kDouble" -> CompareDoubles(a.v, b.v)
      [] a.type = "kInt64"  /\ b.type = "kDouble" -> CompareIntToDouble(a.v, b.v)
      [] OTHER                                    -> CompareIntToDouble(b.v, a.v)

CompareNumeric(a, b) ==
    CASE a.type = "kInt64"  /\ b.type = "kInt64"  -> Order(a.v, b.v)
      [] a.type = "kDouble" /\ b.type = "kDouble" -> CompareDoubles(a.v, b.v)
      [] a.type = "kInt64"  /\ b.type = "kDouble" -> CompareIntToDouble(a.v, b.v)
      [] OTHER                                    -> Invert(CompareIntToDouble(b.v, a.v))

Compare(a, b) ==
    IF "kNull" \in {a.type, b.type}              THEN "kUnordered"
    ELSE IF "kBool" \in {a.type, b.type}         THEN "kIncompatibleTypes"
    ELSE IF IsNumeric(a) /\ IsNumeric(b)         THEN CompareNumeric(a, b)
    ELSE IF a.type = "kString" /\ b.type = a.type THEN Order(a.v, b.v)
    ELSE "kIncompatibleTypes"

Truth(b) == IF b THEN "true" ELSE "false"

\* Seeded fault: numbers are equal only within one C++ type.
ValuesEqualByType(a, b) ==
    IF "kNull" \in {a.type, b.type}      THEN Truth(a.type = b.type)
    ELSE IF IsNumeric(a) /\ IsNumeric(b)
         THEN LET r == CompareNumeric(a, b)
              IN  IF r \in ComparisonError THEN r ELSE Truth(a = b)
    ELSE IF a.type = b.type              THEN Truth(a.v = b.v)
    ELSE "kIncompatibleTypes"

\* A numeric comparison that throws makes the whole of valuesEqual() throw.
ValuesEqual(a, b) ==
    IF "kNull" \in {a.type, b.type}      THEN Truth(a.type = b.type)
    ELSE IF IsNumeric(a) /\ IsNumeric(b)
         THEN LET r == CompareNumeric(a, b)
              IN  IF r \in ComparisonError THEN r ELSE Truth(r = "kEqual")
    ELSE IF a.type = b.type              THEN Truth(a.v = b.v)
    ELSE "kIncompatibleTypes"
=============================================================================

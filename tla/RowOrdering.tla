----------------------------- MODULE RowOrdering -----------------------------
(***************************************************************************)
(* Three rows of one column whose cells change one at a time, through      *)
(* every combination of the cells a table can hold, and the laws the       *)
(* comparisons on them obey.  std::sort and std::push_heap need a strict   *)
(* weak order; a comparator that is none is undefined behaviour in         *)
(* SortStage and in TopKStage.                                             *)
(***************************************************************************)
EXTENDS RowComparator

VARIABLE cells  \* the cells of the rows with the ordinals 1, 2 and 3

Ordinals == 1 .. 3

Row(i) == [ordinal |-> i, values |-> <<cells[i]>>]

SortBy(direction) == [column |-> 1, direction |-> direction]

Init == cells = [i \in Ordinals |-> Null]

SetCell(i, v) == cells' = [cells EXCEPT ![i] = v]

Next == \E i \in Ordinals, v \in Value : SetCell(i, v)

Spec == Init /\ [][Next]_cells

-----------------------------------------------------------------------------
TypeOK == cells \in [Ordinals -> Value]  \* a lemma of RowOrderingProofs

\* compare() orders any two numbers, int64 or double, by their exact values,
\* also where a double has fewer digits than an int64 (value.cpp:26-45).
NumbersCompareExactly ==
    LET a == cells[1]  b == cells[2]
    IN  IsNumeric(a) /\ IsNumeric(b) /\ NaN \notin {a.v, b.v}
            => Compare(a, b) = Order(Exact(a), Exact(b))

\* valuesEqual() and compare(), two separate case analyses of the same types,
\* agree on which non-null cells are equal and on which numbers and strings
\* cannot be compared (value.cpp:104-148).
EqualityAgreesWithOrder ==
    LET a == cells[1]  b == cells[2]
    IN  {"kNull", "kBool"} \cap {a.type, b.type} = {}
            => \/ ValuesEqual(a, b) = Compare(a, b) /\ Compare(a, b) \in ComparisonError
               \/ ValuesEqual(a, b) = Truth(Compare(a, b) = "kEqual")
                  /\ Compare(a, b) \notin ComparisonError

\* In either direction the comparator is a strict order of the rows: no row is
\* before itself, two rows are ordered one way only or the question throws
\* whichever way it is asked, and the order is transitive
\* (row_comparator.cpp:7-30).
RowsStrictlyOrdered ==
    \A direction \in SortDirection :
        LET before(i, j) == RowBefore(SortBy(direction), Row(i), Row(j))
            clash(i, j)  == RowClash(SortBy(direction), Row(i), Row(j))
        IN  /\ \A i \in Ordinals : ~before(i, i)
            /\ \A i, j \in Ordinals :
                  i # j => \/ clash(i, j) /\ clash(j, i)
                           \/ ~clash(i, j) /\ ~clash(j, i) /\ (before(i, j) # before(j, i))
            /\ \A i, j, k \in Ordinals : before(i, j) /\ before(j, k) => before(i, k)

\* Descending order is ascending order reversed, except that rows with equal
\* keys keep their input order in both (row_comparator.h:17-18).
DescendingReversesAllButTies ==
    \A i, j \in Ordinals :
        LET up   == LessThan(SortBy("kAscending"), Row(i), Row(j))
            down == LessThan(SortBy("kDescending"), Row(i), Row(j))
        IN  i # j =>
            IF ValuesEqual(cells[i], cells[j]) = "true" /\ cells[i].type # "kBool"
            THEN up = Truth(i < j) /\ down = Truth(i < j)
            ELSE down = LessThan(SortBy("kAscending"), Row(j), Row(i))

\* The six operators of $match say the same of two cells: where they do not
\* throw, $ne denies $eq, of $lt, $eq and $gt exactly one holds of two non-null
\* cells, $lte and $gte add $eq to $lt and $gt, and an order asked of a null
\* never holds, not even $lte of two nulls (comparison_expression.cpp:13-34).
OperatorsAgree ==
    LET says(op) == EvaluateComparison(op, cells[1], cells[2])
        null     == "kNull" \in {cells[1].type, cells[2].type}
        bool     == "kBool" \in {cells[1].type, cells[2].type}
        holds    == {op \in ComparisonOperator : says(op) = "true"}
    IN  IF \E op \in ComparisonOperator : says(op) \in ComparisonError
        THEN /\ ~null
             /\ ~bool => \A op \in ComparisonOperator : says(op) = says("kEq")
        ELSE /\ {says(op) : op \in ComparisonOperator} = {"true", "false"}
             /\ IF null THEN holds \in {{"kEq"}, {"kNe"}}
                ELSE holds \in {{"kEq", "kLte", "kGte"}, {"kNe", "kLt", "kLte"},
                                {"kNe", "kGt", "kGte"}}
==============================================================================

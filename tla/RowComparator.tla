---------------------------- MODULE RowComparator ----------------------------
(***************************************************************************)
(* Rows, the order SortStage and TopKStage share (RowComparator of         *)
(* src/physical/row_comparator.cpp) and the predicates FilterStage         *)
(* evaluates (src/expression).                                             *)
(*                                                                         *)
(* A row keeps the ordinal it had in the input, which breaks every tie.    *)
(* A sort is the record of the column and the direction the binder         *)
(* resolved; a predicate is a sequence of comparisons of a column with a   *)
(* literal, empty for the literal true.                                    *)
(***************************************************************************)
EXTENDS Values, Sequences, SequencesExt

SortDirection == {"kAscending", "kDescending"}
ComparisonOperator == {"kEq", "kNe", "kLt", "kLte", "kGt", "kGte"}

\* Seeded fault: descending asks the ascending question with the rows swapped.
LessThanSwapped(sort, a, b) ==
    LET up   == sort.direction = "kAscending"
        x    == IF up THEN a ELSE b
        y    == IF up THEN b ELSE a
        vx   == x.values[sort.column]
        vy   == y.values[sort.column]
        r    == Compare(vx, vy)
    IN  IF r \in ComparisonError THEN r
        ELSE IF r = "kUnordered" /\ vx.type # vy.type THEN Truth(vy.type = "kNull")
        ELSE IF r \in {"kEqual", "kUnordered"} THEN Truth(x.ordinal < y.ordinal)
        ELSE Truth(r = "kLess")

\* RowComparator::operator()(a, b): "true", "false" or the error it throws.
LessThan(sort, a, b) ==
    LET va == a.values[sort.column]
        vb == b.values[sort.column]
        ascending == sort.direction = "kAscending"
    IN  IF va.type = "kNull" /\ vb.type = "kNull"
        THEN Truth(a.ordinal < b.ordinal)
        ELSE IF va.type = "kNull" \/ vb.type = "kNull"
        THEN Truth(ascending <=> vb.type = "kNull")
        ELSE LET r == Compare(va, vb)
             IN  IF r \in ComparisonError THEN r
                 ELSE IF r = "kEqual" THEN Truth(a.ordinal < b.ordinal)
                 ELSE Truth(r = IF ascending THEN "kLess" ELSE "kGreater")

\* The row a goes strictly before the row b.
RowBefore(sort, a, b) == LessThan(sort, a, b) = "true"

\* Asked about a and b, the comparator throws.
RowClash(sort, a, b) == LessThan(sort, a, b) \in ComparisonError

-----------------------------------------------------------------------------
\* Seeded fault: at most is taken for not greater.
EvaluateLteAsNotGreater(op, a, b) ==
    LET eq == ValuesEqual(a, b)
        r  == Compare(a, b)
        Ordered(accepted) == IF r \in ComparisonError THEN r ELSE Truth(r \in accepted)
    IN  CASE op = "kEq"  -> eq
          [] op = "kNe"  -> IF eq \in ComparisonError THEN eq ELSE Truth(eq = "false")
          [] op = "kLt"  -> Ordered({"kLess"})
          [] op = "kLte" -> Ordered({"kLess", "kEqual", "kUnordered"})
          [] op = "kGt"  -> Ordered({"kGreater"})
          [] op = "kGte" -> Ordered({"kGreater", "kEqual"})

\* ComparisonExpression::evaluate() over the cell a and the literal b.
EvaluateComparison(op, a, b) ==
    LET eq == ValuesEqual(a, b)
        r  == Compare(a, b)
        Ordered(accepted) == IF r \in ComparisonError THEN r ELSE Truth(r \in accepted)
    IN  CASE op = "kEq"  -> eq
          [] op = "kNe"  -> IF eq \in ComparisonError THEN eq ELSE Truth(eq = "false")
          [] op = "kLt"  -> Ordered({"kLess"})
          [] op = "kLte" -> Ordered({"kLess", "kEqual"})
          [] op = "kGt"  -> Ordered({"kGreater"})
          [] op = "kGte" -> Ordered({"kGreater", "kEqual"})

\* ConjunctionExpression::evaluate(): the operands are evaluated in order and
\* the first that is not true, false or an exception, decides.
Evaluate(predicate, row) ==
    LET Outcome(i) == EvaluateComparison(predicate[i].op,
                                         row.values[predicate[i].column],
                                         predicate[i].literal)
        decisive == {i \in DOMAIN predicate : Outcome(i) # "true"}
    IN  IF decisive = {} THEN "true" ELSE Outcome(Min(decisive))
==============================================================================

-------------------------- MODULE PipelineSemantics --------------------------
(***************************************************************************)
(* What a plan means: the rows it yields for a table, and whether and when *)
(* it fails.  This is the reference the executor and the optimizer are   *)
(* checked against, a translation of the pipeline language and of no code. *)
(*                                                                         *)
(* A plan is a sequence of stages, the first one the scan.  Each stage     *)
(* turns an outcome of the stages before it into its own outcomes; a top-k *)
(* may have two, because it need not compare every two rows.               *)
(***************************************************************************)
EXTENDS RowComparator, FiniteSets

Scan == [stage |-> "CollectionScan"]
Filter(p) == [stage |-> "Filter", predicate |-> p]
Project(c) == [stage |-> "Project", columns |-> c]
Sort(c, d) == [stage |-> "Sort", sort |-> [column |-> c, direction |-> d]]
Limit(n) == [stage |-> "Limit", limit |-> n]
TopK(c, d, n) == [stage |-> "TopK", sort |-> [column |-> c, direction |-> d], k |-> n]

\* The rows of a table or of a stage: a cell in every column, and ordinals that tell
\* them apart.
AreRows(rows, width) ==
    /\ rows \in Seq([ordinal : Nat, values : [1 .. width -> Value]])
    /\ \A i, j \in DOMAIN rows : rows[i].ordinal = rows[j].ordinal => i = j

\* A plan opens, yields rows and is at its end, or fails after them; or it
\* fails to open, since sorts and top-ks take all their rows when they open.
Yields(rows) == [rows |-> rows, fate |-> "eof"]
FailsAfter(rows) == [rows |-> rows, fate |-> "fails"]
FailsToOpen == [rows |-> <<>>, fate |-> "opens not"]

\* The row with the columns cs of r.
ProjectRow(cs, r) == [r EXCEPT !.values = [j \in DOMAIN cs |-> r.values[cs[j]]]]

\* The rows at the places listed.
RowsAt(rows, places) == [i \in DOMAIN places |-> rows[places[i]]]

\* The predicate p is asked row by row until it fails; the rows kept satisfy it.
Filtered(p, o) ==
    LET bad  == {j \in DOMAIN o.rows : Evaluate(p, o.rows[j]) \in ComparisonError}
        seen == IF bad = {} THEN DOMAIN o.rows ELSE 1 .. Min(bad) - 1
    IN  [rows |-> RowsAt(o.rows, Ascending({j \in seen : Evaluate(p, o.rows[j]) = "true"})),
         fate |-> IF bad = {} THEN o.fate ELSE "fails"]

\* Once it has its n rows a limit does not meet what comes after them.
Limited(n, o) ==
    IF n <= Len(o.rows) /\ o # FailsToOpen THEN Yields(SubSeq(o.rows, 1, n)) ELSE o

\* Two rows of S cannot be compared.
Clashing(sort, S) == \E a, b \in S : a # b /\ RowClash(sort, a, b)

\* The rows of S, none of which clash, in the order of the sort: the i-th of them
\* has i - 1 rows of S before it.
InOrder(sort, S) ==
    [i \in 1 .. Cardinality(S) |->
        CHOOSE r \in S : Cardinality({x \in S : RowBefore(sort, x, r)}) = i - 1]

\* The least n rows of S, if n rows can be told from the others.
Least(sort, n, S) ==
    {B \in SUBSET S : /\ Cardinality(B) = IF n < Cardinality(S) THEN n ELSE Cardinality(S)
                      /\ ~Clashing(sort, B)
                      /\ \A a \in B, b \in S \ B : RowBefore(sort, a, b)}

Ordered(st, o) ==
    LET S == ToSet(o.rows)
    IN  IF o.fate # "eof" THEN {FailsToOpen}
        ELSE IF st.stage = "Sort"
        THEN {IF Clashing(st.sort, S) THEN FailsToOpen ELSE Yields(InOrder(st.sort, S))}
        ELSE {Yields(InOrder(st.sort, B)) : B \in IF st.k = 0 THEN {{}} ELSE Least(st.sort, st.k, S)}
             \cup (IF st.k > 0 /\ Clashing(st.sort, S) THEN {FailsToOpen} ELSE {})

\* What a stage makes of an outcome o of the stages below it.
Apply(st, o) ==
    CASE st.stage = "Filter"  -> {Filtered(st.predicate, o)}
      [] st.stage = "Project" -> {[o EXCEPT !.rows = [j \in DOMAIN o.rows |->
                                                        ProjectRow(st.columns, o.rows[j])]]}
      [] st.stage = "Limit"   -> {Limited(st.limit, o)}
      [] OTHER                -> Ordered(st, o)

Outcomes(plan, table) ==
    LET upTo[i \in DOMAIN plan] ==
          IF i = 1 THEN {Yields(table)} ELSE UNION {Apply(plan[i], o) : o \in upTo[i - 1]}
    IN  upTo[Len(plan)]

\* The number of columns of the rows that stage i of the plan yields, and the
\* plans whose stages use columns there are.
WidthAt(plan, width) ==
    LET w[i \in DOMAIN plan] == IF i = 1 THEN width
                                ELSE IF plan[i].stage = "Project" THEN Len(plan[i].columns)
                                ELSE w[i - 1]
    IN  w

ColumnsUsed(st) ==
    CASE st.stage = "Filter"          -> {st.predicate[j].column : j \in DOMAIN st.predicate}
      [] st.stage = "Project"         -> ToSet(st.columns)
      [] st.stage \in {"Sort", "TopK"} -> {st.sort.column}
      [] OTHER                        -> {}

WellBound(plan, width) ==
    \A i \in 2 .. Len(plan) : ColumnsUsed(plan[i]) \subseteq 1 .. WidthAt(plan, width)[i - 1]
==============================================================================

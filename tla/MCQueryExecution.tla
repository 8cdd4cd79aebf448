--------------------------- MODULE MCQueryExecution ---------------------------
(***************************************************************************)
(* Plans of four stages, any three of the six kinds over a scan, and three *)
(* tables of two columns: no row; rows with a tie, a null and strings of   *)
(* different sizes; and rows two of which clash in either column.          *)
(***************************************************************************)
EXTENDS QueryExecution

MCInt64Min == -4
MCInt64Max == 3
MCDoubles == {-20, -8, -2, 0, 2, 20}
MCStrings == 0 .. 3
MCStringSize(s) == s

MCRow(i, a, b) == [ordinal |-> i - 1, values |-> <<a, b>>]

MCTables == {
    <<>>,
    <<MCRow(1, Int64(2), String(3)), MCRow(2, Null, String(0)), MCRow(3, Double(2), String(1))>>,
    <<MCRow(1, Int64(1), Int64(0)), MCRow(2, Int64(0), String(2)), MCRow(3, String(1), Int64(1))>>}

AtMostOne == <<[column |-> 1, op |-> "kLte", literal |-> Int64(1)]>>

MCStages == {
    Filter(AtMostOne), Project(<<2>>), Project(<<2, 1>>),
    Sort(1, "kAscending"), Limit(0), Limit(2), TopK(1, "kDescending", 1), TopK(1, "kAscending", 2)}

MCPlans == {p \in {<<Scan>> \o s : s \in [1 .. 3 -> MCStages]} : WellBound(p, Width)}
==============================================================================

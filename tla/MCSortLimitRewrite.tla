-------------------------- MODULE MCSortLimitRewrite --------------------------
(***************************************************************************)
(* Six rows of one column in either direction: two equal numbers and a     *)
(* smaller one, two nulls, and a string that clashes with the numbers;     *)
(* every limit up to three, so that the heap fills, evicts and discards.   *)
(***************************************************************************)
EXTENDS SortLimitRewrite, RowComparator

MCInt64Min == -4
MCInt64Max == 3
MCDoubles == {-20, -8, -2, 0, 2, 20}
MCStrings == {0}

Cells == <<Int64(1), Null, Double(2), String(0), Null, Int64(0)>>

MCRows == {[ordinal |-> i, values |-> <<Cells[i]>>] : i \in DOMAIN Cells}
MCComparators == {[column |-> 1, direction |-> d] : d \in SortDirection}
MCLimits == 0 .. 3
==============================================================================

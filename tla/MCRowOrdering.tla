---------------------------- MODULE MCRowOrdering ----------------------------
(***************************************************************************)
(* Integers of a 3-bit width and doubles of so few digits that they hold   *)
(* every half up to 1.5 but, beyond 2, only whole powers of two: the       *)
(* integers 3 and -3 equal no double.  4 is one past INT64_MAX, and 10 and *)
(* -10 lie beyond either end of the integers.                              *)
(***************************************************************************)
EXTENDS RowOrdering

MCInt64Min == -4
MCInt64Max == 3
MCDoubles == {-20, -8, -4, -3, -2, -1, 0, 1, 2, 3, 4, 8, 20}
MCStrings == 0 .. 1
==============================================================================

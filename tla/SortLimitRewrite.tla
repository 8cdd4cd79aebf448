--------------------------- MODULE SortLimitRewrite ---------------------------
(***************************************************************************)
(* The rewrite of SortLimitToTopKRule, run both ways over one input: a     *)
(* LimitStage over a SortStage, and the TopKStage put in their place, as   *)
(* tests/integration/optimized_vs_unoptimized_test.cpp does.               *)
(***************************************************************************)
EXTENDS TopKStage

VARIABLES s_pending, s_phase, s_buffer, s_sorted, s_next_index, s_emitted, s_out, s_error

Plain == INSTANCE SortLimitStages WITH
    pending <- s_pending, phase <- s_phase, buffer <- s_buffer, sorted <- s_sorted,
    next_index <- s_next_index, emitted <- s_emitted, out <- s_out, error <- s_error

plainVars == <<s_pending, s_phase, s_buffer, s_sorted, s_next_index, s_emitted, s_out,
               s_error>>

BothInit == Init /\ Plain!Init

\* The plan that was not rewritten runs first.
RunPlain == Plain!Next /\ UNCHANGED vars

RunTopK ==
    /\ s_phase \in {"eof", "closed"}
    /\ Next
    /\ UNCHANGED plainVars

BothNext == RunPlain \/ RunTopK

BothSpec == BothInit /\ [][BothNext]_<<vars, plainVars>>

-----------------------------------------------------------------------------
\* When both plans reach their end they have handed out the same rows in the
\* same order.
SameRows == phase = "eof" /\ s_phase = "eof" => out = s_out

\* The plan that is not rewritten implements the same promise.
PlainImplementsSortLimit == Plain!ImplementsSortLimit

\* docs/architecture.md:171 says that both stages produce identical output: an
\* input on which the sort throws would have to fail the rewritten plan, too.
SameFailure == s_error = "clash" => phase # "emitting"
==============================================================================

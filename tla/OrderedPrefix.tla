---------------------------- MODULE OrderedPrefix ----------------------------
(***************************************************************************)
(* What $sort followed by $limit promises, however it is executed: the     *)
(* first k rows of the input in the order of the comparator, one at a      *)
(* time.  Asked about some pairs of rows the comparator throws (Clash);    *)
(* then the query may fail instead, as it may when what produces its input *)
(* fails.                                                                  *)
(***************************************************************************)
EXTENDS Naturals, Sequences

CONSTANTS Rows,             \* the rows there can be
          Limits,           \* the limits there can be
          Comparators,      \* the comparators there can be
          Before(_, _, _),  \* to the comparator c, a is strictly before b
          Clash(_, _, _)    \* the comparator c throws when given a and b

VARIABLES input,       \* the set of rows to choose from,
          k,           \* the limit and
          comparator,  \* the comparator: they never change
          out,         \* the rows produced so far
          status       \* "running", "eof", "closed", "clash" or "childFailed"

task == <<input, k, comparator>>
vars == <<input, k, comparator, out, status>>

Emitted == {out[i] : i \in 1 .. Len(out)}

Remaining == input \ Emitted

Init ==
    /\ input \in SUBSET Rows
    /\ k \in Limits
    /\ comparator \in Comparators
    /\ out = <<>>
    /\ status = "running"

\* The least of the remaining rows is produced.
Emit(r) ==
    /\ status = "running"
    /\ Len(out) < k
    /\ r \in Remaining
    /\ \A x \in Remaining \ {r} : Before(comparator, r, x)
    /\ out' = Append(out, r)
    /\ UNCHANGED <<task, status>>

\* The end is reported when there is nothing left to produce.
Finish ==
    /\ status = "running"
    /\ Len(out) = k \/ Remaining = {}
    /\ status' = "eof"
    /\ UNCHANGED <<task, out>>

FailOnClash ==
    /\ status = "running"
    /\ out = <<>>
    /\ \E a, b \in input : a # b /\ Clash(comparator, a, b)
    /\ status' = "clash"
    /\ UNCHANGED <<task, out>>

FailOnChild ==
    /\ status = "running"
    /\ out = <<>>
    /\ status' = "childFailed"
    /\ UNCHANGED <<task, out>>

Close ==
    /\ status \in {"running", "eof"}
    /\ status' = "closed"
    /\ UNCHANGED <<task, out>>

Next == (\E r \in input : Emit(r)) \/ Finish \/ FailOnClash \/ FailOnChild \/ Close

Spec == Init /\ [][Next]_vars
==============================================================================

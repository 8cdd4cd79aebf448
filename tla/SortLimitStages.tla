--------------------------- MODULE SortLimitStages ---------------------------
(***************************************************************************)
(* LimitStage over SortStage (src/physical/limit_stage.cpp and             *)
(* sort_stage.cpp), the plan that TopKStage replaces.  SortStage pulls     *)
(* every row of its child while it opens and sorts them; LimitStage hands  *)
(* on at most k of them and then stops asking.                             *)
(*                                                                         *)
(* std::sort throws exactly when two of its rows clash: a sort that never  *)
(* asks about two rows it places next to each other cannot know how to     *)
(* place them.                                                             *)
(***************************************************************************)
EXTENDS Naturals, Sequences, FiniteSets

CONSTANTS Rows, Limits, Comparators, Before(_, _, _), Clash(_, _, _)

VARIABLES input,       \* the rows the child of the SortStage has to deliver
          k,           \* LimitStage::limit_ and
          comparator,  \* SortStage::comparator_, set by the constructors
          pending,     \* the rows the child has not delivered yet
          phase,       \* "unopened", "filling", "emitting", "eof" or "closed"
          buffer,      \* SortStage::buffer_ until it is sorted
          sorted,      \* SortStage::buffer_ once it is sorted
          next_index,  \* SortStage::next_index_
          emitted,     \* LimitStage::emitted_
          out,         \* history: the rows handed out
          error        \* "none", "clash" or "child"

task == <<input, k, comparator>>
vars == <<input, k, comparator, pending, phase, buffer, sorted, next_index, emitted,
          out, error>>

before(a, b) == Before(comparator, a, b)

Clashing(S) == \E a, b \in S : a # b /\ Clash(comparator, a, b)

-----------------------------------------------------------------------------
Init ==
    /\ input \in SUBSET Rows
    /\ k \in Limits
    /\ comparator \in Comparators
    /\ pending = input
    /\ phase = "unopened"
    /\ buffer = {}
    /\ sorted = <<>>
    /\ next_index = 0
    /\ emitted = 0
    /\ out = <<>>
    /\ error = "none"

\* SortStage::onClose()
Release ==
    /\ phase' = "closed"
    /\ buffer' = {}
    /\ sorted' = <<>>

Open ==
    /\ phase = "unopened"
    /\ phase' = "filling"
    /\ UNCHANGED <<task, pending, buffer, sorted, next_index, emitted, out, error>>

ChildFails ==
    /\ phase \in {"unopened", "filling"}
    /\ error' = "child"
    /\ Release
    /\ UNCHANGED <<task, pending, next_index, emitted, out>>

\* The loop of SortStage::onOpen().
Push(row) ==
    /\ phase = "filling"
    /\ pending' = pending \ {row}
    /\ buffer' = buffer \cup {row}
    /\ UNCHANGED <<task, phase, sorted, next_index, emitted, out, error>>

\* s lists the rows of S, each before all that follow it.
Orders(s, S) ==
    /\ \A i \in 1 .. Len(s) : \A j \in 1 .. Len(s) : i < j => before(s[i], s[j])
    /\ {s[i] : i \in 1 .. Len(s)} = S

\* The rest of SortStage::onOpen().
SortBuffer ==
    /\ phase = "filling" /\ pending = {}
    /\ ~Clashing(buffer)
    /\ \E s \in [1 .. Cardinality(buffer) -> buffer] : Orders(s, buffer) /\ sorted' = s
    /\ phase' = "emitting"
    /\ UNCHANGED <<task, pending, buffer, next_index, emitted, out, error>>

SortThrows ==
    /\ phase = "filling" /\ pending = {}
    /\ Clashing(buffer)
    /\ error' = "clash"
    /\ Release
    /\ UNCHANGED <<task, pending, next_index, emitted, out>>

\* Seeded fault: LimitStage counts the row after the comparison.
GetNextRowOneTooMany ==
    /\ phase = "emitting" /\ emitted <= k /\ next_index < Len(sorted)
    /\ out' = Append(out, sorted[next_index + 1])
    /\ next_index' = next_index + 1
    /\ emitted' = emitted + 1
    /\ UNCHANGED <<task, pending, phase, buffer, sorted, error>>

\* LimitStage::onGetNext() below the limit with a row left in the SortStage.
GetNextRow ==
    /\ phase = "emitting" /\ emitted < k /\ next_index < Len(sorted)
    /\ out' = Append(out, sorted[next_index + 1])
    /\ next_index' = next_index + 1
    /\ emitted' = emitted + 1
    /\ UNCHANGED <<task, pending, phase, buffer, sorted, error>>

\* At the limit, or when SortStage reports kEof.
GetNextEof ==
    /\ phase = "emitting" /\ (emitted >= k \/ next_index >= Len(sorted))
    /\ phase' = "eof"
    /\ UNCHANGED <<task, pending, buffer, sorted, next_index, emitted, out, error>>

Close ==
    /\ phase \in {"unopened", "emitting", "eof"}
    /\ Release
    /\ UNCHANGED <<task, pending, next_index, emitted, out, error>>

Next ==
    \/ Open \/ ChildFails \/ SortBuffer \/ SortThrows \/ GetNextRow \/ GetNextEof \/ Close
    \/ \E row \in pending : Push(row)

Spec == Init /\ [][Next]_vars

-----------------------------------------------------------------------------
\* A limit over a sort is $sort followed by $limit.
Prefix == INSTANCE OrderedPrefix WITH
    status <- IF error = "clash" THEN "clash"
              ELSE IF error = "child" THEN "childFailed"
              ELSE IF phase \in {"eof", "closed"} THEN phase
              ELSE "running"

ImplementsSortLimit == Prefix!Spec
==============================================================================

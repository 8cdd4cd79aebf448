------------------------------ MODULE TopKStage ------------------------------
(***************************************************************************)
(* TopKStage (src/physical/topk_stage.cpp): while it opens, it pulls every *)
(* row of its child and keeps the k best in a heap whose front is the      *)
(* worst of them; then it sorts the heap and hands out one row a call.     *)
(*                                                                         *)
(* The rows its child delivers come in any order.  The heap is the set of  *)
(* rows in it: what std::push_heap and std::pop_heap promise is that the   *)
(* front is a row no other is after, and what std::sort promises is an     *)
(* ordered permutation.  Both say so of a comparator that does not throw.  *)
(* A new row is compared with some rows of the heap only, so two rows that *)
(* clash can share the heap for a while, apart under a null; the standard  *)
(* leaves open which call meets them first, and so does the model.         *)
(***************************************************************************)
EXTENDS Naturals, Sequences, FiniteSets

CONSTANTS Rows, Limits, Comparators, Before(_, _, _), Clash(_, _, _)

ASSUME LimitsAssumption == Limits \subseteq Nat

\* What RowOrderingProofs!StrictOrder shows of the row comparator.
ASSUME OrderAssumption ==
    \A c \in Comparators :
        /\ \A a \in Rows : ~Before(c, a, a)
        /\ \A a, b \in Rows :
              a # b => \/ /\ Clash(c, a, b) /\ Clash(c, b, a)
                          /\ ~Before(c, a, b) /\ ~Before(c, b, a)
                       \/ /\ ~Clash(c, a, b) /\ ~Clash(c, b, a)
                          /\ Before(c, a, b) <=> ~Before(c, b, a)
        /\ \A x, y, z \in Rows : Before(c, x, y) /\ Before(c, y, z) => Before(c, x, z)

VARIABLES input,       \* the rows the child has to deliver
          k,           \* k_ and
          comparator,  \* comparator_, set by the constructor
          pending,     \* the rows the child has not delivered yet
          phase,       \* "unopened", "filling", "emitting", "eof" or "closed"
          buffer,      \* buffer_ while it is a heap
          dropped,     \* history: the rows discarded or evicted
          sorted,      \* buffer_ once it is sorted
          next_index,  \* next_index_
          out,         \* history: the rows handed out
          error        \* "none", "clash" or "child": what onOpen() threw

task == <<input, k, comparator>>
vars == <<input, k, comparator, pending, phase, buffer, dropped, sorted, next_index,
          out, error>>

before(a, b) == Before(comparator, a, b)

\* S holds two rows the comparator cannot compare.
Clashing(S) == \E a, b \in S : a # b /\ Clash(comparator, a, b)

-----------------------------------------------------------------------------
Init ==
    /\ input \in SUBSET Rows
    /\ k \in Limits
    /\ comparator \in Comparators
    /\ pending = input
    /\ phase = "unopened"
    /\ buffer = {}
    /\ dropped = {}
    /\ sorted = <<>>
    /\ next_index = 0
    /\ out = <<>>
    /\ error = "none"

\* onClose(), which releases buffer_; closing the child is the child's.
Release ==
    /\ phase' = "closed"
    /\ buffer' = {}
    /\ sorted' = <<>>

\* open() up to the first pull: child_->open() returned.
Open ==
    /\ phase = "unopened"
    /\ phase' = "filling"
    /\ UNCHANGED <<task, pending, buffer, dropped, sorted, next_index, out, error>>

\* child_->open() or child_->getNext() threw: open() closes the stage.
ChildFails ==
    /\ phase \in {"unopened", "filling"}
    /\ error' = "child"
    /\ Release
    /\ UNCHANGED <<task, pending, dropped, next_index, out>>

\* The row at the front of the heap.
Worst(w) == w \in buffer /\ \A x \in buffer \ {w} : before(x, w)

\* The child delivered a row of pending.
Deliver(row) == phase = "filling" /\ row \in pending /\ pending' = pending \ {row}

Skip(row) ==
    /\ Deliver(row)
    /\ k = 0
    /\ dropped' = dropped \cup {row}
    /\ UNCHANGED <<task, phase, buffer, sorted, next_index, out, error>>

\* Seeded fault: the heap takes one row too many.
PushOneTooMany(row) ==
    /\ Deliver(row)
    /\ 0 < k /\ Cardinality(buffer) <= k
    /\ buffer' = buffer \cup {row}
    /\ UNCHANGED <<task, phase, dropped, sorted, next_index, out, error>>

Push(row) ==
    /\ Deliver(row)
    /\ Cardinality(buffer) < k
    /\ buffer' = buffer \cup {row}
    /\ UNCHANGED <<task, phase, dropped, sorted, next_index, out, error>>

\* The row is better than the worst one in the full heap and takes its place.
Replace(row) ==
    /\ Deliver(row)
    /\ 0 < k /\ k <= Cardinality(buffer)
    /\ \E w \in buffer :
          /\ Worst(w)
          /\ before(row, w)
          /\ buffer' = (buffer \ {w}) \cup {row}
          /\ dropped' = dropped \cup {w}
    /\ UNCHANGED <<task, phase, sorted, next_index, out, error>>

Discard(row) ==
    /\ Deliver(row)
    /\ 0 < k /\ k <= Cardinality(buffer)
    /\ \E w \in buffer : Worst(w) /\ ~before(row, w) /\ ~Clash(comparator, row, w)
    /\ dropped' = dropped \cup {row}
    /\ UNCHANGED <<task, phase, buffer, sorted, next_index, out, error>>

\* The comparator throws on a pair of rows of the heap and the new row.
ComparatorThrows(row) ==
    /\ Deliver(row)
    /\ 0 < k
    /\ Clashing(buffer \cup {row})
    /\ error' = "clash"
    /\ Release
    /\ UNCHANGED <<task, dropped, next_index, out>>

\* s lists the rows of S, each before all that follow it.
Orders(s, S) ==
    /\ \A i \in 1 .. Len(s) : \A j \in 1 .. Len(s) : i < j => before(s[i], s[j])
    /\ {s[i] : i \in 1 .. Len(s)} = S

\* Seeded fault: the rows are handed out in the order of the heap.
SortHeapForgotten ==
    /\ phase = "filling" /\ pending = {}
    /\ ~Clashing(buffer)
    /\ \E s \in [1 .. Cardinality(buffer) -> buffer] :
          {s[i] : i \in 1 .. Len(s)} = buffer /\ sorted' = s
    /\ phase' = "emitting"
    /\ UNCHANGED <<task, pending, buffer, dropped, next_index, out, error>>

\* The child reports kEof: the rest of onOpen().
SortHeap ==
    /\ phase = "filling" /\ pending = {}
    /\ ~Clashing(buffer)
    /\ \E s \in [1 .. Cardinality(buffer) -> buffer] : Orders(s, buffer) /\ sorted' = s
    /\ phase' = "emitting"
    /\ UNCHANGED <<task, pending, buffer, dropped, next_index, out, error>>

SortThrows ==
    /\ phase = "filling" /\ pending = {}
    /\ Clashing(buffer)
    /\ error' = "clash"
    /\ Release
    /\ UNCHANGED <<task, pending, dropped, next_index, out>>

\* getNext() with a row left in the buffer, and without one.
GetNextRow ==
    /\ phase = "emitting" /\ next_index < Len(sorted)
    /\ out' = Append(out, sorted[next_index + 1])
    /\ next_index' = next_index + 1
    /\ UNCHANGED <<task, pending, phase, buffer, dropped, sorted, error>>

GetNextEof ==
    /\ phase = "emitting" /\ next_index >= Len(sorted)
    /\ phase' = "eof"
    /\ UNCHANGED <<task, pending, buffer, dropped, sorted, next_index, out, error>>

\* close() by the owner; inside open() nobody can call it.
Close ==
    /\ phase \in {"unopened", "emitting", "eof"}
    /\ Release
    /\ UNCHANGED <<task, pending, dropped, next_index, out, error>>

Next ==
    \/ Open \/ ChildFails \/ SortHeap \/ SortThrows \/ GetNextRow \/ GetNextEof \/ Close
    \/ \E row \in pending :
          \/ Skip(row) \/ Push(row) \/ Replace(row) \/ Discard(row)
          \/ ComparatorThrows(row)

Spec == Init /\ [][Next]_vars

-----------------------------------------------------------------------------
TypeOK ==
    /\ input \subseteq Rows /\ k \in Limits /\ comparator \in Comparators
    /\ pending \subseteq input
    /\ phase \in {"unopened", "filling", "emitting", "eof", "closed"}
    /\ buffer \subseteq input
    /\ dropped \subseteq input
    /\ sorted \in Seq(input)
    /\ next_index \in Nat
    /\ out \in Seq(input)
    /\ error \in {"none", "clash", "child"}

\* At every moment until it is released the heap holds at most k rows, no row is lost
\* or held twice, a row is given up only for k rows kept, and every row kept
\* goes before every row given up (topk_stage.cpp:13-27).
KeepsTheLeast ==
    /\ IsFiniteSet(buffer) /\ Cardinality(buffer) <= k
    /\ phase # "closed" =>
          /\ input = pending \cup buffer \cup dropped
          /\ pending \cap (buffer \cup dropped) = {} /\ buffer \cap dropped = {}
          /\ dropped # {} => Cardinality(buffer) = k
          /\ \A x \in buffer, d \in dropped : before(x, d)

\* TopKStage implements $sort followed by $limit.
Prefix == INSTANCE OrderedPrefix WITH
    status <- IF error = "clash" THEN "clash"
              ELSE IF error = "child" THEN "childFailed"
              ELSE IF phase \in {"eof", "closed"} THEN phase
              ELSE "running"

ImplementsSortLimit == Prefix!Spec
==============================================================================

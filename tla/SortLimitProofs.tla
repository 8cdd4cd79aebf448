--------------------------- MODULE SortLimitProofs ---------------------------
(***************************************************************************)
(* TopKStage keeps the least rows, TopKStage and the sort under a limit    *)
(* implement OrderedPrefix, and where both end they have handed out the    *)
(* same rows: for every set of rows, finite or not, every limit and every  *)
(* comparator that is a strict order where it does not throw.              *)
(***************************************************************************)
EXTENDS SortLimitRewrite, FiniteSetTheorems, WellFoundedInduction, TLAPS

\* onOpen() has handed out nothing, and only a stage that is closed failed.
Opening ==
    /\ phase \in {"unopened", "filling"} =>
          next_index = 0 /\ out = <<>> /\ sorted = <<>>
    /\ phase = "unopened" => pending = input /\ buffer = {} /\ dropped = {}
    /\ error # "none" => phase = "closed"

\* After onOpen() sorted is the heap in order, and out a prefix of it.
Emitting ==
    phase \in {"emitting", "eof"} =>
        /\ pending = {}
        /\ Orders(sorted, buffer)
        /\ Len(sorted) = Cardinality(buffer)
        /\ next_index \in 0 .. Len(sorted)
        /\ Len(out) = next_index
        /\ \A i \in 1 .. next_index : out[i] = sorted[i]
        /\ phase = "eof" => next_index = Len(sorted)

IInv == TypeOK /\ KeepsTheLeast /\ Opening /\ Emitting

LEMMA StrictBefore ==
    ASSUME NEW c \in Comparators
    PROVE  /\ \A a \in Rows : ~Before(c, a, a)
           /\ \A a, b \in Rows : a # b /\ ~Clash(c, a, b) => (Before(c, a, b) <=> ~Before(c, b, a))
           /\ \A x, y, z \in Rows : Before(c, x, y) /\ Before(c, y, z) => Before(c, x, z)
BY OrderAssumption

LEMMA InitInv == Init => IInv
<1>1. ASSUME Init PROVE IInv
  <2>1. IsFiniteSet({}) /\ Cardinality({}) = 0
    BY FS_EmptySet
  <2>2. k \in Nat
    BY <1>1, LimitsAssumption DEF Init
  <2>. QED  BY <1>1, <2>1, <2>2 DEF Init, IInv, TypeOK, KeepsTheLeast, Opening, Emitting
<1>. QED  BY <1>1

\* A released stage satisfies the invariant whatever it was.
LEMMA ReleaseInv ==
    ASSUME IInv, Release, UNCHANGED <<task, dropped, next_index, out>>,
           pending' \subseteq pending, error' \in {"none", "clash", "child"}
    PROVE  IInv'
<1>1. IsFiniteSet({}) /\ Cardinality({}) = 0
  BY FS_EmptySet
<1>2. k \in Nat
  BY LimitsAssumption DEF IInv, TypeOK
<1>. QED  BY <1>1, <1>2 DEF IInv, TypeOK, KeepsTheLeast, Opening, Emitting, Release, task

LEMMA DeliverFacts ==
    ASSUME IInv, NEW row \in pending, Deliver(row)
    PROVE  /\ row \in input /\ row \in Rows
           /\ row \notin buffer /\ row \notin dropped
           /\ phase = "filling"
           /\ buffer \subseteq Rows /\ dropped \subseteq Rows
           /\ comparator \in Comparators
           /\ k \in Nat /\ Cardinality(buffer) \in Nat
           /\ IsFiniteSet(buffer)
<1>1. IsFiniteSet(buffer)
  BY DEF IInv, KeepsTheLeast
<1>2. Cardinality(buffer) \in Nat
  BY <1>1, FS_CardinalityType
<1>. QED  BY <1>1, <1>2, LimitsAssumption DEF IInv, TypeOK, KeepsTheLeast, Deliver

LEMMA SkipInv ==
    ASSUME IInv, NEW row \in pending, Skip(row)
    PROVE  IInv'
<1>1. Deliver(row)
  BY DEF Skip
<1>2. k = 0 /\ Cardinality(buffer) = 0
  <2>1. k = 0 /\ Cardinality(buffer) <= k /\ Cardinality(buffer) \in Nat
    BY <1>1, DeliverFacts DEF Skip, IInv, KeepsTheLeast
  <2>. QED  BY <2>1
<1>3. buffer = {}
  BY <1>1, <1>2, DeliverFacts, FS_EmptySet
<1>4. TypeOK'
  BY <1>1, DeliverFacts DEF IInv, TypeOK, Skip, Deliver, task
<1>5. KeepsTheLeast'
  BY <1>1, <1>2, <1>3, DeliverFacts DEF IInv, KeepsTheLeast, Skip, Deliver, task
<1>6. Opening' /\ Emitting'
  BY <1>1, DeliverFacts DEF IInv, Opening, Emitting, Skip, Deliver, task
<1>. QED  BY <1>4, <1>5, <1>6 DEF IInv

LEMMA PushInv ==
    ASSUME IInv, NEW row \in pending, Push(row)
    PROVE  IInv'
<1>1. Deliver(row)
  BY DEF Push
<1>2. buffer' = buffer \cup {row} /\ dropped' = dropped /\ dropped = {}
  BY <1>1, DeliverFacts DEF Push, IInv, KeepsTheLeast
<1>3. IsFiniteSet(buffer') /\ Cardinality(buffer') = Cardinality(buffer) + 1
  BY <1>1, <1>2, DeliverFacts, FS_AddElement
<1>4. Cardinality(buffer') <= k
  BY <1>1, <1>3, DeliverFacts DEF Push
<1>5. TypeOK'
  BY <1>1, <1>2, DeliverFacts DEF IInv, TypeOK, Push, Deliver, task
<1>6. KeepsTheLeast'
  BY <1>1, <1>2, <1>3, <1>4, DeliverFacts DEF IInv, KeepsTheLeast, Push, Deliver, task
<1>7. Opening' /\ Emitting'
  BY <1>1, DeliverFacts DEF IInv, Opening, Emitting, Push, Deliver, task
<1>. QED  BY <1>5, <1>6, <1>7 DEF IInv
LEMMA ReplaceInv ==
    ASSUME IInv, NEW row \in pending, Replace(row)
    PROVE  IInv'
<1>1. Deliver(row)
  BY DEF Replace
<1>2. PICK w \in buffer : /\ Worst(w) /\ before(row, w)
                          /\ buffer' = (buffer \ {w}) \cup {row}
                          /\ dropped' = dropped \cup {w}
  BY DEF Replace
<1>3. /\ IsFiniteSet(buffer \ {w})
      /\ Cardinality(buffer \ {w}) = Cardinality(buffer) - 1
  BY <1>1, DeliverFacts, FS_RemoveElement
<1>4. row \notin buffer \ {w}
  BY <1>1, DeliverFacts
<1>5. IsFiniteSet(buffer') /\ Cardinality(buffer') = Cardinality(buffer)
  <2>1. /\ IsFiniteSet((buffer \ {w}) \cup {row})
        /\ Cardinality((buffer \ {w}) \cup {row}) = Cardinality(buffer \ {w}) + 1
    BY <1>3, <1>4, FS_AddElement
  <2>. QED  BY <1>1, <1>2, <1>3, <2>1, DeliverFacts
<1>6. Cardinality(buffer') = k
  BY <1>1, <1>5, DeliverFacts DEF Replace, IInv, KeepsTheLeast
<1>7. \A x \in buffer', d \in dropped' : Before(comparator, x, d)
  <2>1. ASSUME NEW x \in buffer', NEW d \in dropped'
        PROVE  Before(comparator, x, d)
    <3>1. Before(comparator, x, w)
      BY <1>2, <2>1 DEF Worst, before
    <3>2. d = w \/ Before(comparator, w, d)
      BY <1>1, <1>2, <2>1 DEF Deliver, IInv, KeepsTheLeast, before
    <3>3. x \in Rows /\ w \in Rows /\ d \in Rows
      BY <1>1, <1>2, <2>1, DeliverFacts
    <3>. QED  BY <1>1, <3>1, <3>2, <3>3, DeliverFacts, StrictBefore
  <2>. QED  BY <2>1
<1>8. UNCHANGED <<input, k, comparator, phase, sorted, next_index, out, error>>
  BY DEF Replace, task
<1>9. TypeOK'
  BY <1>1, <1>2, <1>8, DeliverFacts DEF IInv, TypeOK, Deliver
<1>10. KeepsTheLeast'
  <2>1. input = pending' \cup buffer' \cup dropped'
    BY <1>1, <1>2, DeliverFacts DEF IInv, KeepsTheLeast, Deliver
  <2>2. pending' \cap (buffer' \cup dropped') = {} /\ buffer' \cap dropped' = {}
    BY <1>1, <1>2, DeliverFacts DEF IInv, KeepsTheLeast, Deliver
  <2>. QED  BY <1>1, <1>5, <1>6, <1>7, <1>8, <2>1, <2>2, DeliverFacts
            DEF IInv, KeepsTheLeast, before
<1>11. Opening' /\ Emitting'
  BY <1>1, <1>8, DeliverFacts DEF IInv, Opening, Emitting
<1>. QED  BY <1>9, <1>10, <1>11 DEF IInv

LEMMA DiscardInv ==
    ASSUME IInv, NEW row \in pending, Discard(row)
    PROVE  IInv'
<1>1. Deliver(row)
  BY DEF Discard
<1>2. PICK w \in buffer : Worst(w) /\ ~before(row, w) /\ ~Clash(comparator, row, w)
  BY DEF Discard
<1>3. UNCHANGED <<input, k, comparator, phase, buffer, sorted, next_index, out, error>>
      /\ dropped' = dropped \cup {row}
  BY DEF Discard, task
<1>4. Cardinality(buffer) = k
  BY <1>1, DeliverFacts DEF Discard, IInv, KeepsTheLeast
<1>5. Before(comparator, w, row)
  <2>1. w \in Rows /\ w # row
    BY <1>1, DeliverFacts
  <2>. QED  BY <1>1, <1>2, <2>1, DeliverFacts, StrictBefore DEF before
<1>6. \A x \in buffer : Before(comparator, x, row)
  <2>1. ASSUME NEW x \in buffer PROVE Before(comparator, x, row)
    <3>1. x = w \/ Before(comparator, x, w)
      BY <1>2, <2>1 DEF Worst, before
    <3>2. x \in Rows /\ w \in Rows /\ row \in Rows
      BY <1>1, DeliverFacts
    <3>. QED  BY <1>1, <1>5, <3>1, <3>2, DeliverFacts, StrictBefore
  <2>. QED  BY <2>1
<1>7. TypeOK'
  BY <1>1, <1>3, DeliverFacts DEF IInv, TypeOK, Deliver
<1>8. KeepsTheLeast'
  BY <1>1, <1>3, <1>4, <1>6, DeliverFacts DEF IInv, KeepsTheLeast, Deliver, before
<1>9. Opening' /\ Emitting'
  BY <1>1, <1>3, DeliverFacts DEF IInv, Opening, Emitting
<1>. QED  BY <1>7, <1>8, <1>9 DEF IInv

LEMMA SortHeapInv ==
    ASSUME IInv, SortHeap
    PROVE  IInv'
<1>1. PICK s \in [1 .. Cardinality(buffer) -> buffer] : Orders(s, buffer) /\ sorted' = s
  BY DEF SortHeap
<1>2. IsFiniteSet(buffer) /\ Cardinality(buffer) \in Nat
  BY FS_CardinalityType DEF IInv, KeepsTheLeast
<1>3. s \in Seq(buffer) /\ Len(s) = Cardinality(buffer)
  BY <1>1, <1>2
<1>4. UNCHANGED <<input, k, comparator, pending, buffer, dropped, next_index, out, error>>
      /\ phase' = "emitting"
  BY DEF SortHeap, task
<1>5. s \in Seq(input)
  BY <1>1, <1>2 DEF IInv, TypeOK
<1>6. TypeOK'
  BY <1>1, <1>4, <1>5 DEF IInv, TypeOK
<1>7. KeepsTheLeast'
  BY <1>4 DEF IInv, KeepsTheLeast, SortHeap, before
<1>8. Opening'
  BY <1>4 DEF IInv, Opening, SortHeap
<1>9. Emitting'
  <2>1. next_index = 0 /\ out = <<>> /\ pending = {}
    BY DEF IInv, Opening, SortHeap
  <2>2. Orders(sorted, buffer)'
    BY <1>1, <1>4 DEF Orders, before
  <2>. QED  BY <1>1, <1>2, <1>3, <1>4, <2>1, <2>2 DEF Emitting
<1>. QED  BY <1>6, <1>7, <1>8, <1>9 DEF IInv

LEMMA GetNextRowInv ==
    ASSUME IInv, GetNextRow
    PROVE  IInv'
<1>1. /\ phase = "emitting" /\ next_index < Len(sorted)
      /\ out' = Append(out, sorted[next_index + 1]) /\ next_index' = next_index + 1
      /\ UNCHANGED <<input, k, comparator, pending, phase, buffer, dropped, sorted, error>>
  BY DEF GetNextRow, task
<1>2. next_index \in Nat /\ sorted \in Seq(input) /\ out \in Seq(input)
  BY DEF IInv, TypeOK
<1>3. sorted[next_index + 1] \in input
  BY <1>1, <1>2
<1>4. TypeOK'
  BY <1>1, <1>2, <1>3 DEF IInv, TypeOK
<1>5. KeepsTheLeast' /\ Opening'
  BY <1>1 DEF IInv, KeepsTheLeast, Opening, before
<1>6. Emitting'
  BY <1>1, <1>2, <1>3 DEF IInv, Emitting, Orders, before
<1>. QED  BY <1>4, <1>5, <1>6 DEF IInv

LEMMA NextInv == IInv /\ [Next]_vars => IInv'
<1>. SUFFICES ASSUME IInv, [Next]_vars PROVE IInv'
  OBVIOUS
<1>1. CASE Open
  BY <1>1 DEF Open, task, IInv, TypeOK, KeepsTheLeast, Opening, Emitting, before
<1>2. CASE ChildFails
  BY <1>2, ReleaseInv DEF ChildFails, task
<1>3. CASE SortHeap
  BY <1>3, SortHeapInv
<1>4. CASE SortThrows
  BY <1>4, ReleaseInv DEF SortThrows, task
<1>5. CASE GetNextRow
  BY <1>5, GetNextRowInv
<1>6. CASE GetNextEof
  BY <1>6 DEF GetNextEof, task, IInv, TypeOK, KeepsTheLeast, Opening, Emitting, Orders, before
<1>7. CASE Close
  <2>1. error' \in {"none", "clash", "child"}
    BY <1>7 DEF Close, IInv, TypeOK
  <2>. QED  BY <1>7, <2>1, ReleaseInv DEF Close, task
<1>8. ASSUME NEW row \in pending, Skip(row) PROVE IInv'
  BY <1>8, SkipInv
<1>9. ASSUME NEW row \in pending, Push(row) PROVE IInv'
  BY <1>9, PushInv
<1>10. ASSUME NEW row \in pending, Replace(row) PROVE IInv'
  BY <1>10, ReplaceInv
<1>11. ASSUME NEW row \in pending, Discard(row) PROVE IInv'
  BY <1>11, DiscardInv
<1>12. ASSUME NEW row \in pending, ComparatorThrows(row) PROVE IInv'
  BY <1>12, ReleaseInv DEF ComparatorThrows, Deliver, task
<1>13. CASE UNCHANGED vars
  BY <1>13 DEF vars, IInv, TypeOK, KeepsTheLeast, Opening, Emitting, Orders, before
<1>. QED  BY <1>1, <1>2, <1>3, <1>4, <1>5, <1>6, <1>7, <1>8, <1>9, <1>10, <1>11, <1>12,
             <1>13 DEF Next

LEMMA Invariant == Spec => []IInv
BY InitInv, NextInv, PTL DEF Spec

\* The fields of a TopKStage keep their types: at most what the child
\* delivered is ever held or handed out.
THEOREM TypeCorrect == Spec => []TypeOK
BY Invariant, PTL DEF IInv

\* The heap never exceeds k_ rows and always holds the least of the rows seen
\* (topk_stage.cpp:13-27).
THEOREM HeapKeepsTheLeast == Spec => []KeepsTheLeast
BY Invariant, PTL DEF IInv
-----------------------------------------------------------------------------
\* The next row handed out is the least of those that remain.
LEMMA GetNextRowEmits ==
    ASSUME IInv, GetNextRow
    PROVE  Prefix!Emit(sorted[next_index + 1])
<1> DEFINE n == next_index + 1
           r == sorted[n]
<1>1. /\ phase = "emitting" /\ next_index < Len(sorted)
      /\ out' = Append(out, r)
      /\ UNCHANGED <<input, k, comparator, phase, error>>
  BY DEF GetNextRow, task
<1>2. /\ error = "none" /\ Orders(sorted, buffer)
      /\ Len(sorted) = Cardinality(buffer) /\ next_index \in Nat
      /\ Len(out) = next_index /\ \A i \in 1 .. next_index : out[i] = sorted[i]
      /\ input = buffer \cup dropped
      /\ \A x \in buffer, d \in dropped : Before(comparator, x, d)
  BY <1>1 DEF IInv, TypeOK, KeepsTheLeast, Opening, Emitting, before
<1>3. Cardinality(buffer) \in Nat /\ Cardinality(buffer) <= k /\ k \in Nat
  BY FS_CardinalityType, LimitsAssumption DEF IInv, TypeOK, KeepsTheLeast
<1>4. n \in 1 .. Len(sorted) /\ Len(out) < k
  BY <1>1, <1>2, <1>3
<1>5. r \in buffer
  BY <1>2, <1>4 DEF Orders
<1>6. Prefix!Emitted = {sorted[i] : i \in 1 .. next_index}
  BY <1>2 DEF Prefix!Emitted
<1>7. \A i \in 1 .. Len(sorted) : \A j \in 1 .. Len(sorted) :
         i < j => Before(comparator, sorted[i], sorted[j])
  BY <1>2 DEF Orders, before
<1>8. comparator \in Comparators /\ buffer \subseteq Rows
  BY DEF IInv, TypeOK
<1>9. r \notin Prefix!Emitted
  <2>1. ASSUME NEW i \in 1 .. next_index, r = sorted[i] PROVE FALSE
    <3>1. i \in 1 .. Len(sorted) /\ i < n
      BY <1>1, <1>2, <1>3, <1>4
    <3>2. Before(comparator, sorted[i], r)
      BY <1>4, <1>7, <3>1
    <3>. QED  BY <1>5, <1>8, <2>1, <3>2, StrictBefore
  <2>. QED  BY <1>6, <2>1
<1>10. ASSUME NEW x \in Prefix!Remaining \ {r} PROVE Before(comparator, r, x)
  <2>1. CASE x \in dropped
    BY <1>2, <1>5, <2>1
  <2>2. CASE x \in buffer
    <3>1. PICK j \in 1 .. Len(sorted) : x = sorted[j]
      BY <1>2, <2>2 DEF Orders
    <3>2. j \notin 1 .. next_index /\ j # n
      BY <1>6, <1>10, <3>1 DEF Prefix!Remaining
    <3>3. n < j
      BY <1>2, <1>3, <3>1, <3>2
    <3>. QED  BY <1>4, <1>7, <3>1, <3>3
  <2>. QED  BY <1>2, <2>1, <2>2 DEF Prefix!Remaining
<1>11. r \in Prefix!Remaining
  BY <1>2, <1>5, <1>9 DEF Prefix!Remaining
<1>. QED  BY <1>1, <1>2, <1>4, <1>10, <1>11 DEF Prefix!Emit, Prefix!task

\* kEof comes only when k_ rows are out or none is left.
LEMMA GetNextEofFinishes ==
    ASSUME IInv, GetNextEof
    PROVE  Prefix!Finish
<1>1. /\ phase = "emitting" /\ next_index >= Len(sorted) /\ phase' = "eof"
      /\ UNCHANGED <<input, k, comparator, out, error>>
  BY DEF GetNextEof, task
<1>2. /\ error = "none" /\ Orders(sorted, buffer)
      /\ Len(sorted) = Cardinality(buffer) /\ next_index \in 0 .. Len(sorted)
      /\ Len(out) = next_index /\ \A i \in 1 .. next_index : out[i] = sorted[i]
      /\ input = buffer \cup dropped
      /\ dropped # {} => Cardinality(buffer) = k
  BY <1>1 DEF IInv, KeepsTheLeast, Opening, Emitting
<1>3. Cardinality(buffer) \in Nat
  BY FS_CardinalityType DEF IInv, KeepsTheLeast
<1>4. Len(out) = Len(sorted) /\ next_index = Len(sorted)
  BY <1>1, <1>2, <1>3
<1>5. Prefix!Emitted = buffer
  BY <1>2, <1>4 DEF Prefix!Emitted, Orders
<1>6. Len(out) = k \/ Prefix!Remaining = {}
  BY <1>2, <1>4, <1>5 DEF Prefix!Remaining
<1>. QED  BY <1>1, <1>2, <1>6 DEF Prefix!Finish, Prefix!task

LEMMA ClashFails ==
    ASSUME IInv, NEW S \in SUBSET input, Clashing(S), phase = "filling",
           error' = "clash", UNCHANGED <<task, out>>
    PROVE  Prefix!FailOnClash
BY DEF IInv, Opening, Clashing, task, Prefix!FailOnClash, Prefix!task

LEMMA StepImplements == IInv /\ IInv' /\ [Next]_vars => [Prefix!Next]_(Prefix!vars)
<1>. SUFFICES ASSUME IInv, IInv', [Next]_vars PROVE [Prefix!Next]_(Prefix!vars)
  OBVIOUS
<1>1. CASE Open
  BY <1>1 DEF Open, task, IInv, Opening, Prefix!vars
<1>2. CASE ChildFails
  BY <1>2 DEF ChildFails, Release, task, IInv, Opening, Prefix!Next, Prefix!FailOnChild,
              Prefix!task
<1>3. CASE SortHeap
  BY <1>3 DEF SortHeap, task, IInv, Opening, Prefix!vars
<1>4. CASE SortThrows
  <2>1. buffer \in SUBSET input
    BY DEF IInv, TypeOK
  <2>. QED  BY <1>4, <2>1, ClashFails DEF SortThrows, Release, task, Prefix!Next
<1>5. CASE GetNextRow
  <2>1. sorted[next_index + 1] \in input
    BY <1>5, GetNextRowEmits DEF Prefix!Emit, Prefix!Remaining
  <2>. QED  BY <1>5, <2>1, GetNextRowEmits DEF Prefix!Next
<1>6. CASE GetNextEof
  BY <1>6, GetNextEofFinishes DEF Prefix!Next
<1>7. CASE Close
  BY <1>7 DEF Close, Release, task, IInv, Opening, Prefix!Next, Prefix!Close, Prefix!task
<1>8. ASSUME NEW row \in pending,
             Skip(row) \/ Push(row) \/ Replace(row) \/ Discard(row)
      PROVE  UNCHANGED Prefix!vars
  BY <1>8 DEF Skip, Push, Replace, Discard, task, Prefix!vars
<1>9. ASSUME NEW row \in pending, ComparatorThrows(row)
      PROVE  Prefix!FailOnClash
  <2>1. Deliver(row)
    BY <1>9 DEF ComparatorThrows
  <2>2. buffer \cup {row} \in SUBSET input
    BY <2>1, DeliverFacts DEF IInv, TypeOK
  <2>. QED  BY <1>9, <2>1, <2>2, ClashFails, DeliverFacts DEF ComparatorThrows, task
<1>10. CASE UNCHANGED vars
  BY <1>10 DEF vars, Prefix!vars
<1>. QED  BY <1>1, <1>2, <1>3, <1>4, <1>5, <1>6, <1>7, <1>8, <1>9, <1>10
          DEF Next, Prefix!Next

\* TopKStage implements $sort followed by $limit (topk_stage.h, README).
THEOREM TopKImplementsSortLimit == Spec => ImplementsSortLimit
<1>1. Init => Prefix!Init
  BY DEF Init, Prefix!Init
<1>. QED  BY <1>1, Invariant, StepImplements, PTL
          DEF Spec, ImplementsSortLimit, Prefix!Spec
-----------------------------------------------------------------------------
\* The same for the plan that was not rewritten: the fields of SortStage and
\* LimitStage keep their types,
PlainTypes ==
    /\ input \in SUBSET Rows /\ k \in Limits /\ comparator \in Comparators
    /\ s_pending \subseteq input /\ s_buffer \subseteq input
    /\ IsFiniteSet(s_buffer)
    /\ s_phase \in {"unopened", "filling", "emitting", "eof", "closed"}
    /\ s_sorted \in Seq(input) /\ s_out \in Seq(input)
    /\ s_next_index \in Nat /\ s_emitted \in Nat
    /\ s_error \in {"none", "clash", "child"}

\* onOpen() pulls what the child has and hands out nothing,
PlainOpening ==
    /\ s_phase \in {"unopened", "filling"} =>
          /\ s_next_index = 0 /\ s_emitted = 0 /\ s_out = <<>>
          /\ input = s_pending \cup s_buffer
    /\ s_error # "none" => s_phase = "closed"

\* and then sorted is the whole input in order, and out its first rows.
PlainEmitting ==
    s_phase \in {"emitting", "eof"} =>
        /\ s_buffer = input
        /\ Plain!Orders(s_sorted, input)
        /\ s_next_index = s_emitted
        /\ s_emitted <= k /\ s_emitted <= Len(s_sorted)
        /\ Len(s_out) = s_emitted
        /\ \A i \in 1 .. s_emitted : s_out[i] = s_sorted[i]
        /\ s_phase = "eof" => s_emitted = k \/ s_emitted = Len(s_sorted)

PlainInv == PlainTypes /\ PlainOpening /\ PlainEmitting

LEMMA PlainInitInv == Plain!Init => PlainInv
<1>. SUFFICES ASSUME Plain!Init PROVE PlainInv
  OBVIOUS
<1>1. IsFiniteSet({})
  BY FS_EmptySet
<1>. QED  BY <1>1 DEF Plain!Init, PlainInv, PlainTypes, PlainOpening, PlainEmitting

LEMMA PlainReleaseInv ==
    ASSUME PlainInv, Plain!Release, UNCHANGED <<task, s_pending, s_next_index, s_emitted, s_out>>,
           s_error' \in {"none", "clash", "child"}
    PROVE  PlainInv'
<1>1. IsFiniteSet({})
  BY FS_EmptySet
<1>. QED  BY <1>1 DEF PlainInv, PlainTypes, PlainOpening, PlainEmitting, Plain!Release, task

\* The instance has a cardinality of its own, with the same definition.
LEMMA PlainCardinality == \A S : Plain!Cardinality(S) = Cardinality(S)
BY DEF Plain!Cardinality, Cardinality

LEMMA PlainSortInv ==
    ASSUME PlainInv, Plain!SortBuffer
    PROVE  PlainInv'
<1>1. PICK s \in [1 .. Cardinality(s_buffer) -> s_buffer] :
          Plain!Orders(s, s_buffer) /\ s_sorted' = s
  BY PlainCardinality DEF Plain!SortBuffer
<1>2. Cardinality(s_buffer) \in Nat
  BY FS_CardinalityType DEF PlainInv, PlainTypes
<1>3. /\ UNCHANGED <<input, k, comparator, s_pending, s_buffer, s_next_index, s_emitted,
                     s_out, s_error>>
      /\ s_phase' = "emitting" /\ s_phase = "filling" /\ s_pending = {}
  BY DEF Plain!SortBuffer, Plain!task
<1>4. s_buffer = input /\ s_next_index = 0 /\ s_emitted = 0 /\ s_out = <<>> /\ s_error = "none"
  BY <1>3 DEF PlainInv, PlainTypes, PlainOpening
<1>5. s \in Seq(input)
  BY <1>1, <1>2, <1>4
<1>6. PlainTypes'
  BY <1>1, <1>3, <1>5 DEF PlainInv, PlainTypes
<1>7. PlainOpening'
  BY <1>3, <1>4 DEF PlainOpening
<1>8. k \in Nat
  BY LimitsAssumption DEF PlainInv, PlainTypes
<1>9. Plain!Orders(s_sorted, input)'
  BY <1>1, <1>3, <1>4 DEF Plain!Orders, Plain!before
<1>10. PlainEmitting'
  BY <1>1, <1>3, <1>4, <1>5, <1>8, <1>9 DEF PlainEmitting
<1>. QED  BY <1>6, <1>7, <1>10 DEF PlainInv

LEMMA PlainRowInv ==
    ASSUME PlainInv, Plain!GetNextRow
    PROVE  PlainInv'
<1>1. /\ s_phase = "emitting" /\ s_emitted < k /\ s_next_index < Len(s_sorted)
      /\ s_out' = Append(s_out, s_sorted[s_next_index + 1])
      /\ s_next_index' = s_next_index + 1 /\ s_emitted' = s_emitted + 1
      /\ UNCHANGED <<input, k, comparator, s_pending, s_phase, s_buffer, s_sorted, s_error>>
  BY DEF Plain!GetNextRow, Plain!task
<1>2. /\ s_next_index \in Nat /\ s_emitted = s_next_index /\ s_sorted \in Seq(input)
      /\ s_out \in Seq(input) /\ k \in Nat
  BY <1>1, LimitsAssumption DEF PlainInv, PlainTypes, PlainEmitting
<1>3. s_sorted[s_next_index + 1] \in input
  BY <1>1, <1>2
<1>4. PlainTypes' /\ PlainOpening'
  BY <1>1, <1>2, <1>3 DEF PlainInv, PlainTypes, PlainOpening
<1>5. Plain!Orders(s_sorted, input)'
  BY <1>1 DEF PlainInv, PlainEmitting, Plain!Orders, Plain!before
<1>6. PlainEmitting'
  BY <1>1, <1>2, <1>3, <1>5 DEF PlainInv, PlainEmitting
<1>. QED  BY <1>4, <1>6 DEF PlainInv

LEMMA PlainNextInv == PlainInv /\ [Plain!Next]_(Plain!vars) => PlainInv'
<1>. SUFFICES ASSUME PlainInv, [Plain!Next]_(Plain!vars) PROVE PlainInv'
  OBVIOUS
<1>. USE DEF Plain!task, task
<1>1. CASE Plain!Open
  BY <1>1 DEF Plain!Open, PlainInv, PlainTypes, PlainOpening, PlainEmitting
<1>2. CASE Plain!ChildFails
  BY <1>2, PlainReleaseInv DEF Plain!ChildFails
<1>3. CASE Plain!SortBuffer
  BY <1>3, PlainSortInv
<1>4. CASE Plain!SortThrows
  BY <1>4, PlainReleaseInv DEF Plain!SortThrows
<1>5. CASE Plain!GetNextRow
  BY <1>5, PlainRowInv
<1>6. CASE Plain!GetNextEof
  <2>1. /\ s_phase = "emitting" /\ (s_emitted >= k \/ s_next_index >= Len(s_sorted))
        /\ s_phase' = "eof"
        /\ UNCHANGED <<input, k, comparator, s_pending, s_buffer, s_sorted, s_next_index,
                       s_emitted, s_out, s_error>>
    BY <1>6 DEF Plain!GetNextEof
  <2>2. k \in Nat /\ s_emitted \in Nat /\ s_next_index = s_emitted /\ Len(s_sorted) \in Nat
    BY <2>1, LimitsAssumption DEF PlainInv, PlainTypes, PlainEmitting
  <2>3. Plain!Orders(s_sorted, input)'
    BY <2>1 DEF PlainInv, PlainEmitting, Plain!Orders, Plain!before
  <2>. QED  BY <2>1, <2>2, <2>3 DEF PlainInv, PlainTypes, PlainOpening, PlainEmitting
<1>7. CASE Plain!Close
  <2>1. s_error' \in {"none", "clash", "child"}
    BY <1>7 DEF Plain!Close, PlainInv, PlainTypes
  <2>. QED  BY <1>7, <2>1, PlainReleaseInv DEF Plain!Close
<1>8. ASSUME NEW row \in s_pending, Plain!Push(row) PROVE PlainInv'
  <2>1. IsFiniteSet(s_buffer \cup {row})
    BY FS_AddElement DEF PlainInv, PlainTypes
  <2>. QED  BY <1>8, <2>1 DEF Plain!Push, PlainInv, PlainTypes, PlainOpening, PlainEmitting
<1>9. CASE UNCHANGED Plain!vars
  BY <1>9 DEF Plain!vars, PlainInv, PlainTypes, PlainOpening, PlainEmitting, Plain!Orders,
              Plain!before
<1>. QED  BY <1>1, <1>2, <1>3, <1>4, <1>5, <1>6, <1>7, <1>8, <1>9 DEF Plain!Next

LEMMA PlainInvariant == Plain!Spec => []PlainInv
BY PlainInitInv, PlainNextInv, PTL DEF Plain!Spec
-----------------------------------------------------------------------------
\* LimitStage hands on the least of the rows that remain.
LEMMA PlainRowEmits ==
    ASSUME PlainInv, Plain!GetNextRow
    PROVE  Plain!Prefix!Emit(s_sorted[s_next_index + 1])
<1> DEFINE n == s_next_index + 1
           r == s_sorted[n]
<1>1. /\ s_phase = "emitting" /\ s_emitted < k /\ s_next_index < Len(s_sorted)
      /\ s_out' = Append(s_out, r)
      /\ UNCHANGED <<input, k, comparator, s_phase, s_error>>
  BY DEF Plain!GetNextRow, Plain!task
<1>2. /\ s_error = "none" /\ Plain!Orders(s_sorted, input)
      /\ s_next_index \in Nat /\ s_emitted = s_next_index /\ s_sorted \in Seq(input)
      /\ Len(s_out) = s_next_index /\ \A i \in 1 .. s_next_index : s_out[i] = s_sorted[i]
      /\ comparator \in Comparators /\ input \subseteq Rows
  BY <1>1 DEF PlainInv, PlainTypes, PlainOpening, PlainEmitting
<1>3. n \in 1 .. Len(s_sorted) /\ r \in input
  BY <1>1, <1>2
<1>4. Plain!Prefix!Emitted = {s_sorted[i] : i \in 1 .. s_next_index}
  BY <1>2 DEF Plain!Prefix!Emitted
<1>5. \A i \in 1 .. Len(s_sorted) : \A j \in 1 .. Len(s_sorted) :
         i < j => Before(comparator, s_sorted[i], s_sorted[j])
  BY <1>2 DEF Plain!Orders, Plain!before
<1>6. r \in Plain!Prefix!Remaining
  <2>1. ASSUME NEW i \in 1 .. s_next_index, r = s_sorted[i] PROVE FALSE
    <3>1. i \in 1 .. Len(s_sorted) /\ i < n
      BY <1>1, <1>2, <1>3
    <3>2. Before(comparator, s_sorted[i], r)
      BY <1>3, <1>5, <3>1
    <3>. QED  BY <1>2, <1>3, <2>1, <3>2, StrictBefore
  <2>. QED  BY <1>3, <1>4, <2>1 DEF Plain!Prefix!Remaining
<1>7. ASSUME NEW x \in Plain!Prefix!Remaining \ {r} PROVE Before(comparator, r, x)
  <2>1. PICK j \in 1 .. Len(s_sorted) : x = s_sorted[j]
    BY <1>2, <1>7 DEF Plain!Orders, Plain!Prefix!Remaining
  <2>2. j \notin 1 .. s_next_index /\ j # n
    BY <1>4, <1>7, <2>1 DEF Plain!Prefix!Remaining
  <2>3. n < j
    BY <1>2, <2>1, <2>2
  <2>. QED  BY <1>3, <1>5, <2>1, <2>3
<1>. QED  BY <1>1, <1>2, <1>6, <1>7 DEF Plain!Prefix!Emit, Plain!Prefix!task

\* LimitStage reports kEof at the limit, or when every row is out.
LEMMA PlainEofFinishes ==
    ASSUME PlainInv, Plain!GetNextEof
    PROVE  Plain!Prefix!Finish
<1>1. /\ s_phase = "emitting" /\ (s_emitted >= k \/ s_next_index >= Len(s_sorted))
      /\ s_phase' = "eof"
      /\ UNCHANGED <<input, k, comparator, s_out, s_error>>
  BY DEF Plain!GetNextEof, Plain!task
<1>2. /\ s_error = "none" /\ Plain!Orders(s_sorted, input)
      /\ s_emitted \in Nat /\ s_next_index = s_emitted /\ s_sorted \in Seq(input)
      /\ s_emitted <= k /\ s_emitted <= Len(s_sorted) /\ k \in Nat
      /\ Len(s_out) = s_emitted /\ \A i \in 1 .. s_emitted : s_out[i] = s_sorted[i]
  BY <1>1, LimitsAssumption DEF PlainInv, PlainTypes, PlainOpening, PlainEmitting
<1>3. Len(s_out) = k \/ Len(s_out) = Len(s_sorted)
  BY <1>1, <1>2
<1>4. Len(s_out) = Len(s_sorted) => Plain!Prefix!Remaining = {}
  BY <1>2 DEF Plain!Prefix!Remaining, Plain!Prefix!Emitted, Plain!Orders
<1>. QED  BY <1>1, <1>2, <1>3, <1>4 DEF Plain!Prefix!Finish, Plain!Prefix!task

LEMMA PlainStepImplements ==
    PlainInv /\ [Plain!Next]_(Plain!vars) => [Plain!Prefix!Next]_(Plain!Prefix!vars)
<1>. SUFFICES ASSUME PlainInv, [Plain!Next]_(Plain!vars)
              PROVE  [Plain!Prefix!Next]_(Plain!Prefix!vars)
  OBVIOUS
<1>. USE DEF Plain!task, Plain!Prefix!task
<1>1. CASE Plain!Open
  BY <1>1 DEF Plain!Open, PlainInv, PlainOpening, Plain!Prefix!vars
<1>2. CASE Plain!ChildFails
  BY <1>2 DEF Plain!ChildFails, Plain!Release, PlainInv, PlainOpening,
              Plain!Prefix!Next, Plain!Prefix!FailOnChild
<1>3. CASE Plain!SortBuffer
  BY <1>3 DEF Plain!SortBuffer, PlainInv, PlainOpening, Plain!Prefix!vars
<1>4. CASE Plain!SortThrows
  <2>1. s_buffer \in SUBSET input
    BY DEF PlainInv, PlainTypes
  <2>2. Plain!Prefix!FailOnClash
    BY <1>4, <2>1 DEF Plain!SortThrows, Plain!Release, Plain!Clashing, PlainInv,
                      PlainOpening, Plain!Prefix!FailOnClash
  <2>. QED  BY <2>2 DEF Plain!Prefix!Next
<1>5. CASE Plain!GetNextRow
  <2>1. s_sorted[s_next_index + 1] \in input
    BY <1>5, PlainRowEmits DEF Plain!Prefix!Emit, Plain!Prefix!Remaining
  <2>. QED  BY <1>5, <2>1, PlainRowEmits DEF Plain!Prefix!Next
<1>6. CASE Plain!GetNextEof
  BY <1>6, PlainEofFinishes DEF Plain!Prefix!Next
<1>7. CASE Plain!Close
  BY <1>7 DEF Plain!Close, Plain!Release, PlainInv, PlainOpening, Plain!Prefix!Next,
              Plain!Prefix!Close
<1>8. ASSUME NEW row \in s_pending, Plain!Push(row) PROVE UNCHANGED Plain!Prefix!vars
  BY <1>8 DEF Plain!Push, Plain!Prefix!vars
<1>9. CASE UNCHANGED Plain!vars
  BY <1>9 DEF Plain!vars, Plain!Prefix!vars
<1>. QED  BY <1>1, <1>2, <1>3, <1>4, <1>5, <1>6, <1>7, <1>8, <1>9 DEF Plain!Next

\* Each plan runs as it does alone while the other one stands still.
LEMMA BothRunTopK == BothSpec => Spec
<1>1. [BothNext]_<<vars, plainVars>> => [Next]_vars
  BY DEF BothNext, RunPlain, RunTopK
<1>. QED  BY <1>1, PTL DEF BothSpec, BothInit, Spec

LEMMA TaskNeverChanges == [Next]_vars => UNCHANGED task
<1>. SUFFICES ASSUME [Next]_vars PROVE UNCHANGED task
  OBVIOUS
<1>. USE DEF task
<1>1. CASE \/ Open \/ ChildFails \/ SortHeap \/ SortThrows \/ GetNextRow \/ GetNextEof \/ Close
  BY <1>1 DEF Open, ChildFails, SortHeap, SortThrows, GetNextRow, GetNextEof, Close
<1>2. ASSUME NEW row \in pending,
             Skip(row) \/ Push(row) \/ Replace(row) \/ Discard(row) \/ ComparatorThrows(row)
      PROVE  UNCHANGED task
  BY <1>2 DEF Skip, Push, Replace, Discard, ComparatorThrows
<1>3. CASE UNCHANGED vars
  BY <1>3 DEF vars
<1>. QED  BY <1>1, <1>2, <1>3 DEF Next

LEMMA BothRunPlain == BothSpec => Plain!Spec
<1>1. [BothNext]_<<vars, plainVars>> => [Plain!Next]_(Plain!vars)
  <2>. SUFFICES ASSUME [BothNext]_<<vars, plainVars>> PROVE [Plain!Next]_(Plain!vars)
    OBVIOUS
  <2>1. CASE RunPlain
    BY <2>1 DEF RunPlain
  <2>2. CASE RunTopK
    BY <2>2, TaskNeverChanges DEF RunTopK, plainVars, Plain!vars, task
  <2>3. CASE UNCHANGED <<vars, plainVars>>
    BY <2>3 DEF vars, plainVars, Plain!vars
  <2>. QED  BY <2>1, <2>2, <2>3 DEF BothNext
<1>. QED  BY <1>1, PTL DEF BothSpec, BothInit, Plain!Spec

\* A limit over a sort implements $sort followed by $limit, too
\* (sort_stage.cpp, limit_stage.cpp).
THEOREM SortUnderLimitImplementsSortLimit == BothSpec => PlainImplementsSortLimit
<1>1. Plain!Init => Plain!Prefix!Init
  BY DEF Plain!Init, Plain!Prefix!Init
<1>. QED  BY <1>1, BothRunPlain, PlainInvariant, PlainStepImplements, PTL
          DEF Plain!Spec, PlainImplementsSortLimit, Plain!ImplementsSortLimit,
              Plain!Prefix!Spec
-----------------------------------------------------------------------------
LEMMA Least ==
    ASSUME NEW S \in SUBSET Nat, S # {}
    PROVE  \E m \in S : \A n \in S : m <= n
<1>1. \E R : IsWellFoundedOn(R, Nat) /\ \A m, n \in Nat : <<n, m>> \in R <=> n < m
  <2>1. IsWellFoundedOn(OpToRel(<, Nat), Nat)
    BY NatLessThanWellFounded
  <2>2. \A m, n \in Nat : <<n, m>> \in OpToRel(<, Nat) <=> n < m
    BY DEF OpToRel
  <2>. QED  BY <2>1, <2>2, Zenon
<1>2. PICK R : IsWellFoundedOn(R, Nat) /\ \A m, n \in Nat : <<n, m>> \in R <=> n < m
  BY <1>1
<1>3. PICK m \in S : \A n \in S : ~ (<<n, m>> \in R)
  BY <1>2, WFMin
<1>4. \A n \in S : m <= n
  <2>1. TAKE n \in S
  <2>2. m \in Nat /\ n \in Nat
    OBVIOUS
  <2>3. ~(n < m)
    BY <1>2, <1>3, <2>2
  <2>. QED  BY <2>2, <2>3
<1>. QED  BY <1>4

\* s lists rows of the input, each of them before every row that is not listed
\* up to there, and it ends at the limit or with the input.
LeastRows(s) ==
    /\ s \in Seq(input)
    /\ \A i \in 1 .. Len(s) : \A j \in 1 .. Len(s) : i < j => s[i] # s[j]
    /\ \A i \in 1 .. Len(s) : \A x \in input :
          (\A j \in 1 .. i : s[j] # x) => before(s[i], x)
    /\ Len(s) <= k
    /\ Len(s) = k \/ \A x \in input : \E i \in 1 .. Len(s) : s[i] = x

\* There is only one such list; the place where two of them part first would
\* hold two rows each before the other.
LEMMA LeastRowsAreUnique ==
    ASSUME input \subseteq Rows, comparator \in Comparators, k \in Nat,
           NEW s, NEW t, LeastRows(s), LeastRows(t), Len(s) <= Len(t)
    PROVE  s = t
<1>1. /\ s \in Seq(input) /\ t \in Seq(input) /\ Len(s) \in Nat /\ Len(t) \in Nat
  BY DEF LeastRows
<1>2. \A i \in 1 .. Len(s) : s[i] = t[i]
  <2> DEFINE Parting == {i \in 1 .. Len(s) : s[i] # t[i]}
  <2>. SUFFICES ASSUME Parting # {} PROVE FALSE
    OBVIOUS
  <2>1. Parting \in SUBSET Nat
    OBVIOUS
  <2>2. PICK i \in Parting : \A j \in Parting : i <= j
    BY <2>1, Least
  <2>3. i \in 1 .. Len(s) /\ i \in 1 .. Len(t) /\ s[i] # t[i]
    BY <1>1
  <2>4. \A j \in 1 .. i : j # i => s[j] = t[j]
    BY <1>1, <2>2, <2>3
  <2>5. s[i] \in input /\ t[i] \in input
    BY <1>1, <2>3
  <2>6. \A j \in 1 .. i : s[j] # t[i]
    <3>1. ASSUME NEW j \in 1 .. i, s[j] = t[i] PROVE FALSE
      <4>1. j # i /\ s[j] = t[j]
        BY <2>3, <2>4, <3>1
      <4>2. j \in 1 .. Len(t) /\ j < i
        BY <1>1, <2>3, <4>1
      <4>. QED  BY <2>3, <3>1, <4>1, <4>2 DEF LeastRows
    <3>. QED  BY <3>1
  <2>7. \A j \in 1 .. i : t[j] # s[i]
    <3>1. ASSUME NEW j \in 1 .. i, t[j] = s[i] PROVE FALSE
      <4>1. j # i /\ s[j] = t[j]
        BY <2>3, <2>4, <3>1
      <4>2. j \in 1 .. Len(s) /\ j < i
        BY <1>1, <2>3, <4>1
      <4>. QED  BY <2>3, <3>1, <4>1, <4>2 DEF LeastRows
    <3>. QED  BY <3>1
  <2>8. before(s[i], t[i]) /\ before(t[i], s[i])
    BY <2>3, <2>5, <2>6, <2>7 DEF LeastRows
  <2>. QED  BY <2>5, <2>8, StrictBefore DEF before
<1>3. Len(s) = Len(t)
  <2>. SUFFICES ASSUME Len(s) < Len(t) PROVE FALSE
    BY <1>1
  <2>1. Len(s) # k
    BY <1>1 DEF LeastRows
  <2>2. t[Len(s) + 1] \in input
    BY <1>1
  <2>3. PICK i \in 1 .. Len(s) : s[i] = t[Len(s) + 1]
    BY <2>1, <2>2 DEF LeastRows
  <2>4. t[i] = t[Len(s) + 1]
    BY <1>2, <2>3
  <2>5. i \in 1 .. Len(t) /\ Len(s) + 1 \in 1 .. Len(t) /\ i < Len(s) + 1
    BY <1>1, <2>3
  <2>. QED  BY <2>4, <2>5 DEF LeastRows
<1>. QED  BY <1>1, <1>2, <1>3
\* What a list in order needs for that: it is out up to some place, and what it
\* leaves out, or has left, comes after what it lists.
LEMMA OrderedIsLeast ==
    ASSUME input \subseteq Rows, comparator \in Comparators,
           NEW l \in Seq(input), NEW S \in SUBSET input,
           \A i \in 1 .. Len(l) : \A j \in 1 .. Len(l) : i < j => before(l[i], l[j]),
           {l[i] : i \in 1 .. Len(l)} = S,
           \A x \in S : \A y \in input \ S : before(x, y),
           NEW s \in Seq(input), Len(s) <= Len(l), \A i \in 1 .. Len(s) : s[i] = l[i],
           Len(s) <= k, Len(s) = k \/ (Len(s) = Len(l) /\ S = input)
    PROVE  LeastRows(s)
<1>1. ASSUME NEW i \in 1 .. Len(s), NEW j \in 1 .. Len(s), i < j
      PROVE  s[i] # s[j]
  <2>1. before(s[i], s[j])
    BY <1>1
  <2>2. s[i] \in Rows
    BY <1>1
  <2>. QED  BY <2>1, <2>2, StrictBefore DEF before
<1>2. ASSUME NEW i \in 1 .. Len(s), NEW x \in input, \A j \in 1 .. i : s[j] # x
      PROVE  before(s[i], x)
  <2>1. i \in 1 .. Len(l) /\ s[i] = l[i] /\ l[i] \in S
    BY <1>2
  <2>2. CASE x \in S
    <3>1. PICK j \in 1 .. Len(l) : l[j] = x
      BY <2>2
    <3>2. j \notin 1 .. i
      BY <1>2, <3>1
    <3>3. i < j
      BY <2>1, <3>1, <3>2
    <3>. QED  BY <2>1, <3>1, <3>3
  <2>3. CASE x \notin S
    BY <2>1, <2>3
  <2>. QED  BY <2>2, <2>3
<1>3. ASSUME Len(s) # k, NEW x \in input
      PROVE  \E i \in 1 .. Len(s) : s[i] = x
  <2>1. Len(s) = Len(l) /\ x \in S
    BY <1>3
  <2>2. PICK i \in 1 .. Len(l) : l[i] = x
    BY <2>1
  <2>. QED  BY <2>1, <2>2
<1>. QED  BY <1>1, <1>2, <1>3 DEF LeastRows

\* What the two stages handed out by their end are such lists.
LEMMA TopKHandsOutLeastRows ==
    ASSUME IInv, phase = "eof"
    PROVE  LeastRows(out)
<1>1. /\ input \subseteq Rows /\ comparator \in Comparators /\ k \in Nat
      /\ sorted \in Seq(input) /\ out \in Seq(input) /\ buffer \in SUBSET input
  BY LimitsAssumption DEF IInv, TypeOK
<1>2. /\ Orders(sorted, buffer) /\ Len(sorted) = Cardinality(buffer)
      /\ Len(out) = Len(sorted) /\ \A i \in 1 .. Len(out) : out[i] = sorted[i]
      /\ input = buffer \cup dropped /\ Cardinality(buffer) <= k
      /\ dropped # {} => Cardinality(buffer) = k
      /\ \A x \in buffer, d \in dropped : before(x, d)
  BY DEF IInv, Emitting, KeepsTheLeast
<1>3. Len(out) = k \/ (Len(out) = Len(sorted) /\ buffer = input)
  BY <1>2
<1>4. \A x \in buffer : \A y \in input \ buffer : before(x, y)
  BY <1>2
<1>5. Len(out) <= k /\ Len(out) <= Len(sorted)
  BY <1>1, <1>2
<1>6. /\ \A i \in 1 .. Len(sorted) : \A j \in 1 .. Len(sorted) :
            i < j => before(sorted[i], sorted[j])
      /\ {sorted[i] : i \in 1 .. Len(sorted)} = buffer
  BY <1>2 DEF Orders
<1>. QED  BY <1>1, <1>2, <1>3, <1>4, <1>5, <1>6, OrderedIsLeast

LEMMA PlainHandsOutLeastRows ==
    ASSUME PlainInv, s_phase = "eof"
    PROVE  LeastRows(s_out)
<1>1. /\ input \subseteq Rows /\ comparator \in Comparators /\ k \in Nat
      /\ s_sorted \in Seq(input) /\ s_out \in Seq(input)
  BY LimitsAssumption DEF PlainInv, PlainTypes
<1>2. /\ Plain!Orders(s_sorted, input)
      /\ Len(s_out) <= Len(s_sorted) /\ \A i \in 1 .. Len(s_out) : s_out[i] = s_sorted[i]
      /\ Len(s_out) <= k /\ (Len(s_out) = k \/ Len(s_out) = Len(s_sorted))
  BY DEF PlainInv, PlainEmitting
<1>3. \A i \in 1 .. Len(s_sorted) : \A j \in 1 .. Len(s_sorted) :
         i < j => before(s_sorted[i], s_sorted[j])
  BY <1>2 DEF Plain!Orders, Plain!before, before
<1>. QED  BY <1>1, <1>2, <1>3, OrderedIsLeast DEF Plain!Orders

\* The rewrite changes no result: where the limit over the sort and the TopKStage
\* in its place both reach their end, they have handed out the same rows in the
\* same order (sort_limit_to_topk_rule.cpp, docs/architecture.md).
THEOREM RewriteKeepsRows == BothSpec => []SameRows
<1>1. IInv /\ PlainInv => SameRows
  <2>. SUFFICES ASSUME IInv, PlainInv, phase = "eof", s_phase = "eof" PROVE out = s_out
    BY DEF SameRows
  <2>1. LeastRows(out) /\ LeastRows(s_out)
    BY TopKHandsOutLeastRows, PlainHandsOutLeastRows
  <2>2. /\ input \subseteq Rows /\ comparator \in Comparators /\ k \in Nat
        /\ Len(out) \in Nat /\ Len(s_out) \in Nat
    BY LimitsAssumption DEF IInv, TypeOK, PlainInv, PlainTypes
  <2>3. Len(out) <= Len(s_out) \/ Len(s_out) <= Len(out)
    BY <2>2
  <2>. QED  BY <2>1, <2>2, <2>3, LeastRowsAreUnique
<1>. QED  BY <1>1, BothRunTopK, BothRunPlain, Invariant, PlainInvariant, PTL
==============================================================================

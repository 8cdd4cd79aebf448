--------------------------- MODULE QueryExecution ---------------------------
(***************************************************************************)
(* One execution of a physical plan: runPipeline() and                     *)
(* explainAnalyzePipeline() (src/explain/query_facade.cpp) pull rows from  *)
(* the last stage of the plan under a PlanStageExecutionGuard, and every   *)
(* stage (src/physical) pulls from the one below it.                       *)
(*                                                                         *)
(* Stage 1 is the CollectionScanStage, stage N the root.  The call stack   *)
(* is spread over the stages as in StageLifecycle: pc[i] tells where stage *)
(* i waits for its child, at is the stage control is at, msg the call it   *)
(* got or the result it gave, and row the row that came with it.  A call   *)
(* the lifecycle forbids has no action here: a run would deadlock in it.   *)
(*                                                                         *)
(* The heap of a TopKStage is the set of its rows, the worst of which is   *)
(* at its front; TopKStage has the calls on it one by one.                 *)
(***************************************************************************)
EXTENDS PipelineSemantics

CONSTANTS N,              \* the number of stages
          Plans,          \* the plans that may be run,
          Tables,         \* and the tables, as sequences of rows
          Width,          \* of this many columns
          StringSize(_)   \* the size of a string cell

ASSUME NAssumption == N \in Nat \ {0}

\* PhysicalPlanner puts the scan at the bottom of every plan and over it stages with
\* the numbers and directions the binder accepted, of columns there are below them.
ASSUME PlansAssumption ==
    \A p \in Plans :
        /\ p \in Seq(ToSet(p)) /\ Len(p) = N
        /\ p[1].stage = "CollectionScan"
        /\ \A i \in 2 .. N :
              \/ p[i].stage = "Filter"
              \/ p[i].stage = "Project" /\ p[i].columns \in Seq(Nat)
              \/ p[i].stage = "Limit" /\ p[i].limit \in Nat
              \/ p[i].stage = "Sort" /\ p[i].sort.direction \in SortDirection
              \/ p[i].stage = "TopK" /\ p[i].sort.direction \in SortDirection /\ p[i].k \in Nat
        /\ WellBound(p, Width)

\* The loader makes tables of one width and numbers their rows.
ASSUME TablesAssumption == Width \in Nat /\ \A t \in Tables : AreRows(t, Width)

VARIABLES plan, table,
          state,       \* state_,
          stats,       \* stats_ of each stage
          pc, at, msg, row,
          next_index,  \* next_index_ of a scan, a sort or a top-k
          emitted,     \* emitted_ of a limit
          buffer,      \* buffer_ of a blocking stage while it fills and
          sorted,      \* once it is sorted
          held,        \* history: the most bytes buffer_ has held
          caller,      \* where runPipeline() is
          result       \* QueryResult::rows

task == <<plan, table>>
control == <<state, pc, at, msg>>
data == <<next_index, emitted, buffer, sorted, held>>
vars == <<task, control, stats, row, data, caller, result>>

Stage == 1 .. N
Op(i) == plan[i].stage
Blocking(i) == Op(i) \in {"Sort", "TopK"}

NoRow == [ordinal |-> 0, values |-> <<>>]

-----------------------------------------------------------------------------
Init ==
    /\ plan \in Plans
    /\ table \in Tables
    /\ state = [i \in Stage |-> "kUnopened"]
    /\ stats = [i \in Stage |-> [rows_in |-> 0, rows_out |-> 0, open_calls |-> 0,
                                 get_next_calls |-> 0, peak_memory_bytes |-> 0]]
    /\ pc = [i \in Stage |-> "idle"]
    /\ at = N /\ msg = "ok"
    /\ row = NoRow
    /\ next_index = [i \in Stage |-> 0]
    /\ emitted = [i \in Stage |-> 0]
    /\ buffer = [i \in Stage |-> {}]
    /\ sorted = [i \in Stage |-> <<>>]
    /\ held = [i \in Stage |-> 0]
    /\ caller = "start"
    /\ result = <<>>

Called(i, c) == at = i /\ msg = c
ChildGave(i, r) == at = i - 1 /\ msg = r

CallChild(i, c, q) == at' = i - 1 /\ msg' = c /\ pc' = [pc EXCEPT ![i] = q]
Return(i, r) == at' = i /\ msg' = r /\ pc' = [pc EXCEPT ![i] = "idle"]
Enter(i, s) == state' = [state EXCEPT ![i] = s]

\* ++ of the counters of stage i in the set cs.
Count(i, cs) ==
    stats' = [stats EXCEPT ![i] = [c \in DOMAIN @ |-> IF c \in cs THEN @[c] + 1 ELSE @[c]]]

\* approximateRowsBytes(), with sizeof(Row) and sizeof(Value) as units.
RowBytes(r) ==
    LET Bytes(v) == IF v.type = "kString" THEN 1 + StringSize(v.v) ELSE 1
    IN  FoldFunction(LAMBDA v, n : Bytes(v) + n, 1, r.values)

RowsBytes(S) == FoldSet(LAMBDA r, n : RowBytes(r) + n, 0, S)

-----------------------------------------------------------------------------
\* open(): the onOpen() of every stage but the scan opens the child first.
OpenCall(i) ==
    /\ Called(i, "open") /\ state[i] = "kUnopened"
    /\ Count(i, {"open_calls"})
    /\ IF i = 1 THEN Enter(i, "kOpen") /\ Return(i, "ok")
                ELSE CallChild(i, "open", "opening") /\ UNCHANGED state
    /\ UNCHANGED <<task, row, data, caller, result>>

\* The child is open: a blocking stage pulls its first row.
OpenReturn(i) ==
    /\ pc[i] = "opening" /\ ChildGave(i, "ok")
    /\ IF Blocking(i)
       THEN CallChild(i, "getNext", "draining") /\ UNCHANGED state
       ELSE Enter(i, "kOpen") /\ Return(i, "ok")
    /\ UNCHANGED <<task, stats, row, data, caller, result>>

\* Seeded fault: open() rethrows without onClose().
RollBackForgotten(i) == Enter(i, "kClosed") /\ Return(i, "throw")

\* onOpen() threw: open() closes the child and then the stage.
RollBack(i) == CallChild(i, "close", "rollback") /\ UNCHANGED state

\* The child failed while the stage opened it or pulled from it.
ChildFailedOpen(i) ==
    /\ pc[i] \in {"opening", "draining"} /\ ChildGave(i, "throw")
    /\ RollBack(i)
    /\ UNCHANGED <<task, stats, row, data, caller, result>>

\* The worst row of S, the one the heap has at its front.
Worst(i, S, w) == w \in S /\ \A r \in S \ {w} : RowBefore(plan[i].sort, r, w)

\* Seeded fault: the heap drops the new row once it is full.
DrainRowKeepsTheFirst(i) ==
    /\ pc[i] = "draining" /\ ChildGave(i, "kAdvanced")
    /\ LET S == buffer[i] \cup {row}
           B == IF Op(i) = "TopK" /\ Cardinality(S) > plan[i].k THEN buffer[i] ELSE S
       IN  /\ buffer' = [buffer EXCEPT ![i] = B]
           /\ held' = [held EXCEPT ![i] = IF RowsBytes(B) > @ THEN RowsBytes(B) ELSE @]
    /\ Count(i, {"rows_in"})
    /\ CallChild(i, "getNext", "draining")
    /\ UNCHANGED <<task, state, row, next_index, emitted, sorted, caller, result>>

\* A row for the buffer of a blocking stage; a top-k gives up the worst of more
\* than k rows, if the comparisons it makes do not throw.
DrainRow(i) ==
    /\ pc[i] = "draining" /\ ChildGave(i, "kAdvanced")
    /\ LET S == buffer[i] \cup {row}
       IN  \E B \in SUBSET S :
              /\ IF Op(i) = "TopK" /\ Cardinality(S) > plan[i].k
                 THEN \E w \in S : Worst(i, S, w) /\ B = S \ {w}
                 ELSE B = S
              /\ buffer' = [buffer EXCEPT ![i] = B]
              /\ held' = [held EXCEPT ![i] = IF RowsBytes(B) > @ THEN RowsBytes(B) ELSE @]
    /\ Count(i, {"rows_in"})
    /\ CallChild(i, "getNext", "draining")
    /\ UNCHANGED <<task, state, row, next_index, emitted, sorted, caller, result>>

\* The heap compares the row with one it clashes with, or two rows of it.
DrainThrows(i) ==
    /\ pc[i] = "draining" /\ ChildGave(i, "kAdvanced")
    /\ Op(i) = "TopK" /\ plan[i].k > 0
    /\ Clashing(plan[i].sort, buffer[i] \cup {row})
    /\ Count(i, {"rows_in"})
    /\ RollBack(i)
    /\ UNCHANGED <<task, row, data, caller, result>>

\* The child is at its end: the stage sorts its rows and is open.
SortBuffer(i) ==
    /\ pc[i] = "draining" /\ ChildGave(i, "kEof")
    /\ ~Clashing(plan[i].sort, buffer[i])
    /\ sorted' = [sorted EXCEPT ![i] = InOrder(plan[i].sort, buffer[i])]
    /\ stats' = [stats EXCEPT ![i].peak_memory_bytes = RowsBytes(buffer[i])]
    /\ Enter(i, "kOpen")
    /\ Return(i, "ok")
    /\ UNCHANGED <<task, row, next_index, emitted, buffer, held, caller, result>>

SortThrows(i) ==
    /\ pc[i] = "draining" /\ ChildGave(i, "kEof")
    /\ Clashing(plan[i].sort, buffer[i])
    /\ RollBack(i)
    /\ UNCHANGED <<task, stats, row, data, caller, result>>

\* onClose() after the child is closed.
Release(i) ==
    /\ Enter(i, "kClosed")
    /\ buffer' = [buffer EXCEPT ![i] = {}]
    /\ sorted' = [sorted EXCEPT ![i] = <<>>]

RollbackReturn(i) ==
    /\ pc[i] = "rollback" /\ ChildGave(i, "ok")
    /\ Release(i)
    /\ Return(i, "throw")
    /\ UNCHANGED <<task, stats, row, next_index, emitted, held, caller, result>>

-----------------------------------------------------------------------------
\* The rows a stage has at hand, which getNext() reports one after the other.
AtHand(i) == IF i = 1 THEN table ELSE sorted[i]

GetNext(i) == Called(i, "getNext") /\ state[i] \in {"kOpen", "kEof"}

\* getNext() reports kEof without the child: again, or at the end of the rows
\* at hand, or at the limit.
GetNextEof(i) ==
    /\ GetNext(i)
    /\ \/ state[i] = "kEof"
       \/ (i = 1 \/ Blocking(i)) /\ next_index[i] >= Len(AtHand(i))
       \/ Op(i) = "Limit" /\ emitted[i] >= plan[i].limit
    /\ Count(i, {"get_next_calls"})
    /\ Enter(i, "kEof")
    /\ Return(i, "kEof")
    /\ UNCHANGED <<task, row, data, caller, result>>

GetNextRow(i) ==
    /\ GetNext(i) /\ state[i] = "kOpen"
    /\ i = 1 \/ Blocking(i)
    /\ next_index[i] < Len(AtHand(i))
    /\ row' = AtHand(i)[next_index[i] + 1]
    /\ next_index' = [next_index EXCEPT ![i] = @ + 1]
    /\ Count(i, {"get_next_calls", "rows_out"} \cup (IF i = 1 THEN {"rows_in"} ELSE {}))
    /\ Return(i, "kAdvanced")
    /\ UNCHANGED <<task, state, emitted, buffer, sorted, held, caller, result>>

\* Seeded fault: a limit looks at its count only once it has a row.
GetNextPullOneTooMany(i) ==
    /\ GetNext(i) /\ state[i] = "kOpen"
    /\ i > 1 /\ ~Blocking(i)
    /\ Op(i) = "Limit" => emitted[i] <= plan[i].limit
    /\ Count(i, {"get_next_calls"})
    /\ CallChild(i, "getNext", "pulling")
    /\ UNCHANGED <<task, state, row, data, caller, result>>

GetNextPull(i) ==
    /\ GetNext(i) /\ state[i] = "kOpen"
    /\ i > 1 /\ ~Blocking(i)
    /\ Op(i) = "Limit" => emitted[i] < plan[i].limit
    /\ Count(i, {"get_next_calls"})
    /\ CallChild(i, "getNext", "pulling")
    /\ UNCHANGED <<task, state, row, data, caller, result>>

Pulled(i, op) == pc[i] = "pulling" /\ ChildGave(i, "kAdvanced") /\ Op(i) = op

\* FilterStage::onGetNext(): pass the row on, ask for the next, or throw.
FilterPass(i) ==
    /\ Pulled(i, "Filter") /\ Evaluate(plan[i].predicate, row) = "true"
    /\ Count(i, {"rows_in", "rows_out"})
    /\ Return(i, "kAdvanced")
    /\ UNCHANGED <<task, state, row, data, caller, result>>

\* Seeded fault: only the rows that match are counted.
FilterDropUncounted(i) ==
    /\ Pulled(i, "Filter") /\ Evaluate(plan[i].predicate, row) = "false"
    /\ CallChild(i, "getNext", "pulling")
    /\ UNCHANGED <<task, state, stats, row, data, caller, result>>

\* Seeded fault: a row that does not match is evaluated again.
FilterDropStays(i) ==
    /\ Pulled(i, "Filter") /\ Evaluate(plan[i].predicate, row) = "false"
    /\ UNCHANGED vars

FilterDrop(i) ==
    /\ Pulled(i, "Filter") /\ Evaluate(plan[i].predicate, row) = "false"
    /\ Count(i, {"rows_in"})
    /\ CallChild(i, "getNext", "pulling")
    /\ UNCHANGED <<task, state, row, data, caller, result>>

FilterThrows(i) ==
    /\ Pulled(i, "Filter") /\ Evaluate(plan[i].predicate, row) \in ComparisonError
    /\ Count(i, {"rows_in"})
    /\ Return(i, "throw")
    /\ UNCHANGED <<task, state, row, data, caller, result>>

ProjectPass(i) ==
    /\ Pulled(i, "Project")
    /\ row' = [ordinal |-> row.ordinal,
               values |-> [j \in DOMAIN plan[i].columns |-> row.values[plan[i].columns[j]]]]
    /\ Count(i, {"rows_in", "rows_out"})
    /\ Return(i, "kAdvanced")
    /\ UNCHANGED <<task, state, data, caller, result>>

LimitPass(i) ==
    /\ Pulled(i, "Limit")
    /\ emitted' = [emitted EXCEPT ![i] = @ + 1]
    /\ Count(i, {"rows_in", "rows_out"})
    /\ Return(i, "kAdvanced")
    /\ UNCHANGED <<task, state, row, next_index, buffer, sorted, held, caller, result>>

PullEof(i) ==
    /\ pc[i] = "pulling" /\ ChildGave(i, "kEof")
    /\ Enter(i, "kEof")
    /\ Return(i, "kEof")
    /\ UNCHANGED <<task, stats, row, data, caller, result>>

PullFailed(i) ==
    /\ pc[i] = "pulling" /\ ChildGave(i, "throw")
    /\ Return(i, "throw")
    /\ UNCHANGED <<task, state, stats, row, data, caller, result>>

CloseCall(i) ==
    /\ Called(i, "close")
    /\ \/ state[i] = "kClosed" /\ Return(i, "ok") /\ UNCHANGED <<state, buffer, sorted>>
       \/ state[i] # "kClosed" /\ i = 1 /\ Release(i) /\ Return(i, "ok")
       \/ /\ state[i] # "kClosed" /\ i > 1 /\ CallChild(i, "close", "closing")
          /\ UNCHANGED <<state, buffer, sorted>>
    /\ UNCHANGED <<task, stats, row, next_index, emitted, held, caller, result>>

CloseReturn(i) ==
    /\ pc[i] = "closing" /\ ChildGave(i, "ok")
    /\ Release(i)
    /\ Return(i, "ok")
    /\ UNCHANGED <<task, stats, row, next_index, emitted, held, caller, result>>

StageStep(i) ==
    \/ OpenCall(i) \/ OpenReturn(i) \/ ChildFailedOpen(i)
    \/ DrainRow(i) \/ DrainThrows(i) \/ SortBuffer(i) \/ SortThrows(i) \/ RollbackReturn(i)
    \/ GetNextEof(i) \/ GetNextRow(i) \/ GetNextPull(i)
    \/ FilterPass(i) \/ FilterDrop(i) \/ FilterThrows(i) \/ ProjectPass(i) \/ LimitPass(i)
    \/ PullEof(i) \/ PullFailed(i)
    \/ CloseCall(i) \/ CloseReturn(i)

-----------------------------------------------------------------------------
\* The root has returned r to runPipeline() at c, which goes on to d.
RootGave(c, r, d) == caller = c /\ at = N /\ msg = r /\ caller' = d

CallRoot(c) == msg' = c /\ UNCHANGED <<state, pc, at>>

\* The guard is constructed, and open() returns to it.
GuardOpens ==
    /\ RootGave("start", "ok", "opening")
    /\ CallRoot("open")
    /\ UNCHANGED <<task, stats, row, data, result>>

GuardOpened ==
    /\ RootGave("opening", "ok", "fetching")
    /\ CallRoot("getNext")
    /\ UNCHANGED <<task, stats, row, data, result>>

\* open() threw: there is no guard to close the stage.
GuardFails ==
    /\ RootGave("opening", "throw", "failed")
    /\ UNCHANGED <<task, control, stats, row, data, result>>

FetchRow ==
    /\ RootGave("fetching", "kAdvanced", "fetching")
    /\ result' = Append(result, row)
    /\ CallRoot("getNext")
    /\ UNCHANGED <<task, stats, row, data>>

FetchEof ==
    /\ RootGave("fetching", "kEof", "leaving")
    /\ CallRoot("close")
    /\ UNCHANGED <<task, stats, row, data, result>>

\* Seeded fault: without the guard, an exception leaves the plan open.
FetchFailsUnguarded ==
    /\ RootGave("fetching", "throw", "failed")
    /\ UNCHANGED <<task, control, stats, row, data, result>>

\* getNext() threw: the destructor of the guard closes the root.
FetchFails ==
    /\ RootGave("fetching", "throw", "unwinding")
    /\ CallRoot("close")
    /\ UNCHANGED <<task, stats, row, data, result>>

GuardCloses ==
    /\ RootGave("leaving", "ok", "done") \/ RootGave("unwinding", "ok", "failed")
    /\ UNCHANGED <<task, control, stats, row, data, result>>

\* Seeded fault: the rows that reached the root are taken for the documents examined.
DocumentsExaminedByRoot == stats[N].rows_in

\* GlobalStats, read off the leaf scan and the result.
DocumentsExamined == stats[1].rows_out
DocumentsReturned == Len(result)

Finished == caller \in {"done", "failed"}

Over == Finished /\ UNCHANGED vars

Next ==
    \/ \E i \in Stage : StageStep(i)
    \/ GuardOpens \/ GuardOpened \/ GuardFails
    \/ FetchRow \/ FetchEof \/ FetchFails \/ GuardCloses
    \/ Over

\* The program is sequential: it takes the next step whenever there is one.
Spec == Init /\ [][Next]_vars /\ WF_vars(Next)
-----------------------------------------------------------------------------
\* runPipeline() returns the rows the plan means, in their order, and throws
\* just when the plan can fail, having collected the rows before the failure: a
\* limit hides what fails after its last row, but nothing that fails in open().
ResultIsMeaning ==
    /\ caller = "done" => Yields(result) \in Outcomes(plan, table)
    /\ caller = "failed" => \/ FailsAfter(result) \in Outcomes(plan, table)
                            \/ FailsToOpen \in Outcomes(plan, table) /\ result = <<>>

\* On every path out of runPipeline() the whole plan is closed and holds no rows
\* (plan_stage_execution_guard.h:7-13, plan_stage_base.cpp:30-38).
AllReleased ==
    Finished => \A i \in Stage : state[i] = "kClosed" /\ buffer[i] = {} /\ sorted[i] = <<>>

\* The counters EXPLAIN ANALYZE prints agree from stage to stage, also in a plan
\* that failed: a stage has taken in every row its child gave out, has given out
\* no more rows than it took in, and was opened at most once.
RowsAccounted ==
    Finished => \A i \in 2 .. N :
        /\ stats[i].rows_in = stats[i - 1].rows_out
        /\ stats[i].rows_out <= stats[i].rows_in
        /\ stats[i].open_calls <= 1

\* A limit asks its child at most as often as it may hand on rows, whatever is
\* below and above it (docs/architecture.md:160).
LimitStopsPulling ==
    \A i \in Stage : Op(i) = "Limit" => stats[i - 1].get_next_calls <= plan[i].limit

\* The numbers of documents whose rows, taken from the beginning of the table, fill
\* limit i.
FillsLimit(i) ==
    {n \in 0 .. Len(table) :
        \E o \in Outcomes(SubSeq(plan, 1, i), SubSeq(table, 1, n)) : Len(o.rows) = plan[i].limit}

\* documentsExamined is just what the answer takes: the whole table, or as many of its
\* rows as fill the first limit to be full of those with no blocking stage below, and
\* not one more (docs/architecture.md:160,205, query_facade.cpp:90-91).
ExaminesJustEnough ==
    caller = "done" =>
        /\ DocumentsExamined =
              Min({Len(table)} \cup UNION {FillsLimit(i) :
                  i \in {i \in Stage : Op(i) = "Limit" /\ \A j \in 1 .. i : ~Blocking(j)}})
        /\ DocumentsReturned = stats[N].rows_out

\* peakMemoryBytes is the most memory the rows of a stage have taken, as its name
\* says (plan_stage.h:28, json_serialize.cpp:155).
PeakIsPeak ==
    \A i \in Stage : state[i] = "kOpen" => stats[i].peak_memory_bytes = held[i]

\* Every query ends, with rows or with an exception.
Terminates == <>Finished

\* The execution is one the lifecycle of the stages allows, by an owner that
\* misuses nothing and under which every stage is released once.
Lifecycle == INSTANCE StageLifecycle WITH
    blocking <- {i \in Stage : Blocking(i)},
    closes <- [i \in Stage |-> IF state[i] = "kClosed" THEN 1 ELSE 0],
    misused <- {}

KeepsLifecycle == Lifecycle!Spec
==============================================================================

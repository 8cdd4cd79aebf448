# QueryLume in TLA+

QueryLume is an embeddable, single-process, single-threaded query engine in C++17. It loads a JSON
array of flat documents into a table, parses and binds a pipeline of `$match`, `$project`, `$sort`
and `$limit`, rewrites one plan shape (`Limit` over `Sort` becomes `TopK`), builds a tree of
pull-based stages and drains it. Nothing runs in parallel and nothing is persisted. What is hard in
it is the order of calls in a chain of stages that can throw at any depth, comparisons over mixed
types that may throw or be unordered, the bounded heap, and an optimizer that must not change what
a query means.

Paths below are relative to the repository.

## Inventory

| Part | State it keeps | Operations | What makes it correct |
|---|---|---|---|
| Values (`src/data/value.cpp`) | none | `compare`, `valuesEqual` | numbers compare exactly across `int64` and `double`; equality and order agree; the same pairs throw whichever way they are asked |
| Expressions (`src/expression`) | the bound predicate | `evaluate` | the six operators are consistent, also on nulls; a conjunction stops at the first operand that is false or throws |
| `RowComparator` (`src/physical/row_comparator.cpp`) | column, direction | `operator()` | a strict order of the rows, or `std::sort` is undefined |
| Stages (`src/physical/*_stage.cpp`) | `child_`, a position, for `SortStage` and `TopKStage` a buffer | `onOpen`, `onGetNext`, `onClose` | rows of the pipeline, in order; a limit stops pulling; a heap of at most k rows |
| `PlanStageBase` (`src/physical/plan_stage_base.cpp`) | `state_`, `stats_` | `open`, `getNext`, `close` | the lifecycle contract of `plan_stage.h:31-47`; rollback of a failed open |
| `PlanStageExecutionGuard`, `runPipeline`, `explainAnalyzePipeline` | the root, the rows so far | open, drain, close | everything released on every path |
| Parser (`src/parser`) | the stage the loop is at | `parsePipeline` | every malformed stage is refused with its `ErrorCode`; numbers keep their value |
| Binder and `Schema` (`src/binder`, `src/data/schema.cpp`) | `current_schema`, the plan so far | `bindPipeline` | names mean the columns of the rows that reach the stage |
| Optimizer (`src/optimizer`) | the node the walk is at, the trace | `SortLimitToTopKRule::apply` | meaning kept, no match missed, trace truthful |
| Physical planner, output schema | the tree being consumed | `buildPhysicalPlan`, `outputSchemaOf` | stages yield rows of the printed schema |
| JSON loader (`src/data/json_loader.cpp`) | field names, rows so far | `loadTableFromJson*` | the table says what the documents say |
| Stage timing (`plan_stage_base.cpp`) | `execution_time_micros`, the start of each call | `microsSince` around `onOpen`, `onGetNext` | a stage's time includes its child's |
| EXPLAIN output (`src/explain/json_serialize.cpp`, `describe()`), `GlobalStats` | none; what is taken before the plan is rewritten and after | `toJson` | the five views agree with each other; the statistics are those of the run |
| Command line (`apps/querylume_cli/main.cpp`) | the two files, the result, the streams | `run`, `explain`, `explain-analyze` | what is printed is what the pipeline means; output or an error, never both |

How they interact: all calls are synchronous. The facade calls parser, binder, optimizer and
planner one after the other (`planQuery()`); the guard calls the root stage; each stage calls
only the child it owns, `open()` and `close()` reach the whole chain, and `getNext()` goes down as
far as a stage needs. Errors are exceptions that pass up the same chain. The table is shared and
immutable.

Hard behaviours, the reason for the properties (PROJECT.json lists them at their lines): an
exception in a blocking `onOpen()` with a half-consumed child, before a guard exists; `close()`
after such a rollback; a failure behind the last row of a limit; a comparison that throws inside the
standard library's heap or sort, and which comparisons are made at all; `int64` and `double` near
2^63; names after `$project`; a tree rewritten while it is walked, and shown before and after;
times added up call by call in a chain in which any call may throw.

## Modules

A module follows the code's state variable by variable; `PROJECT.json` maps each definition to its
lines. The definitions marked "Seeded fault" are faulty forms of a definition beside them, of the
kind a mistake in the code would have; nothing in a specification uses them, and each one is known
to violate a property when it takes the place of the right form.

| Module | What it is | Code |
|---|---|---|
| `Values` | cells, `Compare`, `ValuesEqual`; an exception is an outcome | `value.cpp` |
| `RowComparator` | rows, the order of sorts, predicates | `row_comparator.cpp`, `expression/` |
| `RowOrdering` | every triple of cells; the laws of the above | - |
| `OrderedPrefix` | abstract: what `$sort` then `$limit` promises | - |
| `TopKStage` | the heap row by row; implements `OrderedPrefix` | `topk_stage.cpp` |
| `SortLimitStages` | `LimitStage` over `SortStage`; implements `OrderedPrefix` | `sort_stage.cpp`, `limit_stage.cpp` |
| `SortLimitRewrite` | both over one input, one after the other | `optimized_vs_unoptimized_test.cpp` |
| `StageLifecycle` | a chain of N stages under an arbitrary owner | `plan_stage_base.cpp` |
| `StageTiming` | the same chain, its steps taking time; extends `StageLifecycle` | `plan_stage_base.cpp` |
| `PipelineSemantics` | reference: what a plan means for a table | - |
| `QueryExecution` | a whole plan drained under the guard; implements `StageLifecycle` | `query_facade.cpp`, every stage |
| `JsonValues` | JSON documents, scalars to cells | `convertScalar`, `jsonToLiteral` |
| `QueryPlanning` | `planQuery()`: parse, bind, rewrite, lower | parser, binder, optimizer, planner |
| `TableLoading` | the two passes of the loader | `json_loader.cpp` |
| `JsonSerialize` | what is printed of values, rows, pipelines and plans | `json_serialize.cpp`, `describe()` |
| `CommandLine` | the program: composes `TableLoading`, `QueryPlanning`, `PipelineSemantics` and `JsonSerialize` | `main.cpp`, `query_facade.cpp` |
| `RowOrderingProofs`, `SortLimitProofs`, `StageLifecycleProofs`, `QueryExecutionProofs`, `TableLoadingProofs`, `QueryPlanningProofs`, `CommandLineProofs` | theorems | - |
| `DataProofs` | what the proofs share: orders and lists, documents, cells, rows, the meaning of plans | - |
| `MC*` | constants for TLC | - |

Choices of the models:

- *Numbers* (`Values`) are counted in halves, so that a double can have a fraction, and the integers
  have a small width whose ends play `INT64_MIN` and `INT64_MAX`. The set of doubles has gaps between
  the integers, as it has above 2^53; comparing by a cast is caught because of them.
- *Strings and names* are ranks in byte order. Rows carry their ordinal.
- *Sorted sequences* (`Ascending`, `InOrder`) are given position by position: the i-th element is the
  one with i - 1 others before it. For a strict order that is the sorted sequence and no other.
- *The call stack* (`StageLifecycle`, `QueryExecution`) is spread over the stages: `pc[i]` is where
  stage i waits for its child, `at` the stage in control, `msg` the call or the result. A call and
  its return are separate steps, so every state between two calls in a chain is seen.
- *The heap* is a set of rows; `std::push_heap`, `std::pop_heap` and `std::sort` are external and do
  what the standard promises: the front of a heap is a row no other is after, a sorted range is an
  ordered permutation. Which pairs a heap compares is left open, so a heap with two
  incomparable rows may or may not notice. `std::sort` has to compare rows that end up neighbours,
  so it throws just when two of its rows are incomparable.
- *Plans* are sequences of nodes from the scan up, as each node has one child; the rule, which
  walks from the root, goes from the last position to the first.
- *The clock* (`StageTiming`) is a variable that any step may move on. A microsecond has
  `TicksPerMicro` ticks, so that `duration_cast` cuts something off. A call that starts reads the
  clock at the beginning of its step and one that returns at the end of its own.
- *Texts* (`JsonSerialize`) are the sequence of their parts; a number in a text is the number read in
  it, of a double rounded (`ShownDouble`), as `operator<<` gives six digits.
- *The program* (`CommandLine`) holds the variables of the loader and of `planQuery()` and takes their
  steps (`Loader!Step`, `Planner!Step`). The execution is one step to any of the outcomes of
  `PipelineSemantics`, which `QueryExecution` shows to be what the stages do (`ResultIsMeaning`); the
  plans have different lengths there, so that the chain itself is not composed.
- In `StageLifecycle` the rows are left open: any stage may report a row, the end or an exception
  where the code of some stage may. `QueryExecution` fixes them and refines it.

## Runs

| Run | Question | Bounds, and why they are enough |
|---|---|---|
| `row_ordering` | the laws of comparison and order | 27 cells, all triples: integers -4..3, doubles below, between, at and beyond every end, NaN, nulls, bools, two strings. The laws speak of three rows at most |
| `sort_limit_rewrite` | heap invariant; both plans refine `OrderedPrefix`; same rows before and after the rewrite | subsets of six rows (ties, nulls, a string that clashes), limits 0-3, both directions, every order of delivery: heaps fill, evict, discard, and clash |
| `rewrite_clash` | same failures? No: finding below | as above |
| `stage_lifecycle` | the contract, any owner; inclusive times | four stages, any blocking: a stage has stages on both sides and rollbacks nest; two ticks to the microsecond and a clock up to four, enough for a parent's call to cover two calls of its child that are each cut off |
| `lost_time` | inclusive of every descendant? No: finding below | three stages, the same clock |
| `query_execution` | rows, failures, release, counters, documents examined, pulling, lifecycle, termination | every well-bound plan of three of eight stages over a scan, on an empty table, one with tie and null, one with clashes in both columns; every pair of adjacent kinds and every kind between two others occurs |
| `peak_memory` | is `peak_memory_bytes` the peak? No: finding below | as above |
| `query_planning` | planning | every pipeline of up to four of six stages (a limit over a sort can occur twice, adjacent or apart), all pairs of ten stages, and 23 malformed stages beside good ones; two tables to compare meanings on |
| `table_loading` | the loader | all arrays of up to two documents over two fields with six cells, three documents over three fields for the schema |
| `loader_errors` | only `QueryLumeError`? No: finding below | as above |
| `command_line` | from two files and a command to stdout, stderr and exit code | every command; an empty table, one with missing fields and a null, one with fields that overlap only in part, one with a clash in each column, and a file of each kind that does not load; all pipelines of two of nine stages and of three of five, and a file of each kind that does not parse or bind |
| `malformed_pipeline` | malformed JSON refused? No: finding below | as above |

`CHECK_DEADLOCK FALSE` is set where a stage stops for good once closed (the two runs of
`SortLimitRewrite`). Elsewhere a finished query stutters by an action of its own (`Over`), so a
deadlock would be a call nobody answers; in `QueryExecution` also a call the lifecycle forbids.

Fairness. The program is sequential: there is no scheduler that could ignore an action, only the
next statement. `WF_vars(Next)` says just that, and it is what `Terminates`, `Plans` and `Exits` are
checked under. `StageLifecycle`, `StageTiming` and `TopKStage` claim no liveness, as an owner may stop
calling; that the loader ends is part of `Exits`.

What the runs show, property by property, stands in the comment above each property. In short:

- `NumbersCompareExactly`, `EqualityAgreesWithOrder`, `RowsStrictlyOrdered`,
  `DescendingReversesAllButTies`, `OperatorsAgree`: the comparisons are lawful.
- `KeepsTheLeast`, `ImplementsSortLimit`, `PlainImplementsSortLimit`, `SameRows`: two implementations
  of one promise.
- `OnlyOwnerMisuses`, `ReleasedOnce`, `ChainAgrees`, `FailedOpenReleases`, `OneWay`: the lifecycle.
- `InclusiveTimes`: cutting each call's time off never makes the children's sum the larger.
- `ResultIsMeaning` (against `PipelineSemantics`), `AllReleased`, `RowsAccounted`,
  `LimitStopsPulling`, `ExaminesJustEnough` (`documentsExamined` is just what the answer takes),
  `KeepsLifecycle` (refinement of `StageLifecycle`), `Terminates`: execution.
- `PlansJustTheValid` (against a description of the language), `PlanSaysWhatIsWritten` (the kind,
  columns, operators, literals, direction and limit of every node, against the stage as it was
  written), `ColumnsMatchNames`, `OptimizerKeepsMeaning`, `NothingLeftToRewrite`,
  `OutputSchemaFits`, `Plans`: planning.
- `LoadedFaithfully`, `SchemaIsCanonical`, `LoadsJustTheTables`: loading.
- `AnswersAsWritten` (against the meaning of the pipeline for the documents, by names alone, without
  schemas or columns), `OutputOnlyOnSuccess`, `ExplainViewsAgree`, `Exits`: the program.

### Where the code and its documentation disagree

1. `SameFailure`: docs/architecture.md:171 says that Sort and TopK produce identical output. A sort
   of rows with incompatible types throws; a top-k may not compare them (`topk_stage.cpp:21`), and
   with k = 0 compares nothing (`:15`), so the rewritten plan answers. `OptimizerKeepsMeaning` is the
   claim that does hold: the meaning is kept except that a plan which failed to open may open.
2. `PeakIsPeak`: `peak_memory_bytes` of a top-k is set at the end (`topk_stage.cpp:30`), to the bytes
   of the rows left; a larger row evicted before is not in it.
3. `OnlyQueryLumeErrors`: `error.h:23-26` says all user-facing failures are `QueryLumeError`s. The
   handlers at `json_loader.cpp:92` and `main.cpp:23` are for `parse_error`; nlohmann/json (3.11.3,
   `cmake/Dependencies.cmake`) reports a number beyond the range of double, such as `1e999`, by
   `out_of_range`. The model takes this from the library, which is external.

4. `InclusiveOfEveryDescendant`: docs/architecture.md:202 says that `execution_time_micros` is
   inclusive of every descendant's time. `getNext()` adds its time behind `onGetNext()`
   (`plan_stage_base.cpp:51-52`); an exception skips the line, and the stage loses the call, though
   what its child did in it before is counted. `InclusiveTimes` is the claim that does hold.
5. `MalformedRefused`: `error.h:23-26` again. `loadJsonFile()` reads the pipeline with `stream >> parsed`
   (`main.cpp:22`), which stops behind the first document, so that a file with other text after it,
   which is not JSON, is executed. As a data file it is refused (`json_loader.cpp:91`).

## Proofs

The theorems hold for every value of the constants under the named assumptions of the modules, and
TLC evaluates the assumptions in the runs. They are, beside those on numbers and names
(`Int64Assumption`, `DoublesAssumption`, `StringsAssumption`) and on the clock (`TicksAssumption`):

- `OrderAssumption` (`TopKStage`): rows that do not clash are strictly ordered, which is what
  `StrictOrder` shows of `RowComparator`. `LimitsAssumption`: a limit is a number.
- `NAssumption`, `PlansAssumption` (`QueryExecution`; the first also `StageLifecycle`): a plan has N
  stages, the lowest is the scan, and each other one has the numbers and directions the binder accepts,
  and columns there are below it; `buildPhysicalPlan` and the binder make no other plans, which
  `JustTheValidArePlanned` and `OutputSchemasFit` show of `QueryPlanning`.
- `TablesAssumption` of `QueryExecution`: the tables have one width, and their rows ordinals of their own.
- `TextsAssumption` (`TableLoading`), `PipelinesAssumption` (`QueryPlanning`): what a file or a pipeline
  holds is a value of JSON as nlohmann/json keeps it (`IsJson`), down to the depth the code looks at.
  `SchemasAssumption`, `DirectionsAssumption`: names are strings, and the two directions fit a width.
  `TablesAssumption`: the rows of a table have a cell for every name and ordinals of their own, as the
  loader makes them (`TablesAreFaithful`).

What is proved, and along which argument:

- `RowOrderingProofs`. `CompareIntToDoubleExact` (`DataProofs`): for any width and any set of doubles closed under
  truncation (`DoublesAssumption`: dropping the fraction of a double in range gives a double, as it
  needs no more digits) the result is the order of the exact values; the argument follows the
  code, by the sign of the truncation and the fraction. From it `ExactComparison`, and with a
  case analysis over nulls, numbers and strings `StrictOrder`, `EqualityIsOrder`,
  `DescendingReverses` and `OperatorsAlwaysAgree`. The only invariant needed is the type invariant
  of `RowOrdering`.
- `SortLimitProofs`. The inductive invariant of the heap adds to `KeepsTheLeast` and `TypeOK` that the
  buffer is finite, what `sorted` and `out` are in each phase and that `out` is the prefix of
  `sorted` up to `next_index`; without them neither the eviction nor the emission preserves
  anything useful. `HeapKeepsTheLeast` follows, and `TopKImplementsSortLimit`: every step is a
  step of `OrderedPrefix` or a stutter. A like invariant of the plain plan, whose limit counts rows
  of a sorted sequence, gives `SortUnderLimitImplementsSortLimit`. `RewriteKeepsRows` composes
  both: at the end both outputs are the least rows in order, and there is one such sequence.
- `StageLifecycleProofs`, for any number of stages. The five safety properties and `OneWay`. The
  inductive invariant `IInv` is the shape of the call stack: the stages above `at` wait, those
  below are idle (`Stack`); a waiting stage is in the state its code path implies (`Own`), its
  child in the state the call or the result implies (`Child`), and all below a closed child
  are closed (`ClosedBelow`). None of the properties is inductive alone: that a child is not misused
  depends on where its parent stands.
  The same module has the theorems of `StageTiming`, for any ticks and bound of the clock.
  `TimingKeepsLifecycle`: a chain that takes time goes through the lifecycle and no other way. `TimesAreInclusive`: the
  invariant adds to `IInv` that, for a stage i in a call it will add the time of, what the child
  has added is at most what i has added plus the time, cut off, from the start of i's call up to
  the time until which the child is accounted for: the start of its own call, or now. The step
  that matters is the child's addition, which needs that two times cut off apart are no more than
  cut off together (`MicrosApart`).
- `QueryExecutionProofs`, for plans of any length over any table. `ExecutionKeepsLifecycle`: every step
  of an execution is one the lifecycle allows. The refinement is not step by step alone: that a
  stage which fills its buffer is `kUnopened` follows from the invariant of `StageLifecycleProofs`,
  so that invariant, instantiated, is carried along (`InLifecycle`). On top of it stand what the
  guard does (a query that ends has closed its root), what a stage that is closed has let go of, and
  the counters: `rows_in` of a stage is `rows_out` of its child but for the row on its way up, and a
  limit has pulled once more than it passed on only while it waits. They give `ExecutionReleasesAll`,
  `CountersAddUp` and `LimitsStopPulling`.

  `ResultsAreMeaning`: no stage knows what it will have given, and a top-k over rows that clash has two
  outcomes, of which the heap settles on one as it opens. So the invariant (`Foretold`) is that there
  are an outcome `o[i]` for every open stage, among those `PipelineSemantics` gives the plan up to i
  and following from `o[i - 1]`, which foretells it: what i has given is the beginning of `o[i]`, as
  far as the rows it took in lead (`Progress`); a buffer being filled holds what a sort or a heap of
  those rows would (`Drained`); what is on its way up is the next row, the end or the failure of
  `o[at]` (`Told`), and the rows collected are a beginning of `o[N]` (`Collected`). The outcome of a
  stage is chosen in the step that opens it; for the others it is the same before and after a step.
  That the pull of each kind of stage yields what its meaning says is in `DataProofs`
  (`FilterGives`, `ProjectGives`, `LimitGives`, `HeapKeeps`, `SortGives`).

  `ExaminesNoMore`: a query ends because its lowest stage at its end is the scan or a limit that is full,
  with no blocking stage below it (`Ended`), and the scan is asked for a row only while every limit
  that streams waits for one and so is not full (`AskedFromAbove`, `NotFullYet`). What ties this to
  `FillsLimit`, which runs the meaning of the plan over the first n rows of the table, is that a
  streaming plan has at any time given what it means over the rows the scan has given
  (`BeginningMeans`, on `FilterOfFirst`, `ProjectOfFirst` and `LimitOfFirst` of `DataProofs`).
- `TableLoadingProofs`. The invariant says what each pass has got from the documents before `next`:
  their names, and then a row that says what the document says; and that a text which failed is no
  table (`Failing`). `SchemasAreCanonical` rests on `AscendingLists` (`DataProofs`): a finite
  set of integers is listed by `Ascending` completely, in order and once. `TablesAreFaithful`,
  `JustTheTablesLoad`.
- `QueryPlanningProofs`, for pipelines of any length. The parsed stages before `next` are those of the
  language and say what is written (`AreParsed`); the plan of the binder has them, each with the
  columns of the names in the schema that reaches it (`IsPlanOf`); a failed pipeline is not of the
  language (`OnceFailed`). For the optimizer: the nodes up to `current` are as the binder left them,
  no limit above `current` is over a sort, and names, columns and the schema of the result are
  kept (`WhileOptimizing`). A rewritten node may have become the child of one the walk has been
  at; that no match arises there, as a top-k is no sort, is the step that matters. Lowering
  appends the operators of the nodes it consumes. Hence `PlansAreTyped`, `ColumnsAreThoseOfNames`,
  `PlansSayWhatIsWritten`, `JustTheValidArePlanned`, `EveryLimitOverSortIsFused`, `OutputSchemasFit`.
  `OptimizingKeepsMeaning` adds what `DataProofs` shows of `PipelineSemantics`: a stage makes rows of
  its width of rows it fits (`ApplyKeeps`), so every sort meets rows its comparator orders strictly;
  of rows that do not clash the least n are one set, and in order it is the first n of the
  sorted rows (`LeastAreFirst`), so the top-k has the outcome of the limit over the sort
  (`FusedMeansTheSame`); and what is kept below a stage is kept above it, a failure to open
  included (`StageKeeps`). What the recursive functions `SchemaAt`, `WidthAt` and `Outcomes` are
  equal to is shown by the least position where it fails.

- `CommandLineProofs`, for any files. `PrintsAllOrNothing`: until `main()` is in its handlers or done,
  nothing has been written, the exit code is that of success and no exception was caught; only one
  statement prints, and it prints all. `ViewsOfExplainAgree` composes the theorems on the loader and
  the planner, which `CommandLine` instantiates with variables of its own: `LoaderAssumptions` and
  `PlannerAssumptions` derive what they assume of their constants from what `CommandLine` assumes of
  files, and each step of the program is one of theirs or leaves them be. So the plan that is printed
  is one the planner finished, on the schema of a loaded table, and `WhatIsShown` of
  `QueryPlanningProofs` tells what it has (`Shown`): every logical node is what the binder made of its
  parsed stage, the physical plan is not longer than the rewritten one. `EInv` keeps that while the
  plan runs and until it is printed. Then the nested nodes of JSON are followed down (`BelowOf`): the
  node at depth d has the members of stage n + 1 - d, for any number of stages.

  `AnswersFollowTheText` is the one theorem from the text of the two files to the printed rows. The
  meaning of a text knows rows by names only, so the proof carries names up the stages: rows of a
  table are its documents (`TableByNames`), a node the planner leaves asks of columns what its stage
  in the text asks of their names (`StageIsAsked`, on `NodeAsks` of `QueryPlanningProofs`), a stage
  does to rows by names what it does to the rows (`StageByNames`: filter, limit, sort and project,
  on the lemmas `...ByNames` of `DataProofs`; for a sort, that naming is one-to-one and keeps the
  order), and so does a plan of any length (`PlanByNames`). With `Meant`, that the optimized plan
  means what the bound one does over any table, every outcome of the plan that runs is one of the
  text (`MeaningOfPlan`), or the text has a sort that fails. `AInv` keeps that from the execution to
  the exit, and what is printed is the outcome (`PrintedShows`).

Every invariant and action property that a run checks is stated by a theorem. Only model-checked, as out of
the prover's reach: liveness (`Terminates`, `Plans`, `Exits`) and ENABLED, and theorems about a
recursive definition that need an induction principle as a lemma. No module declares a RECURSIVE
operator.

## Plan

Order, most important first; every step is done.

1. `Values`, `RowComparator`, `RowOrdering` - the order everything rests on.
2. `OrderedPrefix`, `TopKStage` - the bounded heap, refinement.
3. `SortLimitStages`, `SortLimitRewrite` - the rewrite.
4. `StageLifecycle` - the contract, for any owner.
5. `PipelineSemantics`, `QueryExecution` - whole plans, composing the stages and refining 4.
6. `JsonValues`, `QueryPlanning` - planning, composing 5's semantics with the optimizer.
7. `TableLoading`.
8. Proofs of 1, 2 and 4.
9. `StageTiming`: a clock, inclusive times, and what an exception in `getNext()` does to them; proof.
10. `JsonSerialize`, `CommandLine`: load, plan, run, print; output and exit code; `GlobalStats`.
11. Proofs of 3, 6 and 7: `SortLimitStages` refines `OrderedPrefix`, both plans yield the same rows;
    every invariant of `QueryPlanning`, with the meaning of plans; the loader.
12. The refinement of `StageLifecycle` by `QueryExecution`, for any N, plan and table, and on top of it
    `AllReleased`, `RowsAccounted` and `LimitStopsPulling`.
13. `ResultIsMeaning` and `ExaminesJustEnough`, on the invariant of 12 and the lemmas on outcomes in
    `DataProofs`.
14. `OutputOnlyOnSuccess`, `ExplainViewsAgree` by composing the theorems of 6 and 7, and
    `AnswersAsWritten` on top of them and of the lemmas on rows by names.

## Not modelled

- The statistics of the stages in the document EXPLAIN ANALYZE prints (`json_serialize.cpp:147-157`) and
  `documentsExamined` and `totalExecutionTimeMicros` there: the counters are checked where the stages
  run (`QueryExecution`), the times in `StageTiming`, and `CommandLine` has neither.
- Whether a stream takes the output; nothing in the code asks.
- Texts of messages, `typeName()`, `toString(ErrorCode)`; the layout of a heap in its vector; moved-from
  rows (a row is a value; that none is emitted twice is `next_index`'s part of the models).
- Exceptions of the allocator other than through the one outcome "throws" of `StageLifecycle`.
- The two `kUnsupportedLogicalNode` exceptions of the planner, which no plan of the binder reaches.
- Benchmarks, examples, build, packaging: no behaviour of the engine. nlohmann/json and CLI11 are
  external; of the former the models use the type of a value, the order of keys and which exceptions
  parsing throws.

## Running

    tlc -config MCCommandLine.cfg MCCommandLine
    tlapm SortLimitProofs.tla

The other runs likewise; `StageTiming` is its own model. Each takes about a minute or less.

----------------------------- MODULE CommandLine -----------------------------
(***************************************************************************)
(* The program (src/apps/querylume_cli/main.cpp): a command loads the data *)
(* file, reads the pipeline file, has the facade plan and execute it, and  *)
(* prints one JSON document, or one line about what went wrong.            *)
(*                                                                         *)
(* The loader is the module TableLoading and planQuery() the module        *)
(* QueryPlanning, step by step.  The execution is one step to an outcome   *)
(* of PipelineSemantics, which QueryExecution implements; the numbers      *)
(* EXPLAIN ANALYZE prints of the stages are QueryExecution's and           *)
(* StageTiming's and are left out.  CLI11 is external.                     *)
(***************************************************************************)
EXTENDS JsonSerialize

CONSTANTS DataTexts,     \* the texts a data file may have, as in TableLoading
          PipelineTexts  \* those of a pipeline file

Commands == {"run", "explain", "explain-analyze"}

VARIABLES command,          \* the subcommand, "help" or "wrong" for other arguments
          include_results,  \* --with-result
          data_text, pipeline_text,
          at,               \* where main() is
          caught,           \* the exception that reaches the handlers of main()
          result,           \* QueryResult::rows
          stdout, stderr, exit_code,
          loader_phase, loader_next, field_names, schema, rows, thrown,
          planner_phase, planner_next, parsed, current_schema, plan, logical_plan, current,
          applied, optimized_plan, output_schema, physical, error

arguments == <<command, include_results, pipeline_text>>
loading == <<data_text, loader_phase, loader_next, field_names, schema, rows, thrown>>
planning == <<planner_phase, planner_next, parsed, current_schema, plan, logical_plan, current,
              applied, optimized_plan, output_schema, physical, error>>
printed == <<stdout, stderr, exit_code>>
vars == <<arguments, loading, planning, at, caught, result, printed>>

Loader == INSTANCE TableLoading WITH
    Texts <- DataTexts, text <- data_text, phase <- loader_phase, next <- loader_next

\* The document the pipeline file begins with.
Document(t) == IF "document" \in DOMAIN t THEN t.document ELSE JNull
NoTables(s) == {}

Planner == INSTANCE QueryPlanning WITH
    Pipelines <- {Document(t) : t \in PipelineTexts}, Schemas <- {<<>>}, Tables <- NoTables,
    pipeline_json <- Document(pipeline_text), phase <- planner_phase, next <- planner_next

\* What a data file and a pipeline file may hold.
ASSUME DataTextsAssumption == \A t \in DataTexts : Loader!IsText(t)
ASSUME PipelineTextsAssumption == \A t \in PipelineTexts : Planner!IsDocument(Document(t))
ASSUME DirectionsAssumption == {1, -1} \subseteq Int64Min .. Int64Max

Nothing == <<>>

Init ==
    /\ command \in Commands \cup {"help", "wrong"}
    /\ include_results \in BOOLEAN /\ (include_results => command = "explain-analyze")
    /\ pipeline_text \in PipelineTexts
    /\ Loader!Init /\ Planner!Init
    /\ at = "parsing arguments"
    /\ caught = Loader!NoException
    /\ result = <<>>
    /\ stdout = Nothing /\ stderr = Nothing /\ exit_code = 0

Goes(p, q) == at = p /\ at' = q

\* An exception leaves for the handlers of main().
Throw(p, e) == Goes(p, "catching") /\ caught' = e

\* CLI11_PARSE: help is printed, and wrong arguments are reported with a code of CLI11.
ParseArguments ==
    \/ /\ command \in Commands /\ Goes("parsing arguments", "loading")
       /\ UNCHANGED printed
    \/ /\ command = "help" /\ Goes("parsing arguments", "exited")
       /\ stdout' = <<"help">> /\ UNCHANGED <<stderr, exit_code>>
    \/ /\ command = "wrong" /\ Goes("parsing arguments", "exited")
       /\ stderr' = <<"usage">> /\ exit_code' = 106 /\ UNCHANGED stdout

Parses == ParseArguments /\ UNCHANGED <<arguments, loading, planning, caught, result>>

Loads ==
    /\ at = "loading" /\ Loader!Step
    /\ UNCHANGED <<arguments, planning, at, caught, result, printed>>

Loaded ==
    /\ \/ loader_phase = "loaded" /\ Goes("loading", "reading") /\ UNCHANGED caught
       \/ loader_phase = "failed" /\ Throw("loading", thrown)
    /\ UNCHANGED <<arguments, loading, planning, result, printed>>

\* What operator>> makes of the pipeline file: it stops after the first document.
ReadOutcome ==
    CASE pipeline_text.kind \in {"json", "trailing"}        -> "document"
      [] pipeline_text.kind \in {"malformed", "unreadable"} -> "error"
      [] pipeline_text.kind = "overflow"                    -> "out_of_range"

\* loadJsonFile(): the handler is for parse_error alone.
ReadPipeline ==
    /\ \/ ReadOutcome = "document" /\ Goes("reading", "planning") /\ UNCHANGED caught
       \/ ReadOutcome = "error" /\ Throw("reading", Loader!QueryLumeError("kJsonParseError"))
       \/ ReadOutcome = "out_of_range" /\ Throw("reading", Loader!OutOfRange)
    /\ UNCHANGED <<arguments, loading, planning, result, printed>>

Plans ==
    /\ at = "planning"
    /\ UNCHANGED <<arguments, loading, at, caught, result, printed>>
    /\ Planner!Step

Planned ==
    /\ \/ /\ planner_phase = "planned" /\ UNCHANGED caught
          /\ Goes("planning", IF command = "explain" THEN "printing" ELSE "executing")
       \/ planner_phase = "failed" /\ Throw("planning", Loader!QueryLumeError(error))
    /\ UNCHANGED <<arguments, loading, planning, result, printed>>

ExecutionReturns(o) == Goes("executing", "printing") /\ result' = o.rows /\ UNCHANGED <<caught, stdout>>

\* Seeded fault: the rows were printed as they were pulled.
ExecutionThrowsLate(o) ==
    /\ Throw("executing", Loader!QueryLumeError("kIncompatibleTypes"))
    /\ stdout' = IF o.rows = <<>> THEN Nothing ELSE <<RowsToJson(o.rows, output_schema)>>
    /\ UNCHANGED result

\* Of a failure no row is left.  A table that was read from JSON has no NaN, so that a
\* comparison can only fail for the types.
ExecutionThrows(o) ==
    /\ Throw("executing", Loader!QueryLumeError("kIncompatibleTypes"))
    /\ UNCHANGED <<result, stdout>>

\* The plan is drained.
Execute ==
    /\ at = "executing"
    /\ \E o \in Outcomes(physical, rows) : IF o.fate = "eof" THEN ExecutionReturns(o) ELSE ExecutionThrows(o)
    /\ UNCHANGED <<arguments, loading, planning, stderr, exit_code>>

\* Seeded fault: the rows are printed under the names of the table.
RowsUnderTableNames == RowsToJson(result, schema)

\* The rows, under the names of the optimized plan.
PrintedRows == RowsToJson(result, output_schema)

\* What explainPipeline() shows.
Views ==
    [parsedPipeline       |-> ParsedToJson(parsed),
     logicalPlan          |-> LogicalToJson(logical_plan, schema, Len(rows)),
     optimizedLogicalPlan |-> LogicalToJson(optimized_plan, schema, Len(rows)),
     rewrites             |-> TraceToJson(applied),
     physicalPlan         |-> PhysicalToJson(physical)]

\* And explainAnalyzePipeline() besides: of GlobalStats what is known here.
Analysis ==
    LET stats == JObject([documentsReturned     |-> JUnsigned(Len(result)),
                          optimizerRulesApplied |-> JUnsigned(IF applied THEN 1 ELSE 0)])
    IN  IF include_results THEN [globalStats |-> stats, result |-> PrintedRows]
                           ELSE [globalStats |-> stats]

Prints ==
    /\ Goes("printing", "exited")
    /\ stdout' = <<CASE command = "run"             -> PrintedRows
                     [] command = "explain"         -> JObject(Views)
                     [] command = "explain-analyze" -> JObject(Joined(Views, Analysis))>>
    /\ UNCHANGED <<arguments, loading, planning, caught, result, stderr, exit_code>>

\* The handlers of main(): the code of a QueryLumeError, the text alone of another.
Catch ==
    /\ Goes("catching", "exited")
    /\ stderr' = <<caught.code>> /\ exit_code' = 1
    /\ UNCHANGED <<arguments, loading, planning, caught, result, stdout>>

Over == at = "exited" /\ UNCHANGED vars

Next ==
    \/ Parses \/ Loads \/ Loaded \/ ReadPipeline \/ Plans \/ Planned
    \/ Execute \/ Prints \/ Catch
    \/ Over

\* The program is sequential: it takes the next step whenever there is one.
Spec == Init /\ [][Next]_vars /\ WF_vars(Next)
-----------------------------------------------------------------------------
\* The meaning of the pipeline in the language's own terms: rows are functions from
\* names, and no schema, column or plan stands between them and the documents.
Documents == data_text.document.elements
FieldsOfAll == UNION {DOMAIN d.members : d \in ToSet(Documents)}
Cell(j) == Scalar(j, "none").value

NamedRows ==
    [i \in DOMAIN Documents |->
        [ordinal |-> i - 1,
         values |-> [f \in FieldsOfAll |-> IF f \in DOMAIN Documents[i].members
                                           THEN Cell(Documents[i].members[f]) ELSE Null]]]

NamedStage(st) ==
    LET name == OnlyKey(st)
        w    == st.members[name]
        Asked(f) == LET token == OnlyKey(w.members[f])
                    IN  [column  |-> f, literal |-> Cell(w.members[f].members[token]),
                         op      |-> CHOOSE op \in ComparisonOperator : OperatorText(op) = token]
    IN  CASE name = "$match" -> Filter([i \in DOMAIN Keys(w) |-> Asked(Keys(w)[i])])
          [] name = "$project" -> Project([i \in DOMAIN w.elements |-> w.elements[i].v])
          [] name = "$limit" -> Limit(w.v)
          [] name = "$sort" -> Sort(OnlyKey(w), IF w.members[OnlyKey(w)].v = 1
                                                THEN "kAscending" ELSE "kDescending")

OnlyNamed(fields, r) == [r EXCEPT !.values = [f \in ToSet(fields) |-> r.values[f]]]

NamedApply(st, o) ==
    IF st.stage = "Project"
    THEN {[o EXCEPT !.rows = [i \in DOMAIN o.rows |-> OnlyNamed(st.columns, o.rows[i])]]}
    ELSE Apply(st, o)

Meaning ==
    LET stages == Document(pipeline_text).elements
        upTo[i \in 0 .. Len(stages)] ==
          IF i = 0 THEN {Yields(NamedRows)}
          ELSE UNION {NamedApply(NamedStage(stages[i]), o) : o \in upTo[i - 1]}
    IN  upTo[Len(stages)]

\* The printed document p says what the rows rs say.
Shows(p, rs) ==
    /\ Len(p.elements) = Len(rs)
    /\ \A i \in DOMAIN rs :
          LET members == p.elements[i].members
          IN  /\ DOMAIN members = DOMAIN rs[i].values
              /\ \A f \in DOMAIN members : Loader!Keeps(members[f], rs[i].values[f])

\* From the text of the documents to the printed rows: a command that executes a valid
\* pipeline prints the rows it means, in order and under their names, whatever became of
\* the names on the way - columns of the table, of projected rows and of a rewritten
\* plan - and fails only where the pipeline does.  The one difference is the rewrite's:
\* a sort that fails may be answered.
AnswersAsWritten ==
    at = "exited" /\ planner_phase = "planned" /\ (command = "run" \/ include_results) =>
        IF exit_code = 0
        THEN \E o \in Meaning :
                \/ o = FailsToOpen
                \/ /\ o.fate = "eof"
                   /\ Shows(IF command = "run" THEN stdout[1] ELSE stdout[1].members.result, o.rows)
        ELSE \E o \in Meaning : o.fate # "eof"

\* Nothing is printed before all has succeeded: stdout is empty unless the exit code is
\* 0, also when a row was found before the failure, and then stderr has the reason
\* (tests/cmake/cli_test.cmake:46-51, main.cpp:40-70).
OutputOnlyOnSuccess ==
    /\ stdout # Nothing => at = "exited" /\ exit_code = 0 /\ caught = Loader!NoException
    /\ at = "exited" => (stdout = Nothing) = (exit_code # 0) /\ (stderr # Nothing) = (exit_code # 0)

\* The nodes of a plan in JSON, from the root down to the scan.
Below(json, depth) ==
    LET node[d \in 0 .. depth] == IF d = 0 THEN json ELSE node[d - 1].members.child
    IN  node[depth].members

\* A logical node says of a stage what the parsed pipeline says of it, but for the
\* digits of a literal.
SaysTheSame(node, stage) ==
    CASE stage.stage.v = "$match" ->
            /\ node.node.v = "Filter"
            /\ \A i \in DOMAIN stage.predicates.elements :
                  LET asked == stage.predicates.elements[i].members
                  IN  SubSeq(node.predicate.v[i], 1, 2) = <<asked.field.v, asked.operator.v>>
      [] stage.stage.v = "$project" -> node.node.v = "Project" /\ node.fields = stage.fields
      [] stage.stage.v = "$sort" ->
            node.node.v = "Sort" /\ node.field = stage.field /\ node.direction = stage.direction
      [] stage.stage.v = "$limit" -> node.node.v = "Limit" /\ node.count.v = stage.count.v

ViewsAgree(views) ==
    LET stages == views.parsedPipeline.elements
        fused  == views.logicalPlan # views.optimizedLogicalPlan
    IN  /\ \A i \in DOMAIN stages :
              SaysTheSame(Below(views.logicalPlan, Len(stages) - i), stages[i].members)
        /\ \A d \in 0 .. Len(physical) - 1 :
              LET logical == Below(views.optimizedLogicalPlan, d)
                  name    == Below(views.physicalPlan, d).stage.v
              IN  /\ name = (IF logical.node.v = "Scan" THEN "CollectionScan" ELSE logical.node.v)
                  /\ d < Len(physical) - 1 <=> "child" \in DOMAIN logical
        /\ (views.rewrites.elements[1].members.applied.v = 1) = fused

\* The five views of EXPLAIN, taken at different times from a tree that is rewritten and
\* then taken apart, agree: the logical plan with the parsed pipeline stage by stage, the
\* physical plan with the optimized plan, and the trace with the difference of the two
\* logical plans (query_facade.cpp:30-40).
ExplainViewsAgree ==
    at = "exited" /\ exit_code = 0 /\ command \in {"explain", "explain-analyze"} =>
        ViewsAgree(stdout[1].members)

\* Every command exits.
Exits == <>(at = "exited")

\* What src/include/querylume/common/error.h:23-26 says: malformed JSON is an error.
MalformedRefused ==
    at = "exited" /\ exit_code = 0 /\ command \in Commands =>
        data_text.kind = "json" /\ pipeline_text.kind = "json"
==============================================================================

--------------------------- MODULE QueryPlanning ---------------------------
(***************************************************************************)
(* planQuery() (src/explain/query_facade.cpp): the JSON pipeline is parsed *)
(* as a whole, bound to the schema of the table stage by stage, rewritten  *)
(* by the one rule of the optimizer and lowered to a physical plan.        *)
(*                                                                         *)
(* A plan is the sequence of its nodes from the scan to the root, as the   *)
(* nodes own one child each: the rule, which walks from the root down,     *)
(* takes positions from the last to the first.  A field name is a string,  *)
(* that is, a rank; a schema is the sequence of its names.                 *)
(***************************************************************************)
EXTENDS PipelineSemantics, JsonValues

CONSTANTS Pipelines,  \* the JSON documents given as pipeline
          Schemas,    \* the schemas of the tables
          Tables(_)   \* the tables of a schema to try a plan on

\* A pipeline is a value of JSON.  The keys of its objects are strings: stage names
\* outside, field names in the argument of a stage, operators in an operand.
IsOperand(j) ==
    /\ IsJson(j)
    /\ j.type = "object" =>
          \A token \in DOMAIN j.members : token \in STRING /\ IsJson(j.members[token])

IsArgument(j) ==
    /\ IsJson(j)
    /\ j.type = "array" => \A e \in ToSet(j.elements) : IsJson(e)
    /\ j.type = "object" =>
          DOMAIN j.members \subseteq Strings /\ \A f \in DOMAIN j.members : IsOperand(j.members[f])

IsStage(j) ==
    IsJson(j) /\ (j.type = "object" => \A name \in DOMAIN j.members : IsArgument(j.members[name]))

IsDocument(j) == IsJson(j) /\ (j.type = "array" => \A e \in ToSet(j.elements) : IsStage(e))

ASSUME PipelinesAssumption == \A p \in Pipelines : IsDocument(p)

ASSUME SchemasAssumption == Schemas \subseteq Seq(Strings)

\* Tables are as TableLoading makes them.
ASSUME TablesAssumption == \A s \in Schemas : \A t \in Tables(s) : AreRows(t, Len(s))

\* The directions of a sort are integers of 64 bits.
ASSUME DirectionsAssumption == {1, -1} \subseteq Int64Min .. Int64Max

VARIABLES pipeline_json, schema,
          phase,            \* which of its functions planQuery() is in
          next,             \* the stage the loop of the parser or binder is at
          parsed,           \* ParsedPipeline::stages
          current_schema,   \* of bindPipeline()
          plan,             \* the logical plan under construction and rewriting
          logical_plan,     \* PlannedQuery::logical_plan_json, the plan it shows
          current,          \* the node SortLimitToTopKRule::apply() is at
          applied,          \* applied_any, the trace entry of the rule
          optimized_plan,   \* PlannedQuery::optimized_logical_plan_json, likewise
          output_schema,    \* QueryResult::output_schema
          physical,         \* the stages built
          error             \* the ErrorCode thrown, "none" so far

query == <<pipeline_json, schema>>
rewriting == <<current, applied>>
shown == <<optimized_plan, output_schema>>
vars == <<query, phase, next, parsed, current_schema, plan, logical_plan, rewriting, shown,
          physical, error>>

Init ==
    /\ pipeline_json \in Pipelines
    /\ schema \in Schemas
    /\ phase = "parsing"
    /\ next = 1
    /\ parsed = <<>> /\ current_schema = <<>>
    /\ plan = <<>> /\ logical_plan = <<>> /\ optimized_plan = <<>> /\ physical = <<>>
    /\ current = 0 /\ applied = FALSE
    /\ output_schema = <<>>
    /\ error = "none"

Fail(code) ==
    /\ phase' = "failed" /\ error' = code
    /\ UNCHANGED <<query, next, parsed, current_schema, plan, logical_plan, rewriting, shown,
                   physical>>

-----------------------------------------------------------------------------
\* The nodes of a logical plan, without their children.
LogicalScan         == [kind |-> "kScan"]
LogicalFilter(p)    == [kind |-> "kFilter", predicate |-> p]
LogicalProject(c, n) == [kind |-> "kProject", columns |-> c, names |-> n]
LogicalSort(s, n)   == [kind |-> "kSort", sort |-> s, name |-> n]
LogicalLimit(n)     == [kind |-> "kLimit", limit |-> n]
LogicalTopK(s, n, k) == [kind |-> "kTopK", sort |-> s, name |-> n, k |-> k]

\* What the parser makes of the stages.
ParsedComparison == [field : Nat, op_token : STRING, literal : Value]

ParsedMatch(p)   == [kind |-> "kMatch", predicates |-> p]
ParsedProject(f) == [kind |-> "kProject", fields |-> f]
ParsedSort(f, d) == [kind |-> "kSort", field |-> f, direction_raw |-> d]
ParsedLimit(n)   == [kind |-> "kLimit", count_raw |-> n]

ParsedStage ==
    [kind : {"kMatch"}, predicates : Seq(ParsedComparison)]
    \cup [kind : {"kProject"}, fields : Seq(Nat)]
    \cup [kind : {"kSort"}, field : Nat, direction_raw : Int64Min .. Int64Max]
    \cup [kind : {"kLimit"}, count_raw : Int64Min .. Int64Max]

SyntaxError == Throws("kPipelineSyntaxError")

\* Seeded fault: an unsigned integer is cast, 2^64 - 1 to -1.
ParseInt64ByCast(j) == Gives(((j.v - Int64Min) % (Int64Max - Int64Min + 1)) + Int64Min)

\* parseInt64(): null, text and fractions are turned away before.
ParseInt64(j) == IF j.v <= Int64Max THEN Gives(j.v) ELSE SyntaxError

ParsePredicate(fields, f) ==
    LET operand == fields.members[f]
        literal == Scalar(operand.members[OnlyKey(operand)], "kPipelineSyntaxError")
    IN  IF ~IsSingleKeyObject(operand) THEN SyntaxError
        ELSE IF literal.error # "none" THEN literal
        ELSE Gives([field |-> f, op_token |-> OnlyKey(operand), literal |-> literal.value])

ParseMatch(j) ==
    IF j.type # "object" THEN SyntaxError
    ELSE Made(ParsedMatch, GivesAll([i \in DOMAIN Keys(j) |-> ParsePredicate(j, Keys(j)[i])]))

ParseProject(j) ==
    IF j.type # "array" \/ (\E e \in ToSet(j.elements) : e.type # "string") THEN SyntaxError
    ELSE Gives(ParsedProject([i \in DOMAIN j.elements |-> j.elements[i].v]))

ParseSort(j) ==
    IF ~IsSingleKeyObject(j) THEN SyntaxError
    ELSE IF ~IsInteger(j.members[OnlyKey(j)]) THEN SyntaxError
    ELSE LET direction == ParseInt64(j.members[OnlyKey(j)])
         IN  Made(LAMBDA d : ParsedSort(OnlyKey(j), d), direction)

ParseLimit(j) == IF IsInteger(j) THEN Made(ParsedLimit, ParseInt64(j)) ELSE SyntaxError

\* One round of the loop of parsePipeline().
ParseStage(j) ==
    IF ~IsSingleKeyObject(j) THEN SyntaxError
    ELSE LET name  == OnlyKey(j)
             value == j.members[name]
         IN  CASE name = "$match"   -> ParseMatch(value)
               [] name = "$project" -> ParseProject(value)
               [] name = "$sort"    -> ParseSort(value)
               [] name = "$limit"   -> ParseLimit(value)
               [] OTHER             -> Throws("kUnknownStage")

PipelineIsNoArray ==
    /\ phase = "parsing" /\ pipeline_json.type # "array"
    /\ Fail("kPipelineSyntaxError")

ParseNext ==
    /\ phase = "parsing" /\ pipeline_json.type = "array" /\ next <= Len(pipeline_json.elements)
    /\ LET p == ParseStage(pipeline_json.elements[next])
       IN  \/ p.error # "none" /\ Fail(p.error)
           \/ /\ p.error = "none"
              /\ parsed' = Append(parsed, p.value)
              /\ next' = next + 1
              /\ UNCHANGED <<query, phase, current_schema, plan, logical_plan, rewriting, shown,
                             physical, error>>

\* The pipeline is parsed: bindPipeline() starts with a scan and its schema.
ParseEnds ==
    /\ phase = "parsing" /\ pipeline_json.type = "array" /\ next > Len(pipeline_json.elements)
    /\ phase' = "binding"
    /\ next' = 1
    /\ current_schema' = schema
    /\ plan' = <<LogicalScan>>
    /\ UNCHANGED <<query, parsed, logical_plan, rewriting, shown, physical, error>>

-----------------------------------------------------------------------------
\* Schema::indexOf(), counting from 1: of a name that occurs twice the first.
Resolve(s, f) ==
    LET at == {i \in DOMAIN s : s[i] = f}
    IN  IF at = {} THEN Throws("kUnknownField") ELSE Gives(Min(at))

ComparisonOperatorOf ==
    [t \in {"$eq", "$ne", "$lt", "$lte", "$gt", "$gte"} |->
        CASE t = "$eq" -> "kEq" [] t = "$ne"  -> "kNe"  [] t = "$lt" -> "kLt"
          [] t = "$lte" -> "kLte" [] t = "$gt" -> "kGt" [] t = "$gte" -> "kGte"]

BindComparison(s, c) ==
    LET column == Resolve(s, c.field)
    IN  IF column.error # "none" THEN column
        ELSE IF c.op_token \notin DOMAIN ComparisonOperatorOf THEN Throws("kUnsupportedOperator")
        ELSE Gives([column |-> column.value, op |-> ComparisonOperatorOf[c.op_token],
                    literal |-> c.literal, field |-> c.field])

BindMatch(s, predicates) ==
    GivesAll([i \in DOMAIN predicates |-> BindComparison(s, predicates[i])])

\* Seeded fault: a repeated field goes unnoticed.
BindProjectRepeats(s, fields) == GivesAll([i \in DOMAIN fields |-> Resolve(s, fields[i])])

\* The fields are taken in order: a repeated one is reported before the ones
\* after it, and before it is looked up.
BindProject(s, fields) ==
    LET Repeated(i) == \E j \in 1 .. i - 1 : fields[j] = fields[i]
    IN  GivesAll([i \in DOMAIN fields |->
                     IF Repeated(i) THEN SyntaxError ELSE Resolve(s, fields[i])])

BindSort(s, sort) ==
    LET column == Resolve(s, sort.field)
    IN  IF column.error # "none" THEN column
        ELSE IF sort.direction_raw \notin {1, -1} THEN Throws("kInvalidSortDirection")
        ELSE Gives([column |-> column.value,
                    direction |-> IF sort.direction_raw = 1 THEN "kAscending" ELSE "kDescending"])

\* Seeded fault: the sign of a limit is not looked at.
BindLimitUnchecked(count) == Gives(count)

BindLimit(count) == IF count < 0 THEN Throws("kInvalidLimit") ELSE Gives(count)

\* What bindPipeline() resolves in a parsed stage, and the node it makes of it.
Bind(s, st) ==
    CASE st.kind = "kMatch"   -> BindMatch(s, st.predicates)
      [] st.kind = "kProject" -> BindProject(s, st.fields)
      [] st.kind = "kSort"    -> BindSort(s, st)
      [] st.kind = "kLimit"   -> BindLimit(st.count_raw)

NodeOf(st, bound) ==
    CASE st.kind = "kMatch"   -> LogicalFilter(bound)
      [] st.kind = "kProject" -> LogicalProject(bound, st.fields)
      [] st.kind = "kSort"    -> LogicalSort(bound, st.field)
      [] st.kind = "kLimit"   -> LogicalLimit(bound)

\* Seeded fault: $project does not narrow the schema of the stages after it.
SchemaAfterForgotten(s, st) == s

\* The schema the next stage is bound to.
SchemaAfter(s, st) == IF st.kind = "kProject" THEN st.fields ELSE s

BindNext ==
    /\ phase = "binding" /\ next <= Len(parsed)
    /\ LET st == parsed[next]
           b  == Bind(current_schema, st)
       IN  \/ b.error # "none" /\ Fail(b.error)
           \/ /\ b.error = "none"
              /\ plan' = Append(plan, NodeOf(st, b.value))
              /\ current_schema' = SchemaAfter(current_schema, st)
              /\ next' = next + 1
              /\ UNCHANGED <<query, phase, parsed, logical_plan, rewriting, shown, physical, error>>

\* The plan is bound, its JSON is taken for EXPLAIN, and the rule starts at the root.
BindEnds ==
    /\ phase = "binding" /\ next > Len(parsed)
    /\ phase' = "optimizing"
    /\ logical_plan' = plan
    /\ current' = Len(plan)
    /\ UNCHANGED <<query, next, parsed, current_schema, plan, applied, shown, physical, error>>

-----------------------------------------------------------------------------
AtLimitOverSort ==
    /\ current > 1
    /\ plan[current].kind = "kLimit" /\ plan[current - 1].kind = "kSort"

\* The plan with its nodes m to n replaced by the one node x.
Replace(p, m, n, x) == SubSeq(p, 1, m - 1) \o <<x>> \o SubSeq(p, n + 1, Len(p))

\* Seeded fault: the direction of the sort is lost.
FusedAscending(sort, limit) ==
    LogicalTopK([sort.sort EXCEPT !.direction = "kAscending"], sort.name, limit.limit)

\* The top-k that does what the limit over the sort did.
Fused(sort, limit) == LogicalTopK(sort.sort, sort.name, limit.limit)

\* A limit over a sort becomes a top-k, and the walk goes on below it.
Rewrite ==
    /\ phase = "optimizing" /\ AtLimitOverSort
    /\ plan' = Replace(plan, current - 1, current, Fused(plan[current - 1], plan[current]))
    /\ applied' = TRUE
    /\ current' = current - 2
    /\ UNCHANGED <<query, phase, next, parsed, current_schema, logical_plan, shown, physical, error>>

\* Seeded faults: the walk skips the child of a sort; the child of the scan is the scan.
ChildSlotSkips(i) == IF i > 1 /\ plan[i].kind = "kSort" THEN i - 2 ELSE i - 1
ChildSlotStays(i) == IF i = 1 THEN i ELSE i - 1

\* childSlot(): where the child of the node at i is, 0 for none.
ChildSlot(i) == i - 1

Descend ==
    /\ phase = "optimizing" /\ current > 0 /\ ~AtLimitOverSort
    /\ current' = ChildSlot(current)
    /\ UNCHANGED <<query, phase, next, parsed, current_schema, plan, logical_plan, applied, shown,
                   physical, error>>

\* Seeded fault: the first projection decides.
OutputSchemaOfFirst(p) ==
    LET at == {i \in DOMAIN p : p[i].kind = "kProject"}
    IN  IF at = {} THEN schema ELSE p[Min(at)].names

\* outputSchemaOf(): the names of the last projection, or those of the table.
OutputSchemaOf(p) ==
    LET at == {i \in DOMAIN p : p[i].kind = "kProject"}
    IN  IF at = {} THEN schema ELSE p[Max(at)].names

\* The rule is done, and with it the optimizer: the plan and its schema are taken.
OptimizeEnds ==
    /\ phase = "optimizing" /\ current = 0
    /\ phase' = "lowering"
    /\ optimized_plan' = plan
    /\ output_schema' = OutputSchemaOf(plan)
    /\ UNCHANGED <<query, next, parsed, current_schema, plan, logical_plan, rewriting, physical,
                   error>>

\* The stage buildPhysicalPlan() makes of a node, which keeps no names.
Lower(n) ==
    CASE n.kind = "kScan"    -> Scan
      [] n.kind = "kFilter"  -> Filter(n.predicate)
      [] n.kind = "kProject" -> Project(n.columns)
      [] n.kind = "kSort"    -> Sort(n.sort.column, n.sort.direction)
      [] n.kind = "kLimit"   -> Limit(n.limit)
      [] n.kind = "kTopK"    -> TopK(n.sort.column, n.sort.direction, n.k)

Lowered(p) == [i \in DOMAIN p |-> Lower(p[i])]

\* buildPhysicalPlan() takes the logical plan apart and builds the stages from
\* the scan up, as its calls return.
LowerNext ==
    /\ phase = "lowering" /\ plan # <<>>
    /\ physical' = Append(physical, Lower(Head(plan)))
    /\ plan' = Tail(plan)
    /\ UNCHANGED <<query, phase, next, parsed, current_schema, logical_plan, rewriting, shown, error>>

LowerEnds ==
    /\ phase = "lowering" /\ plan = <<>>
    /\ phase' = "planned"
    /\ UNCHANGED <<query, next, parsed, current_schema, plan, logical_plan, rewriting, shown,
                   physical, error>>

Finished == phase \in {"planned", "failed"}

Over == Finished /\ UNCHANGED vars

Step ==
    \/ PipelineIsNoArray \/ ParseNext \/ ParseEnds
    \/ BindNext \/ BindEnds
    \/ Rewrite \/ Descend \/ OptimizeEnds
    \/ LowerNext \/ LowerEnds

Next == Step \/ Over

\* The program is sequential: it takes the next step whenever there is one.
Spec == Init /\ [][Next]_vars /\ WF_vars(Next)
-----------------------------------------------------------------------------
LogicalNode ==
    LET Column == Nat \ {0}
        Key    == [column : Column, direction : SortDirection]
        Bound  == [column : Column, op : ComparisonOperator, literal : Value, field : Nat]
    IN  {LogicalScan}
        \cup [kind : {"kFilter"}, predicate : Seq(Bound)]
        \cup [kind : {"kProject"}, columns : Seq(Column), names : Seq(Nat)]
        \cup [kind : {"kSort"}, sort : Key, name : Nat]
        \cup [kind : {"kLimit"}, limit : Nat]
        \cup [kind : {"kTopK"}, sort : Key, name : Nat, k : Nat]

\* The types of the variables: all that is left of a stage once it is bound is a
\* column, an operator, a direction, and a limit without a sign.
TypeOK ==
    /\ phase \in {"parsing", "binding", "optimizing", "lowering", "planned", "failed"}
    /\ next \in Nat /\ current \in Nat /\ applied \in BOOLEAN
    /\ parsed \in Seq(ParsedStage)
    /\ current_schema \in Seq(Nat) /\ output_schema \in Seq(Nat)
    /\ plan \in Seq(LogicalNode) /\ logical_plan \in Seq(LogicalNode)
    /\ optimized_plan \in Seq(LogicalNode)
    /\ (error = "none") = (phase # "failed")

\* The schema of the rows that leave node i of the plan p.
SchemaAt(p, i) == OutputSchemaOf(SubSeq(p, 1, i))

\* Every column a bound plan uses is the one its name has in the rows that reach
\* the node, before and after the optimizer moved nodes: after a $project that is
\* the projected row and not the document (binder.cpp:77,102, and the test
\* SortAfterProjectResolvesAgainstProjectedSchema).
ColumnsMatchNames ==
    phase = "optimizing" => \A i \in 2 .. Len(plan) :
        LET below == SchemaAt(plan, i - 1)
            Named(column, name) == column \in DOMAIN below /\ below[column] = name
        IN  /\ plan[i].kind \in {"kSort", "kTopK"} => Named(plan[i].sort.column, plan[i].name)
            /\ plan[i].kind = "kProject" =>
                  \A j \in DOMAIN plan[i].columns : Named(plan[i].columns[j], plan[i].names[j])
            /\ plan[i].kind = "kFilter" =>
                  \A c \in ToSet(plan[i].predicate) : Named(c.column, c.field)

\* The node a stage is bound to.
KindOfStage == [name \in {"$match", "$project", "$sort", "$limit"} |->
    CASE name = "$match" -> "kFilter" [] name = "$project" -> "kProject"
      [] name = "$sort"  -> "kSort"   [] name = "$limit"   -> "kLimit"]

\* The plan the binder made has a node for every stage as it was written, of the kind
\* its name calls for: the limit, the direction and the literals are the numbers of the
\* document, whatever their JSON type and size, and the columns are those that have the
\* written names in the rows that reach the node. A filter asks the column of every
\* field the operator and the literal written for that field
\* (pipeline_parser.cpp:19-26,41-75, binder.cpp:29-69,80-112).
PlanSaysWhatIsWritten ==
    logical_plan # <<>> =>
        /\ Len(logical_plan) = Len(pipeline_json.elements) + 1
        /\ \A i \in DOMAIN pipeline_json.elements :
              LET stage   == pipeline_json.elements[i]
                  written == stage.members[OnlyKey(stage)]
                  node    == logical_plan[i + 1]
                  below   == SchemaAt(logical_plan, i)
                  Says(c) == LET f == below[c.column]
                             IN  /\ f \in DOMAIN written.members
                                 /\ \E token \in DOMAIN written.members[f].members :
                                       /\ c.op = ComparisonOperatorOf[token]
                                       /\ c.literal.v = written.members[f].members[token].v
              IN  /\ node.kind = KindOfStage[OnlyKey(stage)]
                  /\ node.kind = "kLimit" => node.limit = written.v
                  /\ node.kind = "kSort" =>
                        /\ below[node.sort.column] = OnlyKey(written)
                        /\ written.members[OnlyKey(written)].v =
                              IF node.sort.direction = "kAscending" THEN 1 ELSE -1
                  /\ node.kind = "kProject" =>
                        /\ Len(node.columns) = Len(written.elements)
                        /\ \A j \in DOMAIN node.columns :
                              below[node.columns[j]] = written.elements[j].v
                  /\ node.kind = "kFilter" =>
                        /\ Len(node.predicate) = Cardinality(DOMAIN written.members)
                        /\ \A c \in ToSet(node.predicate) : Says(c)
                        /\ \A f \in DOMAIN written.members :
                              \E c \in ToSet(node.predicate) : below[c.column] = f

\* The names there are at stage i of the document.
Visible(stages, i) ==
    LET at == {j \in 1 .. i - 1 : OnlyKey(stages[j]) = "$project"}
    IN  IF at = {} THEN ToSet(schema)
        ELSE {e.v : e \in ToSet(stages[Max(at)].members["$project"].elements)}

\* Stage i is one of the language, with names that are there.
Written(stages, i) ==
    /\ IsSingleKeyObject(stages[i])
    /\ LET name == OnlyKey(stages[i])
           w    == stages[i].members[name]
           Int64s == Int64Min .. Int64Max
           Literal(j) == /\ j.type \notin {"array", "object"}
                         /\ IsInteger(j) => j.v \in Int64s
           Names == {w.elements[j].v : j \in DOMAIN w.elements}
       IN  \/ /\ name = "$match" /\ w.type = "object"
              /\ \A f \in DOMAIN w.members :
                    LET operand == w.members[f]
                    IN  /\ f \in Visible(stages, i) /\ IsSingleKeyObject(operand)
                        /\ OnlyKey(operand) \in {"$eq", "$ne", "$lt", "$lte", "$gt", "$gte"}
                        /\ Literal(operand.members[OnlyKey(operand)])
           \/ /\ name = "$project" /\ w.type = "array"
              /\ \A e \in ToSet(w.elements) : e.type = "string"
              /\ Names \subseteq Visible(stages, i) /\ Cardinality(Names) = Len(w.elements)
           \/ /\ name = "$sort" /\ IsSingleKeyObject(w) /\ OnlyKey(w) \in Visible(stages, i)
              /\ IsInteger(w.members[OnlyKey(w)]) /\ w.members[OnlyKey(w)].v \in {1, -1}
           \/ name = "$limit" /\ IsInteger(w) /\ w.v \in 0 .. Int64Max

\* A plan is made of just the pipelines of the language: every stage well-formed, its
\* names among those the projections before it have left, and no more asked of it
\* (README.md:39-61, pipeline_parser.cpp:60-144, binder.cpp:21-113).
PlansJustTheValid ==
    LET stages == pipeline_json.elements
    IN  Finished => (phase = "planned" <=>
                        /\ pipeline_json.type = "array"
                        /\ \A i \in DOMAIN stages : Written(stages, i))

\* Whatever the table, each step of the optimizer leaves the plan its meaning: the
\* rows and the failure, except that a plan a clash of its sort keeps from opening
\* may open (sort_limit_to_topk_rule.cpp, docs/architecture.md "Sort vs. TopK").
OptimizerKeepsMeaning ==
    phase = "optimizing" =>
        \A t \in Tables(schema), before \in {Lowered(logical_plan)}, after \in {Lowered(plan)} :
            FailsToOpen \in Outcomes(before, t) \/ Outcomes(after, t) = Outcomes(before, t)

\* The one walk of the rule finds every limit over a sort, also the one that is
\* below another rewrite, and the trace says whether there was any.
NothingLeftToRewrite ==
    phase = "planned" =>
        /\ \A i \in 2 .. Len(physical) :
              physical[i].stage = "Limit" => physical[i - 1].stage # "Sort"
        /\ applied <=> \E i \in 2 .. Len(logical_plan) :
                          logical_plan[i].kind = "kLimit" /\ logical_plan[i - 1].kind = "kSort"

\* The schema the result is printed with, taken from the optimized plan, is the one
\* the binder ended with, and the stages built yield rows of its width.
OutputSchemaFits ==
    phase = "planned" =>
        /\ output_schema = current_schema
        /\ WellBound(physical, Len(schema))
        /\ WidthAt(physical, Len(schema))[Len(physical)] = Len(output_schema)

\* Planning ends, with a plan or with an exception.
Plans == <>Finished
==============================================================================

---------------------------- MODULE JsonSerialize ----------------------------
(***************************************************************************)
(* What QueryLume prints: the toJson() functions of                        *)
(* src/explain/json_serialize.cpp and describe() of the expressions.       *)
(*                                                                         *)
(* Plans are sequences from the scan to the root, as in QueryPlanning; in  *)
(* JSON the root is outside and each node has the one below as its child.  *)
(***************************************************************************)
EXTENDS PipelineSemantics, JsonValues

CONSTANT ShownDouble(_)  \* operator<< of a double, to six significant digits

\* Seeded fault: the two directions are mixed up.
DirectionToIntMixedUp(d) == IF d = "kAscending" THEN -1 ELSE 1

DirectionToInt(d) == IF d = "kAscending" THEN 1 ELSE -1

ValueToJson(v) ==
    CASE v.type = "kNull"   -> JNull
      [] v.type = "kBool"   -> JBool(v.v)
      [] v.type = "kInt64"  -> JInteger(v.v)
      [] v.type = "kDouble" -> JFloat(v.v)
      [] v.type = "kString" -> JString(v.v)

\* A row under the names of a schema; of two columns of one name the later stays.
RowToJson(r, fields) ==
    LET columns == DOMAIN fields \cap DOMAIN r.values
        Of(f) == Max({i \in columns : fields[i] = f})
    IN  JObject([f \in {fields[i] : i \in columns} |-> ValueToJson(r.values[Of(f)])])

RowsToJson(rows, fields) == JArray([i \in DOMAIN rows |-> RowToJson(rows[i], fields)])

Names(fields) == JArray([i \in DOMAIN fields |-> JString(fields[i])])

ParsedStageToJson(st) ==
    CASE st.kind = "kMatch" ->
            LET Comparison(c) == JObject([field    |-> JString(c.field),
                                          operator |-> JString(c.op_token),
                                          literal  |-> ValueToJson(c.literal)])
            IN  JObject([stage |-> JString("$match"),
                         predicates |-> JArray([i \in DOMAIN st.predicates |->
                                                   Comparison(st.predicates[i])])])
      [] st.kind = "kProject" ->
            JObject([stage |-> JString("$project"), fields |-> Names(st.fields)])
      [] st.kind = "kSort" ->
            JObject([stage |-> JString("$sort"), field |-> JString(st.field),
                     direction |-> JInteger(st.direction_raw)])
      [] st.kind = "kLimit" ->
            JObject([stage |-> JString("$limit"), count |-> JInteger(st.count_raw)])

ParsedToJson(stages) == JArray([i \in DOMAIN stages |-> ParsedStageToJson(stages[i])])

-----------------------------------------------------------------------------
\* describe(): a text is the sequence of its parts.  A number is the number that is
\* read in the text: a whole double looks like an integer.
LiteralText(v) ==
    CASE v.type = "kInt64"  -> [number |-> 2 * v.v]
      [] v.type = "kDouble" -> [number |-> ShownDouble(v.v)]
      [] OTHER              -> v

OperatorText(op) ==
    CASE op = "kEq" -> "$eq" [] op = "kNe"  -> "$ne"  [] op = "kLt" -> "$lt"
      [] op = "kLte" -> "$lte" [] op = "kGt" -> "$gt" [] op = "kGte" -> "$gte"

\* Of no comparison the text is that of the literal true.
Describe(predicate) ==
    IF predicate = <<>> THEN <<LiteralText(Bool(1))>>
    ELSE [i \in DOMAIN predicate |->
             <<predicate[i].field, OperatorText(predicate[i].op), LiteralText(predicate[i].literal)>>]

\* The members of an object that has those of a, and of b the others.
Joined(a, b) == [x \in DOMAIN a \cup DOMAIN b |-> IF x \in DOMAIN a THEN a[x] ELSE b[x]]

\* Of the nodes of a plan, given by their members, the root: each but the scan has
\* the one before it as its child.
Nested(nodes) ==
    LET json[i \in DOMAIN nodes] ==
          JObject(IF i = 1 THEN nodes[1] ELSE Joined([child |-> json[i - 1]], nodes[i]))
    IN  json[Len(nodes)]

LogicalMembers(n, fields, row_count) ==
    LET Key(name) == [node |-> JString(name), field |-> JString(n.name),
                      direction |-> JInteger(DirectionToInt(n.sort.direction))]
    IN  CASE n.kind = "kScan"    -> [node |-> JString("Scan"), fields |-> Names(fields),
                                     rowCount |-> JUnsigned(row_count)]
          [] n.kind = "kFilter"  -> [node |-> JString("Filter"),
                                     predicate |-> JString(Describe(n.predicate))]
          [] n.kind = "kProject" -> [node |-> JString("Project"), fields |-> Names(n.names)]
          [] n.kind = "kSort"    -> Key("Sort")
          [] n.kind = "kLimit"   -> [node |-> JString("Limit"), count |-> JUnsigned(n.limit)]
          [] n.kind = "kTopK"    -> Joined([k |-> JUnsigned(n.k)], Key("TopK"))

LogicalToJson(plan, fields, row_count) ==
    Nested([i \in DOMAIN plan |-> LogicalMembers(plan[i], fields, row_count)])

\* The trace has an entry for the one rule there is.
TraceToJson(applied) ==
    JArray(<<JObject([rule |-> JString("SortLimitToTopK"),
                      applied |-> JBool(IF applied THEN 1 ELSE 0)])>>)

\* The stages, without their statistics.
PhysicalToJson(plan) == Nested([i \in DOMAIN plan |-> [stage |-> JString(plan[i].stage)]])
==============================================================================

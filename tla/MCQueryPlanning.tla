--------------------------- MODULE MCQueryPlanning ---------------------------
(***************************************************************************)
(* Every pipeline of up to four of six stages over two fields, so that     *)
(* limits, sorts and projections meet in every order; every pipeline of    *)
(* two stages with one of them malformed, in each way the parser or the    *)
(* binder turns away; and a document that is no pipeline.                  *)
(***************************************************************************)
EXTENDS QueryPlanning

MCInt64Min == -4
MCInt64Max == 3
MCDoubles == {-20, -8, -2, 0, 2, 20}
MCStrings == 0 .. 3

a == 1
b == 2
unknown == 3

Predicate(token, j) == JMember(token, j)

Good == {
    JMember("$match", JMember(a, Predicate("$lte", JUnsigned(1)))),
    JMember("$project", JArray(<<JString(b)>>)),
    JMember("$project", JArray(<<JString(b), JString(a)>>)),
    JMember("$sort", JMember(a, JUnsigned(1))),
    JMember("$sort", JMember(b, JInteger(-1))),
    JMember("$limit", JUnsigned(1))}

Others == {
    JMember("$match", JObject(<<>>)),
    JMember("$match", JObject([f \in {a, b} |-> Predicate("$ne", IF f = a THEN JNull ELSE JFloat(2))])),
    JMember("$project", JArray(<<>>)),
    JMember("$limit", JInteger(0))}

Bad == {
    JNull,
    JObject([k \in {"$sort", "$limit"} |-> JUnsigned(1)]),
    JMember("$group", JNull),
    JMember("$match", JArray(<<>>)),
    JMember("$match", JMember(a, JUnsigned(1))),
    JMember("$match", JMember(a, Predicate("$eq", JArray(<<>>)))),
    JMember("$match", JMember(a, Predicate("$eq", JUnsigned(4)))),
    JMember("$match", JMember(a, Predicate("$in", JBool(1)))),
    JMember("$match", JMember(unknown, Predicate("$in", JString(0)))),
    JMember("$project", JString(a)),
    JMember("$project", JArray(<<JUnsigned(1)>>)),
    JMember("$project", JArray(<<JString(unknown), JString(unknown)>>)),
    JMember("$project", JArray(<<JString(a), JString(a)>>)),
    JMember("$project", JArray(<<JString(a), JString(a), JString(unknown)>>)),
    JMember("$sort", JObject([f \in {a, b} |-> JUnsigned(1)])),
    JMember("$sort", JMember(a, JFloat(2))),
    JMember("$sort", JMember(a, JUnsigned(4))),
    JMember("$sort", JMember(a, JUnsigned(0))),
    JMember("$sort", JMember(b, JUnsigned(7))),
    JMember("$sort", JMember(unknown, JUnsigned(1))),
    JMember("$limit", JString(0)),
    JMember("$limit", JUnsigned(4)),
    JMember("$limit", JInteger(-1))}

MCPipelines ==
    {JNull}
    \cup {JArray(s) : s \in UNION {[1 .. n -> Good] : n \in 0 .. 4}}
    \cup {JArray(s) : s \in [1 .. 2 -> Good \cup Others]}
    \cup {JArray(<<x, y>>) : x \in Good \cup Others \cup Bad, y \in Bad}
    \cup {JArray(<<x, y>>) : x \in Bad, y \in Good \cup Others}

MCSchemas == {<<a, b>>}

Rows(cells) == [i \in DOMAIN cells |-> [ordinal |-> i - 1, values |-> cells[i]]]

MCTables(s) == {
    Rows(<<<<Int64(1), Int64(0)>>, <<Null, Double(2)>>, <<Int64(0), Int64(1)>>>>),
    Rows(<<<<Int64(0), Int64(1)>>, <<String(1), Bool(1)>>, <<Int64(1), Bool(0)>>>>)}
==============================================================================

---------------------------- MODULE MCCommandLine ----------------------------
(***************************************************************************)
(* Every command over four tables, one with a clash in each column, and a  *)
(* file of each kind that does not load; with every pipeline of up to two  *)
(* of nine stages, of three of five, and of each kind that does not parse  *)
(* or bind.                                                                *)
(***************************************************************************)
EXTENDS CommandLine

MCInt64Min == -4
MCInt64Max == 3
MCDoubles == {-20, -8, -2, 0, 2, 6, 20}
MCStrings == 0 .. 3
MCShownDouble(f) == IF f = 6 THEN 8 ELSE f  \* its digits are rounded

a == 1
b == 2
c == 3

Doc(m) == JObject(m)
ab(x, y) == [k \in {a, b} |-> IF k = a THEN x ELSE y]

Tables == {
    <<>>,
    <<Doc(ab(JUnsigned(1), JString(1))), JMember(b, JString(0)), Doc(ab(JFloat(2), JNull))>>,
    <<Doc(ab(JInteger(-1), JFloat(6))), JMember(c, JBool(1))>>,
    <<Doc(ab(JUnsigned(1), JUnsigned(0))), Doc(ab(JUnsigned(0), JString(2))),
      Doc(ab(JString(1), JUnsigned(1)))>>}

Text(d) == [kind |-> "json", document |-> d]
NoText(k) == [kind |-> k]

MCDataTexts ==
    {Text(JArray(t)) : t \in Tables}
    \cup {NoText(k) : k \in {"unreadable", "malformed", "overflow"}}
    \cup {[kind |-> "trailing", document |-> JArray(<<>>)], Text(JNull), Text(JArray(<<JNull>>)),
          Text(JArray(<<JMember(b, JUnsigned(1)), JMember(a, JUnsigned(4))>>))}

Match(f, token, j) == JMember("$match", JMember(f, JMember(token, j)))
Up(f) == JMember("$sort", JMember(f, JUnsigned(1)))
Down(f) == JMember("$sort", JMember(f, JInteger(-1)))
Take(n) == JMember("$limit", JUnsigned(n))
Only(fields) == JMember("$project", JArray([i \in DOMAIN fields |-> JString(fields[i])]))

Five == {Match(b, "$lt", JFloat(6)), Only(<<b, a>>), Up(a), Down(b), Take(1)}

Nine == Five \cup {
    JMember("$match", JObject(<<>>)), JMember("$match", JObject(ab(JMember("$gte", JUnsigned(0)),
                                                              JMember("$ne", JNull)))),
    Only(<<b>>), Take(0)}

Good ==
    {<<>>} \cup [1 .. 1 -> Nine] \cup [1 .. 2 -> Nine] \cup [1 .. 3 -> Five]

MCPipelineTexts ==
    {Text(JArray(s)) : s \in Good}
    \cup {NoText(k) : k \in {"unreadable", "malformed", "overflow"}}
    \cup {[kind |-> "trailing", document |-> JArray(<<Take(1)>>)]}
    \cup {Text(JNull), Text(JArray(<<Up(a), JMember("$limit", JInteger(-1))>>))}
==============================================================================

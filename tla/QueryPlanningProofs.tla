-------------------------- MODULE QueryPlanningProofs --------------------------
(***************************************************************************)
(* A plan is made of just the pipelines of the language, says what is      *)
(* written in them, uses the column of every name, has no limit left over  *)
(* a sort, and keeps its meaning under the optimizer: for every pipeline   *)
(* of any length and every schema.                                         *)
(***************************************************************************)
EXTENDS QueryPlanning, DataProofs

\* A value a filter may compare with.
IsLiteral(j) ==
    /\ j.type \notin {"array", "object"}
    /\ IsInteger(j) => j.v \in Int64Min .. Int64Max

Operators == {"$eq", "$ne", "$lt", "$lte", "$gt", "$gte"}

LEMMA OnlyKeyIsKey ==
    ASSUME NEW j, IsSingleKeyObject(j)
    PROVE  j.type = "object" /\ OnlyKey(j) \in DOMAIN j.members
<1>1. j.type = "object" /\ Cardinality(DOMAIN j.members) = 1
  BY DEF IsSingleKeyObject
<1>2. DOMAIN j.members # {}
  BY <1>1, FS_EmptySet
<1>. QED  BY <1>1, <1>2 DEF OnlyKey

-----------------------------------------------------------------------------
(***************************************************************************)
(* What the parser takes, and what it makes of it.                         *)
(***************************************************************************)
LEMMA IntegersOf ==
    ASSUME NEW j, IsJson(j), IsInteger(j)
    PROVE  /\ j.v \in Int
           /\ ParseInt64(j).error = "none" <=> j.v \in Int64Min .. Int64Max
           /\ ParseInt64(j).error = "none" => ParseInt64(j).value = j.v
<1>1. \/ j \in [type : {"number_integer"}, v : Int64Min .. Int64Max]
      \/ j \in [type : {"number_unsigned"}, v : Nat]
  BY DEF IsJson, IsInteger, JScalars, JNull, JBool, Json
<1>2. j.v \in Int /\ Int64Min <= j.v
  BY <1>1, Int64Assumption
<1>. QED  BY <1>2, Int64Assumption DEF ParseInt64, Gives, SyntaxError, Throws

LEMMA LiteralsOf ==
    ASSUME NEW j, IsJson(j), NEW nested, nested # "none"
    PROVE  /\ Scalar(j, nested).error = "none" <=> IsLiteral(j)
           /\ Scalar(j, nested).error = "none" =>
                 Scalar(j, nested).value \in Value /\ Scalar(j, nested).value.v = j.v
<1>1. CASE j.type \in {"array", "object"}
  BY <1>1, ScalarKeeps DEF IsLiteral
<1>2. CASE j.type \notin {"array", "object"}
  <2>1. j \in JScalars
    BY <1>2 DEF IsJson
  <2>2. /\ j.type = "number_integer" => j.v \in Int64Min .. Int64Max
        /\ j.type = "number_unsigned" => j.v \in Nat
    BY <2>1 DEF JScalars, JNull, JBool, Json
  <2>3. IsLiteral(j) <=> (j.type = "number_unsigned" => j.v <= Int64Max)
    BY <1>2, <2>2, Int64Assumption DEF IsLiteral, IsInteger
  <2>. QED  BY <1>2, <2>3, ScalarKeeps
<1>. QED  BY <1>1, <1>2

\* What the operand of a field is to be.
IsComparison(operand) ==
    IsSingleKeyObject(operand) /\ IsLiteral(operand.members[OnlyKey(operand)])

LEMMA PredicateOf ==
    ASSUME NEW w, IsArgument(w), w.type = "object", NEW f \in DOMAIN w.members
    PROVE  LET p == ParsePredicate(w, f)
               operand == w.members[f]
           IN  /\ p.error = "none" <=> IsComparison(operand)
               /\ p.error = "none" =>
                     /\ p.value \in ParsedComparison
                     /\ p.value.field = f /\ p.value.op_token = OnlyKey(operand)
                     /\ p.value.literal.v = operand.members[OnlyKey(operand)].v
<1> DEFINE operand == w.members[f]
           written == operand.members[OnlyKey(operand)]
           literal == Scalar(written, "kPipelineSyntaxError")
<1>1. f \in Nat /\ IsOperand(operand)
  BY StringsAssumption DEF IsArgument
<1>2. CASE ~IsSingleKeyObject(operand)
  BY <1>2 DEF ParsePredicate, IsComparison, SyntaxError, Throws
<1>3. CASE IsSingleKeyObject(operand)
  <2>1. OnlyKey(operand) \in STRING /\ IsJson(written)
    BY <1>1, <1>3, OnlyKeyIsKey DEF IsOperand
  <2>2. /\ literal.error = "none" <=> IsLiteral(written)
        /\ literal.error = "none" => literal.value \in Value /\ literal.value.v = written.v
    BY <2>1, LiteralsOf
  <2>3. ParsePredicate(w, f)
          = IF literal.error # "none" THEN literal
            ELSE Gives([field |-> f, op_token |-> OnlyKey(operand), literal |-> literal.value])
    BY <1>3 DEF ParsePredicate
  <2>. HIDE DEF literal, written
  <2>4. ParsePredicate(w, f).error = "none" <=> literal.error = "none"
    BY <2>3 DEF Gives
  <2>5. ASSUME literal.error = "none"
        PROVE  ParsePredicate(w, f).value
                 = [field |-> f, op_token |-> OnlyKey(operand), literal |-> literal.value]
    BY <2>3, <2>5 DEF Gives
  <2>. QED  BY <1>1, <1>3, <2>1, <2>2, <2>4, <2>5 DEF IsComparison, ParsedComparison, written
<1>. QED  BY <1>2, <1>3

LEMMA KeysOf ==
    ASSUME NEW w, IsArgument(w), w.type = "object"
    PROVE  LET n == Cardinality(DOMAIN w.members)
           IN  /\ n \in Nat /\ Keys(w) \in [1 .. n -> DOMAIN w.members]
               /\ \A f \in DOMAIN w.members : \E i \in 1 .. n : Keys(w)[i] = f
<1>1. IsFiniteSet(DOMAIN w.members)
  BY ArraysAndObjects DEF IsArgument
<1>2. ASSUME NEW f \in DOMAIN w.members PROVE f \in Int
  <2>1. f \in Strings
    BY DEF IsArgument
  <2>. QED  BY <2>1, StringsAssumption
<1>3. DOMAIN w.members \in SUBSET Int
  BY <1>2
<1>. QED  BY <1>1, <1>3, AscendingLists DEF Keys

LEMMA MatchOf ==
    ASSUME NEW w, IsArgument(w)
    PROVE  LET p == ParseMatch(w)
               n == Cardinality(DOMAIN w.members)
           IN  /\ p.error = "none" <=>
                     w.type = "object" /\ \A f \in DOMAIN w.members : IsComparison(w.members[f])
               /\ p.error = "none" =>
                     /\ p.value.kind = "kMatch" /\ p.value \in ParsedStage
                     /\ n \in Nat /\ DOMAIN p.value.predicates = 1 .. n
                     /\ Len(p.value.predicates) = n
                     /\ \A i \in 1 .. n :
                           /\ Keys(w)[i] \in DOMAIN w.members
                           /\ p.value.predicates[i] = ParsePredicate(w, Keys(w)[i]).value
                           /\ ParsePredicate(w, Keys(w)[i]).error = "none"
<1> DEFINE n == Cardinality(DOMAIN w.members)
           steps == [i \in DOMAIN Keys(w) |-> ParsePredicate(w, Keys(w)[i])]
<1>1. CASE w.type # "object"
  BY <1>1 DEF ParseMatch, SyntaxError, Throws
<1>2. CASE w.type = "object"
  <2>1. /\ n \in Nat /\ Keys(w) \in [1 .. n -> DOMAIN w.members]
        /\ \A f \in DOMAIN w.members : \E i \in 1 .. n : Keys(w)[i] = f
    BY <1>2, KeysOf
  <2>2. ParseMatch(w) = IF GivesAll(steps).error # "none" THEN GivesAll(steps)
                        ELSE Gives(ParsedMatch(GivesAll(steps).value))
    BY <1>2 DEF ParseMatch, Made
  <2>3. DOMAIN steps = 1 .. n /\ \A i \in 1 .. n : steps[i] = ParsePredicate(w, Keys(w)[i])
    BY <2>1
  <2>. HIDE DEF n, steps
  <2>4. /\ GivesAll(steps).error = "none" <=> \A i \in 1 .. n : steps[i].error = "none"
        /\ (\A i \in 1 .. n : steps[i].error = "none") =>
              GivesAll(steps) = Gives([i \in 1 .. n |-> steps[i].value])
    BY <2>1, <2>3, GivesAllOf
  <2>5. ASSUME NEW i \in 1 .. n
        PROVE  /\ Keys(w)[i] \in DOMAIN w.members
               /\ steps[i].error = "none" <=> IsComparison(w.members[Keys(w)[i]])
               /\ steps[i].error = "none" => steps[i].value \in ParsedComparison
    <3>1. Keys(w)[i] \in DOMAIN w.members
      BY <2>1
    <3>. QED  BY <1>2, <2>3, <3>1, PredicateOf
  <2>6. ParseMatch(w).error = "none" <=> \A i \in 1 .. n : steps[i].error = "none"
    BY <2>2, <2>4 DEF Gives
  <2>7. (\A i \in 1 .. n : steps[i].error = "none")
          <=> \A f \in DOMAIN w.members : IsComparison(w.members[f])
    BY <2>1, <2>5
  <2>8. ASSUME ParseMatch(w).error = "none"
        PROVE  /\ ParseMatch(w).value.kind = "kMatch" /\ ParseMatch(w).value \in ParsedStage
               /\ DOMAIN ParseMatch(w).value.predicates = 1 .. n
               /\ Len(ParseMatch(w).value.predicates) = n
               /\ \A i \in 1 .. n : ParseMatch(w).value.predicates[i] = steps[i].value
    <3> DEFINE ps == [i \in 1 .. n |-> steps[i].value]
    <3>1. GivesAll(steps) = Gives(ps)
      BY <2>4, <2>6, <2>8
    <3>2. ps \in Seq(ParsedComparison) /\ Len(ps) = n /\ DOMAIN ps = 1 .. n
      BY <2>1, <2>5, <2>6, <2>8
    <3>3. \A i \in 1 .. n : ps[i] = steps[i].value
      OBVIOUS
    <3>. HIDE DEF ps
    <3>4. ParseMatch(w).value = [kind |-> "kMatch", predicates |-> ps]
      BY <2>2, <2>6, <2>8, <3>1 DEF Gives, ParsedMatch
    <3>. QED  BY <3>2, <3>3, <3>4 DEF ParsedStage
  <2>. QED  BY <1>2, <2>1, <2>3, <2>5, <2>6, <2>7, <2>8 DEF n
<1>. QED  BY <1>1, <1>2

LEMMA ProjectOf ==
    ASSUME NEW w, IsArgument(w)
    PROVE  LET p == ParseProject(w)
           IN  /\ p.error = "none" <=>
                     w.type = "array" /\ \A e \in ToSet(w.elements) : e.type = "string"
               /\ w.type = "array" =>
                     /\ Len(w.elements) \in Nat /\ DOMAIN w.elements = 1 .. Len(w.elements)
               /\ p.error = "none" =>
                     /\ p.value.kind = "kProject" /\ p.value \in ParsedStage
                     /\ p.value.fields \in Seq(Nat) /\ Len(p.value.fields) = Len(w.elements)
                     /\ \A i \in 1 .. Len(w.elements) : p.value.fields[i] = w.elements[i].v
<1>1. w.type = "array" => /\ Len(w.elements) \in Nat /\ DOMAIN w.elements = 1 .. Len(w.elements)
                          /\ \A e \in ToSet(w.elements) : IsJson(e)
  BY ArraysAndObjects DEF IsArgument
<1>2. CASE ~(w.type = "array" /\ \A e \in ToSet(w.elements) : e.type = "string")
  BY <1>1, <1>2 DEF ParseProject, SyntaxError, Throws
<1>3. CASE w.type = "array" /\ \A e \in ToSet(w.elements) : e.type = "string"
  <2> DEFINE n == Len(w.elements)
             fields == [i \in 1 .. n |-> w.elements[i].v]
  <2>1. \A i \in 1 .. n : w.elements[i].v \in Nat
    <3>1. TAKE i \in 1 .. n
    <3>2. w.elements[i] \in ToSet(w.elements)
      BY <1>1, <1>3 DEF ToSet
    <3>3. IsJson(w.elements[i]) /\ w.elements[i].type = "string"
      BY <1>1, <1>3, <3>2
    <3>4. w.elements[i].v \in Strings
      BY <3>3 DEF IsJson, JScalars, JNull, JBool, Json
    <3>. QED  BY <3>4, StringsAssumption
  <2>2. ParseProject(w) = Gives(ParsedProject(fields))
    BY <1>1, <1>3 DEF ParseProject
  <2>3. fields \in Seq(Nat) /\ Len(fields) = n /\ \A i \in 1 .. n : fields[i] = w.elements[i].v
    BY <1>1, <1>3, <2>1
  <2>. HIDE DEF fields
  <2>4. ParseProject(w).error = "none" /\ ParseProject(w).value = [kind |-> "kProject", fields |-> fields]
    BY <2>2 DEF Gives, ParsedProject
  <2>. QED  BY <1>1, <1>3, <2>3, <2>4 DEF ParsedStage
<1>. QED  BY <1>2, <1>3

LEMMA SortOf ==
    ASSUME NEW w, IsArgument(w)
    PROVE  LET p == ParseSort(w)
               direction == w.members[OnlyKey(w)]
           IN  /\ p.error = "none" <=> /\ IsSingleKeyObject(w) /\ IsInteger(direction)
                                       /\ direction.v \in Int64Min .. Int64Max
               /\ p.error = "none" =>
                     /\ p.value.kind = "kSort" /\ p.value \in ParsedStage
                     /\ p.value = ParsedSort(OnlyKey(w), direction.v)
                     /\ OnlyKey(w) \in DOMAIN w.members
<1> DEFINE direction == w.members[OnlyKey(w)]
<1>1. CASE ~IsSingleKeyObject(w) \/ ~IsInteger(direction)
  BY <1>1 DEF ParseSort, SyntaxError, Throws
<1>2. CASE IsSingleKeyObject(w) /\ IsInteger(direction)
  <2>1. OnlyKey(w) \in Strings /\ IsJson(direction) /\ OnlyKey(w) \in DOMAIN w.members
    BY <1>2, OnlyKeyIsKey DEF IsArgument, IsOperand
  <2>2. /\ ParseInt64(direction).error = "none" <=> direction.v \in Int64Min .. Int64Max
        /\ ParseInt64(direction).error = "none" => ParseInt64(direction).value = direction.v
    BY <1>2, <2>1, IntegersOf
  <2>3. ParseSort(w) = IF ParseInt64(direction).error # "none" THEN ParseInt64(direction)
                       ELSE Gives(ParsedSort(OnlyKey(w), ParseInt64(direction).value))
    BY <1>2 DEF ParseSort, Made
  <2>. HIDE DEF direction
  <2>4. /\ ParseSort(w).error = "none" <=> ParseInt64(direction).error = "none"
        /\ ParseSort(w).error = "none" =>
              ParseSort(w).value = ParsedSort(OnlyKey(w), ParseInt64(direction).value)
    BY <2>3 DEF Gives
  <2>5. OnlyKey(w) \in Nat
    BY <2>1, StringsAssumption
  <2>. QED  BY <1>2, <2>1, <2>2, <2>4, <2>5 DEF ParsedStage, ParsedSort, direction
<1>. QED  BY <1>1, <1>2

LEMMA LimitOf ==
    ASSUME NEW w, IsArgument(w)
    PROVE  LET p == ParseLimit(w)
           IN  /\ p.error = "none" <=> IsInteger(w) /\ w.v \in Int64Min .. Int64Max
               /\ p.error = "none" => /\ p.value.kind = "kLimit" /\ p.value \in ParsedStage
                                      /\ p.value = ParsedLimit(w.v)
<1>1. CASE ~IsInteger(w)
  BY <1>1 DEF ParseLimit, SyntaxError, Throws
<1>2. CASE IsInteger(w)
  <2>1. /\ ParseInt64(w).error = "none" <=> w.v \in Int64Min .. Int64Max
        /\ ParseInt64(w).error = "none" => ParseInt64(w).value = w.v
    BY <1>2, IntegersOf DEF IsArgument
  <2>2. ParseLimit(w) = IF ParseInt64(w).error # "none" THEN ParseInt64(w)
                        ELSE Gives(ParsedLimit(ParseInt64(w).value))
    BY <1>2 DEF ParseLimit, Made
  <2>3. /\ ParseLimit(w).error = "none" <=> ParseInt64(w).error = "none"
        /\ ParseLimit(w).error = "none" => ParseLimit(w).value = ParsedLimit(ParseInt64(w).value)
    BY <2>2 DEF Gives
  <2>. QED  BY <1>2, <2>1, <2>3 DEF ParsedStage, ParsedLimit
<1>. QED  BY <1>1, <1>2

LEMMA StageOf ==
    ASSUME NEW j, IsStage(j)
    PROVE  LET p    == ParseStage(j)
               name == OnlyKey(j)
               w    == j.members[name]
           IN  /\ p.error = "none" =>
                     /\ IsSingleKeyObject(j) /\ name \in DOMAIN j.members /\ IsArgument(w)
                     /\ p.value \in ParsedStage
                     /\ \/ name = "$match" /\ p = ParseMatch(w) /\ p.value.kind = "kMatch"
                        \/ name = "$project" /\ p = ParseProject(w) /\ p.value.kind = "kProject"
                        \/ name = "$sort" /\ p = ParseSort(w) /\ p.value.kind = "kSort"
                        \/ name = "$limit" /\ p = ParseLimit(w) /\ p.value.kind = "kLimit"
               /\ IsSingleKeyObject(j) =>
                     /\ IsArgument(w)
                     /\ name = "$match" => p = ParseMatch(w)
                     /\ name = "$project" => p = ParseProject(w)
                     /\ name = "$sort" => p = ParseSort(w)
                     /\ name = "$limit" => p = ParseLimit(w)
<1> DEFINE name == OnlyKey(j)
           w == j.members[name]
<1>1. CASE ~IsSingleKeyObject(j)
  BY <1>1 DEF ParseStage, SyntaxError, Throws
<1>2. CASE IsSingleKeyObject(j)
  <2>1. name \in DOMAIN j.members /\ IsArgument(w)
    BY <1>2, OnlyKeyIsKey DEF IsStage
  <2>. HIDE DEF w, name
  <2>2. CASE name = "$match"
    <3>1. ParseStage(j) = ParseMatch(w)
      BY <1>2, <2>2 DEF ParseStage, w, name
    <3>. QED  BY <1>2, <2>1, <2>2, <3>1, MatchOf DEF w, name
  <2>3. CASE name = "$project"
    <3>1. ParseStage(j) = ParseProject(w)
      BY <1>2, <2>3 DEF ParseStage, w, name
    <3>. QED  BY <1>2, <2>1, <2>3, <3>1, ProjectOf DEF w, name
  <2>4. CASE name = "$sort"
    <3>1. ParseStage(j) = ParseSort(w)
      BY <1>2, <2>4 DEF ParseStage, w, name
    <3>2. ParseSort(w).error = "none" =>
             ParseSort(w).value \in ParsedStage /\ ParseSort(w).value.kind = "kSort"
      BY <2>1, SortOf
    <3>. QED  BY <1>2, <2>1, <2>4, <3>1, <3>2 DEF w, name
  <2>5. CASE name = "$limit"
    <3>1. ParseStage(j) = ParseLimit(w)
      BY <1>2, <2>5 DEF ParseStage, w, name
    <3>2. ParseLimit(w).error = "none" =>
             ParseLimit(w).value \in ParsedStage /\ ParseLimit(w).value.kind = "kLimit"
      BY <2>1, LimitOf
    <3>. QED  BY <1>2, <2>1, <2>5, <3>1, <3>2 DEF w, name
  <2>6. CASE name \notin {"$match", "$project", "$sort", "$limit"}
    BY <1>2, <2>1, <2>6 DEF ParseStage, Throws, w, name
  <2>. QED  BY <2>2, <2>3, <2>4, <2>5, <2>6
<1>. QED  BY <1>1, <1>2
-----------------------------------------------------------------------------
(***************************************************************************)
(* What the binder resolves against a schema s.                            *)
(***************************************************************************)
BoundComparison ==
    [column : Nat \ {0}, op : ComparisonOperator, literal : Value, field : Nat]

LEMMA ResolveOf ==
    ASSUME NEW s \in Seq(Nat), NEW f
    PROVE  /\ Resolve(s, f).error = "none" <=> f \in ToSet(s)
           /\ Resolve(s, f).error = "none" =>
                 /\ Resolve(s, f).value \in DOMAIN s /\ Resolve(s, f).value \in Nat \ {0}
                 /\ s[Resolve(s, f).value] = f
<1> DEFINE at == {i \in DOMAIN s : s[i] = f}
<1>1. Len(s) \in Nat /\ DOMAIN s = 1 .. Len(s)
  OBVIOUS
<1>2. at = {} <=> f \notin ToSet(s)
  BY DEF ToSet
<1>3. CASE at = {}
  BY <1>2, <1>3 DEF Resolve, Throws
<1>4. CASE at # {}
  <2>1. at \in SUBSET (1 .. Len(s))
    BY <1>1
  <2>2. Min(at) \in at
    BY <1>1, <1>4, <2>1, LeastPlace
  <2>3. Min(at) \in DOMAIN s /\ Min(at) \in Nat \ {0} /\ s[Min(at)] = f
    BY <1>1, <2>2
  <2>4. Resolve(s, f) = Gives(Min(at))
    BY <1>4 DEF Resolve
  <2>. HIDE DEF at
  <2>. QED  BY <1>2, <1>4, <2>3, <2>4 DEF Gives
<1>. QED  BY <1>3, <1>4

LEMMA BindComparisonOf ==
    ASSUME NEW s \in Seq(Nat), NEW c \in ParsedComparison
    PROVE  LET b == BindComparison(s, c)
           IN  /\ b.error = "none" <=> c.field \in ToSet(s) /\ c.op_token \in Operators
               /\ b.error = "none" =>
                     /\ b.value \in BoundComparison
                     /\ b.value.field = c.field /\ b.value.literal = c.literal
                     /\ b.value.op = ComparisonOperatorOf[c.op_token]
                     /\ b.value.column \in DOMAIN s /\ s[b.value.column] = c.field
<1> DEFINE column == Resolve(s, c.field)
<1>1. DOMAIN ComparisonOperatorOf = Operators
      /\ \A t \in Operators : ComparisonOperatorOf[t] \in ComparisonOperator
  BY DEF ComparisonOperatorOf, Operators, ComparisonOperator
<1>2. /\ column.error = "none" <=> c.field \in ToSet(s)
      /\ column.error = "none" => column.value \in DOMAIN s /\ column.value \in Nat \ {0}
                                  /\ s[column.value] = c.field
  BY ResolveOf
<1>3. c.field \in Nat /\ c.literal \in Value
  BY DEF ParsedComparison
<1>. HIDE DEF column
<1>4. CASE column.error # "none"
  BY <1>2, <1>4 DEF BindComparison, column
<1>5. CASE column.error = "none" /\ c.op_token \notin Operators
  BY <1>1, <1>5 DEF BindComparison, column, Throws
<1>6. CASE column.error = "none" /\ c.op_token \in Operators
  <2> DEFINE bound == [column |-> column.value, op |-> ComparisonOperatorOf[c.op_token],
                       literal |-> c.literal, field |-> c.field]
  <2>1. BindComparison(s, c) = Gives(bound)
    BY <1>1, <1>6 DEF BindComparison, column
  <2>2. bound \in BoundComparison
    BY <1>1, <1>2, <1>3, <1>6 DEF BoundComparison
  <2>3. /\ bound.field = c.field /\ bound.literal = c.literal /\ bound.column = column.value
        /\ bound.op = ComparisonOperatorOf[c.op_token]
    OBVIOUS
  <2>. HIDE DEF bound
  <2>. QED  BY <1>2, <1>6, <2>1, <2>2, <2>3 DEF Gives
<1>. QED  BY <1>4, <1>5, <1>6

LEMMA BindMatchOf ==
    ASSUME NEW s \in Seq(Nat), NEW ps \in Seq(ParsedComparison)
    PROVE  LET b == BindMatch(s, ps)
           IN  /\ b.error = "none" <=>
                     \A i \in 1 .. Len(ps) : ps[i].field \in ToSet(s) /\ ps[i].op_token \in Operators
               /\ b.error = "none" =>
                     /\ b.value \in Seq(BoundComparison) /\ Len(b.value) = Len(ps)
                     /\ \A i \in 1 .. Len(ps) :
                           /\ b.value[i].field = ps[i].field /\ b.value[i].literal = ps[i].literal
                           /\ b.value[i].op = ComparisonOperatorOf[ps[i].op_token]
                           /\ b.value[i].column \in DOMAIN s
                           /\ s[b.value[i].column] = ps[i].field
<1> DEFINE n == Len(ps)
           steps == [i \in DOMAIN ps |-> BindComparison(s, ps[i])]
           bound == [i \in 1 .. n |-> steps[i].value]
<1>1. n \in Nat /\ DOMAIN ps = 1 .. n /\ \A i \in 1 .. n : ps[i] \in ParsedComparison
  OBVIOUS
<1>2. DOMAIN steps = 1 .. n /\ \A i \in 1 .. n : steps[i] = BindComparison(s, ps[i])
  BY <1>1
<1>3. BindMatch(s, ps) = GivesAll(steps)
  BY DEF BindMatch
<1>. HIDE DEF n, steps
<1>4. /\ GivesAll(steps).error = "none" <=> \A i \in 1 .. n : steps[i].error = "none"
      /\ (\A i \in 1 .. n : steps[i].error = "none") => GivesAll(steps) = Gives(bound)
  BY <1>1, <1>2, GivesAllOf
<1>5. \A i \in 1 .. n :
         /\ steps[i].error = "none" <=> ps[i].field \in ToSet(s) /\ ps[i].op_token \in Operators
         /\ steps[i].error = "none" =>
               /\ steps[i].value \in BoundComparison
               /\ steps[i].value.field = ps[i].field /\ steps[i].value.literal = ps[i].literal
               /\ steps[i].value.column \in DOMAIN s /\ s[steps[i].value.column] = ps[i].field
  <2>1. TAKE i \in 1 .. n
  <2>2. ps[i] \in ParsedComparison /\ steps[i] = BindComparison(s, ps[i])
    BY <1>1, <1>2
  <2>. HIDE DEF steps, n
  <2>. QED  BY <2>2, BindComparisonOf
<1>6. ASSUME GivesAll(steps).error = "none"
      PROVE  /\ bound \in Seq(BoundComparison) /\ Len(bound) = n
             /\ \A i \in 1 .. n : bound[i] = steps[i].value
  BY <1>1, <1>4, <1>5, <1>6
<1>. HIDE DEF bound
<1>7. GivesAll(steps).error = "none" => GivesAll(steps).value = bound
  BY <1>4 DEF Gives
<1>8. ASSUME NEW i \in 1 .. n, steps[i].error = "none"
      PROVE  steps[i].value.op = ComparisonOperatorOf[ps[i].op_token]
  <2>1. ps[i] \in ParsedComparison /\ steps[i] = BindComparison(s, ps[i])
    BY <1>1, <1>2
  <2>. QED  BY <1>8, <2>1, BindComparisonOf
<1>9. ASSUME GivesAll(steps).error = "none", NEW i \in 1 .. n
      PROVE  bound[i].op = ComparisonOperatorOf[ps[i].op_token]
  BY <1>4, <1>6, <1>8, <1>9
<1>. QED  BY <1>3, <1>4, <1>5, <1>6, <1>7, <1>9 DEF n

LEMMA BindProjectOf ==
    ASSUME NEW s \in Seq(Nat), NEW fields \in Seq(Nat)
    PROVE  LET b == BindProject(s, fields)
           IN  /\ b.error = "none" <=>
                     /\ \A i \in 1 .. Len(fields) : fields[i] \in ToSet(s)
                     /\ \A i, j \in 1 .. Len(fields) : fields[i] = fields[j] => i = j
               /\ b.error = "none" =>
                     /\ b.value \in Seq(Nat \ {0}) /\ Len(b.value) = Len(fields)
                     /\ \A i \in 1 .. Len(fields) :
                           b.value[i] \in DOMAIN s /\ s[b.value[i]] = fields[i]
<1> DEFINE n == Len(fields)
           Repeated(i) == \E j \in 1 .. i - 1 : fields[j] = fields[i]
           steps == [i \in DOMAIN fields |-> IF Repeated(i) THEN SyntaxError ELSE Resolve(s, fields[i])]
           bound == [i \in 1 .. n |-> steps[i].value]
<1>1. n \in Nat /\ DOMAIN fields = 1 .. n
  OBVIOUS
<1>2. /\ DOMAIN steps = 1 .. n
      /\ \A i \in 1 .. n : steps[i] = IF Repeated(i) THEN SyntaxError ELSE Resolve(s, fields[i])
  BY <1>1
<1>3. BindProject(s, fields) = GivesAll(steps)
  BY DEF BindProject
<1>4. (\A i \in 1 .. n : ~Repeated(i))
        <=> \A i, j \in 1 .. n : fields[i] = fields[j] => i = j
  <2>1. ASSUME \A i \in 1 .. n : ~Repeated(i), NEW i \in 1 .. n, NEW j \in 1 .. n,
               fields[i] = fields[j]
        PROVE  i = j
    <3>1. CASE i < j
      <4>1. i \in 1 .. j - 1
        BY <1>1, <3>1
      <4>. QED  BY <2>1, <4>1
    <3>2. CASE j < i
      <4>1. j \in 1 .. i - 1
        BY <1>1, <3>2
      <4>. QED  BY <2>1, <4>1
    <3>. QED  BY <1>1, <3>1, <3>2
  <2>2. ASSUME \A i, j \in 1 .. n : fields[i] = fields[j] => i = j, NEW i \in 1 .. n
        PROVE  ~Repeated(i)
    <3>1. \A j \in 1 .. i - 1 : j \in 1 .. n /\ j # i
      BY <1>1
    <3>. QED  BY <2>2, <3>1
  <2>. QED  BY <2>1, <2>2
<1>. HIDE DEF n, steps, Repeated
<1>5. /\ GivesAll(steps).error = "none" <=> \A i \in 1 .. n : steps[i].error = "none"
      /\ (\A i \in 1 .. n : steps[i].error = "none") => GivesAll(steps) = Gives(bound)
  BY <1>1, <1>2, GivesAllOf
<1>6. ASSUME NEW i \in 1 .. n
      PROVE  /\ steps[i].error = "none" <=> ~Repeated(i) /\ fields[i] \in ToSet(s)
             /\ steps[i].error = "none" =>
                   /\ steps[i].value \in DOMAIN s /\ steps[i].value \in Nat \ {0}
                   /\ s[steps[i].value] = fields[i]
  BY <1>2, ResolveOf DEF SyntaxError, Throws
<1>7. ASSUME GivesAll(steps).error = "none"
      PROVE  /\ bound \in Seq(Nat \ {0}) /\ Len(bound) = n
             /\ \A i \in 1 .. n : bound[i] \in DOMAIN s /\ s[bound[i]] = fields[i]
  <2>1. \A i \in 1 .. n : /\ steps[i].value \in DOMAIN s /\ steps[i].value \in Nat \ {0}
                          /\ s[steps[i].value] = fields[i]
    BY <1>5, <1>6, <1>7
  <2>. QED  BY <1>1, <2>1
<1>. HIDE DEF bound
<1>8. GivesAll(steps).error = "none" => GivesAll(steps).value = bound
  BY <1>5 DEF Gives
<1>9. GivesAll(steps).error = "none" <=>
         /\ \A i \in 1 .. n : fields[i] \in ToSet(s)
         /\ \A i, j \in 1 .. n : fields[i] = fields[j] => i = j
  BY <1>4, <1>5, <1>6
<1>. QED  BY <1>3, <1>7, <1>8, <1>9 DEF n

\* A node over others, whose columns are those its names have in the rows that
\* reach it.
UsesNames(node, below) ==
    LET Named(column, name) == column \in DOMAIN below /\ below[column] = name
    IN  /\ node.kind # "kScan"
        /\ node.kind \in {"kSort", "kTopK"} => Named(node.sort.column, node.name)
        /\ node.kind = "kProject" =>
              /\ Len(node.columns) = Len(node.names)
              /\ \A j \in DOMAIN node.columns : Named(node.columns[j], node.names[j])
        /\ node.kind = "kFilter" =>
              \A c \in ToSet(node.predicate) : Named(c.column, c.field)

LEMMA ParsedStages ==
    ASSUME NEW st \in ParsedStage
    PROVE  /\ st.kind \in {"kMatch", "kProject", "kSort", "kLimit"}
           /\ st.kind = "kMatch" => st.predicates \in Seq(ParsedComparison)
           /\ st.kind = "kProject" => st.fields \in Seq(Nat)
           /\ st.kind = "kSort" => st.field \in Nat /\ st.direction_raw \in Int
           /\ st.kind = "kLimit" => st.count_raw \in Int
BY Int64Assumption DEF ParsedStage

LEMMA BindOf ==
    ASSUME NEW s \in Seq(Nat), NEW st \in ParsedStage, Bind(s, st).error = "none"
    PROVE  LET node == NodeOf(st, Bind(s, st).value)
           IN  /\ node \in LogicalNode /\ UsesNames(node, s)
               /\ node.kind \in {"kFilter", "kProject", "kSort", "kLimit"}
               /\ st.kind = "kProject" => node.kind = "kProject" /\ node.names = st.fields
               /\ node.kind = "kProject" => st.kind = "kProject"
               /\ st.kind = "kLimit" => node.kind = "kLimit" /\ node.limit = st.count_raw
               /\ node.kind = "kLimit" => st.kind = "kLimit"
               /\ node.kind = "kSort" =>
                     /\ st.kind = "kSort" /\ node.name = st.field
                     /\ st.direction_raw = IF node.sort.direction = "kAscending" THEN 1 ELSE -1
               /\ node.kind = "kFilter" =>
                     /\ st.kind = "kMatch" /\ Len(node.predicate) = Len(st.predicates)
                     /\ \A i \in 1 .. Len(st.predicates) :
                           /\ node.predicate[i].field = st.predicates[i].field
                           /\ node.predicate[i].literal = st.predicates[i].literal
                           /\ st.predicates[i].op_token \in Operators
                           /\ node.predicate[i].op = ComparisonOperatorOf[st.predicates[i].op_token]
               /\ SchemaAfter(s, st) \in Seq(Nat)
<1> DEFINE b == Bind(s, st)
           node == NodeOf(st, b.value)
<1>1. CASE st.kind = "kMatch"
  <2>1. st.predicates \in Seq(ParsedComparison)
    BY <1>1, ParsedStages
  <2>2. b = BindMatch(s, st.predicates) /\ node = LogicalFilter(b.value)
    BY <1>1 DEF Bind, NodeOf
  <2>. HIDE DEF b, node
  <2>3. /\ b.value \in Seq(BoundComparison) /\ Len(b.value) = Len(st.predicates)
        /\ \A i \in 1 .. Len(st.predicates) :
              /\ b.value[i].field = st.predicates[i].field
              /\ b.value[i].literal = st.predicates[i].literal
              /\ st.predicates[i].op_token \in Operators
              /\ b.value[i].op = ComparisonOperatorOf[st.predicates[i].op_token]
              /\ b.value[i].column \in DOMAIN s /\ s[b.value[i].column] = st.predicates[i].field
    BY <2>1, <2>2, BindMatchOf DEF b
  <2>4. node.kind = "kFilter" /\ node.predicate = b.value /\ node \in LogicalNode
    BY <2>2, <2>3 DEF LogicalFilter, LogicalNode, BoundComparison
  <2>5. ASSUME NEW c \in ToSet(b.value) PROVE c.column \in DOMAIN s /\ s[c.column] = c.field
    <3>1. DOMAIN b.value = 1 .. Len(st.predicates)
      BY <2>3
    <3>2. PICK i \in 1 .. Len(st.predicates) : c = b.value[i]
      BY <3>1 DEF ToSet
    <3>. QED  BY <2>3, <3>2
  <2>6. UsesNames(node, s)
    BY <2>4, <2>5 DEF UsesNames
  <2>7. SchemaAfter(s, st) = s
    BY <1>1 DEF SchemaAfter
  <2>. QED  BY <1>1, <2>3, <2>4, <2>6, <2>7 DEF b, node
<1>2. CASE st.kind = "kProject"
  <2>1. st.fields \in Seq(Nat)
    BY <1>2, ParsedStages
  <2>2. b = BindProject(s, st.fields) /\ node = LogicalProject(b.value, st.fields)
    BY <1>2 DEF Bind, NodeOf
  <2>. HIDE DEF b, node
  <2>3. /\ b.value \in Seq(Nat \ {0}) /\ Len(b.value) = Len(st.fields)
        /\ \A i \in 1 .. Len(st.fields) : b.value[i] \in DOMAIN s /\ s[b.value[i]] = st.fields[i]
    BY <2>1, <2>2, BindProjectOf DEF b
  <2>4. /\ node.kind = "kProject" /\ node.columns = b.value /\ node.names = st.fields
        /\ node \in LogicalNode
    BY <2>1, <2>2, <2>3 DEF LogicalProject, LogicalNode
  <2>5. DOMAIN b.value = 1 .. Len(st.fields)
    BY <2>3
  <2>6. UsesNames(node, s)
    BY <2>3, <2>4, <2>5 DEF UsesNames
  <2>7. SchemaAfter(s, st) = st.fields
    BY <1>2 DEF SchemaAfter
  <2>. QED  BY <1>2, <2>1, <2>4, <2>6, <2>7 DEF b, node
<1>3. CASE st.kind = "kSort"
  <2> DEFINE column == Resolve(s, st.field)
             direction == IF st.direction_raw = 1 THEN "kAscending" ELSE "kDescending"
  <2>1. st.field \in Nat /\ st.direction_raw \in Int
    BY <1>3, ParsedStages
  <2>2. b = BindSort(s, st) /\ node = LogicalSort(b.value, st.field)
    BY <1>3 DEF Bind, NodeOf
  <2>. HIDE DEF b, node
  <2>3. /\ column.error = "none" /\ st.direction_raw \in {1, -1}
        /\ b.value = [column |-> column.value, direction |-> direction]
    BY <2>2 DEF BindSort, Gives, Throws, b
  <2>4. column.value \in DOMAIN s /\ s[column.value] = st.field /\ column.value \in Nat \ {0}
    BY <2>3, ResolveOf
  <2>. HIDE DEF column
  <2>5. direction \in SortDirection
        /\ st.direction_raw = IF direction = "kAscending" THEN 1 ELSE -1
    BY <2>3 DEF SortDirection
  <2>. HIDE DEF direction
  <2>6. /\ b.value.column = column.value /\ b.value.direction = direction
        /\ b.value \in [column : Nat \ {0}, direction : SortDirection]
    BY <2>3, <2>4, <2>5
  <2>7. node.kind = "kSort" /\ node.name = st.field /\ node.sort = b.value
    BY <2>2 DEF LogicalSort
  <2>8. node \in LogicalNode
    BY <2>1, <2>2, <2>6 DEF LogicalSort, LogicalNode
  <2>9. UsesNames(node, s)
    BY <2>4, <2>6, <2>7 DEF UsesNames
  <2>10. SchemaAfter(s, st) = s
    BY <1>3 DEF SchemaAfter
  <2>. QED  BY <1>3, <2>5, <2>6, <2>7, <2>8, <2>9, <2>10 DEF b, node
<1>4. CASE st.kind = "kLimit"
  <2>1. st.count_raw \in Int
    BY <1>4, ParsedStages
  <2>2. b = BindLimit(st.count_raw) /\ node = LogicalLimit(b.value)
    BY <1>4 DEF Bind, NodeOf
  <2>. HIDE DEF b, node
  <2>3. b.value = st.count_raw /\ st.count_raw \in Nat
    BY <2>1, <2>2 DEF BindLimit, Gives, Throws, b
  <2>4. node.kind = "kLimit" /\ node.limit = st.count_raw /\ node \in LogicalNode
    BY <2>2, <2>3 DEF LogicalLimit, LogicalNode
  <2>5. UsesNames(node, s)
    BY <2>4 DEF UsesNames
  <2>6. SchemaAfter(s, st) = s
    BY <1>4 DEF SchemaAfter
  <2>. QED  BY <1>4, <2>4, <2>5, <2>6 DEF b, node
<1>. QED  BY <1>1, <1>2, <1>3, <1>4, ParsedStages
-----------------------------------------------------------------------------
(***************************************************************************)
(* The names that reach a node.                                            *)
(***************************************************************************)
LEMMA SchemaSteps ==
    ASSUME NEW p \in Seq(LogicalNode), NEW i \in 1 .. Len(p)
    PROVE  SchemaAt(p, i) = IF p[i].kind = "kProject" THEN p[i].names ELSE SchemaAt(p, i - 1)
<1> DEFINE upTo(j) == {m \in 1 .. j : p[m].kind = "kProject"}
<1>1. Len(p) \in Nat /\ i - 1 \in 0 .. Len(p)
  OBVIOUS
<1>2. ASSUME NEW j \in 0 .. Len(p)
      PROVE  SchemaAt(p, j) = IF upTo(j) = {} THEN schema ELSE p[Max(upTo(j))].names
  <2> DEFINE q == SubSeq(p, 1, j)
  <2>1. DOMAIN q = 1 .. j /\ \A m \in 1 .. j : q[m] = p[m]
    BY <1>1
  <2>. HIDE DEF q
  <2>2. {m \in DOMAIN q : q[m].kind = "kProject"} = upTo(j)
    BY <2>1
  <2>3. OutputSchemaOf(q) = IF upTo(j) = {} THEN schema ELSE q[Max(upTo(j))].names
    BY <2>2 DEF OutputSchemaOf
  <2>4. ASSUME upTo(j) # {} PROVE Max(upTo(j)) \in 1 .. j
    <3>1. IsFiniteSet(1 .. j) /\ upTo(j) \in SUBSET (1 .. j) /\ upTo(j) \in SUBSET Int
      BY FS_Interval
    <3>2. IsFiniteSet(upTo(j))
      BY <3>1, FS_Subset
    <3>3. Max(upTo(j)) \in upTo(j)
      BY <2>4, <3>1, <3>2, LeastAndGreatest
    <3>. QED  BY <3>3
  <2>5. upTo(j) # {} => q[Max(upTo(j))] = p[Max(upTo(j))]
    BY <2>1, <2>4
  <2>6. SchemaAt(p, j) = OutputSchemaOf(q)
    BY DEF SchemaAt, q
  <2>. HIDE DEF upTo
  <2>. QED  BY <2>3, <2>5, <2>6
<1>3. CASE p[i].kind = "kProject"
  <2>1. i \in upTo(i) /\ IsFiniteSet(1 .. i) /\ upTo(i) \in SUBSET (1 .. i)
    BY <1>3, FS_Interval
  <2>2. IsFiniteSet(upTo(i)) /\ \A m \in upTo(i) : m \in Int /\ m <= i
    BY <2>1, FS_Subset
  <2>3. Max(upTo(i)) \in upTo(i) /\ i <= Max(upTo(i))
    BY <2>1, <2>2, LeastAndGreatest
  <2>4. Max(upTo(i)) = i
    BY <2>2, <2>3
  <2>. QED  BY <1>2, <1>3, <2>1, <2>4
<1>4. CASE p[i].kind # "kProject"
  <2>1. upTo(i) = upTo(i - 1)
    BY <1>1, <1>4
  <2>. HIDE DEF upTo
  <2>2. i \in 0 .. Len(p) /\ i \in Int
    BY <1>1
  <2>3. upTo(i) # {} => Max(upTo(i)) = Max(upTo(i - 1))
    BY <2>1
  <2>. QED  BY <1>1, <1>2, <1>4, <2>1, <2>2, <2>3
<1>. QED  BY <1>3, <1>4

LEMMA SchemaEnds ==
    ASSUME NEW p \in Seq(LogicalNode)
    PROVE  SchemaAt(p, Len(p)) = OutputSchemaOf(p) /\ SchemaAt(p, 0) = schema
<1>1. SubSeq(p, 1, Len(p)) = p
  OBVIOUS
<1>2. DOMAIN SubSeq(p, 1, 0) = {}
  OBVIOUS
<1>3. SchemaAt(p, 0) = schema
  BY <1>2 DEF SchemaAt, OutputSchemaOf
<1>. QED  BY <1>1, <1>3 DEF SchemaAt

LEMMA SamePrefix ==
    ASSUME NEW p \in Seq(LogicalNode), NEW q \in Seq(LogicalNode), NEW i \in 0 .. Len(p),
           i <= Len(q), \A j \in 1 .. i : p[j] = q[j]
    PROVE  SchemaAt(p, i) = SchemaAt(q, i)
<1>1. SubSeq(p, 1, i) = SubSeq(q, 1, i)
  OBVIOUS
<1>. QED  BY <1>1 DEF SchemaAt

\* Every plan the rule leaves uses the column of every name.
WellNamed(p) == \A i \in 2 .. Len(p) : UsesNames(p[i], SchemaAt(p, i - 1))

LEMMA AppendKeepsNames ==
    ASSUME NEW p \in Seq(LogicalNode), WellNamed(p), Len(p) > 0, NEW node \in LogicalNode,
           UsesNames(node, SchemaAt(p, Len(p)))
    PROVE  /\ WellNamed(Append(p, node))
           /\ \A i \in 0 .. Len(p) : SchemaAt(Append(p, node), i) = SchemaAt(p, i)
           /\ SchemaAt(Append(p, node), Len(p) + 1)
                = IF node.kind = "kProject" THEN node.names ELSE SchemaAt(p, Len(p))
<1> DEFINE q == Append(p, node)
<1>1. /\ q \in Seq(LogicalNode) /\ Len(q) = Len(p) + 1 /\ Len(p) \in Nat
      /\ q[Len(p) + 1] = node /\ \A i \in 1 .. Len(p) : q[i] = p[i]
  OBVIOUS
<1>. HIDE DEF q
<1>2. ASSUME NEW i \in 0 .. Len(p) PROVE SchemaAt(q, i) = SchemaAt(p, i)
  BY <1>1, SamePrefix
<1>3. SchemaAt(q, Len(p) + 1) = IF node.kind = "kProject" THEN node.names ELSE SchemaAt(p, Len(p))
  <2>1. Len(p) + 1 \in 1 .. Len(q) /\ (Len(p) + 1) - 1 = Len(p)
    BY <1>1
  <2>2. SchemaAt(q, Len(p) + 1)
          = IF q[Len(p) + 1].kind = "kProject" THEN q[Len(p) + 1].names
            ELSE SchemaAt(q, (Len(p) + 1) - 1)
    BY <1>1, <2>1, SchemaSteps
  <2>. QED  BY <1>1, <1>2, <2>1, <2>2
<1>4. ASSUME NEW i \in 2 .. Len(q) PROVE UsesNames(q[i], SchemaAt(q, i - 1))
  <2>1. i - 1 \in 0 .. Len(p) /\ SchemaAt(q, i - 1) = SchemaAt(p, i - 1)
    BY <1>1, <1>2
  <2>2. CASE i \in 2 .. Len(p)
    BY <1>1, <2>1, <2>2 DEF WellNamed
  <2>3. CASE i = Len(p) + 1
    <3>1. i - 1 = Len(p)
      BY <1>1, <2>3
    <3>. QED  BY <1>1, <2>1, <2>3, <3>1
  <2>. QED  BY <1>1, <2>2, <2>3
<1>. QED  BY <1>2, <1>3, <1>4 DEF WellNamed, q

LEMMA FusedNodes ==
    ASSUME NEW p \in Seq(LogicalNode), NEW c \in 2 .. Len(p),
           p[c].kind = "kLimit", p[c - 1].kind = "kSort"
    PROVE  LET x == Fused(p[c - 1], p[c])
               q == Replace(p, c - 1, c, x)
           IN  /\ x \in LogicalNode /\ x.kind = "kTopK"
               /\ x.sort = p[c - 1].sort /\ x.name = p[c - 1].name
               /\ q \in Seq(LogicalNode) /\ Len(q) = Len(p) - 1
               /\ \A i \in 1 .. c - 2 : q[i] = p[i]
               /\ q[c - 1] = x
               /\ \A i \in c .. Len(q) : q[i] = p[i + 1]
<1> DEFINE x == Fused(p[c - 1], p[c])
           below == SubSeq(p, 1, (c - 1) - 1)
           above == SubSeq(p, c + 1, Len(p))
           q == Replace(p, c - 1, c, x)
<1>1. p[c] \in LogicalNode /\ p[c - 1] \in LogicalNode /\ Len(p) \in Nat
  OBVIOUS
<1>2. p[c].limit \in Nat
  BY <1>1 DEF LogicalNode, LogicalScan
<1>3. /\ p[c - 1].name \in Nat
      /\ p[c - 1].sort \in [column : Nat \ {0}, direction : SortDirection]
  BY <1>1 DEF LogicalNode, LogicalScan
<1>4. /\ x \in LogicalNode /\ x.kind = "kTopK"
      /\ x.sort = p[c - 1].sort /\ x.name = p[c - 1].name
  BY <1>2, <1>3 DEF Fused, LogicalTopK, LogicalNode
<1>. HIDE DEF x
<1>5. /\ below \in Seq(LogicalNode) /\ Len(below) = c - 2
      /\ \A i \in 1 .. c - 2 : below[i] = p[i]
  BY <1>1
<1>6. /\ above \in Seq(LogicalNode) /\ Len(above) = Len(p) - c
      /\ \A i \in 1 .. Len(p) - c : above[i] = p[c + i]
  BY <1>1
<1>7. q = below \o <<x>> \o above
  BY DEF Replace
<1>. HIDE DEF below, above, q
<1> DEFINE front == below \o <<x>>
<1>8. /\ front \in Seq(LogicalNode) /\ Len(front) = c - 1 /\ front[c - 1] = x
       /\ \A i \in 1 .. c - 2 : front[i] = below[i]
  BY <1>1, <1>4, <1>5
<1>9. q = front \o above
  BY <1>7
<1>. HIDE DEF front
<1>10. /\ q \in Seq(LogicalNode) /\ Len(q) = Len(p) - 1
  BY <1>1, <1>6, <1>8, <1>9
<1>11. \A i \in 1 .. c - 2 : q[i] = below[i]
  BY <1>1, <1>6, <1>8, <1>9
<1>12. q[c - 1] = x
  BY <1>1, <1>6, <1>8, <1>9
<1>13. ASSUME NEW i \in c .. Len(q) PROVE q[i] = p[i + 1]
  <2>1. i - (c - 1) \in 1 .. Len(p) - c /\ c + (i - (c - 1)) = i + 1
    BY <1>1, <1>10
  <2>2. q[i] = above[i - (c - 1)]
    BY <1>1, <1>6, <1>10, <1>8, <1>9
  <2>. QED  BY <1>6, <2>1, <2>2
<1>. QED  BY <1>4, <1>5, <1>10, <1>11, <1>12, <1>13 DEF x, q

\* The names stay where they were when a top-k takes the place of a limit and a
\* sort: neither of the three makes a schema.
LEMMA FusedKeepsNames ==
    ASSUME NEW p \in Seq(LogicalNode), NEW c \in 2 .. Len(p), WellNamed(p),
           p[c].kind = "kLimit", p[c - 1].kind = "kSort"
    PROVE  LET q == Replace(p, c - 1, c, Fused(p[c - 1], p[c]))
           IN  WellNamed(q) /\ OutputSchemaOf(q) = OutputSchemaOf(p)
<1> DEFINE x == Fused(p[c - 1], p[c])
           q == Replace(p, c - 1, c, x)
<1>1. /\ x.kind = "kTopK" /\ x.sort = p[c - 1].sort /\ x.name = p[c - 1].name
      /\ q \in Seq(LogicalNode) /\ Len(q) = Len(p) - 1 /\ Len(p) \in Nat
      /\ \A i \in 1 .. c - 2 : q[i] = p[i]
      /\ q[c - 1] = x
      /\ \A i \in c .. Len(q) : q[i] = p[i + 1]
  BY FusedNodes
<1>. HIDE DEF q, x
<1>2. ASSUME NEW i \in 0 .. c - 2 PROVE SchemaAt(q, i) = SchemaAt(p, i)
  BY <1>1, SamePrefix
<1>3. SchemaAt(q, c - 1) = SchemaAt(q, c - 2)
  <2>1. c - 1 \in 1 .. Len(q) /\ (c - 1) - 1 = c - 2
    BY <1>1
  <2>. QED  BY <1>1, <2>1, SchemaSteps
<1>4. SchemaAt(p, c) = SchemaAt(p, c - 1) /\ SchemaAt(p, c - 1) = SchemaAt(p, c - 2)
  <2>1. c - 1 \in 1 .. Len(p) /\ c \in 1 .. Len(p) /\ (c - 1) - 1 = c - 2
    BY <1>1
  <2>. QED  BY <1>1, <2>1, SchemaSteps
<1>5. \A i \in c - 1 .. Len(q) : SchemaAt(q, i) = SchemaAt(p, i + 1)
  <2> DEFINE Parting == {i \in c - 1 .. Len(q) : SchemaAt(q, i) # SchemaAt(p, i + 1)}
  <2>. SUFFICES ASSUME Parting # {} PROVE FALSE
    OBVIOUS
  <2>1. Parting \in SUBSET (1 .. Len(q)) /\ Len(q) \in Nat
    BY <1>1
  <2>2. PICK i \in Parting : \A j \in Parting : i <= j
    BY <2>1, LeastPlace
  <2>3. i \in c - 1 .. Len(q) /\ SchemaAt(q, i) # SchemaAt(p, i + 1)
    OBVIOUS
  <2>4. i # c - 1
    <3>1. c - 2 \in 0 .. c - 2 /\ (c - 1) + 1 = c
      OBVIOUS
    <3>. QED  BY <1>2, <1>3, <1>4, <2>3, <3>1
  <2>5. /\ i \in c .. Len(q) /\ i - 1 \in c - 1 .. Len(q) /\ i \in 1 .. Len(q)
        /\ i + 1 \in 1 .. Len(p) /\ (i + 1) - 1 = (i - 1) + 1 /\ ~(i <= i - 1)
    BY <1>1, <2>3, <2>4
  <2>6. SchemaAt(q, i - 1) = SchemaAt(p, (i + 1) - 1)
    BY <2>2, <2>5
  <2>7. q[i] = p[i + 1]
    BY <1>1, <2>5
  <2>. QED  BY <1>1, <2>3, <2>5, <2>6, <2>7, SchemaSteps
<1>6. ASSUME NEW i \in 2 .. Len(q) PROVE UsesNames(q[i], SchemaAt(q, i - 1))
  <2>1. CASE i \in 2 .. c - 2
    BY <1>1, <1>2, <2>1 DEF WellNamed
  <2>2. CASE i = c - 1
    <3>1. UsesNames(p[c - 1], SchemaAt(p, c - 2))
      <4>1. c - 1 \in 2 .. Len(p) /\ (c - 1) - 1 = c - 2
        BY <1>1, <2>2
      <4>. QED  BY <4>1 DEF WellNamed
    <3>2. SchemaAt(q, i - 1) = SchemaAt(p, c - 2)
      BY <1>2, <2>2
    <3>. QED  BY <1>1, <2>2, <3>1, <3>2 DEF UsesNames
  <2>3. CASE i \in c .. Len(q)
    <3>1. i + 1 \in 2 .. Len(p) /\ i - 1 \in c - 1 .. Len(q) /\ (i + 1) - 1 = (i - 1) + 1
      BY <1>1, <2>3
    <3>2. UsesNames(p[i + 1], SchemaAt(p, (i + 1) - 1))
      BY <3>1 DEF WellNamed
    <3>. QED  BY <1>1, <1>5, <2>3, <3>1, <3>2
  <2>. QED  BY <1>1, <2>1, <2>2, <2>3
<1>7. OutputSchemaOf(q) = OutputSchemaOf(p)
  <2>1. Len(q) \in c - 1 .. Len(q) /\ Len(q) + 1 = Len(p)
    BY <1>1
  <2>. QED  BY <1>1, <1>5, <2>1, SchemaEnds
<1>. QED  BY <1>6, <1>7 DEF WellNamed, q, x

LEMMA NodesOf ==
    ASSUME NEW x \in LogicalNode
    PROVE  /\ x.kind \in {"kScan", "kFilter", "kProject", "kSort", "kLimit", "kTopK"}
           /\ x.kind = "kProject" => x.columns \in Seq(Nat \ {0}) /\ x.names \in Seq(Nat)
           /\ x.kind = "kFilter" => x.predicate \in Seq(BoundComparison)
<1>. SUFFICES \/ x.kind = "kScan"
              \/ x.kind = "kFilter" /\ x.predicate \in Seq(BoundComparison)
              \/ x.kind = "kProject" /\ x.columns \in Seq(Nat \ {0}) /\ x.names \in Seq(Nat)
              \/ x.kind \in {"kSort", "kLimit", "kTopK"}
  OBVIOUS
<1>. QED  BY DEF LogicalNode, LogicalScan, BoundComparison

LEMMA SchemasAreNames ==
    ASSUME NEW p \in Seq(LogicalNode), schema \in Seq(Nat), NEW i \in 0 .. Len(p)
    PROVE  SchemaAt(p, i) \in Seq(Nat)
<1> DEFINE Odd == {j \in 1 .. Len(p) : SchemaAt(p, j) \notin Seq(Nat)}
<1>1. Len(p) \in Nat /\ SchemaAt(p, 0) \in Seq(Nat)
  BY SchemaEnds
<1>2. Odd = {}
  <2>. SUFFICES ASSUME Odd # {} PROVE FALSE
    OBVIOUS
  <2>1. PICK j \in Odd : \A m \in Odd : j <= m
    <3>1. Odd \in SUBSET (1 .. Len(p))
      OBVIOUS
    <3>. QED  BY <1>1, <3>1, LeastPlace
  <2>2. j \in 1 .. Len(p) /\ SchemaAt(p, j) \notin Seq(Nat)
    OBVIOUS
  <2>3. SchemaAt(p, j - 1) \in Seq(Nat)
    <3>1. j - 1 = 0 \/ j - 1 \in 1 .. Len(p)
      BY <1>1, <2>2
    <3>2. ~(j <= j - 1)
      BY <1>1, <2>2
    <3>. QED  BY <1>1, <2>1, <3>1, <3>2
  <2>4. p[j] \in LogicalNode
    BY <2>2
  <2>. QED  BY <2>2, <2>3, <2>4, SchemaSteps, NodesOf
<1>3. i = 0 \/ i \in 1 .. Len(p)
  BY <1>1
<1>4. \A j \in 1 .. Len(p) : SchemaAt(p, j) \in Seq(Nat)
  BY <1>2
<1>. QED  BY <1>1, <1>3, <1>4

\* The stages of a lowered plan yield rows of as many columns as there are names,
\* and use only columns there are.
LEMMA WidthsFit ==
    ASSUME NEW p \in Seq(LogicalNode), Len(p) > 0, p[1] = LogicalScan, WellNamed(p),
           schema \in Seq(Nat), NEW ph, DOMAIN ph = 1 .. Len(p), Len(ph) = Len(p),
           \A i \in 1 .. Len(p) : ph[i] = Lower(p[i])
    PROVE  /\ \A i \in 1 .. Len(p) : WidthAt(ph, Len(schema))[i] = Len(SchemaAt(p, i))
           /\ WellBound(ph, Len(schema))
<1> DEFINE w == WidthAt(ph, Len(schema))
           f == [i \in 1 .. Len(p) |-> Len(SchemaAt(p, i))]
<1>1. /\ Len(p) \in Nat /\ \A i \in 1 .. Len(p) : p[i] \in LogicalNode
      /\ 1 \in 1 .. Len(p)
  OBVIOUS
<1>2. SchemaAt(p, 1) = schema
  BY <1>1, SchemaSteps, SchemaEnds DEF LogicalScan
<1>3. ASSUME NEW i \in 2 .. Len(p)
      PROVE  Len(SchemaAt(p, i)) = IF ph[i].stage = "Project" THEN Len(ph[i].columns)
                                   ELSE Len(SchemaAt(p, i - 1))
  <2>1. /\ i \in 1 .. Len(p) /\ p[i] \in LogicalNode
        /\ UsesNames(p[i], SchemaAt(p, i - 1)) /\ ph[i] = Lower(p[i])
    BY <1>1 DEF WellNamed
  <2>2. CASE p[i].kind = "kProject"
    <3>1. ph[i].stage = "Project" /\ ph[i].columns = p[i].columns
      BY <2>1, <2>2 DEF Lower, Project
    <3>. QED  BY <2>1, <2>2, <3>1, SchemaSteps DEF UsesNames
  <2>3. CASE p[i].kind # "kProject"
    <3>1. ph[i].stage # "Project"
      BY <2>1, <2>3, NodesOf DEF Lower, Scan, Filter, Sort, Limit, TopK
    <3>. QED  BY <2>1, <2>3, <3>1, SchemaSteps
  <2>. QED  BY <2>2, <2>3
<1>4. f = [i \in DOMAIN ph |-> IF i = 1 THEN Len(schema)
                               ELSE IF ph[i].stage = "Project" THEN Len(ph[i].columns)
                               ELSE f[i - 1]]
  <2>1. \A i \in 1 .. Len(p) : i # 1 => i \in 2 .. Len(p) /\ i - 1 \in 1 .. Len(p)
    BY <1>1
  <2>. QED  BY <1>1, <1>2, <1>3, <2>1
<1>5. w = [i \in DOMAIN ph |-> IF i = 1 THEN Len(schema)
                               ELSE IF ph[i].stage = "Project" THEN Len(ph[i].columns)
                               ELSE w[i - 1]]
  BY <1>4 DEF WidthAt
<1>. HIDE DEF w
<1>6. \A i \in 1 .. Len(p) : w[i] = Len(SchemaAt(p, i))
  <2> DEFINE Off == {i \in 1 .. Len(p) : w[i] # Len(SchemaAt(p, i))}
  <2>. SUFFICES ASSUME Off # {} PROVE FALSE
    OBVIOUS
  <2>1. PICK i \in Off : \A j \in Off : i <= j
    <3>1. Off \in SUBSET (1 .. Len(p))
      OBVIOUS
    <3>. QED  BY <1>1, <3>1, LeastPlace
  <2>2. i \in 1 .. Len(p) /\ w[i] # Len(SchemaAt(p, i))
    OBVIOUS
  <2>3. i # 1
    BY <1>1, <1>2, <1>5, <2>2
  <2>4. i \in 2 .. Len(p) /\ i - 1 \in 1 .. Len(p) /\ ~(i <= i - 1)
    BY <1>1, <2>2, <2>3
  <2>5. w[i - 1] = Len(SchemaAt(p, i - 1))
    BY <2>1, <2>4
  <2>6. w[i] = IF ph[i].stage = "Project" THEN Len(ph[i].columns) ELSE w[i - 1]
    BY <1>5, <2>2, <2>3
  <2>. QED  BY <1>3, <2>2, <2>4, <2>5, <2>6
<1>7. ASSUME NEW i \in 2 .. Len(p) PROVE ColumnsUsed(ph[i]) \subseteq 1 .. w[i - 1]
  <2> DEFINE below == SchemaAt(p, i - 1)
  <2>1. /\ p[i] \in LogicalNode /\ UsesNames(p[i], below) /\ ph[i] = Lower(p[i])
        /\ i - 1 \in 1 .. Len(p) /\ i - 1 \in 0 .. Len(p)
    BY <1>1 DEF WellNamed
  <2>2. below \in Seq(Nat) /\ w[i - 1] = Len(below)
    BY <1>6, <2>1, SchemasAreNames
  <2>. HIDE DEF below
  <2>3. DOMAIN below = 1 .. w[i - 1]
    BY <2>2
  <2>4. CASE p[i].kind = "kFilter"
    <3>1. ph[i].stage = "Filter" /\ ph[i].predicate = p[i].predicate
      BY <2>1, <2>4 DEF Lower, Filter
    <3>2. \A j \in DOMAIN p[i].predicate : p[i].predicate[j].column \in DOMAIN below
      BY <2>1, <2>4 DEF UsesNames, ToSet
    <3>. QED  BY <2>3, <3>1, <3>2 DEF ColumnsUsed
  <2>5. CASE p[i].kind = "kProject"
    <3>1. ph[i].stage = "Project" /\ ph[i].columns = p[i].columns
      BY <2>1, <2>5 DEF Lower, Project
    <3>2. \A j \in DOMAIN p[i].columns : p[i].columns[j] \in DOMAIN below
      BY <2>1, <2>5 DEF UsesNames
    <3>. QED  BY <2>3, <3>1, <3>2 DEF ColumnsUsed, ToSet
  <2>6. CASE p[i].kind \in {"kSort", "kTopK"}
    <3>1. ph[i].stage \in {"Sort", "TopK"} /\ ph[i].sort.column = p[i].sort.column
      BY <2>1, <2>6 DEF Lower, Sort, TopK
    <3>2. p[i].sort.column \in DOMAIN below
      BY <2>1, <2>6 DEF UsesNames
    <3>. QED  BY <2>3, <3>1, <3>2 DEF ColumnsUsed
  <2>7. CASE p[i].kind \in {"kScan", "kLimit"}
    <3>1. ph[i].stage \in {"CollectionScan", "Limit"}
      BY <2>1, <2>7 DEF Lower, Scan, Limit
    <3>. QED  BY <3>1 DEF ColumnsUsed
  <2>. QED  BY <2>1, <2>4, <2>5, <2>6, <2>7, NodesOf
<1>. QED  BY <1>6, <1>7 DEF WellBound, w
-----------------------------------------------------------------------------
(***************************************************************************)
(* A stage is parsed and bound just when it is one of the language, with   *)
(* names that are there.                                                   *)
(***************************************************************************)
LEMMA MatchIsWritten ==
    ASSUME NEW w, IsArgument(w), NEW s \in Seq(Nat)
    PROVE  LET p == ParseMatch(w)
           IN  (p.error = "none" /\ BindMatch(s, p.value.predicates).error = "none") <=>
                  /\ w.type = "object"
                  /\ \A f \in DOMAIN w.members :
                        /\ f \in ToSet(s) /\ IsComparison(w.members[f])
                        /\ OnlyKey(w.members[f]) \in Operators
<1> DEFINE p == ParseMatch(w)
           n == Cardinality(DOMAIN w.members)
           ps == p.value.predicates
<1>1. CASE p.error # "none"
  BY <1>1, MatchOf
<1>2. CASE p.error = "none"
  <2>1. /\ w.type = "object" /\ \A f \in DOMAIN w.members : IsComparison(w.members[f])
        /\ p.value.kind = "kMatch" /\ p.value \in ParsedStage
        /\ n \in Nat /\ Len(ps) = n
        /\ \A i \in 1 .. n : /\ Keys(w)[i] \in DOMAIN w.members
                             /\ ps[i] = ParsePredicate(w, Keys(w)[i]).value
                             /\ ParsePredicate(w, Keys(w)[i]).error = "none"
    BY <1>2, MatchOf
  <2>2. \A f \in DOMAIN w.members : \E i \in 1 .. n : Keys(w)[i] = f
    BY <2>1, KeysOf
  <2>3. ps \in Seq(ParsedComparison)
    BY <2>1, ParsedStages
  <2>4. BindMatch(s, ps).error = "none" <=>
           \A i \in 1 .. n : ps[i].field \in ToSet(s) /\ ps[i].op_token \in Operators
    BY <2>1, <2>3, BindMatchOf
  <2>5. \A i \in 1 .. n :
           ps[i].field = Keys(w)[i] /\ ps[i].op_token = OnlyKey(w.members[Keys(w)[i]])
    BY <2>1, PredicateOf
  <2>. HIDE DEF ps, n
  <2>6. BindMatch(s, ps).error = "none" <=>
           \A f \in DOMAIN w.members : f \in ToSet(s) /\ OnlyKey(w.members[f]) \in Operators
    <3> DEFINE Good(f) == f \in ToSet(s) /\ OnlyKey(w.members[f]) \in Operators
    <3>1. BindMatch(s, ps).error = "none" <=> \A i \in 1 .. n : Good(Keys(w)[i])
      BY <2>4, <2>5
    <3>2. \A i \in 1 .. n : Keys(w)[i] \in DOMAIN w.members
      BY <2>1
    <3>. HIDE DEF Good
    <3>3. (\A i \in 1 .. n : Good(Keys(w)[i])) <=> \A f \in DOMAIN w.members : Good(f)
      BY <2>2, <3>2
    <3>. QED  BY <3>1, <3>3 DEF Good
  <2>7. w.type = "object" /\ \A f \in DOMAIN w.members : IsComparison(w.members[f])
    BY <2>1
  <2>8. BindMatch(s, p.value.predicates).error = "none" <=>
           \A f \in DOMAIN w.members : f \in ToSet(s) /\ OnlyKey(w.members[f]) \in Operators
    BY <2>6 DEF ps
  <2>. HIDE DEF p
  <2>9. (p.error = "none" /\ BindMatch(s, p.value.predicates).error = "none") <=>
           /\ w.type = "object"
           /\ \A f \in DOMAIN w.members :
                 /\ f \in ToSet(s) /\ IsComparison(w.members[f])
                 /\ OnlyKey(w.members[f]) \in Operators
    BY <1>2, <2>7, <2>8
  <2>. QED  BY <2>9 DEF p
<1>. QED  BY <1>1, <1>2

LEMMA DistinctNames ==
    ASSUME NEW n \in Nat, NEW f, f \in [1 .. n -> Nat], NEW names,
           \A x : x \in names <=> \E i \in 1 .. n : f[i] = x
    PROVE  Cardinality(names) = n <=> \A i, j \in 1 .. n : f[i] = f[j] => i = j
<1>1. f \in Surjection(1 .. n, names)
  BY DEF Surjection
<1>2. IsFiniteSet(1 .. n) /\ Cardinality(1 .. n) = n
  BY FS_Interval
<1>3. Cardinality(names) = n <=> f \in Injection(1 .. n, names)
  BY <1>1, <1>2, FS_Surjection
<1>4. f \in [1 .. n -> names]
  OBVIOUS
<1>5. f \in Injection(1 .. n, names) <=> \A i, j \in 1 .. n : f[i] = f[j] => i = j
  BY <1>4 DEF Injection, IsInjective
<1>. QED  BY <1>3, <1>5

LEMMA ProjectIsWritten ==
    ASSUME NEW w, IsArgument(w), NEW s \in Seq(Nat)
    PROVE  LET p == ParseProject(w)
               Names == {w.elements[j].v : j \in DOMAIN w.elements}
           IN  (p.error = "none" /\ BindProject(s, p.value.fields).error = "none") <=>
                  /\ w.type = "array" /\ \A e \in ToSet(w.elements) : e.type = "string"
                  /\ Names \subseteq ToSet(s) /\ Cardinality(Names) = Len(w.elements)
<1> DEFINE p == ParseProject(w)
           fields == p.value.fields
           n == Len(w.elements)
           Names == {w.elements[j].v : j \in DOMAIN w.elements}
<1>1. CASE p.error # "none"
  BY <1>1, ProjectOf
<1>2. CASE p.error = "none"
  <2>1. /\ w.type = "array" /\ \A e \in ToSet(w.elements) : e.type = "string"
        /\ n \in Nat /\ DOMAIN w.elements = 1 .. n
        /\ fields \in Seq(Nat) /\ Len(fields) = n
        /\ \A i \in 1 .. n : fields[i] = w.elements[i].v
    BY <1>2, ProjectOf
  <2>2. Names = {fields[i] : i \in 1 .. n}
    BY <2>1
  <2>3. fields \in [1 .. n -> Nat]
    BY <2>1
  <2>. HIDE DEF fields, n
  <2>4. Cardinality(Names) = n <=> \A i, j \in 1 .. n : fields[i] = fields[j] => i = j
    <3>1. \A x : x \in Names <=> \E i \in 1 .. n : fields[i] = x
      BY <2>2
    <3>. HIDE DEF Names
    <3>2. n \in Nat
      BY <2>1
    <3>. QED  BY <2>3, <3>1, <3>2, DistinctNames, Zenon
  <2>5. Names \subseteq ToSet(s) <=> \A i \in 1 .. n : fields[i] \in ToSet(s)
    BY <2>2
  <2>6. BindProject(s, fields).error = "none" <=>
           /\ \A i \in 1 .. n : fields[i] \in ToSet(s)
           /\ \A i, j \in 1 .. n : fields[i] = fields[j] => i = j
    <3>1. BindProject(s, fields).error = "none" <=>
             /\ \A i \in 1 .. Len(fields) : fields[i] \in ToSet(s)
             /\ \A i, j \in 1 .. Len(fields) : fields[i] = fields[j] => i = j
      BY <2>1, BindProjectOf
    <3>. QED  BY <2>1, <3>1
  <2>7. BindProject(s, p.value.fields).error = "none" <=>
           Names \subseteq ToSet(s) /\ Cardinality(Names) = Len(w.elements)
    BY <2>4, <2>5, <2>6 DEF fields, n
  <2>. HIDE DEF p, Names
  <2>8. (p.error = "none" /\ BindProject(s, p.value.fields).error = "none") <=>
           /\ w.type = "array" /\ \A e \in ToSet(w.elements) : e.type = "string"
           /\ Names \subseteq ToSet(s) /\ Cardinality(Names) = Len(w.elements)
    BY <1>2, <2>1, <2>7
  <2>. QED  BY <2>8 DEF p, Names
<1>. QED  BY <1>1, <1>2

LEMMA SortIsWritten ==
    ASSUME NEW w, IsArgument(w), NEW s \in Seq(Nat)
    PROVE  LET p == ParseSort(w)
           IN  (p.error = "none" /\ BindSort(s, p.value).error = "none") <=>
                  /\ IsSingleKeyObject(w) /\ OnlyKey(w) \in ToSet(s)
                  /\ IsInteger(w.members[OnlyKey(w)]) /\ w.members[OnlyKey(w)].v \in {1, -1}
<1> DEFINE p == ParseSort(w)
           direction == w.members[OnlyKey(w)]
<1>1. CASE p.error # "none"
  BY <1>1, SortOf, DirectionsAssumption
<1>2. CASE p.error = "none"
  <2>1. /\ IsSingleKeyObject(w) /\ IsInteger(direction)
        /\ p.value = ParsedSort(OnlyKey(w), direction.v)
    BY <1>2, SortOf
  <2>2. p.value.field = OnlyKey(w) /\ p.value.direction_raw = direction.v
    BY <2>1 DEF ParsedSort
  <2>. HIDE DEF p
  <2>3. Resolve(s, OnlyKey(w)).error = "none" <=> OnlyKey(w) \in ToSet(s)
    BY ResolveOf
  <2>4. BindSort(s, p.value).error = "none" <=>
           Resolve(s, OnlyKey(w)).error = "none" /\ direction.v \in {1, -1}
    BY <2>2 DEF BindSort, Gives, Throws
  <2>. QED  BY <1>2, <2>1, <2>3, <2>4 DEF p
<1>. QED  BY <1>1, <1>2

LEMMA LimitIsWritten ==
    ASSUME NEW w, IsArgument(w)
    PROVE  LET p == ParseLimit(w)
           IN  (p.error = "none" /\ BindLimit(p.value.count_raw).error = "none") <=>
                  IsInteger(w) /\ w.v \in 0 .. Int64Max
<1> DEFINE p == ParseLimit(w)
<1>1. CASE p.error # "none"
  BY <1>1, LimitOf, Int64Assumption
<1>2. CASE p.error = "none"
  <2>1. IsInteger(w) /\ w.v \in Int64Min .. Int64Max /\ p.value = ParsedLimit(w.v)
    BY <1>2, LimitOf
  <2>2. p.value.count_raw = w.v
    BY <2>1 DEF ParsedLimit
  <2>. HIDE DEF p
  <2>3. BindLimit(w.v).error = "none" <=> ~(w.v < 0)
    BY DEF BindLimit, Gives, Throws
  <2>. QED  BY <1>2, <2>1, <2>2, <2>3, Int64Assumption DEF p
<1>. QED  BY <1>1, <1>2

LEMMA StageIsWritten ==
    ASSUME NEW stages, NEW i, IsStage(stages[i]), NEW s \in Seq(Nat),
           Visible(stages, i) = ToSet(s)
    PROVE  Written(stages, i) <=>
              /\ ParseStage(stages[i]).error = "none"
              /\ Bind(s, ParseStage(stages[i]).value).error = "none"
<1> DEFINE j == stages[i]
           p == ParseStage(j)
           name == OnlyKey(j)
           w == j.members[name]
<1>1. CASE ~IsSingleKeyObject(j)
  BY <1>1, StageOf DEF Written
<1>2. CASE IsSingleKeyObject(j)
  <2>1. IsArgument(w)
    BY <1>2, StageOf
  <2>. HIDE DEF p, w, name
  <2>2. CASE name = "$match"
    <3>1. p = ParseMatch(w) /\ (p.error = "none" => p.value.kind = "kMatch")
      BY <1>2, <2>2, StageOf DEF p, w, name
    <3>2. p.error = "none" => Bind(s, p.value) = BindMatch(s, p.value.predicates)
      BY <3>1 DEF Bind
    <3>3. Written(stages, i) <=>
             /\ w.type = "object"
             /\ \A f \in DOMAIN w.members :
                   /\ f \in ToSet(s) /\ IsComparison(w.members[f])
                   /\ OnlyKey(w.members[f]) \in Operators
      BY <1>2, <2>2 DEF Written, w, name, IsComparison, IsLiteral, Operators
    <3>. QED  BY <2>1, <3>1, <3>2, <3>3, MatchIsWritten DEF p
  <2>3. CASE name = "$project"
    <3>1. p = ParseProject(w) /\ (p.error = "none" => p.value.kind = "kProject")
      BY <1>2, <2>3, StageOf DEF p, w, name
    <3>2. p.error = "none" => Bind(s, p.value) = BindProject(s, p.value.fields)
      BY <3>1 DEF Bind
    <3>3. Written(stages, i) <=>
             /\ w.type = "array" /\ \A e \in ToSet(w.elements) : e.type = "string"
             /\ {w.elements[k].v : k \in DOMAIN w.elements} \subseteq ToSet(s)
             /\ Cardinality({w.elements[k].v : k \in DOMAIN w.elements}) = Len(w.elements)
      BY <1>2, <2>3 DEF Written, w, name
    <3>. QED  BY <2>1, <3>1, <3>2, <3>3, ProjectIsWritten DEF p
  <2>4. CASE name = "$sort"
    <3>1. p = ParseSort(w) /\ (p.error = "none" => p.value.kind = "kSort")
      BY <1>2, <2>4, StageOf DEF p, w, name
    <3>2. p.error = "none" => Bind(s, p.value) = BindSort(s, p.value)
      BY <3>1 DEF Bind
    <3>3. Written(stages, i) <=>
             /\ IsSingleKeyObject(w) /\ OnlyKey(w) \in ToSet(s)
             /\ IsInteger(w.members[OnlyKey(w)]) /\ w.members[OnlyKey(w)].v \in {1, -1}
      BY <1>2, <2>4 DEF Written, w, name
    <3>. QED  BY <2>1, <3>1, <3>2, <3>3, SortIsWritten DEF p
  <2>5. CASE name = "$limit"
    <3>1. p = ParseLimit(w) /\ (p.error = "none" => p.value.kind = "kLimit")
      BY <1>2, <2>5, StageOf DEF p, w, name
    <3>2. p.error = "none" => Bind(s, p.value) = BindLimit(p.value.count_raw)
      BY <3>1 DEF Bind
    <3>3. Written(stages, i) <=> IsInteger(w) /\ w.v \in 0 .. Int64Max
      BY <1>2, <2>5 DEF Written, w, name
    <3>. QED  BY <2>1, <3>1, <3>2, <3>3, LimitIsWritten DEF p
  <2>6. CASE name \notin {"$match", "$project", "$sort", "$limit"}
    <3>1. p.error # "none"
      BY <1>2, <2>6, StageOf DEF p, w, name
    <3>2. ~Written(stages, i)
      BY <1>2, <2>6 DEF Written, w, name
    <3>. QED  BY <3>1, <3>2 DEF p
  <2>. QED  BY <2>2, <2>3, <2>4, <2>5, <2>6
<1>. QED  BY <1>1, <1>2
-----------------------------------------------------------------------------
(***************************************************************************)
(* The inductive invariant.                                                *)
(***************************************************************************)
stages == pipeline_json.elements
IsPipeline == pipeline_json.type = "array"

\* What PlanSaysWhatIsWritten asks of the node of a stage.
NodeSays(stage, node, below) ==
    LET written == stage.members[OnlyKey(stage)]
        Says(c) == LET f == below[c.column]
                   IN  /\ f \in DOMAIN written.members
                       /\ \E token \in DOMAIN written.members[f].members :
                             /\ c.op = ComparisonOperatorOf[token]
                             /\ c.literal.v = written.members[f].members[token].v
    IN  /\ node.kind = KindOfStage[OnlyKey(stage)]
        /\ node.kind = "kLimit" => node.limit = written.v
        /\ node.kind = "kSort" =>
              /\ below[node.sort.column] = OnlyKey(written)
              /\ written.members[OnlyKey(written)].v =
                    IF node.sort.direction = "kAscending" THEN 1 ELSE -1
        /\ node.kind = "kProject" =>
              /\ Len(node.columns) = Len(written.elements)
              /\ \A j \in DOMAIN node.columns : below[node.columns[j]] = written.elements[j].v
        /\ node.kind = "kFilter" =>
              /\ Len(node.predicate) = Cardinality(DOMAIN written.members)
              /\ \A c \in ToSet(node.predicate) : Says(c)
              /\ \A f \in DOMAIN written.members :
                    \E c \in ToSet(node.predicate) : below[c.column] = f

\* The node asks of columns what the stage asks of the names these have below.
NodeAsks(stage, node, below) ==
    LET name == OnlyKey(stage)
        w    == stage.members[name]
        Named(column, f) == column \in DOMAIN below /\ below[column] = f
    IN  \/ /\ name = "$match" /\ node.kind = "kFilter"
           /\ node.predicate \in Seq(BoundComparison)
           /\ DOMAIN Keys(w) = 1 .. Len(node.predicate)
           /\ \A i \in 1 .. Len(node.predicate) :
                 LET c       == node.predicate[i]
                     operand == w.members[Keys(w)[i]]
                 IN  /\ Named(c.column, Keys(w)[i])
                     /\ OnlyKey(operand) \in Operators
                     /\ c.op = ComparisonOperatorOf[OnlyKey(operand)]
                     /\ c.literal = Scalar(operand.members[OnlyKey(operand)],
                                           "kPipelineSyntaxError").value
        \/ /\ name = "$project" /\ node.kind = "kProject"
           /\ node.columns \in Seq(Nat \ {0}) /\ DOMAIN w.elements = 1 .. Len(node.columns)
           /\ node.names = [j \in DOMAIN w.elements |-> w.elements[j].v]
           /\ \A j \in 1 .. Len(node.columns) : Named(node.columns[j], node.names[j])
           /\ \A i, j \in 1 .. Len(node.columns) : node.names[i] = node.names[j] => i = j
        \/ /\ name = "$sort" /\ node.kind = "kSort" /\ node.sort.direction \in SortDirection
           /\ Named(node.sort.column, OnlyKey(w))
           /\ w.members[OnlyKey(w)].v = IF node.sort.direction = "kAscending" THEN 1 ELSE -1
        \/ /\ name = "$limit" /\ node.kind = "kLimit" /\ node.limit = w.v /\ node.limit \in Nat

LimitOverSort(p, i) == p[i].kind = "kLimit" /\ p[i - 1].kind = "kSort"

\* The first n stages are parsed.
AreParsed(st, n) ==
    \A i \in 1 .. n : ParseStage(stages[i]).error = "none" /\ st[i] = ParseStage(stages[i]).value

\* The plan p is that of the first n stages, all of them in the language.
IsPlanOf(p, n) ==
    /\ Len(p) = n + 1 /\ p[1] = LogicalScan
    /\ WellNamed(p)
    /\ Visible(stages, n + 1) = ToSet(SchemaAt(p, n + 1))
    /\ \A i \in 1 .. n : /\ Written(stages, i)
                         /\ NodeSays(stages[i], p[i + 1], SchemaAt(p, i))
                         /\ NodeAsks(stages[i], p[i + 1], SchemaAt(p, i))

Given == pipeline_json \in Pipelines /\ schema \in Schemas

WhileParsing ==
    phase = "parsing" =>
        /\ plan = <<>>
        /\ IsPipeline =>
              next \in 1 .. Len(stages) + 1 /\ Len(parsed) = next - 1 /\ AreParsed(parsed, next - 1)

OnceParsed ==
    phase \notin {"parsing", "failed"} =>
        IsPipeline /\ Len(parsed) = Len(stages) /\ AreParsed(parsed, Len(stages))

WhileBinding ==
    phase = "binding" =>
        /\ next \in 1 .. Len(stages) + 1 /\ IsPlanOf(plan, next - 1)
        /\ current_schema = SchemaAt(plan, next)

BeforeOptimizing ==
    phase \in {"parsing", "binding", "failed"} => logical_plan = <<>> /\ applied = FALSE

OnceBound ==
    phase \in {"optimizing", "lowering", "planned"} =>
        /\ IsPlanOf(logical_plan, Len(stages))
        /\ applied <=> \E i \in 2 .. Len(logical_plan) : i > current /\ LimitOverSort(logical_plan, i)

WhileOptimizing ==
    phase = "optimizing" =>
        /\ current \in 0 .. Len(plan) /\ Len(plan) <= Len(logical_plan)
        /\ Len(plan) > 0 /\ plan[1] = LogicalScan /\ WellNamed(plan)
        /\ OutputSchemaOf(plan) = current_schema
        /\ \A i \in 1 .. current : plan[i] = logical_plan[i]
        /\ \A i \in 2 .. Len(plan) : i > current => ~LimitOverSort(plan, i)

BeforeLowering == phase \notin {"lowering", "planned"} => physical = <<>>

OnceOptimized ==
    phase \in {"lowering", "planned"} =>
        /\ current = 0
        /\ Len(optimized_plan) > 0 /\ optimized_plan[1] = LogicalScan /\ WellNamed(optimized_plan)
        /\ \A i \in 2 .. Len(optimized_plan) : ~LimitOverSort(optimized_plan, i)
        /\ output_schema = OutputSchemaOf(optimized_plan) /\ output_schema = current_schema
        /\ Len(physical) + Len(plan) = Len(optimized_plan)
        /\ \A i \in 1 .. Len(physical) : physical[i] = Lower(optimized_plan[i])
        /\ \A i \in 1 .. Len(plan) : plan[i] = optimized_plan[Len(physical) + i]
        /\ phase = "planned" => plan = <<>>

\* A pipeline that fails is not one of the language.
OnceFailed ==
    phase = "failed" => ~IsPipeline \/ \E i \in 1 .. Len(stages) : ~Written(stages, i)

IInv ==
    /\ Given /\ TypeOK /\ physical \in Seq({Lower(x) : x \in LogicalNode})
    /\ WhileParsing /\ OnceParsed /\ WhileBinding /\ BeforeOptimizing /\ OnceBound
    /\ WhileOptimizing /\ BeforeLowering /\ OnceOptimized /\ OnceFailed
\* A stage the parser turns away is none of the language, whatever names there are.
LEMMA WrittenParses ==
    ASSUME NEW sts, NEW i, IsStage(sts[i]), Written(sts, i)
    PROVE  ParseStage(sts[i]).error = "none"
<1> DEFINE j == sts[i]
           name == OnlyKey(j)
           w == j.members[name]
<1>1. IsSingleKeyObject(j)
  BY DEF Written
<1>2. IsArgument(w)
  BY <1>1, StageOf
<1>. HIDE DEF w, name
<1>3. CASE name = "$match"
  <2>1. ParseStage(j) = ParseMatch(w)
    BY <1>1, <1>3, StageOf DEF w, name
  <2>2. w.type = "object" /\ \A f \in DOMAIN w.members : IsComparison(w.members[f])
    BY <1>3 DEF Written, IsComparison, IsLiteral, w, name
  <2>. QED  BY <1>2, <2>1, <2>2, MatchOf
<1>4. CASE name = "$project"
  <2>1. ParseStage(j) = ParseProject(w)
    BY <1>1, <1>4, StageOf DEF w, name
  <2>2. w.type = "array" /\ \A e \in ToSet(w.elements) : e.type = "string"
    BY <1>4 DEF Written, w, name
  <2>. QED  BY <1>2, <2>1, <2>2, ProjectOf
<1>5. CASE name = "$sort"
  <2>1. ParseStage(j) = ParseSort(w)
    BY <1>1, <1>5, StageOf DEF w, name
  <2>2. /\ IsSingleKeyObject(w) /\ IsInteger(w.members[OnlyKey(w)])
        /\ w.members[OnlyKey(w)].v \in {1, -1}
    BY <1>5 DEF Written, w, name
  <2>. QED  BY <1>2, <2>1, <2>2, SortOf, DirectionsAssumption
<1>6. CASE name = "$limit"
  <2>1. ParseStage(j) = ParseLimit(w)
    BY <1>1, <1>6, StageOf DEF w, name
  <2>2. IsInteger(w) /\ w.v \in 0 .. Int64Max
    BY <1>6 DEF Written, w, name
  <2>. QED  BY <1>2, <2>1, <2>2, LimitOf, Int64Assumption
<1>7. name \in {"$match", "$project", "$sort", "$limit"}
  BY DEF Written, name
<1>. QED  BY <1>3, <1>4, <1>5, <1>6, <1>7

\* The names a stage leaves to the stages after it.
LEMMA VisibleAfter ==
    ASSUME NEW sts, NEW i \in Nat \ {0}, IsStage(sts[i]), NEW s \in Seq(Nat),
           Visible(sts, i) = ToSet(s), ParseStage(sts[i]).error = "none"
    PROVE  Visible(sts, i + 1) = ToSet(SchemaAfter(s, ParseStage(sts[i]).value))
<1> DEFINE at(n) == {j \in 1 .. n - 1 : OnlyKey(sts[j]) = "$project"}
           st == ParseStage(sts[i]).value
<1>1. (i + 1) - 1 = i /\ i \in 1 .. i
  OBVIOUS
<1>2. CASE OnlyKey(sts[i]) = "$project"
  <2> DEFINE w == sts[i].members["$project"]
  <2>1. /\ ParseStage(sts[i]) = ParseProject(w) /\ IsArgument(w) /\ st.kind = "kProject"
    BY <1>2, StageOf
  <2>. HIDE DEF w, st
  <2>2. /\ Len(w.elements) \in Nat /\ DOMAIN w.elements = 1 .. Len(w.elements)
        /\ st.fields \in Seq(Nat) /\ Len(st.fields) = Len(w.elements)
        /\ \A k \in 1 .. Len(w.elements) : st.fields[k] = w.elements[k].v
    BY <2>1, ProjectOf DEF st
  <2>3. {e.v : e \in ToSet(w.elements)} = ToSet(st.fields)
    <3>1. DOMAIN st.fields = 1 .. Len(w.elements)
      BY <2>2
    <3>2. \A x : x \in ToSet(st.fields) <=> \E k \in 1 .. Len(w.elements) : x = w.elements[k].v
      BY <2>2, <3>1 DEF ToSet
    <3>3. \A x : x \in {e.v : e \in ToSet(w.elements)}
                  <=> \E k \in 1 .. Len(w.elements) : x = w.elements[k].v
      BY <2>2 DEF ToSet
    <3>. QED  BY <3>2, <3>3
  <2>4. Max(at(i + 1)) = i
    <3>1. /\ at(i + 1) \in SUBSET (1 .. i) /\ i \in at(i + 1)
      <4>1. at(i + 1) = {j \in 1 .. i : OnlyKey(sts[j]) = "$project"}
        BY <1>1
      <4>. HIDE DEF at
      <4>. QED  BY <1>1, <1>2, <4>1
    <3>. HIDE DEF at
    <3>2. IsFiniteSet(at(i + 1)) /\ at(i + 1) \in SUBSET Int /\ at(i + 1) # {}
      <4>1. IsFiniteSet(1 .. i) /\ 1 .. i \in SUBSET Int
        BY FS_Interval
      <4>. QED  BY <3>1, <4>1, FS_Subset
    <3>3. Max(at(i + 1)) \in at(i + 1) /\ i <= Max(at(i + 1))
      BY <3>1, <3>2, LeastAndGreatest
    <3>4. Max(at(i + 1)) \in 1 .. i
      BY <3>1, <3>3
    <3>. QED  BY <3>3, <3>4
  <2>5. i \in at(i + 1)
    BY <1>1, <1>2
  <2>6. Visible(sts, i + 1)
          = IF at(i + 1) = {} THEN ToSet(schema)
            ELSE {e.v : e \in ToSet(sts[Max(at(i + 1))].members["$project"].elements)}
    BY DEF Visible
  <2>. HIDE DEF at
  <2>7. Visible(sts, i + 1) = {e.v : e \in ToSet(w.elements)}
    BY <2>4, <2>5, <2>6 DEF w
  <2>. QED  BY <2>1, <2>3, <2>7 DEF SchemaAfter, st
<1>3. CASE OnlyKey(sts[i]) # "$project"
  <2>1. st.kind # "kProject"
    BY <1>3, StageOf
  <2>2. at(i + 1) = at(i)
    BY <1>1, <1>3
  <2>3. /\ Visible(sts, i + 1)
             = IF at(i + 1) = {} THEN ToSet(schema)
               ELSE {e.v : e \in ToSet(sts[Max(at(i + 1))].members["$project"].elements)}
        /\ Visible(sts, i)
             = IF at(i) = {} THEN ToSet(schema)
               ELSE {e.v : e \in ToSet(sts[Max(at(i))].members["$project"].elements)}
    BY DEF Visible
  <2>. HIDE DEF at, st
  <2>4. Visible(sts, i + 1) = Visible(sts, i)
    BY <2>2, <2>3
  <2>. QED  BY <2>1, <2>4 DEF SchemaAfter, st
<1>. QED  BY <1>2, <1>3

\* The node of a stage asks of its columns what the stage asks of the names.
LEMMA NodeAsksStage ==
    ASSUME NEW j, IsStage(j), NEW s \in Seq(Nat), ParseStage(j).error = "none",
           Bind(s, ParseStage(j).value).error = "none"
    PROVE  NodeAsks(j, NodeOf(ParseStage(j).value, Bind(s, ParseStage(j).value).value), s)
<1> DEFINE name == OnlyKey(j)
           w == j.members[name]
           st == ParseStage(j).value
           node == NodeOf(st, Bind(s, st).value)
<1>1. /\ IsArgument(w) /\ st \in ParsedStage /\ Bind(s, st).error = "none"
      /\ \/ name = "$match" /\ ParseStage(j) = ParseMatch(w) /\ st.kind = "kMatch"
         \/ name = "$project" /\ ParseStage(j) = ParseProject(w) /\ st.kind = "kProject"
         \/ name = "$sort" /\ ParseStage(j) = ParseSort(w) /\ st.kind = "kSort"
         \/ name = "$limit" /\ ParseStage(j) = ParseLimit(w) /\ st.kind = "kLimit"
  BY StageOf
<1>. HIDE DEF w, st, node
<1>2. /\ node \in LogicalNode /\ UsesNames(node, s)
      /\ node.kind \in {"kFilter", "kProject", "kSort", "kLimit"}
      /\ st.kind = "kProject" => node.kind = "kProject" /\ node.names = st.fields
      /\ node.kind = "kProject" => st.kind = "kProject"
      /\ node.kind = "kLimit" => st.kind = "kLimit"
      /\ st.kind = "kLimit" => node.kind = "kLimit" /\ node.limit = st.count_raw
      /\ node.kind = "kSort" =>
            /\ st.kind = "kSort" /\ node.name = st.field
            /\ st.direction_raw = IF node.sort.direction = "kAscending" THEN 1 ELSE -1
      /\ node.kind = "kFilter" =>
            /\ st.kind = "kMatch" /\ Len(node.predicate) = Len(st.predicates)
            /\ \A i \in 1 .. Len(st.predicates) :
                  /\ node.predicate[i].field = st.predicates[i].field
                  /\ node.predicate[i].literal = st.predicates[i].literal
                  /\ st.predicates[i].op_token \in Operators
                  /\ node.predicate[i].op = ComparisonOperatorOf[st.predicates[i].op_token]
  BY <1>1, BindOf DEF node
<1>3. CASE node.kind = "kFilter"
  <2> DEFINE ps == st.predicates
             n == Cardinality(DOMAIN w.members)
  <2>1. name = "$match" /\ ParseStage(j) = ParseMatch(w)
    BY <1>1, <1>2, <1>3
  <2>2. /\ n \in Nat /\ Len(ps) = n /\ w.type = "object"
        /\ \A i \in 1 .. n : /\ Keys(w)[i] \in DOMAIN w.members
                             /\ ps[i] = ParsePredicate(w, Keys(w)[i]).value
                             /\ ParsePredicate(w, Keys(w)[i]).error = "none"
    <3>1. ParseMatch(w).error = "none" /\ ParseMatch(w).value = st
      BY <2>1 DEF st
    <3>. QED  BY <1>1, <3>1, MatchOf
  <2>3. DOMAIN Keys(w) = 1 .. n
    BY <1>1, <2>2, KeysOf
  <2>4. node.predicate \in Seq(BoundComparison) /\ Len(node.predicate) = n
    BY <1>2, <1>3, <2>2, NodesOf
  <2>. HIDE DEF ps, n
  <2>5. ASSUME NEW i \in 1 .. n
        PROVE  LET c       == node.predicate[i]
                   operand == w.members[Keys(w)[i]]
               IN  /\ c.column \in DOMAIN s /\ s[c.column] = Keys(w)[i]
                   /\ OnlyKey(operand) \in Operators
                   /\ c.op = ComparisonOperatorOf[OnlyKey(operand)]
                   /\ c.literal = Scalar(operand.members[OnlyKey(operand)],
                                         "kPipelineSyntaxError").value
    <3> DEFINE f == Keys(w)[i]
               operand == w.members[f]
               literal == Scalar(operand.members[OnlyKey(operand)], "kPipelineSyntaxError")
               parsedOne == [field |-> f, op_token |-> OnlyKey(operand), literal |-> literal.value]
    <3>1. /\ f \in DOMAIN w.members /\ ps[i] = ParsePredicate(w, f).value
          /\ ParsePredicate(w, f).error = "none"
      BY <2>2
    <3>2. ParsePredicate(w, f) = IF ~IsSingleKeyObject(operand) THEN SyntaxError
                                 ELSE IF literal.error # "none" THEN literal
                                 ELSE Gives(parsedOne)
      BY DEF ParsePredicate
    <3>3. parsedOne.field = f /\ parsedOne.op_token = OnlyKey(operand)
          /\ parsedOne.literal = literal.value
      OBVIOUS
    <3>. HIDE DEF parsedOne, literal
    <3>4. ps[i] = parsedOne
      BY <3>1, <3>2 DEF SyntaxError, Throws, Gives
    <3>5. /\ node.predicate[i].field = ps[i].field /\ node.predicate[i].literal = ps[i].literal
          /\ ps[i].op_token \in Operators
          /\ node.predicate[i].op = ComparisonOperatorOf[ps[i].op_token]
      BY <1>2, <1>3, <2>2 DEF ps
    <3>6. node.predicate[i] \in ToSet(node.predicate)
      BY <2>4 DEF ToSet
    <3>7. /\ node.predicate[i].column \in DOMAIN s
          /\ s[node.predicate[i].column] = node.predicate[i].field
      BY <1>2, <1>3, <3>6 DEF UsesNames
    <3>. QED  BY <3>3, <3>4, <3>5, <3>7 DEF literal
  <2>. QED  BY <1>3, <2>1, <2>3, <2>4, <2>5 DEF NodeAsks, w, node, st
<1>4. CASE node.kind = "kProject"
  <2>1. name = "$project" /\ ParseStage(j) = ParseProject(w) /\ st.kind = "kProject"
    BY <1>1, <1>2, <1>4
  <2>2. /\ Len(w.elements) \in Nat /\ DOMAIN w.elements = 1 .. Len(w.elements)
        /\ st.fields \in Seq(Nat) /\ Len(st.fields) = Len(w.elements)
        /\ \A i \in 1 .. Len(w.elements) : st.fields[i] = w.elements[i].v
    <3>1. ParseProject(w).error = "none" /\ ParseProject(w).value = st
      BY <2>1 DEF st
    <3>. QED  BY <1>1, <3>1, ProjectOf
  <2>3. Bind(s, st) = BindProject(s, st.fields)
    BY <2>1 DEF Bind
  <2>4. \A i, k \in 1 .. Len(st.fields) : st.fields[i] = st.fields[k] => i = k
    BY <1>1, <2>2, <2>3, BindProjectOf
  <2>5. /\ node.columns \in Seq(Nat \ {0}) /\ node.names = st.fields
        /\ Len(node.columns) = Len(node.names)
        /\ \A i \in DOMAIN node.columns :
              node.columns[i] \in DOMAIN s /\ s[node.columns[i]] = node.names[i]
    BY <1>2, <1>4, NodesOf DEF UsesNames
  <2>6. node.names = [i \in DOMAIN w.elements |-> w.elements[i].v]
    <3>1. st.fields = [i \in 1 .. Len(st.fields) |-> st.fields[i]]
      BY <2>2
    <3>. QED  BY <2>2, <2>5, <3>1
  <2>7. DOMAIN node.columns = 1 .. Len(node.columns)
    BY <2>5
  <2>. QED  BY <1>4, <2>1, <2>2, <2>4, <2>5, <2>6, <2>7 DEF NodeAsks, w, node, st
<1>5. CASE node.kind = "kSort"
  <2>1. name = "$sort" /\ ParseStage(j) = ParseSort(w)
    BY <1>1, <1>2, <1>5
  <2>2. st = ParsedSort(OnlyKey(w), w.members[OnlyKey(w)].v)
    <3>1. ParseSort(w).error = "none" /\ ParseSort(w).value = st
      BY <2>1 DEF st
    <3>. QED  BY <1>1, <3>1, SortOf
  <2>3. st.field = OnlyKey(w) /\ st.direction_raw = w.members[OnlyKey(w)].v
    BY <2>2 DEF ParsedSort
  <2>4. node.sort \in [column : Nat \ {0}, direction : SortDirection]
    BY <1>2, <1>5 DEF LogicalNode, LogicalScan
  <2>5. node.sort.column \in DOMAIN s /\ s[node.sort.column] = node.name
    BY <1>2, <1>5 DEF UsesNames
  <2>. QED  BY <1>2, <1>5, <2>1, <2>3, <2>4, <2>5 DEF NodeAsks, w, node, st
<1>6. CASE node.kind = "kLimit"
  <2>1. name = "$limit" /\ ParseStage(j) = ParseLimit(w)
    BY <1>1, <1>2, <1>6
  <2>2. st = ParsedLimit(w.v)
    <3>1. ParseLimit(w).error = "none" /\ ParseLimit(w).value = st
      BY <2>1 DEF st
    <3>. QED  BY <1>1, <3>1, LimitOf
  <2>3. node.limit = w.v
    BY <1>2, <1>6, <2>2 DEF ParsedLimit
  <2>4. node.limit \in Nat
    BY <1>2, <1>6 DEF LogicalNode, LogicalScan
  <2>. QED  BY <1>6, <2>1, <2>3, <2>4 DEF NodeAsks, w, node, st
<1>. QED  BY <1>2, <1>3, <1>4, <1>5, <1>6

\* And it says what is written in the stage.
LEMMA NodeSaysStage ==
    ASSUME NEW j, IsStage(j), NEW s \in Seq(Nat), ParseStage(j).error = "none",
           Bind(s, ParseStage(j).value).error = "none"
    PROVE  NodeSays(j, NodeOf(ParseStage(j).value, Bind(s, ParseStage(j).value).value), s)
<1> DEFINE name == OnlyKey(j)
           w == j.members[name]
           node == NodeOf(ParseStage(j).value, Bind(s, ParseStage(j).value).value)
<1>1. NodeAsks(j, node, s)
  BY NodeAsksStage
<1>2. /\ IsArgument(w)
      /\ name = "$match" => ParseStage(j) = ParseMatch(w)
      /\ name = "$project" => ParseStage(j) = ParseProject(w)
  BY StageOf
<1>. HIDE DEF node
<1>3. CASE name = "$match"
  <2> DEFINE n == Cardinality(DOMAIN w.members)
             operand(i) == w.members[Keys(w)[i]]
             p == node.predicate
  <2>1. /\ node.kind = "kFilter" /\ p \in Seq(BoundComparison)
        /\ DOMAIN Keys(w) = 1 .. Len(p)
        /\ \A i \in 1 .. Len(p) :
              /\ s[p[i].column] = Keys(w)[i]
              /\ p[i].op = ComparisonOperatorOf[OnlyKey(operand(i))]
              /\ p[i].literal = Scalar(operand(i).members[OnlyKey(operand(i))],
                                       "kPipelineSyntaxError").value
    BY <1>1, <1>3 DEF NodeAsks
  <2>2. /\ w.type = "object" /\ \A f \in DOMAIN w.members : IsComparison(w.members[f])
    BY <1>2, <1>3, MatchOf
  <2>3. /\ n \in Nat /\ Keys(w) \in [1 .. n -> DOMAIN w.members]
        /\ \A f \in DOMAIN w.members : \E i \in 1 .. n : Keys(w)[i] = f
    BY <1>2, <2>2, KeysOf
  <2>. HIDE DEF w, n
  <2>4. Len(p) = n
    <3>1. Len(p) \in Nat /\ 1 .. Len(p) = 1 .. n
      BY <2>1, <2>3
    <3>. QED  BY <2>3, <3>1
  <2>5. ASSUME NEW i \in 1 .. n
        PROVE  /\ Keys(w)[i] \in DOMAIN w.members
               /\ OnlyKey(operand(i)) \in DOMAIN operand(i).members
               /\ p[i].literal.v = operand(i).members[OnlyKey(operand(i))].v
    <3> DEFINE f == Keys(w)[i]
               literal == Scalar(w.members[f].members[OnlyKey(w.members[f])],
                                 "kPipelineSyntaxError")
               comparison == [field |-> f, op_token |-> OnlyKey(w.members[f]),
                              literal |-> literal.value]
    <3>1. f \in DOMAIN w.members /\ IsComparison(w.members[f])
      BY <2>2, <2>3
    <3>2. ParsePredicate(w, f).error = "none"
          /\ ParsePredicate(w, f).value.literal.v = w.members[f].members[OnlyKey(w.members[f])].v
      BY <1>2, <2>2, <3>1, PredicateOf
    <3>3. ParsePredicate(w, f) = IF ~IsSingleKeyObject(w.members[f]) THEN SyntaxError
                                 ELSE IF literal.error # "none" THEN literal
                                 ELSE Gives(comparison)
      BY DEF ParsePredicate
    <3>4. comparison.literal = literal.value
      OBVIOUS
    <3>5. p[i].literal = literal.value
      BY <2>1, <2>4
    <3>6. OnlyKey(w.members[f]) \in DOMAIN w.members[f].members
      BY <3>1, OnlyKeyIsKey DEF IsComparison
    <3>. HIDE DEF comparison, literal, f
    <3>7. ParsePredicate(w, f).value = comparison
      BY <3>2, <3>3 DEF SyntaxError, Throws, Gives
    <3>. QED  BY <3>1, <3>2, <3>4, <3>5, <3>6, <3>7 DEF f
  <2>6. ASSUME NEW c \in ToSet(p)
        PROVE  /\ s[c.column] \in DOMAIN w.members
               /\ \E token \in DOMAIN w.members[s[c.column]].members :
                     /\ c.op = ComparisonOperatorOf[token]
                     /\ c.literal.v = w.members[s[c.column]].members[token].v
    <3>1. PICK i \in 1 .. n : c = p[i]
      BY <2>1, <2>4 DEF ToSet
    <3>2. s[c.column] = Keys(w)[i] /\ c.op = ComparisonOperatorOf[OnlyKey(operand(i))]
      BY <2>1, <2>4, <3>1
    <3>. QED  BY <2>5, <3>1, <3>2
  <2>7. ASSUME NEW f \in DOMAIN w.members
        PROVE  \E c \in ToSet(p) : s[c.column] = f
    <3>1. PICK i \in 1 .. n : Keys(w)[i] = f
      BY <2>3
    <3>2. p[i] \in ToSet(p) /\ s[p[i].column] = f
      BY <2>1, <2>4, <3>1 DEF ToSet
    <3>. QED  BY <3>2
  <2>8. node.kind = KindOfStage[name]
    BY <1>3, <2>1 DEF KindOfStage
  <2>. QED  BY <2>1, <2>4, <2>6, <2>7, <2>8 DEF NodeSays, node, w, n
<1>4. CASE name # "$match"
  <2>1. CASE name = "$project"
    <3>1. /\ node.kind = "kProject" /\ node.columns \in Seq(Nat \ {0})
          /\ DOMAIN w.elements = 1 .. Len(node.columns)
          /\ node.names = [i \in DOMAIN w.elements |-> w.elements[i].v]
          /\ \A i \in 1 .. Len(node.columns) : s[node.columns[i]] = node.names[i]
      BY <1>1, <2>1 DEF NodeAsks
    <3>2. node.kind = KindOfStage[name]
      BY <2>1, <3>1 DEF KindOfStage
    <3>3. Len(node.columns) = Len(w.elements)
      BY <1>2, <2>1, <3>1, ProjectOf
    <3>4. \A k \in DOMAIN node.columns : s[node.columns[k]] = w.elements[k].v
      <4> DEFINE elements == w.elements
      <4>1. DOMAIN node.columns = 1 .. Len(node.columns)
        BY <3>1
      <4>2. \A k \in DOMAIN elements : node.names[k] = elements[k].v
        <5>. HIDE DEF elements, w
        <5>1. node.names = [i \in DOMAIN elements |-> elements[i].v]
          BY <3>1 DEF elements
        <5>. QED  BY <5>1
      <4>. QED  BY <3>1, <4>1, <4>2
    <3>. HIDE DEF w
    <3>5. node.kind \notin {"kLimit", "kSort", "kFilter"}
      BY <3>1
    <3>. QED  BY <3>1, <3>2, <3>3, <3>4, <3>5 DEF NodeSays, node, w
  <2>2. CASE name = "$sort" \/ name = "$limit"
    BY <1>1, <2>2 DEF NodeAsks, NodeSays, KindOfStage, node
  <2>. QED  BY <1>1, <1>4, <2>1, <2>2 DEF NodeAsks
<1>. QED  BY <1>3, <1>4 DEF node

\* The names of a plan, and what the document says, are the same after a step.
LEMMA QueryStays ==
    ASSUME UNCHANGED query
    PROVE  /\ Given' <=> Given
           /\ stages' = stages /\ (IsPipeline' <=> IsPipeline)
           /\ OutputSchemaOf(plan)' = OutputSchemaOf(plan')
           /\ OutputSchemaOf(optimized_plan)' = OutputSchemaOf(optimized_plan')
           /\ SchemaAt(plan, next)' = SchemaAt(plan', next')
           /\ WellNamed(plan)' <=> WellNamed(plan')
           /\ WellNamed(optimized_plan)' <=> WellNamed(optimized_plan')
           /\ IsPlanOf(plan, next - 1)' <=> IsPlanOf(plan', next' - 1)
           /\ IsPlanOf(logical_plan, Len(stages))' <=> IsPlanOf(logical_plan', Len(stages))
           /\ (\A i \in 1 .. Len(stages) : Written(stages, i))'
                <=> \A i \in 1 .. Len(stages) : Written(stages, i)
<1>1. pipeline_json' = pipeline_json /\ schema' = schema
  BY DEF query
<1>2. stages' = stages
  BY <1>1 DEF stages
<1>3. WellNamed(plan)' <=> WellNamed(plan')
  BY <1>1 DEF WellNamed, UsesNames, SchemaAt, OutputSchemaOf
<1>4. WellNamed(optimized_plan)' <=> WellNamed(optimized_plan')
  BY <1>1 DEF WellNamed, UsesNames, SchemaAt, OutputSchemaOf
<1>5. /\ OutputSchemaOf(plan)' = OutputSchemaOf(plan')
      /\ OutputSchemaOf(optimized_plan)' = OutputSchemaOf(optimized_plan')
      /\ SchemaAt(plan, next)' = SchemaAt(plan', next')
  BY <1>1 DEF SchemaAt, OutputSchemaOf
<1>6. IsPlanOf(plan, next - 1)' <=> IsPlanOf(plan', next' - 1)
  BY <1>1, <1>2 DEF IsPlanOf, WellNamed, SchemaAt, OutputSchemaOf, Visible, Written
<1>7. IsPlanOf(logical_plan, Len(stages))' <=> IsPlanOf(logical_plan', Len(stages))
  BY <1>1, <1>2 DEF IsPlanOf, WellNamed, SchemaAt, OutputSchemaOf, Visible, Written
<1>8. (\A i \in 1 .. Len(stages) : Written(stages, i))'
        <=> \A i \in 1 .. Len(stages) : Written(stages, i)
  BY <1>1, <1>2 DEF Written, Visible
<1>. QED  BY <1>1, <1>2, <1>3, <1>4, <1>5, <1>6, <1>7, <1>8 DEF Given, IsPipeline

LEMMA GivenStages ==
    ASSUME Given
    PROVE  /\ schema \in Seq(Nat)
           /\ IsPipeline => /\ Len(stages) \in Nat /\ DOMAIN stages = 1 .. Len(stages)
                            /\ \A i \in 1 .. Len(stages) : IsStage(stages[i])
<1>1. schema \in Seq(Strings) /\ Strings \subseteq Nat
  BY SchemasAssumption, StringsAssumption DEF Given
<1>2. schema \in Seq(Nat)
  <2>1. /\ Len(schema) \in Nat /\ schema = [i \in 1 .. Len(schema) |-> schema[i]]
        /\ \A i \in 1 .. Len(schema) : schema[i] \in Nat
    BY <1>1
  <2>2. schema \in [1 .. Len(schema) -> Nat]
    BY <2>1
  <2>. QED  BY <2>1, <2>2
<1>3. IsJson(pipeline_json) /\ (IsPipeline => \A j \in ToSet(stages) : IsStage(j))
  BY PipelinesAssumption DEF IsDocument, Given, stages, IsPipeline
<1>4. IsPipeline => Len(stages) \in Nat /\ DOMAIN stages = 1 .. Len(stages)
  BY <1>3, ArraysAndObjects DEF stages, IsPipeline
<1>. QED  BY <1>2, <1>3, <1>4 DEF ToSet

\* The node of the next stage makes the plan of a stage more.
LEMMA PlanGrows ==
    ASSUME Given, IsPipeline, NEW n \in Nat, n + 1 \in 1 .. Len(stages),
           NEW p \in Seq(LogicalNode), IsPlanOf(p, n),
           NEW st, ParseStage(stages[n + 1]).error = "none", st = ParseStage(stages[n + 1]).value,
           NEW s, s = SchemaAt(p, n + 1), Bind(s, st).error = "none"
    PROVE  LET q == Append(p, NodeOf(st, Bind(s, st).value))
           IN  /\ q \in Seq(LogicalNode) /\ IsPlanOf(q, n + 1)
               /\ SchemaAt(q, n + 2) = SchemaAfter(s, st) /\ SchemaAfter(s, st) \in Seq(Nat)
<1> DEFINE node == NodeOf(st, Bind(s, st).value)
           q == Append(p, node)
<1>1. /\ schema \in Seq(Nat) /\ IsStage(stages[n + 1])
  BY GivenStages
<1>2. /\ Len(p) = n + 1 /\ p[1] = LogicalScan /\ WellNamed(p)
      /\ Visible(stages, n + 1) = ToSet(s)
      /\ \A i \in 1 .. n : /\ Written(stages, i)
                           /\ NodeSays(stages[i], p[i + 1], SchemaAt(p, i))
                           /\ NodeAsks(stages[i], p[i + 1], SchemaAt(p, i))
  BY DEF IsPlanOf
<1>3. s \in Seq(Nat)
  BY <1>1, <1>2, SchemasAreNames
<1>4. st \in ParsedStage
  BY <1>1, StageOf
<1>5. /\ node \in LogicalNode /\ UsesNames(node, s)
      /\ st.kind = "kProject" => node.kind = "kProject" /\ node.names = st.fields
      /\ node.kind = "kProject" => st.kind = "kProject"
      /\ SchemaAfter(s, st) \in Seq(Nat)
  BY <1>3, <1>4, BindOf
<1>6. /\ NodeSays(stages[n + 1], node, s) /\ Written(stages, n + 1)
      /\ NodeAsks(stages[n + 1], node, s)
  BY <1>1, <1>2, <1>3, NodeSaysStage, NodeAsksStage, StageIsWritten
<1>. HIDE DEF node
<1>7. /\ q \in Seq(LogicalNode) /\ Len(q) = n + 2 /\ q[n + 2] = node
      /\ \A i \in 1 .. n + 1 : q[i] = p[i]
  BY <1>2, <1>5
<1>8. /\ WellNamed(q) /\ \A i \in 0 .. n + 1 : SchemaAt(q, i) = SchemaAt(p, i)
      /\ SchemaAt(q, n + 2) = IF node.kind = "kProject" THEN node.names ELSE SchemaAt(p, n + 1)
  <2>1. Len(p) > 0 /\ Len(p) + 1 = n + 2 /\ UsesNames(node, SchemaAt(p, Len(p)))
    BY <1>2, <1>5
  <2>. QED  BY <1>2, <1>5, <2>1, AppendKeepsNames
<1>9. SchemaAt(q, n + 2) = SchemaAfter(s, st)
  BY <1>5, <1>8 DEF SchemaAfter
<1>10. Visible(stages, n + 2) = ToSet(SchemaAt(q, n + 2))
  <2>1. n + 1 \in Nat \ {0} /\ (n + 1) + 1 = n + 2
    OBVIOUS
  <2>. QED  BY <1>1, <1>2, <1>3, <1>9, <2>1, VisibleAfter
<1>11. ASSUME NEW i \in 1 .. n + 1
       PROVE  /\ Written(stages, i) /\ NodeSays(stages[i], q[i + 1], SchemaAt(q, i))
              /\ NodeAsks(stages[i], q[i + 1], SchemaAt(q, i))
  <2>. HIDE DEF q
  <2>1. CASE i = n + 1
    <3>1. i + 1 = n + 2 /\ i \in 0 .. n + 1
      BY <2>1
    <3>2. q[i + 1] = node /\ SchemaAt(q, i) = s
      BY <1>7, <1>8, <2>1, <3>1
    <3>. QED  BY <1>6, <2>1, <3>2
  <2>2. CASE i \in 1 .. n
    <3>1. i + 1 \in 1 .. n + 1 /\ i \in 0 .. n + 1
      BY <2>2
    <3>2. q[i + 1] = p[i + 1] /\ SchemaAt(q, i) = SchemaAt(p, i)
      BY <1>7, <1>8, <3>1
    <3>3. /\ Written(stages, i) /\ NodeSays(stages[i], p[i + 1], SchemaAt(p, i))
          /\ NodeAsks(stages[i], p[i + 1], SchemaAt(p, i))
      BY <1>2, <2>2
    <3>. QED  BY <3>2, <3>3
  <2>. QED  BY <2>1, <2>2
<1>12. q[1] = LogicalScan /\ Len(q) = (n + 1) + 1 /\ (n + 1) + 1 = n + 2
  BY <1>2, <1>7
<1>. HIDE DEF q
<1>13. IsPlanOf(q, n + 1)
  BY <1>8, <1>10, <1>11, <1>12 DEF IsPlanOf
<1>. QED  BY <1>5, <1>7, <1>9, <1>13 DEF q, node
-----------------------------------------------------------------------------
(***************************************************************************)
(* Each step keeps the invariant.                                          *)
(***************************************************************************)
LEMMA Starts == Init => IInv
<1>. SUFFICES ASSUME Init PROVE IInv
  OBVIOUS
<1>1. TypeOK
  <2>1. \A S : <<>> \in Seq(S)
    OBVIOUS
  <2>2. phase = "parsing" /\ error = "none"
    BY DEF Init
  <2>3. (error = "none") = (phase # "failed")
    BY <2>2
  <2>. QED  BY <2>1, <2>2, <2>3 DEF Init, TypeOK
<1>2. Given /\ physical \in Seq({Lower(x) : x \in LogicalNode})
  BY DEF Init, Given
<1>3. WhileParsing
  <2>1. IsPipeline => Len(stages) \in Nat
    BY <1>2, GivenStages
  <2>. QED  BY <2>1 DEF Init, WhileParsing, AreParsed
<1>. QED  BY <1>1, <1>2, <1>3 DEF Init, IInv, OnceParsed, WhileBinding, BeforeOptimizing, OnceBound,
             WhileOptimizing, BeforeLowering, OnceOptimized, OnceFailed

\* The phases the program is not in ask nothing of it.
LEMMA Fails ==
    ASSUME IInv, NEW code, code # "none", Fail(code), phase \in {"parsing", "binding"},
           ~IsPipeline \/ \E i \in 1 .. Len(stages) : ~Written(stages, i)
    PROVE  IInv'
<1>1. /\ phase' = "failed" /\ error' = code /\ UNCHANGED query
      /\ UNCHANGED <<next, parsed, current_schema, plan, logical_plan, rewriting, shown, physical>>
  BY DEF Fail
<1>2. TypeOK'
  BY <1>1 DEF IInv, TypeOK, rewriting, shown
<1>3. Given' /\ (physical \in Seq({Lower(x) : x \in LogicalNode}))'
  BY <1>1, QueryStays DEF IInv
<1>4. OnceFailed'
  <2>1. /\ stages' = stages /\ (IsPipeline' <=> IsPipeline)
        /\ (\A i \in 1 .. Len(stages) : Written(stages, i))'
             <=> \A i \in 1 .. Len(stages) : Written(stages, i)
    BY <1>1, QueryStays
  <2>. QED  BY <2>1 DEF OnceFailed
<1>5. BeforeOptimizing' /\ BeforeLowering'
  BY <1>1 DEF IInv, BeforeOptimizing, BeforeLowering, rewriting
<1>. QED  BY <1>1, <1>2, <1>3, <1>4, <1>5 DEF IInv, WhileParsing, OnceParsed, WhileBinding,
             OnceBound, WhileOptimizing, OnceOptimized

LEMMA ParsingKeeps ==
    ASSUME IInv, PipelineIsNoArray \/ ParseNext \/ ParseEnds
    PROVE  IInv'
<1>1. /\ phase = "parsing" /\ Given /\ TypeOK /\ WhileParsing /\ BeforeOptimizing
      /\ plan = <<>> /\ logical_plan = <<>> /\ applied = FALSE /\ physical = <<>>
      /\ schema \in Seq(Nat)
  <2>1. phase = "parsing"
    BY DEF PipelineIsNoArray, ParseNext, ParseEnds
  <2>2. Given /\ TypeOK /\ WhileParsing /\ BeforeOptimizing /\ BeforeLowering
    BY DEF IInv
  <2>. QED  BY <2>1, <2>2, GivenStages DEF WhileParsing, BeforeOptimizing, BeforeLowering
<1>2. CASE PipelineIsNoArray
  <2>1. ~IsPipeline /\ Fail("kPipelineSyntaxError")
    BY <1>2 DEF PipelineIsNoArray, IsPipeline
  <2>. QED  BY <1>1, <2>1, Fails
<1>3. CASE ParseNext
  <2> DEFINE p == ParseStage(stages[next])
  <2>1. IsPipeline /\ next <= Len(stages)
    BY <1>3 DEF ParseNext, IsPipeline, stages
  <2>2. /\ next \in 1 .. Len(stages) /\ Len(stages) \in Nat /\ IsStage(stages[next])
        /\ Len(parsed) = next - 1 /\ AreParsed(parsed, next - 1)
    BY <1>1, <2>1, GivenStages DEF WhileParsing
  <2>3. \/ p.error # "none" /\ Fail(p.error)
        \/ /\ p.error = "none"
           /\ parsed' = Append(parsed, p.value)
           /\ next' = next + 1
           /\ UNCHANGED <<query, phase, current_schema, plan, logical_plan, rewriting, shown,
                          physical, error>>
    BY <1>3 DEF ParseNext, stages
  <2>. HIDE DEF p
  <2>4. CASE p.error # "none"
    <3>1. ~Written(stages, next)
      BY <2>2, <2>4, WrittenParses DEF p
    <3>. QED  BY <1>1, <2>2, <2>3, <2>4, <3>1, Fails
  <2>5. CASE p.error = "none"
    <3>1. /\ parsed' = Append(parsed, p.value) /\ next' = next + 1
          /\ UNCHANGED <<query, phase, current_schema, plan, logical_plan, rewriting, shown,
                         physical, error>>
      BY <2>3, <2>5
    <3>2. p.value \in ParsedStage /\ parsed \in Seq(ParsedStage)
      BY <1>1, <2>2, <2>5, StageOf DEF p, TypeOK
    <3>3. /\ parsed' \in Seq(ParsedStage) /\ Len(parsed') = next /\ parsed'[next] = p.value
          /\ \A i \in 1 .. next - 1 : parsed'[i] = parsed[i]
      BY <2>2, <3>1, <3>2
    <3>4. TypeOK'
      BY <1>1, <3>1, <3>3 DEF TypeOK, rewriting, shown
    <3>5. stages' = stages /\ (IsPipeline' <=> IsPipeline) /\ Given'
      BY <1>1, <3>1, QueryStays
    <3>6. AreParsed(parsed, next - 1)'
      <4>1. \A i \in 1 .. next : /\ ParseStage(stages[i]).error = "none"
                                 /\ parsed'[i] = ParseStage(stages[i]).value
        <5>1. TAKE i \in 1 .. next
        <5>2. CASE i = next
          BY <2>5, <3>3, <5>2 DEF p
        <5>3. CASE i \in 1 .. next - 1
          BY <2>2, <3>3, <5>3 DEF AreParsed
        <5>. QED  BY <2>2, <5>2, <5>3
      <4>2. next' - 1 = next
        BY <2>2, <3>1
      <4>. QED  BY <3>5, <4>1, <4>2 DEF AreParsed
    <3>7. WhileParsing'
      BY <1>1, <2>1, <2>2, <3>1, <3>3, <3>5, <3>6 DEF WhileParsing
    <3>8. BeforeOptimizing' /\ BeforeLowering' /\ (physical \in Seq({Lower(x) : x \in LogicalNode}))'
      BY <1>1, <3>1 DEF BeforeOptimizing, BeforeLowering, rewriting
    <3>9. phase' = "parsing"
      BY <1>1, <3>1
    <3>. QED  BY <3>4, <3>5, <3>7, <3>8, <3>9 DEF IInv, OnceParsed, WhileBinding,
              OnceBound, WhileOptimizing, OnceOptimized, OnceFailed
  <2>. QED  BY <2>4, <2>5
<1>4. CASE ParseEnds
  <2>1. /\ IsPipeline /\ next > Len(stages) /\ phase' = "binding" /\ next' = 1
        /\ current_schema' = schema /\ plan' = <<LogicalScan>>
        /\ UNCHANGED <<query, parsed, logical_plan, rewriting, shown, physical, error>>
    BY <1>4 DEF ParseEnds, IsPipeline, stages
  <2>2. /\ next = Len(stages) + 1 /\ Len(stages) \in Nat
        /\ Len(parsed) = Len(stages) /\ AreParsed(parsed, Len(stages))
    BY <1>1, <2>1, GivenStages DEF WhileParsing
  <2>3. /\ <<LogicalScan>> \in Seq(LogicalNode) /\ Len(<<LogicalScan>>) = 1
        /\ <<LogicalScan>>[1] = LogicalScan
    BY DEF LogicalNode
  <2>4. TypeOK'
    <3>1. (error' = "none") = (phase' # "failed")
      BY <1>1, <2>1 DEF TypeOK
    <3>. QED  BY <1>1, <2>1, <2>3, <3>1 DEF TypeOK, rewriting, shown
  <2>5. stages' = stages /\ (IsPipeline' <=> IsPipeline) /\ Given'
    BY <1>1, <2>1, QueryStays
  <2>6. OnceParsed'
    <3>1. AreParsed(parsed, Len(stages))'
      BY <2>1, <2>2, <2>5 DEF AreParsed
    <3>. QED  BY <2>1, <2>2, <2>5, <3>1 DEF OnceParsed
  <2>7. SchemaAt(<<LogicalScan>>, 1) = schema
    <3> DEFINE p == <<LogicalScan>>
    <3>1. p \in Seq(LogicalNode) /\ 1 \in 1 .. Len(p) /\ 1 - 1 = 0 /\ p[1].kind # "kProject"
      BY <2>3 DEF LogicalScan
    <3>. HIDE DEF p
    <3>2. SchemaAt(p, 1) = schema
      BY <3>1, SchemaSteps, SchemaEnds
    <3>. QED  BY <3>2 DEF p
  <2>8. IsPlanOf(<<LogicalScan>>, 0)
    <3>1. Visible(stages, 1) = ToSet(schema)
      BY DEF Visible
    <3>2. WellNamed(<<LogicalScan>>)
      BY <2>3 DEF WellNamed
    <3>. QED  BY <2>3, <2>7, <3>1, <3>2 DEF IsPlanOf
  <2>9. WhileBinding'
    <3>1. /\ IsPlanOf(plan, next - 1)' <=> IsPlanOf(plan', next' - 1)
          /\ SchemaAt(plan, next)' = SchemaAt(plan', next')
      BY <2>1, QueryStays
    <3>2. next' - 1 = 0
      BY <2>1
    <3>3. IsPlanOf(plan, next - 1)' /\ SchemaAt(plan, next)' = schema
      BY <2>1, <2>7, <2>8, <3>1, <3>2
    <3>. QED  BY <2>1, <2>2, <2>5, <3>3 DEF WhileBinding
  <2>10. BeforeOptimizing' /\ BeforeLowering' /\ (physical \in Seq({Lower(x) : x \in LogicalNode}))'
    BY <1>1, <2>1 DEF BeforeOptimizing, BeforeLowering, rewriting
  <2>. QED  BY <2>1, <2>4, <2>5, <2>6, <2>9, <2>10 DEF IInv, WhileParsing,
            OnceBound, WhileOptimizing, OnceOptimized, OnceFailed
<1>. QED  BY <1>2, <1>3, <1>4

LEMMA BindingKeeps ==
    ASSUME IInv, BindNext \/ BindEnds
    PROVE  IInv'
<1>1. /\ phase = "binding" /\ Given /\ TypeOK /\ OnceParsed /\ WhileBinding
      /\ logical_plan = <<>> /\ applied = FALSE /\ physical = <<>>
  BY DEF IInv, BindNext, BindEnds, BeforeOptimizing, BeforeLowering
<1>2. /\ IsPipeline /\ Len(parsed) = Len(stages) /\ AreParsed(parsed, Len(stages))
      /\ next \in 1 .. Len(stages) + 1 /\ IsPlanOf(plan, next - 1)
      /\ current_schema = SchemaAt(plan, next)
  BY <1>1 DEF OnceParsed, WhileBinding
<1>3. /\ schema \in Seq(Nat) /\ Len(stages) \in Nat
      /\ \A i \in 1 .. Len(stages) : IsStage(stages[i])
  BY <1>1, <1>2, GivenStages
<1>4. plan \in Seq(LogicalNode) /\ Len(plan) = next /\ current_schema \in Seq(Nat)
  BY <1>1, <1>2 DEF IsPlanOf, TypeOK
<1>5. CASE BindNext
  <2> DEFINE st == parsed[next]
             b == Bind(current_schema, st)
  <2>1. /\ next <= Len(parsed)
        /\ \/ b.error # "none" /\ Fail(b.error)
           \/ /\ b.error = "none"
              /\ plan' = Append(plan, NodeOf(st, b.value))
              /\ current_schema' = SchemaAfter(current_schema, st)
              /\ next' = next + 1
              /\ UNCHANGED <<query, phase, parsed, logical_plan, rewriting, shown, physical, error>>
    BY <1>5 DEF BindNext
  <2>2. /\ next \in 1 .. Len(stages) /\ IsStage(stages[next])
        /\ ParseStage(stages[next]).error = "none" /\ st = ParseStage(stages[next]).value
    BY <1>2, <1>3, <2>1 DEF AreParsed
  <2>. HIDE DEF st, b
  <2>3. CASE b.error # "none"
    <3>1. Visible(stages, next) = ToSet(current_schema)
      <4>1. next - 1 + 1 = next
        BY <2>2
      <4>. QED  BY <1>2, <4>1 DEF IsPlanOf
    <3>2. ~Written(stages, next)
      BY <1>4, <2>2, <2>3, <3>1, StageIsWritten DEF b
    <3>. QED  BY <1>1, <2>1, <2>2, <2>3, <3>2, Fails
  <2>4. CASE b.error = "none"
    <3>1. /\ plan' = Append(plan, NodeOf(st, b.value)) /\ next' = next + 1
          /\ current_schema' = SchemaAfter(current_schema, st)
          /\ UNCHANGED <<query, phase, parsed, logical_plan, rewriting, shown, physical, error>>
      BY <2>1, <2>4
    <3>2. /\ plan' \in Seq(LogicalNode) /\ IsPlanOf(plan', next)
          /\ SchemaAt(plan', next + 1) = current_schema' /\ current_schema' \in Seq(Nat)
      <4>1. /\ next - 1 \in Nat /\ (next - 1) + 1 = next /\ (next - 1) + 2 = next + 1
        BY <2>2
      <4>. HIDE DEF IInv
      <4>. QED  BY <1>1, <1>2, <1>4, <2>2, <2>4, <3>1, <4>1, PlanGrows DEF b
    <3>3. TypeOK'
      BY <1>1, <3>1, <3>2 DEF TypeOK, rewriting, shown
    <3>4. stages' = stages /\ (IsPipeline' <=> IsPipeline) /\ Given'
      BY <1>1, <3>1, QueryStays
    <3>5. OnceParsed'
      <4>1. AreParsed(parsed, Len(stages))'
        BY <1>2, <3>1, <3>4 DEF AreParsed
      <4>. QED  BY <1>2, <3>1, <3>4, <4>1 DEF OnceParsed
    <3>6. WhileBinding'
      <4>1. /\ IsPlanOf(plan, next - 1)' <=> IsPlanOf(plan', next' - 1)
            /\ SchemaAt(plan, next)' = SchemaAt(plan', next')
        BY <3>1, QueryStays
      <4>2. next' - 1 = next /\ next' \in 1 .. Len(stages) + 1
        BY <1>3, <2>2, <3>1
      <4>3. IsPlanOf(plan, next - 1)' /\ SchemaAt(plan, next)' = current_schema'
        BY <3>1, <3>2, <4>1, <4>2
      <4>. QED  BY <3>4, <4>2, <4>3 DEF WhileBinding
    <3>7. BeforeOptimizing' /\ BeforeLowering' /\ (physical \in Seq({Lower(x) : x \in LogicalNode}))'
      BY <1>1, <3>1 DEF BeforeOptimizing, BeforeLowering, rewriting
    <3>8. phase' = "binding"
      BY <1>1, <3>1
    <3>. QED  BY <3>3, <3>4, <3>5, <3>6, <3>7, <3>8 DEF IInv, WhileParsing,
              OnceBound, WhileOptimizing, OnceOptimized, OnceFailed
  <2>. QED  BY <2>3, <2>4
<1>6. CASE BindEnds
  <2>1. /\ next > Len(parsed) /\ phase' = "optimizing" /\ logical_plan' = plan
        /\ current' = Len(plan)
        /\ UNCHANGED <<query, next, parsed, current_schema, plan, applied, shown, physical, error>>
    BY <1>6 DEF BindEnds
  <2>2. next = Len(stages) + 1 /\ next - 1 = Len(stages)
    BY <1>2, <1>3, <2>1
  <2>3. TypeOK'
    <3>1. (error' = "none") = (phase' # "failed")
      BY <1>1, <2>1 DEF TypeOK
    <3>. QED  BY <1>1, <1>4, <2>1, <3>1 DEF TypeOK, shown
  <2>4. stages' = stages /\ (IsPipeline' <=> IsPipeline) /\ Given'
    BY <1>1, <2>1, QueryStays
  <2>5. OnceParsed'
    <3>1. AreParsed(parsed, Len(stages))'
      BY <1>2, <2>1, <2>4 DEF AreParsed
    <3>. QED  BY <1>2, <2>1, <2>4, <3>1 DEF OnceParsed
  <2>6. OnceBound'
    <3>1. IsPlanOf(logical_plan, Len(stages))' <=> IsPlanOf(logical_plan', Len(stages))
      BY <2>1, QueryStays
    <3>2. IsPlanOf(logical_plan, Len(stages))'
      BY <1>2, <2>1, <2>2, <3>1
    <3>3. \A i \in 2 .. Len(logical_plan') : ~(i > current')
      BY <1>4, <2>1
    <3>4. applied' = FALSE
      BY <1>1, <2>1
    <3>. QED  BY <3>2, <3>3, <3>4 DEF OnceBound
  <2>7. WhileOptimizing'
    <3>1. /\ WellNamed(plan)' <=> WellNamed(plan')
          /\ OutputSchemaOf(plan)' = OutputSchemaOf(plan')
      BY <2>1, QueryStays
    <3>2. /\ WellNamed(plan) /\ plan[1] = LogicalScan /\ OutputSchemaOf(plan) = current_schema
      BY <1>2, <1>4, SchemaEnds DEF IsPlanOf
    <3>3. \A i \in 2 .. Len(plan') : ~(i > current')
      BY <1>4, <2>1
    <3>. QED  BY <1>3, <1>4, <2>1, <2>2, <3>1, <3>2, <3>3 DEF WhileOptimizing
  <2>8. BeforeLowering' /\ (physical \in Seq({Lower(x) : x \in LogicalNode}))'
    BY <1>1, <2>1 DEF BeforeLowering
  <2>. QED  BY <2>1, <2>3, <2>4, <2>5, <2>6, <2>7, <2>8 DEF IInv, WhileParsing, WhileBinding,
            BeforeOptimizing, OnceOptimized, OnceFailed
<1>. QED  BY <1>5, <1>6

LEMMA RewritingKeeps ==
    ASSUME IInv, Rewrite \/ Descend
    PROVE  IInv'
<1>1. phase = "optimizing" /\ phase' = "optimizing"
  BY DEF Rewrite, Descend
<1>2. /\ Given /\ TypeOK /\ OnceParsed /\ OnceBound /\ WhileOptimizing /\ BeforeLowering
      /\ physical \in Seq({Lower(x) : x \in LogicalNode})
  BY DEF IInv
<1>3. /\ plan \in Seq(LogicalNode) /\ Len(plan) \in Nat /\ current \in 0 .. Len(plan)
      /\ logical_plan \in Seq(LogicalNode) /\ Len(logical_plan) \in Nat
      /\ Len(plan) <= Len(logical_plan) /\ Len(plan) > 0 /\ plan[1] = LogicalScan
      /\ WellNamed(plan) /\ OutputSchemaOf(plan) = current_schema
      /\ \A i \in 1 .. current : plan[i] = logical_plan[i]
      /\ \A i \in 2 .. Len(plan) : i > current => ~LimitOverSort(plan, i)
  BY <1>1, <1>2 DEF WhileOptimizing, TypeOK
<1>4. /\ UNCHANGED <<query, next, parsed, current_schema, logical_plan, shown, physical, error>>
      /\ phase' = phase
  BY <1>1 DEF Rewrite, Descend
<1>5. /\ stages' = stages /\ (IsPipeline' <=> IsPipeline) /\ Given'
      /\ WellNamed(plan)' <=> WellNamed(plan')
      /\ OutputSchemaOf(plan)' = OutputSchemaOf(plan')
      /\ IsPlanOf(logical_plan, Len(stages))' <=> IsPlanOf(logical_plan', Len(stages))
  BY <1>2, <1>4, QueryStays
<1>6. OnceParsed'
  <2>1. AreParsed(parsed, Len(stages))'
    BY <1>1, <1>2, <1>4, <1>5 DEF AreParsed, OnceParsed
  <2>. QED  BY <1>1, <1>2, <1>4, <1>5, <2>1 DEF OnceParsed
<1>7. IsPlanOf(logical_plan, Len(stages))'
  BY <1>1, <1>2, <1>4, <1>5 DEF OnceBound
<1>8. TypeOK' /\ OnceBound' /\ WhileOptimizing'
  <2>1. CASE Rewrite
    <3> DEFINE c == current
               x == Fused(plan[c - 1], plan[c])
               q == Replace(plan, c - 1, c, x)
    <3>1. /\ c \in 2 .. Len(plan) /\ plan[c].kind = "kLimit" /\ plan[c - 1].kind = "kSort"
          /\ plan' = q /\ applied' = TRUE /\ current' = c - 2
      BY <1>3, <2>1 DEF Rewrite, AtLimitOverSort
    <3>2. c >= 3
      <4>1. plan[1].kind # "kSort"
        BY <1>3 DEF LogicalScan
      <4>. QED  BY <3>1, <4>1
    <3>. HIDE DEF x, q
    <3>3. /\ x.kind = "kTopK" /\ q \in Seq(LogicalNode) /\ Len(q) = Len(plan) - 1
          /\ \A i \in 1 .. c - 2 : q[i] = plan[i]
          /\ q[c - 1] = x
          /\ \A i \in c .. Len(q) : q[i] = plan[i + 1]
      BY <1>3, <3>1, FusedNodes DEF x, q
    <3>4. WellNamed(q) /\ OutputSchemaOf(q) = OutputSchemaOf(plan)
      BY <1>3, <3>1, FusedKeepsNames DEF x, q
    <3>5. q[1] = LogicalScan
      BY <1>3, <3>2, <3>3
    <3>6. ASSUME NEW i \in 2 .. Len(q), i > c - 2 PROVE ~LimitOverSort(q, i)
      <4>1. CASE i = c - 1
        BY <3>3, <4>1 DEF LimitOverSort
      <4>2. CASE i = c
        BY <3>3, <4>2 DEF LimitOverSort
      <4>3. CASE i > c
        <5>1. /\ i \in c .. Len(q) /\ i - 1 \in c .. Len(q) /\ (i - 1) + 1 = i
              /\ (i + 1) - 1 = i /\ i + 1 \in 2 .. Len(plan) /\ i + 1 > c
          BY <1>3, <3>1, <3>3, <4>3
        <5>2. ~LimitOverSort(plan, i + 1)
          BY <1>3, <5>1
        <5>. QED  BY <3>3, <5>1, <5>2 DEF LimitOverSort
      <4>. QED  BY <3>1, <3>6, <4>1, <4>2, <4>3
    <3>7. TypeOK'
      <4>1. current' \in Nat
        BY <3>1, <3>2
      <4>. QED  BY <1>2, <1>4, <3>1, <3>3, <4>1 DEF TypeOK, shown
    <3>8. WhileOptimizing'
      <4>1. /\ c - 2 \in 0 .. Len(q) /\ Len(q) <= Len(logical_plan) /\ Len(q) > 0
            /\ \A i \in 1 .. c - 2 : q[i] = logical_plan[i]
        BY <1>3, <3>1, <3>2, <3>3
      <4>. QED  BY <1>3, <1>4, <1>5, <3>1, <3>4, <3>5, <3>6, <4>1 DEF WhileOptimizing
    <3>9. OnceBound'
      <4>1. c \in 2 .. Len(logical_plan) /\ c > c - 2 /\ LimitOverSort(logical_plan, c)
        <5>1. logical_plan[c] = plan[c] /\ logical_plan[c - 1] = plan[c - 1]
          BY <1>3, <3>1
        <5>. QED  BY <1>3, <3>1, <5>1 DEF LimitOverSort
      <4>2. \E i \in 2 .. Len(logical_plan') : i > current' /\ LimitOverSort(logical_plan', i)
        BY <1>4, <3>1, <4>1
      <4>. QED  BY <1>7, <3>1, <4>2 DEF OnceBound
    <3>. QED  BY <3>7, <3>8, <3>9
  <2>2. CASE Descend
    <3>1. /\ current > 0 /\ ~AtLimitOverSort /\ current' = current - 1
          /\ UNCHANGED <<plan, applied>>
      BY <2>2 DEF Descend, ChildSlot
    <3>2. current \in 1 .. Len(plan)
      BY <1>3, <3>1
    <3>3. ASSUME current \in 2 .. Len(plan)
          PROVE  ~LimitOverSort(plan, current) /\ ~LimitOverSort(logical_plan, current)
      <4>1. logical_plan[current] = plan[current] /\ logical_plan[current - 1] = plan[current - 1]
        BY <1>3, <3>3
      <4>. QED  BY <1>3, <3>1, <3>3, <4>1 DEF LimitOverSort, AtLimitOverSort
    <3>4. TypeOK'
      <4>1. current' \in Nat
        BY <3>1, <3>2
      <4>. QED  BY <1>2, <1>4, <3>1, <4>1 DEF TypeOK, shown
    <3>5. WhileOptimizing'
      <4>1. ASSUME NEW i \in 2 .. Len(plan), i > current - 1 PROVE ~LimitOverSort(plan, i)
        <5>1. i = current \/ i > current
          BY <1>3, <4>1
        <5>. QED  BY <1>3, <3>3, <5>1
      <4>2. current - 1 \in 0 .. Len(plan) /\ \A i \in 1 .. current - 1 : i \in 1 .. current
        BY <1>3, <3>2
      <4>. QED  BY <1>3, <1>4, <1>5, <3>1, <4>1, <4>2 DEF WhileOptimizing
    <3>6. OnceBound'
      <4>1. ASSUME NEW i \in 2 .. Len(logical_plan), LimitOverSort(logical_plan, i)
            PROVE  i > current <=> i > current - 1
        <5>1. i # current
          BY <3>2, <3>3, <4>1
        <5>. QED  BY <1>3, <5>1
      <4>2. applied <=> \E i \in 2 .. Len(logical_plan) : i > current /\ LimitOverSort(logical_plan, i)
        BY <1>1, <1>2 DEF OnceBound
      <4>3. applied' <=> \E i \in 2 .. Len(logical_plan') : i > current' /\ LimitOverSort(logical_plan', i)
        BY <1>4, <3>1, <4>1, <4>2
      <4>. QED  BY <1>7, <4>3 DEF OnceBound
    <3>. QED  BY <3>4, <3>5, <3>6
  <2>. QED  BY <2>1, <2>2
<1>9. BeforeLowering' /\ (physical \in Seq({Lower(x) : x \in LogicalNode}))'
  BY <1>1, <1>2, <1>4 DEF BeforeLowering
<1>. QED  BY <1>1, <1>5, <1>6, <1>8, <1>9 DEF IInv, WhileParsing, WhileBinding,
          BeforeOptimizing, OnceOptimized, OnceFailed

LEMMA OptimizeEndsKeeps ==
    ASSUME IInv, OptimizeEnds
    PROVE  IInv'
<1>1. /\ phase = "optimizing" /\ phase' = "lowering" /\ current = 0
      /\ optimized_plan' = plan /\ output_schema' = OutputSchemaOf(plan)
      /\ UNCHANGED <<query, next, parsed, current_schema, plan, logical_plan, rewriting, physical,
                     error>>
  BY DEF OptimizeEnds
<1>2. Given /\ TypeOK /\ OnceParsed /\ OnceBound /\ WhileOptimizing /\ physical = <<>>
  BY <1>1 DEF IInv, BeforeLowering
<1>3. /\ plan \in Seq(LogicalNode) /\ Len(plan) \in Nat
      /\ Len(plan) > 0 /\ plan[1] = LogicalScan
      /\ WellNamed(plan) /\ OutputSchemaOf(plan) = current_schema
      /\ \A i \in 2 .. Len(plan) : ~LimitOverSort(plan, i)
  BY <1>1, <1>2 DEF WhileOptimizing, TypeOK
<1>4. /\ stages' = stages /\ (IsPipeline' <=> IsPipeline) /\ Given'
      /\ WellNamed(optimized_plan)' <=> WellNamed(optimized_plan')
      /\ OutputSchemaOf(optimized_plan)' = OutputSchemaOf(optimized_plan')
      /\ IsPlanOf(logical_plan, Len(stages))' <=> IsPlanOf(logical_plan', Len(stages))
  BY <1>1, <1>2, QueryStays
<1>5. OnceParsed'
  <2>1. AreParsed(parsed, Len(stages))'
    BY <1>1, <1>2, <1>4 DEF AreParsed, OnceParsed
  <2>. QED  BY <1>1, <1>2, <1>4, <2>1 DEF OnceParsed
<1>6. OnceBound'
  BY <1>1, <1>2, <1>4 DEF OnceBound, rewriting, LimitOverSort
<1>7. TypeOK'
  <2>1. (error' = "none") = (phase' # "failed")
    BY <1>1, <1>2 DEF TypeOK
  <2>. QED  BY <1>1, <1>2, <1>3, <2>1 DEF TypeOK, rewriting
<1>8. OnceOptimized'
  <2>1. /\ Len(physical') = 0 /\ Len(physical') + Len(plan') = Len(optimized_plan')
        /\ \A i \in 1 .. Len(physical') : FALSE
        /\ \A i \in 1 .. Len(plan') : plan'[i] = optimized_plan'[Len(physical') + i]
    BY <1>1, <1>2, <1>3
  <2>. QED  BY <1>1, <1>3, <1>4, <2>1 DEF OnceOptimized, rewriting, LimitOverSort
<1>9. (physical \in Seq({Lower(x) : x \in LogicalNode}))'
  BY <1>1 DEF IInv
<1>. QED  BY <1>1, <1>4, <1>5, <1>6, <1>7, <1>8, <1>9 DEF IInv, WhileParsing, WhileBinding,
          BeforeOptimizing, WhileOptimizing, BeforeLowering, OnceFailed

LEMMA LoweringKeeps ==
    ASSUME IInv, LowerNext \/ LowerEnds
    PROVE  IInv'
<1>1. /\ phase = "lowering" /\ phase' \in {"lowering", "planned"}
      /\ UNCHANGED <<query, next, parsed, current_schema, logical_plan, rewriting, shown, error>>
  BY DEF LowerNext, LowerEnds
<1>2. /\ Given /\ TypeOK /\ OnceParsed /\ OnceBound /\ OnceOptimized
      /\ physical \in Seq({Lower(x) : x \in LogicalNode}) /\ plan \in Seq(LogicalNode)
      /\ optimized_plan \in Seq(LogicalNode)
  BY DEF IInv, TypeOK
<1>3. /\ Len(physical) + Len(plan) = Len(optimized_plan)
      /\ Len(physical) \in Nat /\ Len(plan) \in Nat
      /\ \A i \in 1 .. Len(physical) : physical[i] = Lower(optimized_plan[i])
      /\ \A i \in 1 .. Len(plan) : plan[i] = optimized_plan[Len(physical) + i]
  BY <1>1, <1>2 DEF OnceOptimized
<1>4. /\ stages' = stages /\ (IsPipeline' <=> IsPipeline) /\ Given'
      /\ WellNamed(optimized_plan)' <=> WellNamed(optimized_plan')
      /\ OutputSchemaOf(optimized_plan)' = OutputSchemaOf(optimized_plan')
      /\ IsPlanOf(logical_plan, Len(stages))' <=> IsPlanOf(logical_plan', Len(stages))
      /\ WellNamed(optimized_plan') <=> WellNamed(optimized_plan)
      /\ OutputSchemaOf(optimized_plan') = OutputSchemaOf(optimized_plan)
  <2>1. optimized_plan' = optimized_plan
    BY <1>1 DEF shown
  <2>. QED  BY <1>1, <1>2, <2>1, QueryStays
<1>5. OnceParsed'
  <2>1. AreParsed(parsed, Len(stages))'
    BY <1>1, <1>2, <1>4 DEF AreParsed, OnceParsed
  <2>. QED  BY <1>1, <1>2, <1>4, <2>1 DEF OnceParsed
<1>6. OnceBound'
  BY <1>1, <1>2, <1>4 DEF OnceBound, rewriting, LimitOverSort
<1>7. /\ plan' \in Seq(LogicalNode) /\ physical' \in Seq({Lower(x) : x \in LogicalNode})
      /\ Len(physical') + Len(plan') = Len(optimized_plan)
      /\ \A i \in 1 .. Len(physical') : physical'[i] = Lower(optimized_plan[i])
      /\ \A i \in 1 .. Len(plan') : plan'[i] = optimized_plan[Len(physical') + i]
      /\ phase' = "planned" => plan' = <<>>
  <2>1. CASE LowerNext
    <3>1. /\ plan # <<>> /\ plan' = Tail(plan) /\ physical' = Append(physical, Lower(Head(plan)))
          /\ phase' = "lowering"
      BY <1>1, <2>1 DEF LowerNext
    <3>2. /\ Len(plan) > 0 /\ Head(plan) = plan[1] /\ plan[1] \in LogicalNode
          /\ plan' \in Seq(LogicalNode) /\ Len(plan') = Len(plan) - 1
          /\ \A i \in 1 .. Len(plan) - 1 : plan'[i] = plan[i + 1]
      BY <1>2, <3>1
    <3>3. Lower(plan[1]) \in {Lower(x) : x \in LogicalNode}
      BY <3>2
    <3>. HIDE DEF IInv
    <3>4. /\ physical' \in Seq({Lower(x) : x \in LogicalNode}) /\ Len(physical') = Len(physical) + 1
          /\ physical'[Len(physical) + 1] = Lower(plan[1])
          /\ \A i \in 1 .. Len(physical) : physical'[i] = physical[i]
      BY <1>2, <3>1, <3>2, <3>3
    <3>5. plan[1] = optimized_plan[Len(physical) + 1]
      BY <1>3, <3>2
    <3>6. ASSUME NEW i \in 1 .. Len(physical') PROVE physical'[i] = Lower(optimized_plan[i])
      <4>1. i \in 1 .. Len(physical) \/ i = Len(physical) + 1
        BY <1>3, <3>4
      <4>. QED  BY <1>3, <3>4, <3>5, <4>1
    <3>7. ASSUME NEW i \in 1 .. Len(plan') PROVE plan'[i] = optimized_plan[Len(physical') + i]
      <4>1. /\ i \in 1 .. Len(plan) - 1 /\ i + 1 \in 1 .. Len(plan)
            /\ Len(physical) + (i + 1) = Len(physical') + i
        BY <1>3, <3>2, <3>4
      <4>. QED  BY <1>3, <3>2, <4>1
    <3>. QED  BY <1>3, <3>1, <3>2, <3>4, <3>6, <3>7
  <2>2. CASE LowerEnds
    <3>1. plan = <<>> /\ plan' = plan /\ physical' = physical
      BY <2>2 DEF LowerEnds
    <3>. QED  BY <1>2, <1>3, <3>1
  <2>. QED  BY <2>1, <2>2
<1>8. TypeOK'
  <2>1. (error' = "none") = (phase' # "failed")
    BY <1>1, <1>2 DEF TypeOK
  <2>. QED  BY <1>1, <1>2, <1>7, <2>1 DEF TypeOK, rewriting, shown
<1>9. OnceOptimized'
  BY <1>1, <1>2, <1>4, <1>7 DEF OnceOptimized, rewriting, shown, LimitOverSort
<1>. QED  BY <1>1, <1>4, <1>5, <1>6, <1>7, <1>8, <1>9 DEF IInv, WhileParsing, WhileBinding,
          BeforeOptimizing, WhileOptimizing, BeforeLowering, OnceFailed

LEMMA NextInv == IInv /\ [Next]_vars => IInv'
<1>. SUFFICES ASSUME IInv, [Next]_vars PROVE IInv'
  OBVIOUS
<1>1. CASE PipelineIsNoArray \/ ParseNext \/ ParseEnds
  BY <1>1, ParsingKeeps
<1>2. CASE BindNext \/ BindEnds
  BY <1>2, BindingKeeps
<1>3. CASE Rewrite \/ Descend
  BY <1>3, RewritingKeeps
<1>4. CASE OptimizeEnds
  BY <1>4, OptimizeEndsKeeps
<1>5. CASE LowerNext \/ LowerEnds
  BY <1>5, LoweringKeeps
<1>6. CASE UNCHANGED vars
  <2>1. /\ UNCHANGED query
        /\ UNCHANGED <<phase, next, parsed, current_schema, plan, logical_plan, current, applied,
                       optimized_plan, output_schema, physical, error>>
    BY <1>6 DEF vars, rewriting, shown
  <2>2. /\ stages' = stages /\ (IsPipeline' <=> IsPipeline) /\ (Given' <=> Given)
        /\ OutputSchemaOf(plan)' = OutputSchemaOf(plan)
        /\ OutputSchemaOf(optimized_plan)' = OutputSchemaOf(optimized_plan)
        /\ SchemaAt(plan, next)' = SchemaAt(plan, next)
        /\ WellNamed(plan)' <=> WellNamed(plan)
        /\ WellNamed(optimized_plan)' <=> WellNamed(optimized_plan)
        /\ IsPlanOf(plan, next - 1)' <=> IsPlanOf(plan, next - 1)
        /\ IsPlanOf(logical_plan, Len(stages))' <=> IsPlanOf(logical_plan, Len(stages))
        /\ (\A i \in 1 .. Len(stages) : Written(stages, i))'
             <=> \A i \in 1 .. Len(stages) : Written(stages, i)
    BY <2>1, QueryStays
  <2>3. TypeOK' /\ (physical \in Seq({Lower(x) : x \in LogicalNode}))'
    BY <2>1 DEF IInv, TypeOK
  <2>4. WhileParsing' /\ OnceParsed'
    BY <2>1, <2>2 DEF IInv, WhileParsing, OnceParsed, AreParsed
  <2>5. WhileBinding' /\ BeforeOptimizing' /\ OnceBound'
    BY <2>1, <2>2 DEF IInv, WhileBinding, BeforeOptimizing, OnceBound, LimitOverSort
  <2>6. WhileOptimizing' /\ BeforeLowering'
    BY <2>1, <2>2 DEF IInv, WhileOptimizing, BeforeLowering, LimitOverSort
  <2>7. OnceOptimized'
    BY <2>1, <2>2 DEF IInv, OnceOptimized, LimitOverSort
  <2>8. OnceFailed'
    BY <2>1, <2>2 DEF IInv, OnceFailed
  <2>. QED  BY <2>2, <2>3, <2>4, <2>5, <2>6, <2>7, <2>8 DEF IInv
<1>. QED  BY <1>1, <1>2, <1>3, <1>4, <1>5, <1>6 DEF Next, Step, Over

LEMMA InvariantHolds == Spec => []IInv
BY Starts, NextInv, PTL DEF Spec

-----------------------------------------------------------------------------
\* Whatever the pipeline and the table, planning keeps the types of its variables:
\* every node of a plan has columns, an operator, a direction and a limit of no sign,
\* and an error is there just when planning failed.
THEOREM PlansAreTyped == Spec => []TypeOK
<1>1. IInv => TypeOK
  BY DEF IInv
<1>. QED  BY InvariantHolds, <1>1, PTL

\* Every column of a bound plan is that of its name in the rows that reach the node,
\* at every step of the optimizer (binder.cpp:77,102).
THEOREM ColumnsAreThoseOfNames == Spec => []ColumnsMatchNames
<1>1. IInv => ColumnsMatchNames
  <2>. SUFFICES ASSUME IInv, phase = "optimizing", NEW i \in 2 .. Len(plan)
                PROVE  LET below == SchemaAt(plan, i - 1)
                           Named(column, name) == column \in DOMAIN below /\ below[column] = name
                       IN  /\ plan[i].kind \in {"kSort", "kTopK"} =>
                                 Named(plan[i].sort.column, plan[i].name)
                           /\ plan[i].kind = "kProject" =>
                                 \A j \in DOMAIN plan[i].columns :
                                     Named(plan[i].columns[j], plan[i].names[j])
                           /\ plan[i].kind = "kFilter" =>
                                 \A c \in ToSet(plan[i].predicate) : Named(c.column, c.field)
    BY DEF ColumnsMatchNames
  <2>1. UsesNames(plan[i], SchemaAt(plan, i - 1))
    BY DEF IInv, WhileOptimizing, WellNamed
  <2>. QED  BY <2>1 DEF UsesNames
<1>. QED  BY InvariantHolds, <1>1, PTL

LEMMA WhilePlanned ==
    ASSUME IInv, phase \in {"optimizing", "lowering", "planned"}
    PROVE  /\ IsPipeline /\ Len(stages) \in Nat /\ DOMAIN stages = 1 .. Len(stages)
           /\ Len(logical_plan) = Len(stages) + 1
           /\ \A i \in 1 .. Len(stages) :
                 /\ Written(stages, i)
                 /\ NodeSays(stages[i], logical_plan[i + 1], SchemaAt(logical_plan, i))
                 /\ NodeAsks(stages[i], logical_plan[i + 1], SchemaAt(logical_plan, i))
<1>1. Given /\ OnceParsed /\ OnceBound
  BY DEF IInv
<1>2. IsPipeline /\ IsPlanOf(logical_plan, Len(stages))
  BY <1>1 DEF OnceParsed, OnceBound
<1>. QED  BY <1>1, <1>2, GivenStages DEF IsPlanOf

\* The plan the binder made says what is written in the document, stage by stage
\* (pipeline_parser.cpp:19-26,41-75, binder.cpp:29-69,80-112).
THEOREM PlansSayWhatIsWritten == Spec => []PlanSaysWhatIsWritten
<1>1. IInv => PlanSaysWhatIsWritten
  <2>. SUFFICES ASSUME IInv, logical_plan # <<>> PROVE PlanSaysWhatIsWritten
    BY DEF PlanSaysWhatIsWritten
  <2>1. phase \in {"optimizing", "lowering", "planned"}
    BY DEF IInv, TypeOK, BeforeOptimizing
  <2>2. /\ Len(stages) \in Nat /\ DOMAIN stages = 1 .. Len(stages)
        /\ Len(logical_plan) = Len(stages) + 1
        /\ \A i \in 1 .. Len(stages) :
              NodeSays(stages[i], logical_plan[i + 1], SchemaAt(logical_plan, i))
    BY <2>1, WhilePlanned
  <2>. HIDE DEF IInv
  <2>3. \A i \in DOMAIN stages :
           NodeSays(stages[i], logical_plan[i + 1], SchemaAt(logical_plan, i))
    BY <2>2
  <2>. QED  BY Zenon, <2>2, <2>3 DEF PlanSaysWhatIsWritten, NodeSays, stages
<1>. QED  BY InvariantHolds, <1>1, PTL

\* A pipeline is planned just when it is one of the language: an array of stages, every
\* one well-formed and with names that are there (pipeline_parser.cpp:60-144,
\* binder.cpp:21-113).
THEOREM JustTheValidArePlanned == Spec => []PlansJustTheValid
<1>1. IInv => PlansJustTheValid
  <2>. SUFFICES ASSUME IInv, phase \in {"planned", "failed"}
                PROVE  phase = "planned" <=> /\ IsPipeline
                                             /\ \A i \in DOMAIN stages : Written(stages, i)
    BY DEF PlansJustTheValid, Finished, stages, IsPipeline
  <2>1. CASE phase = "planned"
    BY <2>1, WhilePlanned
  <2>2. CASE phase = "failed"
    <3>1. Given /\ (~IsPipeline \/ \E i \in 1 .. Len(stages) : ~Written(stages, i))
      BY <2>2 DEF IInv, OnceFailed
    <3>. QED  BY <2>2, <3>1, GivenStages
  <2>. QED  BY <2>1, <2>2
<1>. QED  BY InvariantHolds, <1>1, PTL

LEMMA LoweredPlan ==
    ASSUME IInv, phase = "planned"
    PROVE  /\ optimized_plan \in Seq(LogicalNode) /\ Len(optimized_plan) \in Nat
           /\ Len(optimized_plan) > 0 /\ optimized_plan[1] = LogicalScan /\ WellNamed(optimized_plan)
           /\ \A i \in 2 .. Len(optimized_plan) : ~LimitOverSort(optimized_plan, i)
           /\ output_schema = OutputSchemaOf(optimized_plan) /\ output_schema = current_schema
           /\ DOMAIN physical = 1 .. Len(optimized_plan) /\ Len(physical) = Len(optimized_plan)
           /\ \A i \in 1 .. Len(optimized_plan) : physical[i] = Lower(optimized_plan[i])
<1>1. /\ optimized_plan \in Seq(LogicalNode) /\ OnceOptimized
      /\ physical \in Seq({Lower(x) : x \in LogicalNode})
  BY DEF IInv, TypeOK
<1>2. plan = <<>> /\ Len(physical) + Len(plan) = Len(optimized_plan)
  BY <1>1 DEF OnceOptimized
<1>3. /\ Len(physical) \in Nat /\ DOMAIN physical = 1 .. Len(physical)
      /\ Len(optimized_plan) \in Nat
  BY <1>1
<1>4. Len(physical) = Len(optimized_plan)
  BY <1>2, <1>3
<1>. QED  BY <1>1, <1>3, <1>4 DEF OnceOptimized

\* No limit is left over a sort, however many there were and wherever, and the trace
\* says whether there was one (sort_limit_to_topk_rule.cpp:34-62).
THEOREM EveryLimitOverSortIsFused == Spec => []NothingLeftToRewrite
<1>1. IInv => NothingLeftToRewrite
  <2>. SUFFICES ASSUME IInv, phase = "planned" PROVE NothingLeftToRewrite
    BY DEF NothingLeftToRewrite
  <2>1. ASSUME NEW i \in 2 .. Len(physical), physical[i].stage = "Limit"
        PROVE  physical[i - 1].stage # "Sort"
    <3>1. /\ i \in 1 .. Len(optimized_plan) /\ i - 1 \in 1 .. Len(optimized_plan)
          /\ i \in 2 .. Len(optimized_plan)
      BY LoweredPlan
    <3>2. /\ optimized_plan[i] \in LogicalNode /\ optimized_plan[i - 1] \in LogicalNode
          /\ physical[i] = Lower(optimized_plan[i]) /\ physical[i - 1] = Lower(optimized_plan[i - 1])
          /\ ~LimitOverSort(optimized_plan, i)
      BY <3>1, LoweredPlan
    <3>3. ASSUME NEW x \in LogicalNode
          PROVE  /\ Lower(x).stage = "Limit" => x.kind = "kLimit"
                 /\ Lower(x).stage = "Sort" => x.kind = "kSort"
      BY NodesOf DEF Lower, Scan, Filter, Project, Sort, Limit, TopK
    <3>. QED  BY <2>1, <3>2, <3>3 DEF LimitOverSort
  <2>2. applied <=> \E i \in 2 .. Len(logical_plan) :
                       logical_plan[i].kind = "kLimit" /\ logical_plan[i - 1].kind = "kSort"
    <3>1. OnceBound /\ current = 0
      BY DEF IInv, OnceOptimized
    <3>2. \A i \in 2 .. Len(logical_plan) : i > current
      BY <3>1
    <3>. QED  BY <3>1, <3>2 DEF OnceBound, LimitOverSort
  <2>. QED  BY <2>1, <2>2 DEF NothingLeftToRewrite
<1>. QED  BY InvariantHolds, <1>1, PTL

\* The schema of the result, read off the optimized plan, is the one the binder ended
\* with, and the stages built are well bound and yield rows of its width.
THEOREM OutputSchemasFit == Spec => []OutputSchemaFits
<1>1. IInv => OutputSchemaFits
  <2>. SUFFICES ASSUME IInv, phase = "planned" PROVE OutputSchemaFits
    BY DEF OutputSchemaFits
  <2> DEFINE p == optimized_plan
  <2>1. /\ p \in Seq(LogicalNode) /\ Len(p) \in Nat /\ Len(p) > 0 /\ p[1] = LogicalScan
        /\ WellNamed(p) /\ output_schema = OutputSchemaOf(p) /\ output_schema = current_schema
        /\ DOMAIN physical = 1 .. Len(p) /\ Len(physical) = Len(p)
        /\ \A i \in 1 .. Len(p) : physical[i] = Lower(p[i])
    BY LoweredPlan
  <2>2. schema \in Seq(Nat)
    BY GivenStages DEF IInv
  <2>. HIDE DEF p
  <2>3. /\ \A i \in 1 .. Len(p) : WidthAt(physical, Len(schema))[i] = Len(SchemaAt(p, i))
        /\ WellBound(physical, Len(schema))
    BY <2>1, <2>2, WidthsFit
  <2>4. SchemaAt(p, Len(p)) = OutputSchemaOf(p)
    BY <2>1, SchemaEnds
  <2>5. Len(physical) \in 1 .. Len(p) /\ Len(physical) = Len(p)
    BY <2>1
  <2>. QED  BY <2>1, <2>3, <2>4, <2>5 DEF OutputSchemaFits
<1>. QED  BY InvariantHolds, <1>1, PTL
-----------------------------------------------------------------------------
(***************************************************************************)
(* What the optimizer does to the meaning of a plan.                       *)
(***************************************************************************)
LEMMA NodesFit ==
    ASSUME NEW x \in LogicalNode, NEW below \in Seq(Nat), UsesNames(x, below)
    PROVE  /\ FitsOver(Lower(x), Len(below))
           /\ WidthOver(Lower(x), Len(below)) = IF x.kind = "kProject" THEN Len(x.names)
                                                ELSE Len(below)
<1> DEFINE width == Len(below)
<1>1. DOMAIN below = 1 .. width
  OBVIOUS
<1>2. CASE x.kind = "kFilter"
  <2>1. Lower(x).stage = "Filter"
    BY <1>2 DEF Lower, Filter
  <2>. QED  BY <1>2, <2>1 DEF FitsOver, WidthOver
<1>3. CASE x.kind = "kProject"
  <2>1. /\ Lower(x).stage = "Project" /\ Lower(x).columns = x.columns
        /\ x.columns \in Seq(Nat \ {0}) /\ Len(x.columns) = Len(x.names)
        /\ \A j \in DOMAIN x.columns : x.columns[j] \in 1 .. width
    BY <1>1, <1>3, NodesOf DEF Lower, Project, UsesNames
  <2>2. x.columns \in Seq(1 .. width)
    <3> DEFINE cs == x.columns
    <3>1. /\ cs \in Seq(Nat \ {0}) /\ \A j \in DOMAIN cs : cs[j] \in 1 .. width
      BY <2>1
    <3>. HIDE DEF cs, width
    <3>2. /\ Len(cs) \in Nat /\ DOMAIN cs = 1 .. Len(cs)
          /\ cs = [j \in 1 .. Len(cs) |-> cs[j]]
      BY <3>1
    <3>3. cs \in [1 .. Len(cs) -> 1 .. width]
      BY <3>1, <3>2
    <3>4. cs \in Seq(1 .. width)
      BY <3>2, <3>3, ListIsSequence
    <3>. QED  BY <3>4 DEF cs
  <2>. QED  BY <1>3, <2>1, <2>2 DEF FitsOver, WidthOver
<1>4. CASE x.kind = "kLimit"
  <2>1. x.limit \in Nat
    BY <1>4 DEF LogicalNode, LogicalScan
  <2>2. Lower(x).stage = "Limit" /\ Lower(x).limit = x.limit
    BY <1>4 DEF Lower, Limit
  <2>. QED  BY <1>4, <2>1, <2>2 DEF FitsOver, WidthOver
<1>5. CASE x.kind \in {"kSort", "kTopK"}
  <2>1. x.sort \in [column : Nat \ {0}, direction : SortDirection] /\ (x.kind = "kTopK" => x.k \in Nat)
    BY <1>5 DEF LogicalNode, LogicalScan
  <2>2. x.sort.column \in 1 .. width /\ x.sort.direction \in SortDirection
    BY <1>1, <1>5, <2>1 DEF UsesNames
  <2>3. /\ Lower(x).stage = IF x.kind = "kSort" THEN "Sort" ELSE "TopK"
        /\ Lower(x).sort = [column |-> x.sort.column, direction |-> x.sort.direction]
        /\ x.kind = "kTopK" => Lower(x).k = x.k
    BY <1>5 DEF Lower, Sort, TopK
  <2>. QED  BY <1>5, <2>1, <2>2, <2>3 DEF FitsOver, WidthOver
<1>. QED  BY <1>2, <1>3, <1>4, <1>5, NodesOf DEF UsesNames

\* The widths of the rows that leave the nodes of a plan.
Widths(p) == [i \in 1 .. Len(p) |-> Len(SchemaAt(p, i))]

LEMMA PlansFit ==
    ASSUME NEW p \in Seq(LogicalNode), Len(p) > 0, p[1] = LogicalScan, WellNamed(p),
           schema \in Seq(Nat)
    PROVE  /\ AreStages(Lowered(p), Len(p)) /\ FitTogether(Lowered(p), Len(p), Widths(p))
           /\ Widths(p)[1] = Len(schema)
<1> DEFINE w == [i \in 1 .. Len(p) |-> Len(SchemaAt(p, i))]
<1>1. /\ Len(p) \in Nat /\ DOMAIN p = 1 .. Len(p) /\ 1 \in 1 .. Len(p)
      /\ \A i \in 1 .. Len(p) : p[i] \in LogicalNode
  OBVIOUS
<1>2. AreStages(Lowered(p), Len(p))
  BY <1>1 DEF AreStages, Lowered
<1>3. SchemaAt(p, 1) = schema
  BY <1>1, SchemaSteps, SchemaEnds DEF LogicalScan
<1>4. ASSUME NEW i \in 2 .. Len(p)
      PROVE  FitsOver(Lowered(p)[i], w[i - 1]) /\ w[i] = WidthOver(Lowered(p)[i], w[i - 1])
  <2> DEFINE below == SchemaAt(p, i - 1)
  <2>1. /\ i \in 1 .. Len(p) /\ i - 1 \in 1 .. Len(p) /\ i - 1 \in 0 .. Len(p)
        /\ p[i] \in LogicalNode /\ Lowered(p)[i] = Lower(p[i])
    BY <1>1 DEF Lowered
  <2>2. below \in Seq(Nat) /\ UsesNames(p[i], below)
    BY <2>1, SchemasAreNames DEF WellNamed
  <2>3. SchemaAt(p, i) = IF p[i].kind = "kProject" THEN p[i].names ELSE below
    BY <2>1, SchemaSteps
  <2>4. w[i - 1] = Len(below) /\ w[i] = Len(SchemaAt(p, i))
    BY <2>1
  <2>. HIDE DEF below, w
  <2>5. /\ FitsOver(Lower(p[i]), Len(below))
        /\ WidthOver(Lower(p[i]), Len(below)) = IF p[i].kind = "kProject" THEN Len(p[i].names)
                                                ELSE Len(below)
    BY <2>1, <2>2, NodesFit
  <2>. QED  BY <2>1, <2>3, <2>4, <2>5
<1>5. w[1] = Len(schema)
  BY <1>1, <1>3
<1>. QED  BY <1>2, <1>4, <1>5 DEF FitTogether, Widths

\* One rewrite leaves a plan its meaning, over every table of the schema.
LEMMA RewriteKeepsMeaning ==
    ASSUME NEW p \in Seq(LogicalNode), Len(p) > 0, p[1] = LogicalScan, WellNamed(p),
           schema \in Seq(Nat), NEW c \in 2 .. Len(p), LimitOverSort(p, c),
           NEW t, AreRows(t, Len(schema))
    PROVE  MeansStill(Outcomes(Lowered(p), t),
                 Outcomes(Lowered(Replace(p, c - 1, c, Fused(p[c - 1], p[c]))), t))
<1> DEFINE x == Fused(p[c - 1], p[c])
           q == Replace(p, c - 1, c, x)
           N == Len(p)
           w == Widths(p)
           before == Lowered(p)
           after == Lowered(q)
           sort == p[c - 1].sort
           limit == p[c].limit
<1>1. /\ p[c].kind = "kLimit" /\ p[c - 1].kind = "kSort"
      /\ N \in Nat /\ p[c] \in LogicalNode /\ p[c - 1] \in LogicalNode
  BY DEF LimitOverSort
<1>2. c \in 3 .. N
  <2>1. c # 2
    BY <1>1 DEF LogicalScan
  <2>. QED  BY <2>1
<1>3. /\ q \in Seq(LogicalNode) /\ Len(q) = N - 1 /\ q[c - 1] = x
      /\ \A i \in 1 .. c - 2 : q[i] = p[i]
      /\ \A i \in c .. Len(q) : q[i] = p[i + 1]
  BY <1>1, FusedNodes
<1>4. AreStages(before, N) /\ FitTogether(before, N, w) /\ w[1] = Len(schema)
  BY PlansFit
<1>5. limit \in Nat
  BY <1>1 DEF LogicalNode, LogicalScan
<1>6. sort \in [column : Nat \ {0}, direction : SortDirection]
  BY <1>1 DEF LogicalNode, LogicalScan
<1>7. sort.column \in 1 .. w[c - 2]
  <2>1. c - 1 \in 2 .. N /\ (c - 1) - 1 = c - 2 /\ c - 2 \in 1 .. N /\ c - 2 \in 0 .. N
    BY <1>2
  <2>2. UsesNames(p[c - 1], SchemaAt(p, c - 2))
    BY <2>1 DEF WellNamed
  <2>3. SchemaAt(p, c - 2) \in Seq(Nat) /\ w[c - 2] = Len(SchemaAt(p, c - 2))
    BY <2>1, SchemasAreNames DEF Widths
  <2>4. sort.column \in DOMAIN SchemaAt(p, c - 2)
    BY <1>1, <2>2 DEF UsesNames
  <2>. HIDE DEF w, sort
  <2>. QED  BY <2>3, <2>4
<1>8. /\ before[c] = Limit(limit) /\ before[c - 1] = Sort(sort.column, sort.direction)
  BY <1>1, <1>2 DEF Lowered, Lower
<1>9. Lower(x) = TopK(sort.column, sort.direction, limit)
  BY DEF Fused, LogicalTopK, Lower
<1>. HIDE DEF x, q, sort, limit, w
<1>10. DOMAIN p = 1 .. N /\ DOMAIN q = 1 .. N - 1
  BY <1>3
<1>11. /\ AreStages(after, N - 1) /\ after[c - 1] = TopK(sort.column, sort.direction, limit)
       /\ \A i \in 1 .. c - 2 : after[i] = before[i]
       /\ \A i \in c .. N - 1 : after[i] = before[i + 1]
  <2>1. /\ N - 1 \in Nat /\ N - 1 > 0 /\ c - 1 \in 1 .. N - 1
        /\ \A i \in 1 .. c - 2 : i \in 1 .. N - 1 /\ i \in 1 .. N
        /\ \A i \in c .. N - 1 : i \in 1 .. N - 1 /\ i + 1 \in 1 .. N
    BY <1>1, <1>2
  <2>2. /\ \A i \in 1 .. N - 1 : after[i] = Lower(q[i])
        /\ \A i \in 1 .. N : before[i] = Lower(p[i])
        /\ DOMAIN after = 1 .. N - 1
    BY <1>10 DEF Lowered
  <2>3. Len(after) = N - 1
    BY <2>1, <2>2
  <2>. HIDE DEF after, before
  <2>4. AreStages(after, N - 1)
    BY <2>1, <2>2, <2>3 DEF AreStages
  <2>. QED  BY <1>3, <1>9, <2>1, <2>2, <2>4
<1>. HIDE DEF before, after
<1>12. MeansStill(Outcomes(before, t), Outcomes(after, t))
  <2> DEFINE column == sort.column
             direction == sort.direction
  <2>1. /\ AreStages(before, N) /\ FitTogether(before, N, w) /\ AreRows(t, w[1])
        /\ c \in 3 .. N /\ column \in 1 .. w[c - 2]
        /\ direction \in SortDirection /\ limit \in Nat
    BY <1>2, <1>4, <1>5, <1>6, <1>7
  <2>2. /\ before[c] = Limit(limit) /\ before[c - 1] = Sort(column, direction)
        /\ AreStages(after, N - 1) /\ after[c - 1] = TopK(column, direction, limit)
        /\ \A i \in 1 .. c - 2 : after[i] = before[i]
        /\ \A i \in c .. N - 1 : after[i] = before[i + 1]
    BY <1>8, <1>11
  <2>. HIDE DEF column, direction, N
  <2>. QED  BY <2>1, <2>2, FusingKeepsMeaning, ZenonT(60)
<1>. QED  BY <1>12 DEF before, after, q, x

\* The plan p means over every table of the schema what the bound plan means, or opens
\* where a clash of its sort kept that from opening.
SameMeaning(p) ==
    \A t : AreRows(t, Len(schema)) =>
        MeansStill(Outcomes(Lowered(logical_plan), t), Outcomes(Lowered(p), t))

\* What the optimizer keeps, step by step, and leaves.
Meant ==
    /\ phase = "optimizing" => SameMeaning(plan)
    /\ phase \in {"lowering", "planned"} => SameMeaning(optimized_plan)

LEMMA MeantStarts == Init => Meant
BY DEF Init, Meant

LEMMA MeantKeeps == IInv /\ Meant /\ [Next]_vars => Meant'
<1>. SUFFICES ASSUME IInv, Meant, [Next]_vars PROVE Meant'
  OBVIOUS
<1>1. CASE PipelineIsNoArray \/ ParseNext \/ ParseEnds \/ BindNext
  BY <1>1 DEF PipelineIsNoArray, ParseNext, ParseEnds, BindNext, Fail, Meant
<1>2. CASE BindEnds
  <2>1. phase' = "optimizing" /\ plan' = logical_plan'
    BY <1>2 DEF BindEnds
  <2>2. SameMeaning(plan)'
    BY <2>1 DEF SameMeaning, MeansStill
  <2>. QED  BY <2>1, <2>2 DEF Meant
<1>3. CASE Rewrite
  <2>1. /\ phase = "optimizing" /\ phase' = "optimizing"
        /\ logical_plan' = logical_plan /\ schema' = schema
        /\ current > 1 /\ LimitOverSort(plan, current)
        /\ plan' = Replace(plan, current - 1, current, Fused(plan[current - 1], plan[current]))
    BY <1>3 DEF Rewrite, AtLimitOverSort, LimitOverSort, query
  <2>2. /\ plan \in Seq(LogicalNode) /\ current \in 2 .. Len(plan) /\ Len(plan) > 0
        /\ plan[1] = LogicalScan /\ WellNamed(plan) /\ schema \in Seq(Nat)
    BY <2>1, GivenStages DEF IInv, TypeOK, WhileOptimizing, Given
  <2>3. ASSUME NEW t, AreRows(t, Len(schema))
        PROVE  MeansStill(Outcomes(Lowered(logical_plan), t), Outcomes(Lowered(plan'), t))
    <3>1. MeansStill(Outcomes(Lowered(plan), t), Outcomes(Lowered(plan'), t))
      BY <2>1, <2>2, <2>3, RewriteKeepsMeaning
    <3>2. MeansStill(Outcomes(Lowered(logical_plan), t), Outcomes(Lowered(plan), t))
      BY <2>1, <2>3 DEF Meant, SameMeaning
    <3>. QED  BY <3>1, <3>2 DEF MeansStill
  <2>4. SameMeaning(plan)'
    BY <2>1, <2>3 DEF SameMeaning
  <2>. QED  BY <2>1, <2>4 DEF Meant
<1>4. CASE Descend
  BY <1>4 DEF Descend, Meant, SameMeaning, query
<1>5. CASE OptimizeEnds
  <2>1. /\ phase = "optimizing" /\ phase' = "lowering" /\ optimized_plan' = plan
        /\ UNCHANGED <<logical_plan, schema>>
    BY <1>5 DEF OptimizeEnds, query
  <2>2. SameMeaning(optimized_plan)'
    BY <2>1 DEF Meant, SameMeaning
  <2>. QED  BY <2>1, <2>2 DEF Meant
<1>6. CASE LowerNext \/ LowerEnds
  <2>1. /\ phase = "lowering" /\ phase' \in {"lowering", "planned"}
        /\ UNCHANGED <<logical_plan, optimized_plan, schema>>
    BY <1>6 DEF LowerNext, LowerEnds, shown, query
  <2>. QED  BY <2>1 DEF Meant, SameMeaning
<1>7. CASE UNCHANGED vars
  BY <1>7 DEF vars, query, shown, Meant, SameMeaning
<1>. QED  BY <1>1, <1>2, <1>3, <1>4, <1>5, <1>6, <1>7 DEF Next, Step, Over

\* Whatever the table, a plan means after every step of the optimizer what it meant
\* before, or opens where a clash of its sort kept it from opening
\* (sort_limit_to_topk_rule.cpp, docs/architecture.md "Sort vs. TopK").
THEOREM OptimizingKeepsMeaning == Spec => []OptimizerKeepsMeaning
<1>1. Spec => []Meant
  BY InvariantHolds, MeantStarts, MeantKeeps, PTL DEF Spec
<1>2. IInv /\ Meant => OptimizerKeepsMeaning
  <2>. SUFFICES ASSUME IInv, Meant, phase = "optimizing", NEW t \in Tables(schema)
                PROVE  MeansStill(Outcomes(Lowered(logical_plan), t), Outcomes(Lowered(plan), t))
    BY DEF OptimizerKeepsMeaning, MeansStill
  <2>1. AreRows(t, Len(schema))
    BY TablesAssumption DEF IInv, Given
  <2>. QED  BY <2>1 DEF Meant, SameMeaning
<1>. QED  BY InvariantHolds, <1>1, <1>2, PTL
-----------------------------------------------------------------------------
(***************************************************************************)
(* What the planner leaves for EXPLAIN to show.                            *)
(***************************************************************************)
\* The node is what the binder made of the parsed stage.
IsBoundOf(node, st) ==
    \E s \in Seq(Nat) : Bind(s, st).error = "none" /\ node = NodeOf(st, Bind(s, st).value)

\* The plan p is the bound one, unless the rule was applied, which makes it shorter.
IsRewritten(p) == IF applied THEN Len(p) < Len(logical_plan) ELSE p = logical_plan

Shown ==
    /\ phase = "binding" => \A i \in 1 .. next - 1 : IsBoundOf(plan[i + 1], parsed[i])
    /\ phase \in {"optimizing", "lowering", "planned"} =>
          \A i \in 1 .. Len(parsed) : IsBoundOf(logical_plan[i + 1], parsed[i])
    /\ phase \in {"optimizing", "lowering", "planned"} =>
          OutputSchemaOf(logical_plan) = current_schema
    /\ phase = "optimizing" => IsRewritten(plan)
    /\ phase \in {"lowering", "planned"} => IsRewritten(optimized_plan)

LEMMA ShownStarts == Init => Shown
BY DEF Init, Shown

LEMMA ShownKeeps == IInv /\ Shown /\ [Next]_vars => Shown'
<1>. SUFFICES ASSUME IInv, Shown, [Next]_vars PROVE Shown'
  OBVIOUS
<1>1. CASE PipelineIsNoArray \/ ParseNext
  BY <1>1 DEF PipelineIsNoArray, ParseNext, Fail, Shown
<1>2. CASE ParseEnds
  <2>1. phase' = "binding" /\ next' = 1
    BY <1>2 DEF ParseEnds
  <2>. QED  BY <2>1 DEF Shown
<1>3. CASE BindNext
  <2> DEFINE st == parsed[next]
             b == Bind(current_schema, st)
  <2>1. /\ phase = "binding" /\ current_schema \in Seq(Nat) /\ plan \in Seq(LogicalNode)
        /\ next \in Nat /\ next > 0 /\ Len(plan) = next
    <3>1. phase = "binding" /\ TypeOK /\ WhileBinding
      BY <1>3 DEF BindNext, IInv
    <3>2. next \in 1 .. Len(stages) + 1 /\ Len(plan) = (next - 1) + 1
      BY <3>1 DEF WhileBinding, IsPlanOf
    <3>3. current_schema \in Seq(Nat) /\ plan \in Seq(LogicalNode) /\ next \in Nat
      BY <3>1 DEF TypeOK
    <3>. QED  BY <3>1, <3>2, <3>3
  <2>2. CASE Fail(b.error)
    BY <2>2 DEF Fail, Shown
  <2>3. CASE /\ b.error = "none" /\ plan' = Append(plan, NodeOf(st, b.value))
             /\ next' = next + 1 /\ UNCHANGED <<phase, parsed>>
    <3>1. /\ \A i \in 1 .. next - 1 : plan'[i + 1] = plan[i + 1]
          /\ plan'[next + 1] = NodeOf(st, b.value)
      <4>. HIDE DEF st, b
      <4>1. plan' = Append(plan, NodeOf(st, b.value))
        BY <2>3
      <4>. QED  BY <2>1, <4>1
    <3>2. IsBoundOf(plan'[next + 1], parsed[next])
      BY <2>1, <2>3, <3>1 DEF IsBoundOf
    <3>3. \A i \in 1 .. next - 1 : IsBoundOf(plan'[i + 1], parsed[i])
      BY <2>1, <3>1 DEF Shown
    <3>4. \A i \in 1 .. next' - 1 : IsBoundOf(plan'[i + 1], parsed'[i])
      <4>1. TAKE i \in 1 .. next' - 1
      <4>2. i = next \/ i \in 1 .. next - 1
        BY <2>1, <2>3
      <4>. QED  BY <2>3, <3>2, <3>3, <4>2
    <3>5. phase' = "binding"
      BY <2>1, <2>3
    <3>. QED  BY <3>4, <3>5 DEF Shown, IsBoundOf
  <2>. QED  BY <1>3, <2>2, <2>3 DEF BindNext
<1>4. CASE BindEnds
  <2>1. /\ phase = "binding" /\ phase' = "optimizing" /\ logical_plan' = plan /\ next > Len(parsed)
        /\ UNCHANGED <<plan, applied, parsed>>
    BY <1>4 DEF BindEnds
  <2>5. (OutputSchemaOf(logical_plan) = current_schema)'
    <3>1. IInv' /\ plan' = logical_plan'
      BY <2>1, NextInv
    <3>2. (OutputSchemaOf(plan) = current_schema)'
      BY <2>1, <3>1 DEF IInv, WhileOptimizing
    <3>. QED  BY <3>1, <3>2 DEF OutputSchemaOf
  <2>2. applied = FALSE /\ next \in Nat /\ parsed \in Seq(ParsedStage)
    BY <2>1 DEF IInv, BeforeOptimizing, TypeOK
  <2>3. \A i \in 1 .. Len(parsed) : i \in 1 .. next - 1
    BY <2>1, <2>2
  <2>4. \A i \in 1 .. Len(parsed) : IsBoundOf(plan[i + 1], parsed[i])
    BY <2>1, <2>3 DEF Shown
  <2>. QED  BY <2>1, <2>2, <2>4, <2>5 DEF Shown, IsBoundOf, IsRewritten
<1>5. CASE Rewrite
  <2>1. /\ phase = "optimizing" /\ phase' = "optimizing" /\ applied' = TRUE
        /\ UNCHANGED <<parsed, logical_plan, current_schema, schema>>
        /\ plan' = Replace(plan, current - 1, current, Fused(plan[current - 1], plan[current]))
        /\ AtLimitOverSort
    BY <1>5 DEF Rewrite, query
  <2>2. /\ plan \in Seq(LogicalNode) /\ Len(plan) <= Len(logical_plan) /\ current \in 2 .. Len(plan)
        /\ logical_plan \in Seq(LogicalNode)
        /\ plan[current].kind = "kLimit" /\ plan[current - 1].kind = "kSort"
    BY <2>1 DEF IInv, WhileOptimizing, TypeOK, AtLimitOverSort
  <2>3. Len(Replace(plan, current - 1, current, Fused(plan[current - 1], plan[current])))
          = Len(plan) - 1
    BY <2>2, FusedNodes
  <2>4. Len(plan') < Len(logical_plan')
    BY <2>1, <2>2, <2>3
  <2>. QED  BY <2>1, <2>4 DEF Shown, IsBoundOf, IsRewritten, OutputSchemaOf
<1>6. CASE Descend
  BY <1>6 DEF Descend, Shown, IsRewritten, OutputSchemaOf, query
<1>7. CASE OptimizeEnds
  <2>1. /\ phase = "optimizing" /\ phase' = "lowering" /\ optimized_plan' = plan
        /\ UNCHANGED <<parsed, logical_plan, applied, current_schema, schema>>
    BY <1>7 DEF OptimizeEnds, rewriting, query
  <2>. QED  BY <2>1 DEF Shown, IsRewritten, OutputSchemaOf
<1>8. CASE LowerNext \/ LowerEnds
  <2>1. /\ phase = "lowering" /\ phase' \in {"lowering", "planned"}
        /\ UNCHANGED <<parsed, logical_plan, applied, optimized_plan, current_schema, schema>>
    BY <1>8 DEF LowerNext, LowerEnds, rewriting, shown, query
  <2>. QED  BY <2>1 DEF Shown, IsRewritten, OutputSchemaOf
<1>9. CASE UNCHANGED vars
  BY <1>9 DEF vars, rewriting, shown, query, Shown, IsBoundOf, IsRewritten, OutputSchemaOf
<1>. QED  BY <1>1, <1>2, <1>3, <1>4, <1>5, <1>6, <1>7, <1>8, <1>9 DEF Next, Step, Over

\* What a node says that a parsed stage said, but for the literals.
Repeats(node, st) ==
    \/ /\ st.kind = "kMatch" /\ node.kind = "kFilter"
       /\ st.predicates \in Seq(ParsedComparison) /\ node.predicate \in Seq(BoundComparison)
       /\ Len(node.predicate) = Len(st.predicates)
       /\ \A i \in 1 .. Len(st.predicates) :
             /\ node.predicate[i].field = st.predicates[i].field
             /\ st.predicates[i].op_token \in Operators
             /\ node.predicate[i].op = ComparisonOperatorOf[st.predicates[i].op_token]
    \/ st.kind = "kProject" /\ node.kind = "kProject" /\ node.names = st.fields
    \/ /\ st.kind = "kSort" /\ node.kind = "kSort" /\ node.name = st.field
       /\ st.direction_raw = IF node.sort.direction = "kAscending" THEN 1 ELSE -1
    \/ st.kind = "kLimit" /\ node.kind = "kLimit" /\ node.limit = st.count_raw

LEMMA BoundRepeats ==
    ASSUME NEW st \in ParsedStage, NEW node, IsBoundOf(node, st)
    PROVE  Repeats(node, st)
<1>1. PICK s \in Seq(Nat) : Bind(s, st).error = "none" /\ node = NodeOf(st, Bind(s, st).value)
  BY DEF IsBoundOf
<1>2. /\ node \in LogicalNode /\ node.kind \in {"kFilter", "kProject", "kSort", "kLimit"}
      /\ st.kind = "kProject" => node.names = st.fields
      /\ node.kind = "kProject" => st.kind = "kProject"
      /\ st.kind = "kLimit" => node.limit = st.count_raw
      /\ node.kind = "kLimit" => st.kind = "kLimit"
      /\ node.kind = "kSort" =>
            /\ st.kind = "kSort" /\ node.name = st.field
            /\ st.direction_raw = IF node.sort.direction = "kAscending" THEN 1 ELSE -1
      /\ node.kind = "kFilter" =>
            /\ st.kind = "kMatch" /\ Len(node.predicate) = Len(st.predicates)
            /\ \A i \in 1 .. Len(st.predicates) :
                  /\ node.predicate[i].field = st.predicates[i].field
                  /\ st.predicates[i].op_token \in Operators
                  /\ node.predicate[i].op = ComparisonOperatorOf[st.predicates[i].op_token]
  BY <1>1, BindOf
<1>3. /\ node.kind = "kFilter" => node.predicate \in Seq(BoundComparison)
      /\ st.kind = "kMatch" => st.predicates \in Seq(ParsedComparison)
  BY <1>2, NodesOf, ParsedStages
<1>. QED  BY <1>2, <1>3 DEF Repeats

\* When the plan is made, the three trees and the trace are related node by node.
LEMMA WhatIsShown ==
    ASSUME IInv, Shown, phase = "planned"
    PROVE  /\ Len(parsed) \in Nat /\ DOMAIN parsed = 1 .. Len(parsed)
           /\ DOMAIN logical_plan = 1 .. Len(parsed) + 1 /\ Len(logical_plan) = Len(parsed) + 1
           /\ logical_plan[1].kind = "kScan"
           /\ \A i \in 1 .. Len(parsed) : Repeats(logical_plan[i + 1], parsed[i])
           /\ Len(optimized_plan) \in Nat \ {0} /\ DOMAIN optimized_plan = 1 .. Len(optimized_plan)
           /\ \A i \in 1 .. Len(optimized_plan) :
                 /\ optimized_plan[i].kind
                      \in {"kScan", "kFilter", "kProject", "kSort", "kLimit", "kTopK"}
                 /\ optimized_plan[i].kind = "kScan" <=> i = 1
                 /\ physical[i].stage = Lower(optimized_plan[i]).stage
           /\ DOMAIN physical = 1 .. Len(optimized_plan) /\ Len(physical) = Len(optimized_plan)
           /\ IsRewritten(optimized_plan)
<1>1. TypeOK /\ OnceParsed /\ OnceBound /\ Len(logical_plan) = Len(stages) + 1
  BY WhilePlanned DEF IInv
<1>2. /\ parsed \in Seq(ParsedStage) /\ logical_plan \in Seq(LogicalNode)
      /\ Len(parsed) = Len(stages) /\ logical_plan[1] = LogicalScan
  BY <1>1 DEF TypeOK, OnceParsed, OnceBound, IsPlanOf
<1>3. \A i \in 1 .. Len(parsed) : Repeats(logical_plan[i + 1], parsed[i])
  <2>1. \A i \in 1 .. Len(parsed) : IsBoundOf(logical_plan[i + 1], parsed[i])
    BY DEF Shown
  <2>. QED  BY <1>2, <2>1, BoundRepeats
<1>4. ASSUME NEW i \in 1 .. Len(optimized_plan)
      PROVE  /\ optimized_plan[i].kind
                  \in {"kScan", "kFilter", "kProject", "kSort", "kLimit", "kTopK"}
             /\ optimized_plan[i].kind = "kScan" <=> i = 1
  <2>1. optimized_plan[i] \in LogicalNode
    BY LoweredPlan
  <2>2. i # 1 => optimized_plan[i].kind # "kScan"
    <3>1. i # 1 => i \in 2 .. Len(optimized_plan)
      OBVIOUS
    <3>. QED  BY <3>1, LoweredPlan DEF WellNamed, UsesNames
  <2>. QED  BY <2>1, <2>2, NodesOf, LoweredPlan DEF LogicalScan
<1>5. IsRewritten(optimized_plan)
  BY DEF Shown
<1>. QED  BY <1>1, <1>2, <1>3, <1>4, <1>5, LoweredPlan DEF LogicalScan

\* The plan built is one that asks, of the columns the names of the document have in the
\* rows that reach each stage, what the document asks; and the output schema has the
\* names of the rows it yields.
LEMMA PlanAsksWhatIsWritten ==
    ASSUME IInv, Shown, Meant, phase = "planned"
    PROVE  LET N == Len(stages) + 1
               built == Lowered(logical_plan)
           IN  /\ Len(stages) \in Nat /\ DOMAIN stages = 1 .. Len(stages)
               /\ AreStages(built, N) /\ FitTogether(built, N, Widths(logical_plan))
               /\ Widths(logical_plan)[1] = Len(schema)
               /\ SchemaAt(logical_plan, 1) = schema
               /\ \A i \in 2 .. N :
                     /\ NodeAsks(stages[i - 1], logical_plan[i], SchemaAt(logical_plan, i - 1))
                     /\ built[i] = Lower(logical_plan[i])
                     /\ SchemaAt(logical_plan, i)
                          = IF logical_plan[i].kind = "kProject" THEN logical_plan[i].names
                            ELSE SchemaAt(logical_plan, i - 1)
               /\ output_schema = SchemaAt(logical_plan, N)
               /\ physical = Lowered(optimized_plan) /\ SameMeaning(optimized_plan)
<1> DEFINE p == logical_plan
           N == Len(stages) + 1
<1>1. /\ Len(stages) \in Nat /\ DOMAIN stages = 1 .. Len(stages) /\ Len(p) = N
      /\ \A i \in 1 .. Len(stages) : NodeAsks(stages[i], p[i + 1], SchemaAt(p, i))
  BY WhilePlanned
<1>2. p \in Seq(LogicalNode) /\ p[1] = LogicalScan /\ WellNamed(p) /\ schema \in Seq(Nat)
  BY GivenStages DEF IInv, TypeOK, OnceBound, IsPlanOf
<1>3. AreStages(Lowered(p), N) /\ FitTogether(Lowered(p), N, Widths(p)) /\ Widths(p)[1] = Len(schema)
  BY <1>1, <1>2, PlansFit
<1>. HIDE DEF p, N
<1>4. N \in Nat \ {0} /\ 1 \in 1 .. N /\ DOMAIN p = 1 .. N
  BY <1>1, <1>2 DEF N
<1>5. SchemaAt(p, 1) = schema
  <2>1. 1 \in 1 .. Len(p) /\ 1 - 1 = 0
    BY <1>1, <1>4
  <2>. QED  BY <1>2, <2>1, SchemaSteps, SchemaEnds DEF LogicalScan
<1>6. ASSUME NEW i \in 2 .. N
      PROVE  /\ NodeAsks(stages[i - 1], p[i], SchemaAt(p, i - 1))
             /\ Lowered(p)[i] = Lower(p[i])
             /\ SchemaAt(p, i) = IF p[i].kind = "kProject" THEN p[i].names ELSE SchemaAt(p, i - 1)
  <2>1. i \in 1 .. Len(p) /\ i - 1 \in 1 .. Len(stages) /\ (i - 1) + 1 = i /\ i \in DOMAIN p
    BY <1>1, <1>4 DEF N
  <2>2. NodeAsks(stages[i - 1], p[(i - 1) + 1], SchemaAt(p, i - 1))
    BY <1>1, <2>1
  <2>3. Lowered(p)[i] = Lower(p[i])
    BY <2>1 DEF Lowered
  <2>. QED  BY <1>2, <2>1, <2>2, <2>3, SchemaSteps
<1>7. output_schema = SchemaAt(p, N)
  <2>1. output_schema = current_schema /\ OutputSchemaOf(p) = current_schema
    BY LoweredPlan DEF Shown, p
  <2>. QED  BY <1>1, <1>2, <2>1, SchemaEnds
<1>8. physical = Lowered(optimized_plan) /\ SameMeaning(optimized_plan)
  <2>1. /\ DOMAIN physical = 1 .. Len(optimized_plan) /\ DOMAIN optimized_plan = 1 .. Len(optimized_plan)
        /\ \A i \in 1 .. Len(optimized_plan) : physical[i] = Lower(optimized_plan[i])
    BY LoweredPlan
  <2>2. physical \in Seq({Lower(x) : x \in LogicalNode})
    BY DEF IInv
  <2>3. physical = [i \in DOMAIN physical |-> physical[i]]
    BY <2>2
  <2>. QED  BY <2>1, <2>3 DEF Lowered, Meant
<1>. QED  BY <1>1, <1>3, <1>5, <1>6, <1>7, <1>8 DEF p, N
==============================================================================

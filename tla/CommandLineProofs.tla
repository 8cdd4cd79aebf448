-------------------------- MODULE CommandLineProofs --------------------------
(***************************************************************************)
(* The program prints all or nothing, the views of EXPLAIN agree, and the  *)
(* answer is what the text of the pipeline means, for any files, tables    *)
(* and plans.                                                              *)
(*                                                                         *)
(* Until main() prints, and also while an exception is on its way, nothing *)
(* has been written and the exit code is that of success.  What EXPLAIN    *)
(* shows are the trees the planner leaves, so that the second theorem      *)
(* rests on what QueryPlanningProofs says of them, and on                  *)
(* TableLoadingProofs for the schema the planner is given.  The third one  *)
(* follows the rows from the documents through the stages to the printed   *)
(* document, each column under the name it has there: a stage does to rows *)
(* by names what it does to rows by columns (DataProofs).                  *)
(***************************************************************************)
EXTENDS CommandLine, DataProofs, SequenceTheorems

-----------------------------------------------------------------------------
(***************************************************************************)
(* All or nothing is printed.                                              *)
(***************************************************************************)
Silent == stdout = Nothing /\ stderr = Nothing /\ exit_code = 0

OInv ==
    /\ at # "exited" => Silent
    /\ at \notin {"catching", "exited"} => caught = Loader!NoException
    /\ OutputOnlyOnSuccess

\* An answer or the way to the handlers: what a step before the last one does.
LEMMA StaysSilent ==
    ASSUME OInv, at # "exited", at' # "exited", UNCHANGED printed,
           at' = "catching" \/ (at \notin {"catching", "exited"} /\ UNCHANGED caught)
    PROVE  OInv'
BY DEF OInv, Silent, OutputOnlyOnSuccess, printed, Nothing, Loader!NoException

LEMMA OutputInitInv == Init => OInv
BY DEF Init, OInv, Silent, OutputOnlyOnSuccess, Nothing

LEMMA OutputNextInv == OInv /\ [Next]_vars => OInv'
<1>. SUFFICES ASSUME OInv, [Next]_vars PROVE OInv'
  OBVIOUS
<1>1. CASE Parses
  <2>1. at = "parsing arguments" /\ Silent /\ UNCHANGED caught /\ caught = Loader!NoException
    BY <1>1 DEF Parses, ParseArguments, Goes, OInv
  <2>2. CASE at' = "loading" /\ UNCHANGED printed
    BY <2>1, <2>2, StaysSilent
  <2>3. CASE at' = "exited" /\ stdout' = <<"help">> /\ UNCHANGED <<stderr, exit_code>>
    BY <2>1, <2>3 DEF OInv, Silent, OutputOnlyOnSuccess, Nothing, Loader!NoException
  <2>4. CASE at' = "exited" /\ stderr' = <<"usage">> /\ exit_code' = 106 /\ UNCHANGED stdout
    <3>1. stdout' = Nothing
      BY <2>1, <2>4 DEF Silent
    <3>2. stderr' # Nothing
      BY <2>4 DEF Nothing
    <3>3. exit_code' # 0
      BY <2>4
    <3>. QED  BY <2>4, <3>1, <3>2, <3>3 DEF OInv, OutputOnlyOnSuccess
  <2>. QED  BY <1>1, <2>2, <2>3, <2>4 DEF Parses, ParseArguments, Goes
<1>2. CASE Loads \/ Plans
  BY <1>2, StaysSilent DEF Loads, Plans, printed
<1>3. CASE Loaded \/ ReadPipeline \/ Planned
  BY <1>3, StaysSilent DEF Loaded, ReadPipeline, Planned, Goes, Throw
<1>4. CASE Execute
  BY <1>4, StaysSilent DEF Execute, ExecutionReturns, ExecutionThrows, Goes, Throw, printed
\* All is printed at once, and only then.
<1>5. CASE Prints
  BY <1>5 DEF Prints, Goes, OInv, Silent, OutputOnlyOnSuccess, Nothing, Loader!NoException
\* The handler says why, and the exit code that it did.
<1>6. CASE Catch
  BY <1>6 DEF Catch, Goes, OInv, Silent, OutputOnlyOnSuccess, Nothing, Loader!NoException
<1>7. CASE UNCHANGED vars
  BY <1>7 DEF vars, printed, OInv, Silent, OutputOnlyOnSuccess, Loader!NoException
<1>. QED  BY <1>1, <1>2, <1>3, <1>4, <1>5, <1>6, <1>7 DEF Next, Over

\* Whatever the command and the files, stdout is empty unless the exit code is 0, and
\* stderr is unless it is not: nothing is printed of an answer that fails (main.cpp).
THEOREM PrintsAllOrNothing == Spec => []OutputOnlyOnSuccess
<1>1. OInv => OutputOnlyOnSuccess
  BY DEF OInv
<1>. QED  BY <1>1, OutputInitInv, OutputNextInv, PTL DEF Spec
-----------------------------------------------------------------------------
(***************************************************************************)
(* Plans in JSON.                                                          *)
(***************************************************************************)
\* Nodes are nested into each other, from the first.
AreNested(f, nodes, n) ==
    f = [i \in 1 .. n |->
            JObject(IF i = 1 THEN nodes[1] ELSE Joined([child |-> f[i - 1]], nodes[i]))]

LEMMA NestedOf ==
    ASSUME NEW N \in Nat \ {0}, NEW nodes, DOMAIN nodes = 1 .. N, Len(nodes) = N
    PROVE  \E f : AreNested(f, nodes, N) /\ Nested(nodes) = f[N]
<1> DEFINE Odd == {n \in 1 .. N : ~\E f : AreNested(f, nodes, n)}
<1>1. Odd = {}
  <2>. SUFFICES ASSUME Odd # {} PROVE FALSE
    OBVIOUS
  <2>1. PICK n \in Odd : \A m \in Odd : n <= m
    <3>1. Odd \in SUBSET (1 .. N)
      OBVIOUS
    <3>. QED  BY <3>1, LeastPlace
  <2>2. n \in 1 .. N /\ ~\E f : AreNested(f, nodes, n)
    OBVIOUS
  <2>3. CASE n = 1
    <3> DEFINE f == [i \in 1 .. 1 |-> JObject(nodes[1])]
    <3>1. f = [i \in 1 .. 1 |->
                 JObject(IF i = 1 THEN nodes[1] ELSE Joined([child |-> f[i - 1]], nodes[i]))]
      OBVIOUS
    <3>. HIDE DEF f
    <3>2. AreNested(f, nodes, n)
      BY <2>3, <3>1 DEF AreNested
    <3>. QED  BY <2>2, <3>2
  <2>4. CASE n # 1
    <3>1. n - 1 \in 1 .. N /\ ~(n <= n - 1) /\ n \in Nat
      BY <2>2, <2>4
    <3>2. n - 1 \notin Odd
      BY <2>1, <3>1
    <3>3. PICK g : AreNested(g, nodes, n - 1)
      BY <3>1, <3>2
    <3> DEFINE Node(h, i) ==
                 JObject(IF i = 1 THEN nodes[1] ELSE Joined([child |-> h[i - 1]], nodes[i]))
               f == [i \in 1 .. n |-> IF i = n THEN Node(g, n) ELSE g[i]]
    <3>4. g = [i \in 1 .. n - 1 |-> Node(g, i)]
      BY <3>3 DEF AreNested
    <3>5. f[n] = Node(f, n)
      <4>1. n - 1 \in 1 .. n /\ n - 1 # n /\ n \in 1 .. n
        BY <2>2, <2>4
      <4>2. f[n - 1] = g[n - 1] /\ f[n] = Node(g, n)
        BY <4>1
      <4>. HIDE DEF f
      <4>. QED  BY <4>2
    <3>6. ASSUME NEW i \in 1 .. n - 1
          PROVE  f[i] = Node(f, i)
      <4>1. f[i] = g[i] /\ (i # 1 => f[i - 1] = g[i - 1])
        BY <3>1
      <4>2. g[i] = Node(g, i)
        BY <3>4
      <4>. HIDE DEF f
      <4>. QED  BY <4>1, <4>2
    <3>7. f = [i \in 1 .. n |-> f[i]]
      OBVIOUS
    <3>8. \A i \in 1 .. n : f[i] = Node(f, i)
      <4>1. \A i \in 1 .. n : i = n \/ i \in 1 .. n - 1
        BY <3>1
      <4>. HIDE DEF f, Node
      <4>. QED  BY <4>1, <3>5, <3>6
    <3>9. f = [i \in 1 .. n |-> Node(f, i)]
      <4>. HIDE DEF f, Node
      <4>. QED  BY <3>7, <3>8
    <3>. HIDE DEF f
    <3>10. AreNested(f, nodes, n)
      BY <3>9 DEF AreNested
    <3>. QED  BY <2>2, <3>10
  <2>. QED  BY <2>3, <2>4
<1>2. \E f : AreNested(f, nodes, N)
  BY <1>1
<1>3. Nested(nodes) = (CHOOSE f : AreNested(f, nodes, N))[N]
  BY Zenon DEF Nested, AreNested
<1>. QED  BY <1>2, <1>3

\* The node at place i of a plan has the members given, and all but the first a child.
HasMembers(node, members, i) ==
    /\ "child" \in DOMAIN node <=> i # 1 \/ "child" \in DOMAIN members
    /\ \A x \in DOMAIN members : x # "child" => node[x] = members[x]

LEMMA BelowOf ==
    ASSUME NEW N \in Nat \ {0}, NEW nodes, DOMAIN nodes = 1 .. N, Len(nodes) = N,
           NEW i \in 1 .. N, NEW d \in 0 .. N - 1, d = N - i
    PROVE  HasMembers(Below(Nested(nodes), d), nodes[i], i)
<1>1. PICK f : AreNested(f, nodes, N) /\ Nested(nodes) = f[N]
  BY NestedOf
<1>2. \A k \in 1 .. N :
         f[k] = JObject(IF k = 1 THEN nodes[1] ELSE Joined([child |-> f[k - 1]], nodes[k]))
  BY <1>1 DEF AreNested
<1>3. f[1].members = nodes[1]
  <2>1. 1 \in 1 .. N
    OBVIOUS
  <2>2. f[1] = JObject(nodes[1])
    BY <1>2, <2>1
  <2>. QED  BY <2>2 DEF JObject
<1>4. ASSUME NEW k \in 2 .. N
      PROVE  /\ f[k].members.child = f[k - 1]
             /\ DOMAIN f[k].members = {"child"} \cup DOMAIN nodes[k]
             /\ \A x \in DOMAIN nodes[k] : x # "child" => f[k].members[x] = nodes[k][x]
  <2>1. f[k].members = Joined([child |-> f[k - 1]], nodes[k])
    <3>1. k \in 1 .. N /\ k # 1
      OBVIOUS
    <3>2. f[k] = JObject(Joined([child |-> f[k - 1]], nodes[k]))
      BY <1>2, <3>1
    <3>. QED  BY <3>2 DEF JObject
  <2>2. DOMAIN [child |-> f[k - 1]] = {"child"}
    OBVIOUS
  <2>. QED  BY <2>1, <2>2 DEF Joined
<1> DEFINE node == [e \in 0 .. d |-> f[N - e]]
           IsWalk(w) ==
             w = [e \in 0 .. d |-> IF e = 0 THEN Nested(nodes) ELSE w[e - 1].members.child]
<1>5. IsWalk(node)
  <2>1. ASSUME NEW e \in 0 .. d
        PROVE  node[e] = IF e = 0 THEN Nested(nodes) ELSE node[e - 1].members.child
    <3>1. CASE e = 0
      BY <1>1, <3>1
    <3>2. CASE e # 0
      <4>1. e - 1 \in 0 .. d /\ N - (e - 1) \in 2 .. N /\ (N - (e - 1)) - 1 = N - e
        BY <3>2
      <4>2. node[e - 1] = f[N - (e - 1)] /\ node[e] = f[N - e]
        BY <4>1
      <4>. HIDE DEF node
      <4>. QED  BY <1>4, <3>2, <4>1, <4>2
    <3>. QED  BY <3>1, <3>2
  <2>2. node = [e \in 0 .. d |-> node[e]]
    OBVIOUS
  <2>. HIDE DEF node
  <2>. QED  BY <2>1, <2>2
<1>6. Below(Nested(nodes), d) = (CHOOSE w : IsWalk(w))[d].members
  BY Zenon DEF Below
<1>7. PICK w : IsWalk(w) /\ Below(Nested(nodes), d) = w[d].members
  BY <1>5, <1>6
<1>8. \A e \in 0 .. d : w[e] = f[N - e]
  <2> DEFINE Odd == {e \in 0 .. d : w[e] # f[N - e]}
  <2>. SUFFICES ASSUME Odd # {} PROVE FALSE
    OBVIOUS
  <2>1. PICK e \in Odd : \A m \in Odd : e <= m
    <3>1. Odd \in SUBSET Int /\ IsFiniteSet(Odd)
      <4>0. 0 \in Int /\ d \in Int
        OBVIOUS
      <4>1. IsFiniteSet(0 .. d)
        BY <4>0, FS_Interval
      <4>. QED  BY <4>1, FS_Subset
    <3>. QED  BY <3>1, LeastAndGreatest
  <2>2. e \in 0 .. d /\ w[e] # f[N - e]
    OBVIOUS
  <2>3. w[e] = IF e = 0 THEN Nested(nodes) ELSE w[e - 1].members.child
    BY <1>7, <2>2
  <2>4. e # 0
    BY <1>1, <2>2, <2>3
  <2>5. e - 1 \in 0 .. d /\ ~(e <= e - 1) /\ N - (e - 1) \in 2 .. N /\ (N - (e - 1)) - 1 = N - e
    BY <2>2, <2>4
  <2>6. w[e - 1] = f[N - (e - 1)]
    BY <2>1, <2>5
  <2>. QED  BY <1>4, <2>2, <2>3, <2>4, <2>5, <2>6
<1>9. N - d = i /\ d \in 0 .. d
  OBVIOUS
<1>10. Below(Nested(nodes), d) = f[i].members
  BY <1>7, <1>8, <1>9
<1>11. CASE i = 1
  BY <1>3, <1>10, <1>11 DEF HasMembers
<1>12. CASE i # 1
  <2>1. i \in 2 .. N
    BY <1>12
  <2>. QED  BY <1>4, <1>10, <1>12, <2>1 DEF HasMembers
<1>. QED  BY <1>11, <1>12

-----------------------------------------------------------------------------
(***************************************************************************)
(* The planner and the loader.                                             *)
(***************************************************************************)
\* The planner and the loader of the program, with what is proved of them.
PP == INSTANCE QueryPlanningProofs WITH
    Pipelines <- {Document(t) : t \in PipelineTexts}, Schemas <- Seq(Strings), Tables <- NoTables,
    pipeline_json <- Document(pipeline_text), phase <- planner_phase, next <- planner_next

LP == INSTANCE TableLoadingProofs WITH
    Texts <- DataTexts, text <- data_text, phase <- loader_phase, next <- loader_next

\* What they assume of their constants holds of the program's.
LEMMA PlannerAssumptions ==
    /\ PP!Int64Assumption /\ PP!DoublesAssumption /\ PP!StringsAssumption
    /\ PP!PipelinesAssumption /\ PP!SchemasAssumption /\ PP!TablesAssumption
    /\ PP!DirectionsAssumption
<1>1. PP!Int64Assumption /\ PP!StringsAssumption
  BY Int64Assumption, StringsAssumption DEF PP!Int64Assumption, PP!StringsAssumption
<1>2. PP!DoublesAssumption
  BY DoublesAssumption DEF PP!DoublesAssumption, PP!LowerBound, PP!UpperBound, PP!Truncate,
     LowerBound, UpperBound, Truncate
<1>3. PP!PipelinesAssumption
  <2>1. \A j : Planner!IsDocument(j) => PP!IsDocument(j)
    BY Zenon DEF PP!IsDocument, PP!IsJson, PP!IsStage, PP!IsArgument, PP!IsOperand, PP!ToSet,
       PP!IsFiniteSet, PP!JScalars, PP!JNull, PP!JBool, PP!Json, Planner!IsDocument,
       Planner!IsJson, Planner!IsStage, Planner!IsArgument, Planner!IsOperand, Planner!ToSet,
       Planner!IsFiniteSet, Planner!JScalars, Planner!JNull, Planner!JBool, Planner!Json
  <2>. QED  BY <2>1, PipelineTextsAssumption DEF PP!PipelinesAssumption
<1>4. PP!SchemasAssumption /\ PP!TablesAssumption /\ PP!DirectionsAssumption
  BY DirectionsAssumption DEF PP!SchemasAssumption, PP!TablesAssumption, PP!DirectionsAssumption,
     NoTables
<1>. QED BY <1>1, <1>2, <1>3, <1>4

LEMMA LoaderAssumptions ==
    /\ LP!Int64Assumption /\ LP!DoublesAssumption /\ LP!StringsAssumption /\ LP!TextsAssumption
<1>1. LP!Int64Assumption /\ LP!StringsAssumption
  BY Int64Assumption, StringsAssumption DEF LP!Int64Assumption, LP!StringsAssumption
<1>2. LP!DoublesAssumption
  BY DoublesAssumption DEF LP!DoublesAssumption, LP!LowerBound, LP!UpperBound, LP!Truncate,
     LowerBound, UpperBound, Truncate
<1>3. LP!TextsAssumption
  <2>1. \A t : Loader!IsText(t) => LP!IsText(t)
    BY Zenon DEF LP!IsText, LP!IsJson, LP!IsFiniteSet, LP!ToSet, LP!JScalars, LP!JNull, LP!JBool,
       LP!Json, Loader!IsText, Loader!IsJson, Loader!IsFiniteSet, Loader!ToSet, Loader!JScalars,
       Loader!JNull, Loader!JBool, Loader!Json
  <2>. QED  BY <2>1, DataTextsAssumption DEF LP!TextsAssumption
<1>. QED BY <1>1, <1>2, <1>3

\* The program's planner is the one that is proved about: the same definitions, of
\* tables with any schema.
LEMMA PlannerInits ==
    ASSUME Planner!Init PROVE PP!Init
<1>1. Document(pipeline_text) \in {Document(t) : t \in PipelineTexts} /\ schema = <<>>
  BY DEF Planner!Init
<1>2. <<>> \in Seq(Strings)
  OBVIOUS
<1>. QED  BY <1>1, <1>2 DEF Planner!Init, PP!Init

LEMMA PlannerSteps ==
    ASSUME Planner!Step PROVE PP!Step
<1>1. Planner!PipelineIsNoArray => PP!PipelineIsNoArray
  BY Zenon DEF PP!PipelineIsNoArray, Planner!PipelineIsNoArray, PP!Fail, Planner!Fail, PP!query,
        Planner!query, PP!rewriting, Planner!rewriting, PP!shown, Planner!shown
<1>2. Planner!ParseNext => PP!ParseNext
  <2>1. ASSUME NEW x PROVE Planner!Gives(x) = PP!Gives(x)
    BY Zenon DEF PP!Gives, Planner!Gives
  <2>2. ASSUME NEW x PROVE Planner!Throws(x) = PP!Throws(x)
    BY Zenon DEF PP!Throws, Planner!Throws, PP!Null, Planner!Null
  <2>3. ASSUME NEW s PROVE Planner!GivesAll(s) = PP!GivesAll(s)
    <3>1. ASSUME NEW S PROVE Planner!Min(S) = PP!Min(S)
      BY Zenon DEF PP!Min, Planner!Min
    <3>. QED  BY Zenon, <2>1, <3>1 DEF PP!GivesAll, Planner!GivesAll
  <2>4. ASSUME NEW j PROVE Planner!Keys(j) = PP!Keys(j)
    BY Zenon DEF PP!Keys, Planner!Keys, PP!Ascending, Planner!Ascending, PP!Cardinality,
      Planner!Cardinality
  <2>5. ASSUME NEW j PROVE Planner!OnlyKey(j) = PP!OnlyKey(j)
    BY Zenon DEF PP!OnlyKey, Planner!OnlyKey
  <2>6. ASSUME NEW j, NEW n PROVE Planner!Scalar(j, n) = PP!Scalar(j, n)
    BY Zenon, <2>1, <2>2 DEF PP!Scalar, Planner!Scalar, PP!Unsigned, Planner!Unsigned, PP!Null,
       Planner!Null, PP!Bool, Planner!Bool, PP!Int64, Planner!Int64, PP!Double, Planner!Double,
       PP!String, Planner!String
  <2>7. ASSUME NEW j PROVE Planner!IsSingleKeyObject(j) <=> PP!IsSingleKeyObject(j)
    BY Zenon DEF PP!IsSingleKeyObject, Planner!IsSingleKeyObject, PP!Cardinality,
       Planner!Cardinality
  <2>8. PP!SyntaxError = Planner!SyntaxError
    BY Zenon, <2>2 DEF PP!SyntaxError, Planner!SyntaxError
  <2>9. ASSUME NEW j, NEW f PROVE Planner!ParsePredicate(j, f) = PP!ParsePredicate(j, f)
    BY Zenon, <2>1, <2>5, <2>6, <2>7, <2>8 DEF PP!ParsePredicate, Planner!ParsePredicate
  <2>10. ASSUME NEW j PROVE Planner!ParseMatch(j) = PP!ParseMatch(j)
    BY Zenon, <2>1, <2>3, <2>4, <2>8, <2>9 DEF PP!ParseMatch, Planner!ParseMatch, PP!Made,
       Planner!Made, PP!ParsedMatch, Planner!ParsedMatch
  <2>11. ASSUME NEW j PROVE Planner!ParseProject(j) = PP!ParseProject(j)
    BY Zenon, <2>1, <2>8 DEF PP!ParseProject, Planner!ParseProject, PP!ParsedProject,
       Planner!ParsedProject, PP!ToSet, Planner!ToSet
  <2>12. ASSUME NEW j PROVE Planner!ParseInt64(j) = PP!ParseInt64(j)
    BY Zenon, <2>1, <2>8 DEF PP!ParseInt64, Planner!ParseInt64
  <2>13. ASSUME NEW j PROVE Planner!ParseSort(j) = PP!ParseSort(j)
    BY Zenon, <2>1, <2>5, <2>7, <2>8, <2>12 DEF PP!ParseSort, Planner!ParseSort, PP!IsInteger,
       Planner!IsInteger, PP!Made, Planner!Made, PP!ParsedSort, Planner!ParsedSort
  <2>14. ASSUME NEW j PROVE Planner!ParseLimit(j) = PP!ParseLimit(j)
    BY Zenon, <2>1, <2>8, <2>12 DEF PP!ParseLimit, Planner!ParseLimit, PP!IsInteger,
       Planner!IsInteger, PP!Made, Planner!Made, PP!ParsedLimit, Planner!ParsedLimit
  <2>15. ASSUME NEW j PROVE Planner!ParseStage(j) = PP!ParseStage(j)
    BY Zenon, <2>2, <2>5, <2>7, <2>8, <2>10, <2>11, <2>13, <2>14 DEF PP!ParseStage,
       Planner!ParseStage
  <2>. QED  BY Zenon, <2>15 DEF PP!ParseNext, Planner!ParseNext, PP!Fail, Planner!Fail, PP!query,
     Planner!query, PP!rewriting, Planner!rewriting, PP!shown, Planner!shown
<1>3. Planner!ParseEnds => PP!ParseEnds
  BY Zenon DEF PP!ParseEnds, Planner!ParseEnds, PP!query, Planner!query, PP!rewriting,
     Planner!rewriting, PP!shown, Planner!shown, PP!LogicalScan, Planner!LogicalScan
<1>4. Planner!BindNext => PP!BindNext
  BY Zenon DEF PP!BindNext, Planner!BindNext, PP!Fail, Planner!Fail, PP!query, Planner!query,
        PP!rewriting, Planner!rewriting, PP!shown, Planner!shown, PP!Bind, Planner!Bind,
        PP!NodeOf, Planner!NodeOf, PP!BindMatch, Planner!BindMatch, PP!BindProject,
        Planner!BindProject, PP!BindSort, Planner!BindSort, PP!BindLimit,
        Planner!BindLimit, PP!BindComparison, Planner!BindComparison, PP!Resolve,
        Planner!Resolve, PP!ComparisonOperatorOf, Planner!ComparisonOperatorOf,
        PP!SchemaAfter, Planner!SchemaAfter, PP!SyntaxError, Planner!SyntaxError,
        PP!LogicalFilter, Planner!LogicalFilter, PP!LogicalProject,
        Planner!LogicalProject, PP!LogicalSort, Planner!LogicalSort, PP!LogicalLimit,
        Planner!LogicalLimit, PP!Gives, Planner!Gives, PP!Throws, Planner!Throws,
        PP!GivesAll, Planner!GivesAll, PP!Min, Planner!Min, PP!Null, Planner!Null
<1>5. Planner!BindEnds => PP!BindEnds
  BY Zenon DEF PP!BindEnds, Planner!BindEnds, PP!query, Planner!query, PP!rewriting,
     Planner!rewriting, PP!shown, Planner!shown
<1>6. Planner!Rewrite => PP!Rewrite
  BY Zenon DEF PP!Rewrite, Planner!Rewrite, PP!query, Planner!query, PP!shown, Planner!shown,
        PP!AtLimitOverSort, Planner!AtLimitOverSort, PP!Replace, Planner!Replace,
        PP!Fused, Planner!Fused, PP!LogicalTopK, Planner!LogicalTopK
<1>7. Planner!Descend => PP!Descend
  BY Zenon DEF PP!Descend, Planner!Descend, PP!query, Planner!query, PP!shown, Planner!shown,
        PP!AtLimitOverSort, Planner!AtLimitOverSort, PP!ChildSlot, Planner!ChildSlot
<1>8. Planner!OptimizeEnds => PP!OptimizeEnds
  BY Zenon DEF PP!OptimizeEnds, Planner!OptimizeEnds, PP!query, Planner!query, PP!rewriting,
        Planner!rewriting, PP!OutputSchemaOf, Planner!OutputSchemaOf, PP!Max, Planner!Max
<1>9. Planner!LowerNext => PP!LowerNext
  BY Zenon DEF PP!LowerNext, Planner!LowerNext, PP!query, Planner!query, PP!rewriting,
     Planner!rewriting, PP!shown, Planner!shown, PP!Lower, Planner!Lower, PP!Scan, Planner!Scan,
     PP!Filter, Planner!Filter, PP!Project, Planner!Project, PP!Sort, Planner!Sort, PP!Limit,
     Planner!Limit, PP!TopK, Planner!TopK
<1>10. Planner!LowerEnds => PP!LowerEnds
  BY Zenon DEF PP!LowerEnds, Planner!LowerEnds, PP!query, Planner!query, PP!rewriting,
     Planner!rewriting, PP!shown, Planner!shown
<1>. QED  BY <1>1, <1>2, <1>3, <1>4, <1>5, <1>6, <1>7, <1>8, <1>9, <1>10 DEF PP!Step, Planner!Step

\* Likewise the loader.
LEMMA LoaderInits ==
    ASSUME Loader!Init PROVE LP!Init
BY DEF Loader!Init, LP!Init, Loader!NoException, LP!NoException

LEMMA LoaderSteps ==
    ASSUME Loader!Step PROVE LP!Step
<1>1. Loader!OpenFails => LP!OpenFails
  BY Zenon DEF LP!OpenFails, Loader!OpenFails, LP!Throw, Loader!Throw, LP!QueryLumeError,
      Loader!QueryLumeError
<1>2. Loader!ParseFails => LP!ParseFails
  BY Zenon DEF LP!ParseFails, Loader!ParseFails, LP!ParseOutcome, Loader!ParseOutcome,
     LP!OutOfRange, Loader!OutOfRange, LP!Throw, Loader!Throw, LP!QueryLumeError,
     Loader!QueryLumeError
<1>3. Loader!Parse => LP!Parse
  BY Zenon DEF LP!Parse, Loader!Parse, LP!ParseOutcome, Loader!ParseOutcome, LP!Throw,
     Loader!Throw, LP!QueryLumeError, Loader!QueryLumeError
<1>4. Loader!CollectNext => LP!CollectNext
  BY Zenon DEF LP!CollectNext, Loader!CollectNext, LP!Documents, Loader!Documents, LP!FieldsWith,
      Loader!FieldsWith, LP!Throw, Loader!Throw, LP!QueryLumeError,
      Loader!QueryLumeError
<1>5. Loader!CollectEnds => LP!CollectEnds
  BY Zenon DEF LP!CollectEnds, Loader!CollectEnds, LP!Documents, Loader!Documents, LP!Ascending,
      Loader!Ascending, LP!Cardinality, Loader!Cardinality
<1>6. Loader!FillNext => LP!FillNext
  <2>1. ASSUME NEW x PROVE Loader!Gives(x) = LP!Gives(x)
    BY Zenon DEF LP!Gives, Loader!Gives
  <2>2. ASSUME NEW x PROVE Loader!Throws(x) = LP!Throws(x)
    BY Zenon DEF LP!Throws, Loader!Throws, LP!Null, Loader!Null
  <2>3. ASSUME NEW S PROVE Loader!Min(S) = LP!Min(S)
    BY Zenon DEF LP!Min, Loader!Min
  <2>4. ASSUME NEW s PROVE Loader!GivesAll(s) = LP!GivesAll(s)
    BY Zenon, <2>1, <2>3 DEF LP!GivesAll, Loader!GivesAll
  <2>5. ASSUME NEW j PROVE Loader!Keys(j) = LP!Keys(j)
    BY Zenon DEF LP!Keys, Loader!Keys, LP!Ascending, Loader!Ascending, LP!Cardinality,
       Loader!Cardinality
  <2>6. ASSUME NEW j, NEW n PROVE Loader!Scalar(j, n) = LP!Scalar(j, n)
    BY Zenon, <2>1, <2>2 DEF LP!Scalar, Loader!Scalar, LP!Unsigned, Loader!Unsigned, LP!Null,
       Loader!Null, LP!Bool, Loader!Bool, LP!Int64, Loader!Int64, LP!Double, Loader!Double,
       LP!String, Loader!String
  <2>7. ASSUME NEW k, NEW c PROVE Loader!Placed(k, c) = LP!Placed(k, c)
    BY Zenon, <2>3 DEF LP!Placed, Loader!Placed, LP!Null, Loader!Null
  <2>8. ASSUME NEW d PROVE Loader!ValuesOf(d) = LP!ValuesOf(d)
    BY Zenon, <2>1, <2>4, <2>5, <2>6, <2>7 DEF LP!ValuesOf, Loader!ValuesOf, LP!Made, Loader!Made
  <2>. QED  BY Zenon, <2>8 DEF LP!FillNext, Loader!FillNext, LP!Documents, Loader!Documents,
     LP!Throw, Loader!Throw, LP!QueryLumeError, Loader!QueryLumeError
<1>7. Loader!FillEnds => LP!FillEnds
  BY Zenon DEF LP!FillEnds, Loader!FillEnds, LP!Documents, Loader!Documents
<1>. QED  BY <1>1, <1>2, <1>3, <1>4, <1>5, <1>6, <1>7 DEF LP!Step, Loader!Step

-----------------------------------------------------------------------------
(***************************************************************************)
(* What EXPLAIN shows.                                                     *)
(***************************************************************************)
\* The text of an operator is the token it was parsed from.
LEMMA OperatorsInText ==
    ASSUME NEW token \in PP!Operators
    PROVE  OperatorText(PP!ComparisonOperatorOf[token]) = token
<1>1. token \in {"$eq", "$ne", "$lt", "$lte", "$gt", "$gte"}
  BY DEF PP!Operators
<1>. QED  BY <1>1 DEF PP!ComparisonOperatorOf, OperatorText

\* What a node of a logical plan is in JSON.
LEMMA MembersOf ==
    ASSUME NEW n, NEW fields, NEW count,
           n.kind \in {"kScan", "kFilter", "kProject", "kSort", "kLimit", "kTopK"}
    PROVE  LET m == LogicalMembers(n, fields, count)
           IN  /\ "child" \notin DOMAIN m
               /\ n.kind = "kScan" => "node" \in DOMAIN m /\ m.node.v = "Scan"
               /\ n.kind = "kFilter" =>
                     /\ {"node", "predicate"} \subseteq DOMAIN m
                     /\ m.node.v = "Filter" /\ m.predicate.v = Describe(n.predicate)
               /\ n.kind = "kProject" =>
                     /\ {"node", "fields"} \subseteq DOMAIN m
                     /\ m.node.v = "Project" /\ m.fields = Names(n.names)
               /\ n.kind = "kSort" =>
                     /\ {"node", "field", "direction"} \subseteq DOMAIN m
                     /\ m.node.v = "Sort" /\ m.field = JString(n.name)
                     /\ m.direction = JInteger(DirectionToInt(n.sort.direction))
               /\ n.kind = "kLimit" =>
                     /\ {"node", "count"} \subseteq DOMAIN m
                     /\ m.node.v = "Limit" /\ m.count.v = n.limit
               /\ n.kind = "kTopK" => "node" \in DOMAIN m /\ m.node.v = "TopK"
<1>1. CASE n.kind = "kScan"
  BY <1>1 DEF LogicalMembers, JString, Json
<1>2. CASE n.kind = "kFilter"
  BY <1>2 DEF LogicalMembers, JString, Json
<1>3. CASE n.kind = "kProject"
  BY <1>3 DEF LogicalMembers, JString, Json
<1>4. CASE n.kind = "kSort"
  BY <1>4 DEF LogicalMembers, JString, Json
<1>5. CASE n.kind = "kLimit"
  BY <1>5 DEF LogicalMembers, JString, JUnsigned, Json
<1>6. CASE n.kind = "kTopK"
  BY <1>6 DEF LogicalMembers, Joined, JString, Json
<1>. QED  BY <1>1, <1>2, <1>3, <1>4, <1>5, <1>6

LEMMA FirstTwo ==
    ASSUME NEW a, NEW b, NEW c
    PROVE  SubSeq(<<a, b, c>>, 1, 2) = <<a, b>>
<1> DEFINE S == {a, b, c}
           t == SubSeq(<<a, b, c>>, 1, 2)
<1>1. \A i \in 1 .. 2 : <<a, b, c>>[i] \in S
  OBVIOUS
<1>2. t \in Seq(S) /\ Len(t) = 2 /\ \A i \in 1 .. 2 : t[i] = <<a, b, c>>[i]
  <2>. HIDE DEF S
  <2>. QED  BY <1>1, SubSeqProperties
<1>3. <<a, b>> \in Seq(S) /\ Len(<<a, b>>) = 2
  OBVIOUS
<1>4. \A i \in 1 .. Len(t) : t[i] = <<a, b>>[i]
  BY <1>2
<1>. HIDE DEF S, t
<1>5. t = <<a, b>>
  BY <1>2, <1>3, <1>4, SeqEqual
<1>. QED  BY <1>5 DEF t

\* A node that repeats a parsed stage also does in JSON.
LEMMA NodeSaysTheSame ==
    ASSUME NEW n, NEW st, PP!Repeats(n, st), NEW fields, NEW count, NEW i, NEW below,
           HasMembers(below, LogicalMembers(n, fields, count), i)
    PROVE  SaysTheSame(below, ParsedStageToJson(st).members)
<1> DEFINE m == LogicalMembers(n, fields, count)
           stage == ParsedStageToJson(st).members
<1>. SUFFICES SaysTheSame(below, stage)
  OBVIOUS
<1>0. ASSUME NEW x \in DOMAIN m, x # "child" PROVE below[x] = m[x]
  BY <1>0 DEF HasMembers
<1>. HIDE DEF m
<1>1. CASE st.kind = "kMatch"
  <2>1. /\ n.kind = "kFilter" /\ st.predicates \in Seq(PP!ParsedComparison)
        /\ n.predicate \in Seq(PP!BoundComparison) /\ Len(n.predicate) = Len(st.predicates)
        /\ \A k \in 1 .. Len(st.predicates) :
              /\ n.predicate[k].field = st.predicates[k].field
              /\ st.predicates[k].op_token \in PP!Operators
              /\ n.predicate[k].op = PP!ComparisonOperatorOf[st.predicates[k].op_token]
    BY <1>1 DEF PP!Repeats
  <2>2. below.node.v = "Filter" /\ below.predicate.v = Describe(n.predicate)
    BY <1>0, <2>1, MembersOf DEF m
  <2>3. /\ stage.stage.v = "$match" /\ DOMAIN stage.predicates.elements = 1 .. Len(st.predicates)
        /\ \A k \in 1 .. Len(st.predicates) :
              LET asked == stage.predicates.elements[k].members
              IN  /\ asked.field.v = st.predicates[k].field
                  /\ asked.operator.v = st.predicates[k].op_token
    <3>1. DOMAIN st.predicates = 1 .. Len(st.predicates)
      BY <2>1
    <3>2. stage = [stage |-> JString("$match"),
                   predicates |-> JArray([k \in DOMAIN st.predicates |->
                       JObject([field    |-> JString(st.predicates[k].field),
                                operator |-> JString(st.predicates[k].op_token),
                                literal  |-> ValueToJson(st.predicates[k].literal)])])]
      BY <1>1 DEF ParsedStageToJson, JObject
    <3>. HIDE DEF stage
    <3>3. stage.predicates.elements = [k \in DOMAIN st.predicates |->
                       JObject([field    |-> JString(st.predicates[k].field),
                                operator |-> JString(st.predicates[k].op_token),
                                literal  |-> ValueToJson(st.predicates[k].literal)])]
      BY <3>2 DEF JArray
    <3>4. stage.stage.v = "$match"
      BY <3>2 DEF JString, Json
    <3>. QED  BY <3>1, <3>3, <3>4 DEF JObject, JString, Json
  <2>4. ASSUME NEW k \in 1 .. Len(st.predicates)
        PROVE  SubSeq(below.predicate.v[k], 1, 2)
                 = <<st.predicates[k].field, st.predicates[k].op_token>>
    <3>1. n.predicate # <<>> /\ k \in DOMAIN n.predicate
      BY <2>1
    <3>2. below.predicate.v[k] = <<n.predicate[k].field, OperatorText(n.predicate[k].op),
                                   LiteralText(n.predicate[k].literal)>>
      BY <2>2, <3>1 DEF Describe
    <3>3. OperatorText(n.predicate[k].op) = st.predicates[k].op_token
      BY <2>1, OperatorsInText
    <3>4. \A a, b, c : SubSeq(<<a, b, c>>, 1, 2) = <<a, b>>
      BY FirstTwo
    <3>. QED  BY <2>1, <3>2, <3>3, <3>4
  <2>. HIDE DEF stage
  <2>. QED  BY <2>2, <2>3, <2>4 DEF SaysTheSame
<1>2. CASE st.kind = "kProject"
  <2>1. n.kind = "kProject" /\ n.names = st.fields
    BY <1>2 DEF PP!Repeats
  <2>2. below.node.v = "Project" /\ below.fields = Names(st.fields)
    BY <1>0, <2>1, MembersOf DEF m
  <2>3. stage.stage.v = "$project" /\ stage.fields = Names(st.fields)
    BY <1>2 DEF ParsedStageToJson, JObject, JString, Json
  <2>. HIDE DEF stage
  <2>. QED  BY <2>2, <2>3 DEF SaysTheSame
<1>3. CASE st.kind = "kSort"
  <2>1. /\ n.kind = "kSort" /\ n.name = st.field
        /\ st.direction_raw = DirectionToInt(n.sort.direction)
    BY <1>3 DEF PP!Repeats, DirectionToInt
  <2>2. /\ below.node.v = "Sort" /\ below.field = JString(st.field)
        /\ below.direction = JInteger(st.direction_raw)
    BY <1>0, <2>1, MembersOf DEF m
  <2>3. /\ stage.stage.v = "$sort" /\ stage.field = JString(st.field)
        /\ stage.direction = JInteger(st.direction_raw)
    BY <1>3 DEF ParsedStageToJson, JObject, JString, Json
  <2>. HIDE DEF stage
  <2>. QED  BY <2>2, <2>3 DEF SaysTheSame
<1>4. CASE st.kind = "kLimit"
  <2>1. n.kind = "kLimit" /\ n.limit = st.count_raw
    BY <1>4 DEF PP!Repeats
  <2>2. below.node.v = "Limit" /\ below.count.v = st.count_raw
    BY <1>0, <2>1, MembersOf DEF m
  <2>3. stage.stage.v = "$limit" /\ stage.count.v = st.count_raw
    BY <1>4 DEF ParsedStageToJson, JObject, JString, JInteger, Json
  <2>. HIDE DEF stage
  <2>. QED  BY <2>2, <2>3 DEF SaysTheSame
<1>. QED  BY <1>1, <1>2, <1>3, <1>4 DEF PP!Repeats

\* What is shown, as the planner leaves it.
LEMMA ShownPlans ==
    ASSUME PP!IInv, PP!Shown, planner_phase = "planned"
    PROVE  /\ Len(parsed) \in Nat /\ DOMAIN parsed = 1 .. Len(parsed)
           /\ DOMAIN logical_plan = 1 .. Len(parsed) + 1 /\ Len(logical_plan) = Len(parsed) + 1
           /\ logical_plan[1].kind = "kScan"
           /\ \A i \in 1 .. Len(parsed) : PP!Repeats(logical_plan[i + 1], parsed[i])
           /\ Len(optimized_plan) \in Nat \ {0} /\ DOMAIN optimized_plan = 1 .. Len(optimized_plan)
           /\ \A i \in 1 .. Len(optimized_plan) :
                 /\ optimized_plan[i].kind
                      \in {"kScan", "kFilter", "kProject", "kSort", "kLimit", "kTopK"}
                 /\ optimized_plan[i].kind = "kScan" <=> i = 1
                 /\ physical[i].stage = PP!Lower(optimized_plan[i]).stage
           /\ DOMAIN physical = 1 .. Len(optimized_plan) /\ Len(physical) = Len(optimized_plan)
           /\ PP!IsRewritten(optimized_plan)
BY PlannerAssumptions, PP!WhatIsShown

\* Of a plan in JSON, what there is below the root.
LEMMA LogicalBelow ==
    ASSUME NEW p, NEW N \in Nat \ {0}, DOMAIN p = 1 .. N, Len(p) = N, NEW fields, NEW count,
           NEW i \in 1 .. N, NEW d \in 0 .. N - 1, d = N - i
    PROVE  HasMembers(Below(LogicalToJson(p, fields, count), d),
                      LogicalMembers(p[i], fields, count), i)
<1> DEFINE nodes == [j \in DOMAIN p |-> LogicalMembers(p[j], fields, count)]
<1>1. DOMAIN nodes = 1 .. N /\ nodes[i] = LogicalMembers(p[i], fields, count)
  OBVIOUS
<1>2. Len(nodes) = N
  BY <1>1
<1>3. LogicalToJson(p, fields, count) = Nested(nodes)
  BY DEF LogicalToJson
<1>. HIDE DEF nodes
<1>4. HasMembers(Below(Nested(nodes), d), nodes[i], i)
  BY Zenon, <1>1, <1>2, BelowOf
<1>. QED  BY <1>1, <1>3, <1>4

LEMMA PhysicalBelow ==
    ASSUME NEW p, NEW N \in Nat \ {0}, DOMAIN p = 1 .. N, Len(p) = N,
           NEW i \in 1 .. N, NEW d \in 0 .. N - 1, d = N - i
    PROVE  Below(PhysicalToJson(p), d).stage.v = p[i].stage
<1> DEFINE nodes == [j \in DOMAIN p |-> [stage |-> JString(p[j].stage)]]
<1>1. DOMAIN nodes = 1 .. N /\ nodes[i] = [stage |-> JString(p[i].stage)]
  OBVIOUS
<1>2. Len(nodes) = N
  BY <1>1
<1>3. "stage" \in DOMAIN nodes[i] /\ nodes[i].stage.v = p[i].stage
  BY <1>1 DEF JString, Json
<1>4. PhysicalToJson(p) = Nested(nodes)
  BY DEF PhysicalToJson
<1>. HIDE DEF nodes
<1>5. HasMembers(Below(Nested(nodes), d), nodes[i], i)
  BY Zenon, <1>1, <1>2, BelowOf
<1>6. Below(Nested(nodes), d).stage = nodes[i].stage
  BY <1>3, <1>5 DEF HasMembers
<1>. QED  BY <1>3, <1>4, <1>6

\* The views of what the planner leaves agree.
LEMMA PlansViewsAgree ==
    ASSUME PP!IInv, PP!Shown, planner_phase = "planned", NEW views,
           views.parsedPipeline = Views.parsedPipeline,
           views.logicalPlan = Views.logicalPlan,
           views.optimizedLogicalPlan = Views.optimizedLogicalPlan,
           views.rewrites = Views.rewrites,
           views.physicalPlan = Views.physicalPlan
    PROVE  ViewsAgree(views)
<1> DEFINE count == Len(rows)
           M == Len(parsed)
           N == Len(optimized_plan)
           logical == LogicalToJson(logical_plan, schema, count)
           optimized == LogicalToJson(optimized_plan, schema, count)
           stages == ParsedToJson(parsed).elements
<1>1. /\ views.parsedPipeline = ParsedToJson(parsed) /\ views.logicalPlan = logical
      /\ views.optimizedLogicalPlan = optimized /\ views.rewrites = TraceToJson(applied)
      /\ views.physicalPlan = PhysicalToJson(physical)
  BY DEF Views
<1>2. /\ M \in Nat /\ N \in Nat \ {0} /\ Len(physical) = N /\ DOMAIN physical = 1 .. N
      /\ M + 1 \in Nat \ {0} /\ Len(logical_plan) = M + 1 /\ DOMAIN logical_plan = 1 .. M + 1
      /\ Len(optimized_plan) = N /\ DOMAIN optimized_plan = 1 .. N
      /\ \A i \in 1 .. N : optimized_plan[i].kind
                              \in {"kScan", "kFilter", "kProject", "kSort", "kLimit", "kTopK"}
  BY ShownPlans
<1>3. \A i \in 1 .. M + 1 :
         logical_plan[i].kind \in {"kScan", "kFilter", "kProject", "kSort", "kLimit", "kTopK"}
  <2>1. TAKE i \in 1 .. M + 1
  <2>2. CASE i = 1
    BY <2>2, ShownPlans
  <2>3. CASE i # 1
    <3>1. i - 1 \in 1 .. M /\ (i - 1) + 1 = i
      BY <1>2, <2>3
    <3>2. PP!Repeats(logical_plan[i], parsed[i - 1])
      BY <3>1, ShownPlans
    <3>. QED  BY <3>2 DEF PP!Repeats
  <2>. QED  BY <2>2, <2>3
<1>6. /\ Len(stages) = M /\ DOMAIN stages = 1 .. M
      /\ \A i \in 1 .. M : stages[i] = ParsedStageToJson(parsed[i])
  <2>1. stages = [i \in 1 .. M |-> ParsedStageToJson(parsed[i])]
    BY ShownPlans DEF ParsedToJson, JArray
  <2>. QED  BY <1>2, <2>1
<1>. HIDE DEF M, N, logical, optimized, stages, count
<1>4. ASSUME NEW i \in 1 .. M + 1, NEW d \in 0 .. (M + 1) - 1, d = (M + 1) - i
      PROVE  /\ HasMembers(Below(logical, d), LogicalMembers(logical_plan[i], schema, count), i)
             /\ "child" \notin DOMAIN LogicalMembers(logical_plan[i], schema, count)
  <2>1. HasMembers(Below(logical, d), LogicalMembers(logical_plan[i], schema, count), i)
    BY Zenon, <1>2, <1>4, LogicalBelow DEF logical
  <2>. QED  BY <1>3, <2>1, MembersOf
<1>5. ASSUME NEW i \in 1 .. N, NEW d \in 0 .. N - 1, d = N - i
      PROVE  /\ HasMembers(Below(optimized, d), LogicalMembers(optimized_plan[i], schema, count), i)
             /\ "child" \notin DOMAIN LogicalMembers(optimized_plan[i], schema, count)
  <2>1. HasMembers(Below(optimized, d), LogicalMembers(optimized_plan[i], schema, count), i)
    BY Zenon, <1>2, <1>5, LogicalBelow DEF optimized
  <2>. QED  BY <1>2, <2>1, MembersOf
<1>7. ASSUME NEW i \in 1 .. M PROVE SaysTheSame(Below(logical, M - i), stages[i].members)
  <2>1. i + 1 \in 1 .. M + 1 /\ M - i = (M + 1) - (i + 1) /\ M - i \in 0 .. (M + 1) - 1
    BY <1>2
  <2>2. PP!Repeats(logical_plan[i + 1], parsed[i])
    BY ShownPlans DEF M
  <2>3. HasMembers(Below(logical, M - i), LogicalMembers(logical_plan[i + 1], schema, count), i + 1)
    BY <1>4, <2>1
  <2>4. SaysTheSame(Below(logical, M - i), ParsedStageToJson(parsed[i]).members)
    BY Zenon, <2>2, <2>3, NodeSaysTheSame
  <2>. QED  BY <1>6, <2>4
<1>8. ASSUME NEW d \in 0 .. N - 1
      PROVE  LET below == Below(optimized, d)
                 name  == Below(PhysicalToJson(physical), d).stage.v
             IN  /\ name = (IF below.node.v = "Scan" THEN "CollectionScan" ELSE below.node.v)
                 /\ d < N - 1 <=> "child" \in DOMAIN below
  <2> DEFINE i == N - d
             n == optimized_plan[i]
             members == LogicalMembers(n, schema, count)
  <2>1. i \in 1 .. N /\ N - i = d /\ (d < N - 1 <=> i # 1)
    BY <1>2
  <2>. HIDE DEF i
  <2>2. /\ n.kind \in {"kScan", "kFilter", "kProject", "kSort", "kLimit", "kTopK"}
        /\ physical[i].stage = PP!Lower(n).stage
    BY <2>1, ShownPlans DEF N
  <2>3. Below(PhysicalToJson(physical), d).stage.v = physical[i].stage
    BY <1>2, <2>1, ShownPlans, PhysicalBelow DEF N
  <2>4. Below(optimized, d).node.v = members.node.v
    <3>1. "node" \in DOMAIN members
      BY <2>2, MembersOf
    <3>. QED  BY <1>5, <2>1, <3>1 DEF HasMembers
  <2>5. physical[i].stage = IF members.node.v = "Scan" THEN "CollectionScan" ELSE members.node.v
    BY <2>2, MembersOf DEF PP!Lower, PP!Scan, PP!Filter, PP!Project, PP!Sort, PP!Limit, PP!TopK
  <2>. QED  BY <1>5, <2>1, <2>3, <2>4, <2>5 DEF HasMembers
<1>9. applied <=> logical # optimized
  <2>1. IF applied THEN N < M + 1 ELSE optimized_plan = logical_plan
    BY ShownPlans DEF PP!IsRewritten, N, M
  <2>2. CASE applied
    <3>1. PICK i : i = (M + 1) - (N - 1)
      OBVIOUS
    <3>4. /\ i \in 1 .. M + 1 /\ i # 1 /\ N - 1 \in 0 .. (M + 1) - 1 /\ N - 1 = (M + 1) - i
          /\ 1 \in 1 .. N /\ N - 1 \in 0 .. N - 1
      BY <1>2, <2>1, <2>2, <3>1
    <3>2. "child" \in DOMAIN Below(logical, N - 1)
      BY <1>4, <3>4 DEF HasMembers
    <3>3. "child" \notin DOMAIN Below(optimized, N - 1)
      BY <1>2, <1>5, <3>4 DEF HasMembers
    <3>. QED  BY <2>2, <3>2, <3>3
  <2>3. CASE ~applied
    BY <2>1, <2>3 DEF logical, optimized
  <2>. QED  BY <2>2, <2>3
<1>10. (TraceToJson(applied).elements[1].members.applied.v = 1) <=> applied
  BY DEF TraceToJson, JArray, JObject, JBool, Json
<1>. QED  BY <1>1, <1>2, <1>6, <1>7, <1>8, <1>9, <1>10 DEF ViewsAgree, stages

-----------------------------------------------------------------------------
(***************************************************************************)
(* The meaning of a plan, by names.                                        *)
(***************************************************************************)
\* The names of the rows that leave a stage.
NamesOver(s, named) == IF named.stage = "Project" THEN named.columns ELSE s

\* A stage by names does to the rows by names what the stage does to the rows.
LEMMA StageByNames ==
    ASSUME NEW s, NEW width, AreNames(s, width), NEW st, NEW named, AsksByNames(s, st, named),
           NEW o, IsOutcome(o, width)
    PROVE  NamedApply(named, OutcomeByNames(s, o))
             = {OutcomeByNames(NamesOver(s, named), x) : x \in Apply(st, o)}
<1>0. named.stage = st.stage /\ st.stage \in {"Filter", "Project", "Limit", "Sort"}
  BY DEF AsksByNames
<1>1. CASE st.stage = "Filter"
  <2>1. Filtered(named.predicate, OutcomeByNames(s, o))
          = OutcomeByNames(s, Filtered(st.predicate, o))
    BY <1>1, FilterByNames
  <2>2. Apply(st, o) = {Filtered(st.predicate, o)}
    BY <1>1 DEF Apply
  <2>3. NamedApply(named, OutcomeByNames(s, o))
          = {Filtered(named.predicate, OutcomeByNames(s, o))}
    BY <1>0, <1>1 DEF NamedApply, Apply
  <2>4. NamesOver(s, named) = s
    BY <1>0, <1>1 DEF NamesOver
  <2>. QED  BY <2>1, <2>2, <2>3, <2>4
<1>2. CASE st.stage = "Limit"
  <2>0. named.limit = st.limit /\ st.limit \in Nat
    BY <1>2 DEF AsksByNames
  <2>1. Limited(st.limit, OutcomeByNames(s, o)) = OutcomeByNames(s, Limited(st.limit, o))
    BY <2>0, LimitByNames
  <2>2. Apply(st, o) = {Limited(st.limit, o)}
    BY <1>2 DEF Apply
  <2>3. NamedApply(named, OutcomeByNames(s, o)) = {Limited(st.limit, OutcomeByNames(s, o))}
    BY <1>0, <1>2, <2>0 DEF NamedApply, Apply
  <2>4. NamesOver(s, named) = s
    BY <1>0, <1>2 DEF NamesOver
  <2>. QED  BY <2>1, <2>2, <2>3, <2>4
<1>3. CASE st.stage = "Sort"
  <2>1. Ordered(named, OutcomeByNames(s, o)) = {OutcomeByNames(s, x) : x \in Ordered(st, o)}
    BY <1>3, SortByNames
  <2>2. Apply(st, o) = Ordered(st, o)
    BY <1>3 DEF Apply
  <2>3. NamedApply(named, OutcomeByNames(s, o)) = Ordered(named, OutcomeByNames(s, o))
    BY <1>0, <1>3 DEF NamedApply, Apply
  <2>4. NamesOver(s, named) = s
    BY <1>0, <1>3 DEF NamesOver
  <2>. QED  BY <2>1, <2>2, <2>3, <2>4
<1>4. CASE st.stage = "Project"
  <2> DEFINE ns == named.columns
             projected == [j \in DOMAIN o.rows |-> ProjectRow(st.columns, o.rows[j])]
             no == OutcomeByNames(s, o)
             only == [i \in DOMAIN no.rows |-> OnlyNamed(ns, no.rows[i])]
  <2>1. /\ no = [rows |-> no.rows, fate |-> o.fate] /\ DOMAIN no.rows = DOMAIN o.rows
        /\ \A i \in DOMAIN o.rows : no.rows[i] = RowByNames(s, o.rows[i])
    BY DEF OutcomeByNames, RowsByNames
  <2>2. o = [rows |-> o.rows, fate |-> o.fate]
        /\ \A i \in DOMAIN o.rows : o.rows[i] \in RowsOf(width)
    BY RowsListed DEF IsOutcome
  <2>3. Apply(st, o) = {[o EXCEPT !.rows = projected]}
    BY <1>4 DEF Apply
  <2>4. NamedApply(named, no) = {[no EXCEPT !.rows = only]}
    BY <1>0, <1>4 DEF NamedApply
  <2>. HIDE DEF no
  <2>5. \A i \in DOMAIN o.rows : OnlyNamed(ns, no.rows[i]) = RowByNames(ns, projected[i])
    BY <1>4, <2>1, <2>2, ProjectByNames DEF OnlyNamed
  <2>6. only = RowsByNames(ns, projected)
    BY <2>1, <2>5 DEF RowsByNames
  <2>. HIDE DEF only, projected, ns
  <2>7. /\ [o EXCEPT !.rows = projected] = [rows |-> projected, fate |-> o.fate]
        /\ [no EXCEPT !.rows = only] = [rows |-> only, fate |-> o.fate]
    BY <2>1, <2>2
  <2>8. OutcomeByNames(ns, [o EXCEPT !.rows = projected]) = [no EXCEPT !.rows = only]
    BY <2>6, <2>7 DEF OutcomeByNames
  <2>9. NamesOver(s, named) = ns
    BY <1>0, <1>4 DEF NamesOver, ns
  <2>. QED  BY <2>3, <2>4, <2>8, <2>9 DEF no
<1>. QED  BY <1>0, <1>1, <1>2, <1>3, <1>4

\* A stage that fits over rows of names.
LEMMA AskedFits ==
    ASSUME NEW s, NEW width, AreNames(s, width), NEW st, NEW named, AsksByNames(s, st, named)
    PROVE  /\ AreNames(NamesOver(s, named), WidthOver(st, width))
           /\ st.stage \in {"Filter", "Project", "Limit", "Sort"}
BY DEF AsksByNames, NamesOver, WidthOver

\* What the named stages give passes up along with what a plan gives.
NamedPasses(g, asked, n, rows0) ==
    g = [i \in 0 .. n |-> IF i = 0 THEN {Yields(rows0)}
                          ELSE UNION {NamedApply(asked[i], o) : o \in g[i - 1]}]

\* The names s stand above each stage of the plan.
AskAll(built, N, w, s, asked) ==
    /\ AreNames(s[1], w[1])
    /\ \A i \in 2 .. N : /\ AsksByNames(s[i - 1], built[i], asked[i - 1])
                         /\ s[i] = NamesOver(s[i - 1], asked[i - 1])

LEMMA PlanByNames ==
    ASSUME NEW built, NEW N, AreStages(built, N), NEW w, FitTogether(built, N, w),
           NEW t, AreRows(t, w[1]), NEW s, NEW asked, AskAll(built, N, w, s, asked),
           NEW rows0, OutcomeByNames(s[1], Yields(t)) = Yields(rows0)
    PROVE  /\ AreNames(s[N], w[N])
           /\ \E g : NamedPasses(g, asked, N - 1, rows0)
           /\ \A g : NamedPasses(g, asked, N - 1, rows0) =>
                 g[N - 1] = {OutcomeByNames(s[N], o) : o \in Outcomes(built, t)}
<1>1. PICK f : Passes(f, built, N, t) /\ Outcomes(built, t) = f[N]
  BY OutcomesOf
<1>2. N \in Nat /\ N > 0
  BY DEF AreStages
<1>3. f[1] = {Yields(t)} /\ \A i \in 2 .. N : f[i] = After(built[i], f[i - 1])
  BY <1>1, <1>2, PassOn
<1>4. \A i \in 1 .. N : \A o \in f[i] : IsOutcome(o, w[i])
  BY <1>1, OutcomesFit
<1>5. \A i \in 1 .. N : AreNames(s[i], w[i])
  <2> DEFINE Odd == {i \in 1 .. N : ~AreNames(s[i], w[i])}
  <2>. SUFFICES ASSUME Odd # {} PROVE FALSE
    OBVIOUS
  <2>1. PICK i \in Odd : \A j \in Odd : i <= j
    <3>1. Odd \in SUBSET (1 .. N)
      OBVIOUS
    <3>. QED  BY <1>2, <3>1, LeastPlace
  <2>2. i \in 2 .. N /\ i - 1 \in 1 .. N /\ ~(i <= i - 1)
    BY <1>2 DEF AskAll
  <2>3. AreNames(s[i - 1], w[i - 1])
    BY <2>1, <2>2
  <2>4. AreNames(NamesOver(s[i - 1], asked[i - 1]), WidthOver(built[i], w[i - 1]))
    BY <2>2, <2>3, AskedFits DEF AskAll
  <2>5. AreNames(s[i], w[i])
    BY <2>2, <2>4 DEF AskAll, FitTogether
  <2>. QED  BY <2>1, <2>5
<1> DEFINE Named(i) == {OutcomeByNames(s[i], o) : o \in f[i]}
<1>6. Named(1) = {Yields(rows0)}
  BY <1>3
<1>7. ASSUME NEW i \in 2 .. N
      PROVE  UNION {NamedApply(asked[i - 1], y) : y \in Named(i - 1)} = Named(i)
  <2>1. i - 1 \in 1 .. N /\ AsksByNames(s[i - 1], built[i], asked[i - 1])
        /\ s[i] = NamesOver(s[i - 1], asked[i - 1])
    BY <1>2 DEF AskAll
  <2> DEFINE A(y) == NamedApply(asked[i - 1], y)
             B(o) == Apply(built[i], o)
             C(j, o) == OutcomeByNames(s[j], o)
  <2>2. \A o \in f[i - 1] : A(C(i - 1, o)) = {C(i, x) : x \in B(o)}
    BY <1>4, <1>5, <2>1, StageByNames
  <2>3. f[i] = UNION {B(o) : o \in f[i - 1]}
    BY <1>3 DEF After
  <2>4. Named(i) = {C(i, x) : x \in f[i]} /\ Named(i - 1) = {C(i - 1, o) : o \in f[i - 1]}
    OBVIOUS
  <2>. HIDE DEF A, B, C, Named
  <2>5. UNION {A(y) : y \in Named(i - 1)} = Named(i)
    BY <2>2, <2>3, <2>4
  <2>. QED  BY <2>5 DEF A
<1>. HIDE DEF Named
<1> DEFINE h == [i \in 0 .. N - 1 |-> Named(i + 1)]
<1>8. NamedPasses(h, asked, N - 1, rows0)
  <2>1. ASSUME NEW i \in 0 .. N - 1
        PROVE  h[i] = IF i = 0 THEN {Yields(rows0)}
                      ELSE UNION {NamedApply(asked[i], o) : o \in h[i - 1]}
    <3>1. CASE i = 0
      BY <1>6, <3>1
    <3>2. CASE i # 0
      <4>1. i + 1 \in 2 .. N /\ i - 1 \in 0 .. N - 1 /\ (i + 1) - 1 = i /\ (i - 1) + 1 = i
        BY <1>2, <3>2
      <4>2. h[i] = Named(i + 1) /\ h[i - 1] = Named(i)
        BY <4>1
      <4>3. UNION {NamedApply(asked[i], y) : y \in Named(i)} = Named(i + 1)
        BY <1>7, <4>1
      <4>. HIDE DEF h
      <4>. QED  BY <3>2, <4>2, <4>3
    <3>. QED  BY <3>1, <3>2
  <2>2. h = [i \in 0 .. N - 1 |-> h[i]]
    OBVIOUS
  <2>. HIDE DEF h
  <2>. QED  BY <2>1, <2>2 DEF NamedPasses
<1>9. ASSUME NEW g, NamedPasses(g, asked, N - 1, rows0) PROVE g[N - 1] = Named(N)
  <2>0. \A i \in 0 .. N - 1 : g[i] = IF i = 0 THEN {Yields(rows0)}
                                     ELSE UNION {NamedApply(asked[i], o) : o \in g[i - 1]}
    BY <1>9 DEF NamedPasses
  <2> DEFINE Odd == {i \in 1 .. N : g[i - 1] # Named(i)}
  <2>1. ASSUME Odd # {} PROVE FALSE
    <3>1. PICK i \in Odd : \A j \in Odd : i <= j
      <4>1. Odd \in SUBSET (1 .. N)
        OBVIOUS
      <4>. QED  BY <1>2, <2>1, <4>1, LeastPlace
    <3>2. i \in 1 .. N /\ g[i - 1] # Named(i) /\ i - 1 \in 0 .. N - 1
      BY <1>2
    <3>3. CASE i = 1
      <4>1. i - 1 = 0
        BY <3>3
      <4>. QED  BY <1>6, <2>0, <3>2, <3>3, <4>1
    <3>4. CASE i # 1
      <4>1. i \in 2 .. N /\ i - 1 \in 1 .. N /\ i - 1 # 0 /\ ~(i <= i - 1)
        BY <1>2, <3>2, <3>4
      <4>2. g[(i - 1) - 1] = Named(i - 1)
        BY <3>1, <4>1
      <4>3. g[i - 1] = UNION {NamedApply(asked[i - 1], o) : o \in Named(i - 1)}
        BY <2>0, <3>2, <4>1, <4>2
      <4>. QED  BY <1>7, <3>2, <4>1, <4>3
    <3>. QED  BY <3>3, <3>4
  <2>2. N \in 1 .. N
    BY <1>2
  <2>. QED  BY <2>1, <2>2
<1>10. N \in 1 .. N
  BY <1>2
<1>. QED  BY <1>1, <1>5, <1>8, <1>9, <1>10 DEF Named

LEMMA OperatorAsked ==
    ASSUME NEW token \in PP!Operators
    PROVE  (CHOOSE op \in ComparisonOperator : OperatorText(op) = token)
             = PP!ComparisonOperatorOf[token]
<1>1. token \in {"$eq", "$ne", "$lt", "$lte", "$gt", "$gte"}
  BY DEF PP!Operators
<1> DEFINE bound == PP!ComparisonOperatorOf[token]
<1>2. bound \in ComparisonOperator
  BY <1>1 DEF PP!ComparisonOperatorOf, ComparisonOperator
<1>3. OperatorText(bound) = token
  BY OperatorsInText
<1>. HIDE DEF bound
<1>4. \A op \in ComparisonOperator : OperatorText(op) = token => op = bound
  BY <1>1, <1>2, <1>3 DEF ComparisonOperator, OperatorText
<1>. QED  BY <1>2, <1>3, <1>4 DEF bound

\* A literal is the same cell whatever the error of a nested value.
LEMMA CellOf ==
    ASSUME NEW j, NEW nested
    PROVE  PP!Scalar(j, nested).value = Cell(j)
BY DEF PP!Scalar, Cell, Scalar, PP!Gives, PP!Throws, Gives, Throws, PP!Unsigned, Unsigned,
   PP!Null, Null, PP!Bool, Bool, PP!Int64, Int64, PP!Double, Double, PP!String, String

\* The stage built of a node that asks what is written asks what the named stage asks.
LEMMA StageIsAsked ==
    ASSUME NEW stage, NEW node, NEW below, PP!NodeAsks(stage, node, below)
    PROVE  /\ AsksByNames(below, PP!Lower(node), NamedStage(stage))
           /\ NamesOver(below, NamedStage(stage))
                = IF node.kind = "kProject" THEN node.names ELSE below
<1> DEFINE name == OnlyKey(stage)
           w == stage.members[name]
           st == PP!Lower(node)
           named == NamedStage(stage)
<1>0. /\ \A j : PP!OnlyKey(j) = OnlyKey(j)
      /\ \A j : PP!Keys(j) = Keys(j)
  <2>1. \A j : PP!OnlyKey(j) = OnlyKey(j)
    BY Zenon DEF PP!OnlyKey, OnlyKey
  <2>2. \A j : PP!Keys(j) = Keys(j)
    BY Zenon DEF PP!Keys, Keys, PP!Ascending, Ascending, PP!Cardinality, Cardinality
  <2>. QED  BY <2>1, <2>2
<1>1. CASE name = "$match"
  <2> DEFINE p == node.predicate
             n == Len(p)
             operand(i) == w.members[Keys(w)[i]]
             token(i) == OnlyKey(operand(i))
  <2>1. /\ node.kind = "kFilter" /\ p \in Seq(PP!BoundComparison) /\ DOMAIN Keys(w) = 1 .. n
        /\ \A i \in 1 .. n :
              /\ p[i].column \in DOMAIN below /\ below[p[i].column] = Keys(w)[i]
              /\ token(i) \in PP!Operators /\ p[i].op = PP!ComparisonOperatorOf[token(i)]
              /\ p[i].literal
                   = PP!Scalar(operand(i).members[token(i)], "kPipelineSyntaxError").value
    BY <1>0, <1>1 DEF PP!NodeAsks
  <2>2. n \in Nat /\ DOMAIN p = 1 .. n
    BY <2>1
  <2>3. st.stage = "Filter" /\ st.predicate = p
    BY <2>1 DEF PP!Lower, PP!Filter
  <2> DEFINE opOf(t) == CHOOSE op \in ComparisonOperator : OperatorText(op) = t
             cell(i) == Cell(operand(i).members[token(i)])
             Asked(i) == [column |-> Keys(w)[i], literal |-> cell(i), op |-> opOf(token(i))]
             all == [i \in DOMAIN Keys(w) |-> Asked(i)]
  <2>4. named = Filter(all)
    BY <1>1 DEF NamedStage
  <2>. HIDE DEF named
  <2>4a. named.stage = "Filter" /\ named.predicate = all
    BY <2>4 DEF Filter
  <2>4b. /\ DOMAIN all = 1 .. n
        /\ \A i \in 1 .. n : /\ all[i].column = Keys(w)[i]
                             /\ all[i].literal = cell(i)
                             /\ all[i].op = opOf(token(i))
    <3>. HIDE DEF cell, opOf, token, operand
    <3>. QED  BY <2>1
  <2>. HIDE DEF all, opOf, cell, token, operand, n, w
  <2>5. /\ named.stage = "Filter" /\ DOMAIN named.predicate = 1 .. n
        /\ \A i \in 1 .. n : /\ named.predicate[i].column = Keys(w)[i]
                             /\ named.predicate[i].literal = cell(i)
                             /\ named.predicate[i].op = opOf(token(i))
    BY <2>4a, <2>4b
  <2>5a. /\ \A i \in 1 .. n : opOf(token(i)) = PP!ComparisonOperatorOf[token(i)]
        /\ \A i \in 1 .. n :
              PP!Scalar(operand(i).members[token(i)], "kPipelineSyntaxError").value = cell(i)
    <3>. HIDE DEF token, operand, p, n, w, name
    <3>1. \A i \in 1 .. n : token(i) \in PP!Operators
      BY <2>1
    <3>. QED  BY <3>1, OperatorAsked, CellOf DEF opOf, cell
  <2>. HIDE DEF p, n, operand, token, st, w, name
  <2>6. \A i \in 1 .. n :
           named.predicate[i].op = p[i].op /\ named.predicate[i].literal = p[i].literal
    BY <2>1, <2>5, <2>5a
  <2>7. AsksByNames(below, st, named)
    BY <2>1, <2>2, <2>3, <2>5, <2>6 DEF AsksByNames
  <2>8. NamesOver(below, named) = below
    BY <2>5 DEF NamesOver
  <2>. QED  BY <2>1, <2>7, <2>8 DEF st, named
<1>2. CASE name = "$project"
  <2>1. /\ node.kind = "kProject" /\ node.columns \in Seq(Nat \ {0})
        /\ DOMAIN w.elements = 1 .. Len(node.columns)
        /\ node.names = [j \in DOMAIN w.elements |-> w.elements[j].v]
        /\ \A j \in 1 .. Len(node.columns) :
              node.columns[j] \in DOMAIN below /\ below[node.columns[j]] = node.names[j]
        /\ \A i, j \in 1 .. Len(node.columns) : node.names[i] = node.names[j] => i = j
    BY <1>0, <1>2 DEF PP!NodeAsks
  <2>2. st.stage = "Project" /\ st.columns = node.columns
    BY <2>1 DEF PP!Lower, PP!Project
  <2>3. named.stage = "Project" /\ named.columns = node.names
    BY <1>2, <2>1 DEF NamedStage, Project
  <2>. HIDE DEF st, named, w, name
  <2>4. Len(node.columns) \in Nat /\ DOMAIN node.columns = 1 .. Len(node.columns)
    BY <2>1
  <2>5. AreNames(node.names, Len(node.columns))
    BY <2>1, <2>4 DEF AreNames
  <2>6. AsksByNames(below, st, named)
    BY <2>1, <2>2, <2>3, <2>4, <2>5 DEF AsksByNames
  <2>. QED  BY <2>1, <2>3, <2>6 DEF NamesOver, st, named
<1>3. CASE name = "$sort"
  <2>1. /\ node.kind = "kSort" /\ node.sort.direction \in PP!SortDirection
        /\ node.sort.column \in DOMAIN below /\ below[node.sort.column] = OnlyKey(w)
        /\ w.members[OnlyKey(w)].v = IF node.sort.direction = "kAscending" THEN 1 ELSE -1
    BY <1>0, <1>3 DEF PP!NodeAsks
  <2>2. /\ st.stage = "Sort"
        /\ st.sort = [column |-> node.sort.column, direction |-> node.sort.direction]
    BY <2>1 DEF PP!Lower, PP!Sort
  <2>3. /\ named.stage = "Sort"
        /\ named.sort = [column |-> OnlyKey(w),
                         direction |-> IF w.members[OnlyKey(w)].v = 1 THEN "kAscending"
                                       ELSE "kDescending"]
    BY <1>3 DEF NamedStage, Sort
  <2>. HIDE DEF st, named, w, name
  <2>4. node.sort.direction \in SortDirection
    BY <2>1 DEF PP!SortDirection, SortDirection
  <2>5. named.sort.direction = node.sort.direction
    BY <2>1, <2>3, <2>4 DEF SortDirection
  <2>6. AsksByNames(below, st, named)
    BY <2>1, <2>2, <2>3, <2>4, <2>5 DEF AsksByNames
  <2>. QED  BY <2>1, <2>3, <2>6 DEF NamesOver, st, named
<1>4. CASE name = "$limit"
  <2>1. node.kind = "kLimit" /\ node.limit = w.v /\ node.limit \in Nat
    BY <1>0, <1>4 DEF PP!NodeAsks
  <2>2. st.stage = "Limit" /\ st.limit = node.limit
    BY <2>1 DEF PP!Lower, PP!Limit
  <2>3. named.stage = "Limit" /\ named.limit = w.v
    BY <1>4 DEF NamedStage, Limit
  <2>. HIDE DEF st, named, w, name
  <2>4. AsksByNames(below, st, named)
    BY <2>1, <2>2, <2>3 DEF AsksByNames
  <2>. QED  BY <2>1, <2>3, <2>4 DEF NamesOver, st, named
<1>5. name \in {"$match", "$project", "$sort", "$limit"}
  BY <1>0 DEF PP!NodeAsks
<1>. QED  BY <1>1, <1>2, <1>3, <1>4, <1>5

\* What is printed of a value is that value.
LEMMA PrintedKeeps ==
    ASSUME NEW v \in Value
    PROVE  Loader!Keeps(ValueToJson(v), v)
<1>1. v.type \in {"kNull", "kBool", "kInt64", "kDouble", "kString"}
  BY DEF Value, Null, Bool, Int64, Double, String
<1>2. CASE v.type = "kNull"
  <2>1. v.v = 0
    BY <1>2 DEF Value, Null, Bool, Int64, Double, String
  <2>. QED  BY <1>2, <2>1 DEF ValueToJson, Loader!Keeps, JNull, Json
<1>3. CASE v.type # "kNull"
  BY <1>1, <1>3 DEF ValueToJson, Loader!Keeps, JBool, JInteger, JFloat, JString, Json
<1>. QED  BY <1>2, <1>3

\* Rows are printed with the values they have, each under the name of its column.
LEMMA PrintedShows ==
    ASSUME NEW s, NEW width, AreNames(s, width), NEW rs, AreRows(rs, width)
    PROVE  Shows(RowsToJson(rs, s), RowsByNames(s, rs))
<1> DEFINE p == RowsToJson(rs, s)
           named == RowsByNames(s, rs)
<1>1. /\ Len(rs) \in Nat /\ DOMAIN rs = 1 .. Len(rs)
      /\ \A i \in 1 .. Len(rs) : rs[i] \in RowsOf(width)
  BY RowsListed DEF AreRows
<1>2. /\ DOMAIN p.elements = 1 .. Len(rs) /\ DOMAIN named = 1 .. Len(rs)
      /\ \A i \in 1 .. Len(rs) : /\ p.elements[i] = RowToJson(rs[i], s)
                                 /\ named[i] = RowByNames(s, rs[i])
  BY <1>1 DEF RowsToJson, JArray, RowsByNames
<1>3. ASSUME NEW r \in RowsOf(width)
      PROVE  LET members == RowToJson(r, s).members
             IN  /\ DOMAIN members = DOMAIN RowByNames(s, r).values
                 /\ \A f \in DOMAIN members : Loader!Keeps(members[f], RowByNames(s, r).values[f])
  <2> DEFINE members == RowToJson(r, s).members
             columns == DOMAIN s \cap DOMAIN r.values
             Of(f) == Max({i \in columns : s[i] = f})
  <2>1. columns = 1 .. width /\ DOMAIN s = 1 .. width /\ \A j \in 1 .. width : r.values[j] \in Value
    BY DEF RowsOf, AreNames
  <2>2. members = [f \in {s[i] : i \in columns} |-> ValueToJson(r.values[Of(f)])]
    BY DEF RowToJson, JObject
  <2>3. ASSUME NEW j \in 1 .. width PROVE Of(s[j]) = j
    <3>1. {i \in columns : s[i] = s[j]} = {j}
      <4>1. \A i \in columns : s[i] = s[j] <=> i = j
        BY <2>1 DEF AreNames
      <4>2. j \in columns
        BY <2>1
      <4>. HIDE DEF columns
      <4>. QED  BY <4>1, <4>2
    <3>2. {j} \in SUBSET Int /\ IsFiniteSet({j}) /\ {j} # {}
      <4>1. j \in Int
        BY DEF AreNames
      <4>2. IsFiniteSet({j})
        BY FS_Singleton, Zenon
      <4>. QED  BY <4>1, <4>2
    <3>3. Max({j}) \in {j}
      BY <3>2, LeastAndGreatest
    <3>. QED  BY <3>1, <3>3
  <2>. HIDE DEF members, Of, columns
  <2>4. /\ DOMAIN members = {s[j] : j \in 1 .. width}
        /\ \A j \in 1 .. width : members[s[j]] = ValueToJson(r.values[j])
    BY <2>1, <2>2, <2>3
  <2>5. /\ DOMAIN RowByNames(s, r).values = {s[j] : j \in 1 .. width}
        /\ \A j \in 1 .. width : RowByNames(s, r).values[s[j]] = r.values[j]
    BY CellsByNames
  <2>6. \A j \in 1 .. width : Loader!Keeps(members[s[j]], RowByNames(s, r).values[s[j]])
    BY <2>1, <2>4, <2>5, PrintedKeeps
  <2>. QED  BY <2>4, <2>5, <2>6 DEF members
<1>. HIDE DEF p, named
<1>4. Len(p.elements) = Len(named)
  BY <1>1, <1>2
<1>5. ASSUME NEW i \in DOMAIN named
      PROVE  LET members == p.elements[i].members
             IN  /\ DOMAIN members = DOMAIN named[i].values
                 /\ \A f \in DOMAIN members : Loader!Keeps(members[f], named[i].values[f])
  <2>1. rs[i] \in RowsOf(width) /\ p.elements[i] = RowToJson(rs[i], s)
        /\ named[i] = RowByNames(s, rs[i])
    BY <1>1, <1>2
  <2>. QED  BY <1>3, <2>1
<1>. QED  BY <1>4, <1>5 DEF Shows, p, named

\* A cell of the table is what is written in the document.
LEMMA CellIsKept ==
    ASSUME NEW j, NEW v \in Value, LP!Keeps(j, v)
    PROVE  Cell(j) = v
<1>1. /\ v.v = j.v
      /\ \/ j.type = "null" /\ v.type = "kNull"
         \/ j.type = "boolean" /\ v.type = "kBool"
         \/ j.type = "number_integer" /\ v.type = "kInt64"
         \/ j.type = "number_unsigned" /\ v.type = "kInt64"
         \/ j.type = "number_float" /\ v.type = "kDouble"
         \/ j.type = "string" /\ v.type = "kString"
  BY DEF LP!Keeps
<1>2. /\ v = [type |-> v.type, v |-> v.v]
      /\ v.type = "kNull" => v = Null
      /\ v.type = "kInt64" => v.v \in Int64Min .. Int64Max
  BY DEF Value, Null, Bool, Int64, Double, String
<1>3. CASE j.type = "number_unsigned"
  <2>1. ~(j.v > Int64Max)
    BY <1>1, <1>2, <1>3, Int64Assumption
  <2>. QED  BY <1>1, <1>2, <1>3, <2>1 DEF Cell, Scalar, Unsigned, Gives, Int64
<1>4. CASE j.type # "number_unsigned"
  BY <1>1, <1>2, <1>4 DEF Cell, Scalar, Gives, Null, Bool, Int64, Double, String
<1>. QED  BY <1>3, <1>4

\* The loaded table is, by the names of its schema, the documents.
LEMMA TableByNames ==
    ASSUME LP!IInv, loader_phase = "loaded"
    PROVE  /\ AreNames(schema, Len(schema)) /\ AreRows(rows, Len(schema))
           /\ OutcomeByNames(schema, Yields(rows)) = Yields(NamedRows)
<1> DEFINE n == Len(Documents)
           width == Len(schema)
<1>1. /\ n \in Nat /\ DOMAIN Documents = 1 .. n
      /\ Len(rows) = n /\ DOMAIN rows = 1 .. n
      /\ \A d \in 1 .. n : LP!RowSays(d)
  <2>1. LP!Documents = Documents
    BY DEF LP!Documents, Documents
  <2>. QED  BY <2>1, LoaderAssumptions, LP!TableIsFilled
<1>2. /\ width \in Nat /\ DOMAIN schema = 1 .. width /\ \A i \in 1 .. width : schema[i] \in Strings
      /\ \A i, j \in 1 .. width : i < j => schema[i] < schema[j]
      /\ ToSet(schema) = UNION {DOMAIN Documents[d].members : d \in 1 .. n}
  <2>1. schema \in Seq(Strings)
    BY LoaderAssumptions, LP!SchemaIsNames
  <2>2. /\ LP!ToSet(schema) = UNION {DOMAIN LP!Documents[d].members : d \in 1 .. Len(LP!Documents)}
        /\ \A i, j \in DOMAIN schema : i < j => schema[i] < schema[j]
    BY LoaderAssumptions, LP!SchemaLists
  <2>3. LP!ToSet(schema) = ToSet(schema) /\ LP!Documents = Documents
    BY DEF LP!ToSet, ToSet, LP!Documents, Documents
  <2>. QED  BY <2>1, <2>2, <2>3
<1>3. FieldsOfAll = ToSet(schema)
  <2>1. {DOMAIN d.members : d \in ToSet(Documents)} = {DOMAIN Documents[d].members : d \in 1 .. n}
    BY <1>1 DEF ToSet
  <2>. QED  BY <1>2, <2>1 DEF FieldsOfAll
<1>. HIDE DEF n, width
<1>4. AreNames(schema, width)
  <2>1. \A i \in 1 .. width : schema[i] \in Int
    <3>1. \A x \in Strings : x \in Int
      BY StringsAssumption
    <3>2. \A i \in 1 .. width : schema[i] \in Strings
      BY <1>2
    <3>. QED  BY <3>1, <3>2
  <2>2. ASSUME NEW i \in 1 .. width, NEW j \in 1 .. width, schema[i] = schema[j] PROVE i = j
    <3>1. i < j \/ j < i \/ i = j
      BY <1>2
    <3>2. ~(schema[i] < schema[j]) /\ ~(schema[j] < schema[i])
      BY <2>1, <2>2
    <3>. QED  BY <1>2, <3>1, <3>2
  <2>. QED  BY <1>2, <2>2 DEF AreNames
<1>5. ASSUME NEW i \in 1 .. n
      PROVE  /\ rows[i] \in RowsOf(width) /\ rows[i].ordinal = i - 1
             /\ RowByNames(schema, rows[i]) = NamedRows[i]
  <2> DEFINE members == Documents[i].members
             value(f) == IF f \in DOMAIN members THEN Cell(members[f]) ELSE Null
             values == [f \in FieldsOfAll |-> value(f)]
  <2>1. /\ rows[i] = [ordinal |-> i - 1, values |-> rows[i].values]
        /\ rows[i].values \in [1 .. width -> Value]
        /\ \A c \in 1 .. width : IF schema[c] \in DOMAIN members
                                 THEN LP!Keeps(members[schema[c]], rows[i].values[c])
                                 ELSE rows[i].values[c] = LP!Null
    <3>1. LP!Value = Value /\ LP!Documents = Documents
      BY DEF LP!Documents, Documents, LP!Value, Value, LP!Null, Null,
         LP!Bool, Bool, LP!Int64, Int64, LP!Double, Double, LP!String, String
    <3>2. LP!RowSays(i)
      BY <1>1
    <3>. QED  BY <1>2, <3>1, <3>2 DEF LP!RowSays
  <2>2. i - 1 \in Nat /\ rows[i].ordinal = i - 1 /\ LP!Null = Null
    BY <1>1, <2>1 DEF LP!Null, Null
  <2>3. rows[i] \in RowsOf(width)
    BY <2>1, <2>2 DEF RowsOf
  <2>4. \A c \in 1 .. width : rows[i].values[c] = value(schema[c])
    BY <2>1, <2>2, CellIsKept
  <2>5. NamedRows[i] = [ordinal |-> i - 1, values |-> values]
    BY <1>1 DEF NamedRows
  <2>. HIDE DEF value
  <2>6. RowByNames(schema, rows[i]).values = values
    <3> DEFINE named == RowByNames(schema, rows[i])
    <3>1. /\ DOMAIN named.values = ToSet(schema)
          /\ ToSet(schema) = {schema[c] : c \in 1 .. width}
          /\ \A c \in 1 .. width : named.values[schema[c]] = rows[i].values[c]
      BY <1>4, CellsByNames
    <3>2. named.values = [f \in DOMAIN named.values |-> named.values[f]]
      BY DEF RowByNames
    <3>. HIDE DEF named
    <3>3. \A f \in ToSet(schema) : named.values[f] = value(f)
      BY <2>4, <3>1
    <3>. QED  BY <1>3, <3>1, <3>2, <3>3 DEF named
  <2>7. RowByNames(schema, rows[i])
          = [ordinal |-> rows[i].ordinal, values |-> RowByNames(schema, rows[i]).values]
    BY DEF RowByNames
  <2>. HIDE DEF values, members
  <2>. QED  BY <2>2, <2>3, <2>5, <2>6, <2>7
<1>6. AreRows(rows, width)
  <2>1. rows = [i \in 1 .. n |-> rows[i]] /\ \A i \in 1 .. n : rows[i] \in RowsOf(width)
    <3>1. rows = [i \in DOMAIN rows |-> rows[i]]
      BY LoaderAssumptions, LP!TableIsFilled
    <3>. QED  BY <1>1, <1>5, <3>1
  <2>2. rows \in [1 .. n -> RowsOf(width)]
    BY <2>1
  <2>3. rows \in Seq(RowsOf(width))
    BY <1>1, <2>2, ListIsSequence DEF n
  <2>4. \A i, j \in 1 .. n : rows[i].ordinal = rows[j].ordinal => i = j
    <3>1. \A i, j \in 1 .. n : i - 1 = j - 1 => i = j
      BY <1>1
    <3>. QED  BY <1>5, <3>1
  <2>. QED  BY <1>1, <2>3, <2>4 DEF AreRows, RowsOf
<1>7. RowsByNames(schema, rows) = NamedRows
  <2>1. NamedRows = [i \in 1 .. n |-> NamedRows[i]]
    BY <1>1 DEF NamedRows
  <2>. QED  BY <1>1, <1>5, <2>1 DEF RowsByNames
<1>. QED  BY <1>4, <1>6, <1>7 DEF OutcomeByNames, Yields, width

\* Plans mean to the planner what they mean to the program: the same definitions.
LEMMA PlannerStages ==
    /\ \A st, S : PP!After(st, S) = After(st, S)
    /\ PP!FailsToOpen = FailsToOpen /\ \A t : PP!Yields(t) = Yields(t)
<1>1. ASSUME NEW S PROVE PP!Ascending(S) = Ascending(S)
  BY Zenon DEF PP!Ascending, Ascending, PP!Cardinality, Cardinality
<1>2. ASSUME NEW i, NEW f PROVE PP!CompareIntToDouble(i, f) = CompareIntToDouble(i, f)
  BY Zenon DEF PP!CompareIntToDouble, CompareIntToDouble, PP!Order, Order, PP!Truncate, Truncate,
     PP!LowerBound, LowerBound, PP!UpperBound, UpperBound, PP!ToDouble, ToDouble, PP!Magnitude,
     Magnitude
<1>3. ASSUME NEW a, NEW b PROVE PP!CompareNumeric(a, b) = CompareNumeric(a, b)
  BY Zenon, <1>2 DEF PP!CompareNumeric, CompareNumeric, PP!CompareDoubles, CompareDoubles,
     PP!Invert, Invert, PP!Order, Order
<1>4. ASSUME NEW a, NEW b PROVE PP!Compare(a, b) = Compare(a, b)
  BY Zenon, <1>3 DEF PP!Compare, Compare, PP!IsNumeric, IsNumeric, PP!Order, Order
<1>5. ASSUME NEW a, NEW b PROVE PP!ValuesEqual(a, b) = ValuesEqual(a, b)
  BY Zenon, <1>3 DEF PP!ValuesEqual, ValuesEqual, PP!IsNumeric, IsNumeric, PP!Truth, Truth,
     PP!ComparisonError, ComparisonError
<1>6. ASSUME NEW op, NEW a, NEW b
      PROVE  PP!EvaluateComparison(op, a, b) = EvaluateComparison(op, a, b)
  BY Zenon, <1>4, <1>5 DEF PP!EvaluateComparison, EvaluateComparison, PP!Truth, Truth,
     PP!ComparisonError, ComparisonError
<1>7. ASSUME NEW c, NEW r PROVE PP!Evaluate(c, r) = Evaluate(c, r)
  <2> DEFINE one(i) == PP!EvaluateComparison(c[i].op, r.values[c[i].column], c[i].literal)
             two(i) == EvaluateComparison(c[i].op, r.values[c[i].column], c[i].literal)
             ones == {i \in DOMAIN c : one(i) # "true"}
             twos == {i \in DOMAIN c : two(i) # "true"}
  <2>1. \A i : one(i) = two(i)
    BY <1>6
  <2>. HIDE DEF one, two
  <2>2. ones = twos
    BY <2>1
  <2>3. PP!Min(ones) = Min(ones)
    BY Zenon DEF PP!Min, Min
  <2>4. PP!Evaluate(c, r) = IF ones = {} THEN "true" ELSE one(PP!Min(ones))
    BY Zenon DEF PP!Evaluate, one, ones
  <2>5. Evaluate(c, r) = IF twos = {} THEN "true" ELSE two(Min(twos))
    BY Zenon DEF Evaluate, two, twos
  <2>. HIDE DEF ones, twos
  <2>. QED  BY <2>1, <2>2, <2>3, <2>4, <2>5
<1>8. ASSUME NEW s, NEW a, NEW b PROVE PP!LessThan(s, a, b) = LessThan(s, a, b)
  BY Zenon, <1>4 DEF PP!LessThan, LessThan, PP!Truth, Truth, PP!ComparisonError, ComparisonError
<1>9. ASSUME NEW s, NEW S PROVE PP!Clashing(s, S) <=> Clashing(s, S)
  BY Zenon, <1>8 DEF PP!Clashing, Clashing, PP!RowClash, RowClash, PP!ComparisonError,
     ComparisonError
<1>10. ASSUME NEW s, NEW S PROVE PP!InOrder(s, S) = InOrder(s, S)
  BY Zenon DEF PP!InOrder, InOrder, PP!RowBefore, RowBefore, PP!Cardinality, Cardinality,
     PP!LessThan, LessThan, PP!Compare, Compare, PP!IsNumeric, IsNumeric, PP!CompareNumeric,
     CompareNumeric, PP!CompareIntToDouble, CompareIntToDouble, PP!CompareDoubles, CompareDoubles,
     PP!Invert, Invert, PP!Order, Order, PP!ToDouble, ToDouble, PP!Magnitude, Magnitude,
     PP!Truncate, Truncate, PP!LowerBound, LowerBound, PP!UpperBound, UpperBound, PP!Truth, Truth,
     PP!ComparisonError, ComparisonError
<1>11. ASSUME NEW s, NEW n, NEW S PROVE PP!Least(s, n, S) = Least(s, n, S)
  BY Zenon, <1>8, <1>9 DEF PP!Least, Least, PP!RowBefore, RowBefore, PP!Cardinality, Cardinality
<1>12. ASSUME NEW c, NEW o PROVE PP!Filtered(c, o) = Filtered(c, o)
  <2> DEFINE bads == {j \in DOMAIN o.rows : PP!Evaluate(c, o.rows[j]) \in PP!ComparisonError}
             bad == {j \in DOMAIN o.rows : Evaluate(c, o.rows[j]) \in ComparisonError}
             seens == IF bads = {} THEN DOMAIN o.rows ELSE 1 .. PP!Min(bads) - 1
             seen == IF bad = {} THEN DOMAIN o.rows ELSE 1 .. Min(bad) - 1
             goods == {j \in seens : PP!Evaluate(c, o.rows[j]) = "true"}
             good == {j \in seen : Evaluate(c, o.rows[j]) = "true"}
  <2>1. PP!Filtered(c, o) = [rows |-> PP!RowsAt(o.rows, PP!Ascending(goods)),
                             fate |-> IF bads = {} THEN o.fate ELSE "fails"]
    BY Zenon DEF PP!Filtered
  <2>2. Filtered(c, o) = [rows |-> RowsAt(o.rows, Ascending(good)),
                          fate |-> IF bad = {} THEN o.fate ELSE "fails"]
    BY Zenon DEF Filtered
  <2>3. bads = bad
    BY <1>7 DEF PP!ComparisonError, ComparisonError
  <2>4. PP!Min(bads) = Min(bads)
    BY Zenon DEF PP!Min, Min
  <2>. HIDE DEF bads, bad
  <2>5. seens = seen
    BY <2>3, <2>4
  <2>. HIDE DEF seens, seen
  <2>6. goods = good
    BY <1>7, <2>5
  <2>. HIDE DEF goods, good
  <2>7. \A a : PP!RowsAt(o.rows, a) = RowsAt(o.rows, a)
    BY Zenon DEF PP!RowsAt, RowsAt
  <2>8. PP!Ascending(goods) = Ascending(goods)
    BY <1>1
  <2>. QED  BY <2>1, <2>2, <2>3, <2>6, <2>7, <2>8
<1>13. ASSUME NEW n, NEW o PROVE PP!Limited(n, o) = Limited(n, o)
  BY Zenon DEF PP!Limited, Limited, PP!FailsToOpen, FailsToOpen, PP!Yields, Yields
<1>14. ASSUME NEW st, NEW o PROVE PP!Ordered(st, o) = Ordered(st, o)
  BY Zenon, <1>9, <1>10, <1>11 DEF PP!Ordered, Ordered, PP!FailsToOpen, FailsToOpen, PP!Yields,
     Yields, PP!ToSet, ToSet
<1>15. ASSUME NEW st, NEW o PROVE PP!Apply(st, o) = Apply(st, o)
  BY Zenon, <1>12, <1>13, <1>14 DEF PP!Apply, Apply, PP!ProjectRow, ProjectRow
<1>16. ASSUME NEW st, NEW S PROVE PP!After(st, S) = After(st, S)
  <2>1. PP!After(st, S) = UNION {PP!Apply(st, o) : o \in S} /\ After(st, S) = UNION {Apply(st, o) : o \in S}
    BY DEF PP!After, After
  <2>2. {PP!Apply(st, o) : o \in S} = {Apply(st, o) : o \in S}
    BY <1>15
  <2>. QED  BY <2>1, <2>2
<1>17. PP!FailsToOpen = FailsToOpen /\ \A t : PP!Yields(t) = Yields(t)
  BY Zenon DEF PP!FailsToOpen, FailsToOpen, PP!Yields, Yields
<1>. QED  BY <1>16, <1>17

LEMMA PlannerRows ==
    /\ \A t, w : PP!AreRows(t, w) <=> AreRows(t, w)
    /\ \A p, n : PP!AreStages(p, n) <=> AreStages(p, n)
    /\ \A p, n, w : PP!FitTogether(p, n, w) <=> FitTogether(p, n, w)
<1>1. PP!Value = Value
  BY DEF PP!Value, Value, PP!Null, Null,
     PP!Bool, Bool, PP!Int64, Int64, PP!Double, Double, PP!String, String
<1>2. \A t, w : PP!AreRows(t, w) <=> AreRows(t, w)
  BY Zenon, <1>1 DEF PP!AreRows, AreRows
<1>3. \A p, n : PP!AreStages(p, n) <=> AreStages(p, n)
  BY Zenon DEF PP!AreStages, AreStages
<1>4. \A st, w : (PP!FitsOver(st, w) <=> FitsOver(st, w)) /\ PP!WidthOver(st, w) = WidthOver(st, w)
  BY Zenon DEF PP!FitsOver, FitsOver, PP!WidthOver, WidthOver, PP!SortDirection, SortDirection
<1>5. \A p, n, w : PP!FitTogether(p, n, w) <=> FitTogether(p, n, w)
  BY Zenon, <1>4 DEF PP!FitTogether, FitTogether
<1>. QED  BY <1>2, <1>3, <1>5

LEMMA PlannerOutcomes ==
    ASSUME NEW p, NEW n, AreStages(p, n), NEW t
    PROVE  PP!Outcomes(p, t) = Outcomes(p, t)
<1>1. PICK f : PP!Passes(f, p, n, t) /\ PP!Outcomes(p, t) = f[n]
  BY PlannerAssumptions, PlannerRows, PP!OutcomesOf
<1>2. PICK g : Passes(g, p, n, t) /\ Outcomes(p, t) = g[n]
  BY OutcomesOf
<1>3. n \in Nat /\ n > 0 /\ n \in 1 .. n
  BY DEF AreStages
<1>4. f[1] = {Yields(t)} /\ \A i \in 2 .. n : f[i] = After(p[i], f[i - 1])
  <2>1. f[1] = {PP!Yields(t)} /\ \A i \in 2 .. n : f[i] = PP!After(p[i], f[i - 1])
    BY <1>1, <1>3, PlannerAssumptions, PP!PassOn
  <2>. QED  BY <2>1, PlannerStages
<1>5. g[1] = {Yields(t)} /\ \A i \in 2 .. n : g[i] = After(p[i], g[i - 1])
  BY <1>2, <1>3, PassOn
<1> DEFINE Odd == {i \in 1 .. n : f[i] # g[i]}
<1>6. ASSUME Odd # {} PROVE FALSE
  <2>1. PICK i \in Odd : \A j \in Odd : i <= j
    <3>1. Odd \in SUBSET (1 .. n)
      OBVIOUS
    <3>. QED  BY <1>3, <1>6, <3>1, LeastPlace
  <2>2. i # 1
    BY <1>4, <1>5
  <2>3. i \in 2 .. n /\ i - 1 \in 1 .. n /\ ~(i <= i - 1)
    BY <1>3, <2>2
  <2>4. f[i - 1] = g[i - 1]
    BY <2>1, <2>3
  <2>. QED  BY <1>4, <1>5, <2>3, <2>4
<1>. QED  BY <1>1, <1>2, <1>3, <1>6

\* A plan that fails to open fails to by any names.
LEMMA FailureByNames ==
    ASSUME NEW s PROVE OutcomeByNames(s, FailsToOpen) = FailsToOpen
<1>1. RowsByNames(s, <<>>) = <<>>
  <2>1. DOMAIN <<>> = {}
    OBVIOUS
  <2>2. RowsByNames(s, <<>>) \in [1 .. 0 -> {}]
    BY <2>1 DEF RowsByNames
  <2>. QED  BY <2>2
<1>. QED  BY <1>1 DEF OutcomeByNames, FailsToOpen

\* The meaning is what passes up the stages of the text.
LEMMA MeaningPasses ==
    ASSUME NEW n \in Nat, n = Len(Document(pipeline_text).elements),
           NEW asked, \A i \in 1 .. n : asked[i] = NamedStage(Document(pipeline_text).elements[i]),
           \E g : NamedPasses(g, asked, n, NamedRows)
    PROVE  \E g : NamedPasses(g, asked, n, NamedRows) /\ Meaning = g[n]
<1> DEFINE written == Document(pipeline_text).elements
           One(g) == g = [i \in 0 .. Len(written) |->
                            IF i = 0 THEN {Yields(NamedRows)}
                            ELSE UNION {NamedApply(NamedStage(written[i]), o) : o \in g[i - 1]}]
<1>1. Meaning = (CHOOSE g : One(g))[Len(written)]
  BY Zenon DEF Meaning
<1>2. ASSUME NEW g PROVE One(g) <=> NamedPasses(g, asked, n, NamedRows)
  <2> DEFINE A(i) == IF i = 0 THEN {Yields(NamedRows)}
                     ELSE UNION {NamedApply(NamedStage(written[i]), o) : o \in g[i - 1]}
             B(i) == IF i = 0 THEN {Yields(NamedRows)}
                     ELSE UNION {NamedApply(asked[i], o) : o \in g[i - 1]}
  <2>1. \A i \in 0 .. n : A(i) = B(i)
    <3>1. \A i \in 0 .. n : i # 0 => asked[i] = NamedStage(written[i])
      OBVIOUS
    <3>. HIDE DEF written
    <3>. QED  BY <3>1, Zenon
  <2>2. One(g) <=> g = [i \in 0 .. n |-> A(i)]
    BY Zenon
  <2>3. NamedPasses(g, asked, n, NamedRows) <=> g = [i \in 0 .. n |-> B(i)]
    BY Zenon DEF NamedPasses
  <2>. HIDE DEF A, B, One, written
  <2>4. [i \in 0 .. n |-> A(i)] = [i \in 0 .. n |-> B(i)]
    BY <2>1
  <2>. QED  BY <2>2, <2>3, <2>4
<1>. HIDE DEF One, written
<1>3. \E g : One(g)
  BY <1>2
<1>4. One(CHOOSE g : One(g))
  BY <1>3
<1>. QED  BY <1>1, <1>2, <1>4 DEF written

\* What the plan that is executed may do is what the text means, each row by its names;
\* unless by the text a sort fails.
LEMMA MeaningOfPlan ==
    ASSUME PP!IInv, PP!Shown, PP!Meant, planner_phase = "planned",
           LP!IInv, loader_phase = "loaded"
    PROVE  \E width :
              /\ AreNames(output_schema, width)
              /\ \A o \in Outcomes(physical, rows) :
                    \/ FailsToOpen \in Meaning
                    \/ IsOutcome(o, width) /\ OutcomeByNames(output_schema, o) \in Meaning
<1> DEFINE written == Document(pipeline_text).elements
           n == Len(written)
           N == n + 1
           built == PP!Lowered(logical_plan)
           w == PP!Widths(logical_plan)
           s == [i \in 1 .. N |-> PP!SchemaAt(logical_plan, i)]
           asked == [i \in 1 .. n |-> NamedStage(written[i])]
<1>1. /\ n \in Nat /\ DOMAIN written = 1 .. n
      /\ PP!AreStages(built, N) /\ PP!FitTogether(built, N, w)
      /\ w[1] = Len(schema)
      /\ PP!SchemaAt(logical_plan, 1) = schema
      /\ \A i \in 2 .. N :
            /\ PP!NodeAsks(written[i - 1], logical_plan[i], PP!SchemaAt(logical_plan, i - 1))
            /\ built[i] = PP!Lower(logical_plan[i])
            /\ PP!SchemaAt(logical_plan, i)
                 = IF logical_plan[i].kind = "kProject" THEN logical_plan[i].names
                   ELSE PP!SchemaAt(logical_plan, i - 1)
      /\ output_schema = PP!SchemaAt(logical_plan, N)
      /\ physical = PP!Lowered(optimized_plan) /\ PP!SameMeaning(optimized_plan)
  <2>1. PP!stages = written
    BY DEF PP!stages
  <2>. QED  BY <2>1, PlannerAssumptions, PP!PlanAsksWhatIsWritten
<1>2. AreStages(built, N) /\ FitTogether(built, N, w)
  BY <1>1, PlannerRows
<1>. HIDE DEF written, n, built, w
<1>3. /\ DOMAIN s = 1 .. N /\ 1 \in 1 .. N /\ N \in 1 .. N /\ N - 1 = n /\ N \in Nat
      /\ \A i \in 1 .. N : s[i] = PP!SchemaAt(logical_plan, i)
      /\ \A i \in 1 .. n : asked[i] = NamedStage(written[i])
  BY <1>1
<1>4. s[1] = schema /\ s[N] = output_schema
  BY <1>1, <1>3
<1>5. /\ AreNames(s[1], w[1]) /\ AreRows(rows, w[1])
      /\ OutcomeByNames(s[1], Yields(rows)) = Yields(NamedRows)
  BY <1>1, <1>4, TableByNames
<1>6. ASSUME NEW i \in 2 .. N
      PROVE  /\ AsksByNames(s[i - 1], built[i], asked[i - 1])
             /\ s[i] = NamesOver(s[i - 1], asked[i - 1])
  <2>1. i - 1 \in 1 .. n /\ i - 1 \in 1 .. N /\ i \in 1 .. N
    BY <1>3
  <2>2. /\ asked[i - 1] = NamedStage(written[i - 1])
        /\ s[i - 1] = PP!SchemaAt(logical_plan, i - 1) /\ s[i] = PP!SchemaAt(logical_plan, i)
    BY <1>3, <2>1
  <2>. HIDE DEF s, asked, N
  <2>3. /\ PP!NodeAsks(written[i - 1], logical_plan[i], s[i - 1])
        /\ built[i] = PP!Lower(logical_plan[i])
        /\ s[i] = IF logical_plan[i].kind = "kProject" THEN logical_plan[i].names ELSE s[i - 1]
    BY <1>1, <2>2
  <2>. QED  BY <2>2, <2>3, StageIsAsked
<1>. HIDE DEF s, asked
<1>7. AskAll(built, N, w, s, asked)
  BY <1>5, <1>6 DEF AskAll
<1>. HIDE DEF N
<1>8. /\ AreNames(s[N], w[N])
      /\ \E g : NamedPasses(g, asked, N - 1, NamedRows)
      /\ \A g : NamedPasses(g, asked, N - 1, NamedRows) =>
            g[N - 1] = {OutcomeByNames(s[N], o) : o \in Outcomes(built, rows)}
  BY <1>2, <1>5, <1>7, PlanByNames
<1>9. PICK g : NamedPasses(g, asked, n, NamedRows) /\ Meaning = g[n]
  <2>1. \E g : NamedPasses(g, asked, n, NamedRows)
    BY <1>3, <1>8
  <2>. QED  BY <1>1, <1>3, <2>1, MeaningPasses DEF n, written
<1>10. Meaning = {OutcomeByNames(output_schema, o) : o \in Outcomes(built, rows)}
  BY <1>3, <1>4, <1>8, <1>9
<1>11. \A o \in Outcomes(built, rows) : IsOutcome(o, w[N])
  <2>1. PICK f : Passes(f, built, N, rows) /\ Outcomes(built, rows) = f[N]
    BY <1>2, OutcomesOf
  <2>. QED  BY <1>2, <1>3, <1>5, <2>1, OutcomesFit
<1>12. MeansStill(Outcomes(built, rows), Outcomes(physical, rows))
  <2>1. PP!AreRows(rows, Len(schema))
    BY <1>1, <1>5, PlannerRows
  <2>2. PP!MeansStill(PP!Outcomes(built, rows), PP!Outcomes(physical, rows))
    BY <1>1, <2>1 DEF PP!SameMeaning, built
  <2>3. AreStages(physical, Len(physical))
    BY ShownPlans DEF AreStages
  <2>. QED  BY <1>2, <2>2, <2>3, PlannerOutcomes, PlannerStages DEF PP!MeansStill, MeansStill
<1>13. FailsToOpen \in Outcomes(built, rows) => FailsToOpen \in Meaning
  BY <1>10, FailureByNames
<1>. QED  BY <1>4, <1>8, <1>10, <1>11, <1>12, <1>13 DEF MeansStill

-----------------------------------------------------------------------------
(***************************************************************************)
(* From the arguments to the views.                                        *)
(***************************************************************************)
\* The planner has not begun.
Unplanned ==
    /\ planner_phase = "parsing" /\ planner_next = 1
    /\ parsed = <<>> /\ current_schema = <<>>
    /\ plan = <<>> /\ logical_plan = <<>> /\ optimized_plan = <<>> /\ physical = <<>>
    /\ current = 0 /\ applied = FALSE
    /\ output_schema = <<>>
    /\ error = "none"

\* What is proved of the planner.
PInv == PP!IInv /\ PP!Shown /\ PP!Meant

\* The planner starts on a table that was loaded, and the plan it leaves is not touched
\* until it is printed.
EInv ==
    /\ pipeline_text \in PipelineTexts
    /\ LP!IInv
    /\ at \in {"parsing arguments", "loading", "reading"} => Unplanned
    /\ at \in {"reading", "planning", "executing", "printing"} => loader_phase = "loaded"
    /\ at \in {"planning", "executing", "printing"} => PInv
    /\ at \in {"executing", "printing"} => planner_phase = "planned"
    /\ ExplainViewsAgree

LEMMA ExplainInitInv == Init => EInv
<1>. SUFFICES ASSUME Init PROVE EInv
  OBVIOUS
<1>1. Loader!Init /\ Planner!Init /\ pipeline_text \in PipelineTexts /\ at = "parsing arguments"
  BY DEF Init
<1>2. LP!IInv
  BY <1>1, LoaderInits, LoaderAssumptions, LP!InitInv
<1>3. Unplanned
  BY <1>1 DEF Planner!Init, Unplanned
<1>. QED  BY <1>1, <1>2, <1>3 DEF EInv, ExplainViewsAgree

\* A planner that has not begun can begin with any table.
LEMMA PlanningStarts ==
    ASSUME pipeline_text \in PipelineTexts, Unplanned, schema \in Seq(Strings)
    PROVE  PInv
<1>1. PP!Init
  BY DEF Unplanned, PP!Init
<1>. QED  BY <1>1, PlannerAssumptions, PP!Starts, PP!ShownStarts, PP!MeantStarts DEF PInv

\* The planner works on what it was given.
LEMMA PlanningStays ==
    ASSUME PInv, PP!Step \/ UNCHANGED PP!vars
    PROVE  PInv'
<1>1. [PP!Next]_PP!vars
  BY DEF PP!Next
<1>. QED  BY <1>1, PlannerAssumptions, PP!NextInv, PP!ShownKeeps, PP!MeantKeeps DEF PInv

LEMMA LoadingStays ==
    ASSUME LP!IInv, LP!Step \/ UNCHANGED loading
    PROVE  LP!IInv'
<1>1. [LP!Next]_LP!vars
  BY DEF LP!Next, LP!vars, loading
<1>. QED  BY <1>1, LoaderAssumptions, LP!NextInv

LEMMA StillUnplanned ==
    ASSUME Unplanned, UNCHANGED planning
    PROVE  Unplanned'
BY DEF Unplanned, planning

LEMMA PlanStays ==
    ASSUME PInv, UNCHANGED <<pipeline_text, schema, planning>>
    PROVE  PInv'
<1>1. UNCHANGED PP!vars
  BY DEF planning, PP!vars, PP!query, PP!rewriting, PP!shown
<1>. QED  BY <1>1, PlanningStays

LEMMA ExplainNextInv == EInv /\ [Next]_vars => EInv'
<1>. SUFFICES ASSUME EInv, [Next]_vars PROVE EInv'
  OBVIOUS
<1>1. CASE Parses
  <2>1. UNCHANGED <<arguments, loading, planning>> /\ at = "parsing arguments"
    BY <1>1 DEF Parses, ParseArguments, Goes
  <2>2. \/ at' = "loading"
        \/ at' = "exited" /\ command' \notin {"explain", "explain-analyze"}
    BY <1>1 DEF Parses, ParseArguments, Goes, arguments
  <2>3. LP!IInv'
    BY <2>1, LoadingStays DEF EInv
  <2>4. Unplanned'
    BY <2>1, StillUnplanned DEF EInv
  <2>5. ExplainViewsAgree'
    BY <2>2 DEF ExplainViewsAgree
  <2>. QED  BY <2>1, <2>2, <2>3, <2>4, <2>5 DEF EInv, arguments
<1>2. CASE Loads
  <2>1. UNCHANGED <<arguments, planning, at>> /\ at = "loading" /\ Loader!Step
    BY <1>2 DEF Loads
  <2>2. LP!IInv'
    BY <2>1, LoaderSteps, LoadingStays DEF EInv
  <2>3. Unplanned'
    BY <2>1, StillUnplanned DEF EInv
  <2>4. ExplainViewsAgree'
    BY <2>1 DEF ExplainViewsAgree
  <2>. QED  BY <2>1, <2>2, <2>3, <2>4 DEF EInv, arguments
<1>3. CASE Loaded
  <2>1. /\ UNCHANGED <<arguments, loading, planning>> /\ at = "loading"
        /\ \/ loader_phase = "loaded" /\ at' = "reading"
           \/ at' = "catching"
    BY <1>3 DEF Loaded, Goes, Throw
  <2>2. LP!IInv'
    BY <2>1, LoadingStays DEF EInv
  <2>3. Unplanned'
    BY <2>1, StillUnplanned DEF EInv
  <2>4. ExplainViewsAgree'
    BY <2>1 DEF ExplainViewsAgree
  <2>. QED  BY <2>1, <2>2, <2>3, <2>4 DEF EInv, arguments, loading
<1>4. CASE ReadPipeline
  <2>1. /\ UNCHANGED <<arguments, loading, planning>> /\ at = "reading"
        /\ at' \in {"planning", "catching"}
    BY <1>4 DEF ReadPipeline, Goes, Throw
  <2>2. LP!IInv'
    BY <2>1, LoadingStays DEF EInv
  <2>3. schema \in Seq(Strings)
    BY <2>1, LoaderAssumptions, LP!SchemaIsNames DEF EInv
  <2>4. PInv'
    BY <2>1, <2>3, PlanningStarts, PlanStays DEF EInv, arguments, loading
  <2>5. ExplainViewsAgree'
    BY <2>1 DEF ExplainViewsAgree
  <2>. QED  BY <2>1, <2>2, <2>4, <2>5 DEF EInv, arguments, loading
<1>5. CASE Plans
  <2>1. UNCHANGED <<arguments, loading, at>> /\ at = "planning" /\ Planner!Step
    BY <1>5 DEF Plans
  <2>2. LP!IInv'
    BY <2>1, LoadingStays DEF EInv
  <2>3. PInv'
    BY <2>1, PlannerSteps, PlanningStays DEF EInv
  <2>4. ExplainViewsAgree'
    BY <2>1 DEF ExplainViewsAgree
  <2>. QED  BY <2>1, <2>2, <2>3, <2>4 DEF EInv, arguments, loading
<1>6. CASE Planned
  <2>1. /\ UNCHANGED <<arguments, loading, planning>> /\ at = "planning"
        /\ \/ planner_phase = "planned" /\ at' \in {"printing", "executing"}
           \/ at' = "catching"
    BY <1>6 DEF Planned, Goes, Throw
  <2>2. LP!IInv'
    BY <2>1, LoadingStays DEF EInv
  <2>3. PInv'
    BY <2>1, PlanStays DEF EInv, arguments, loading
  <2>4. ExplainViewsAgree'
    BY <2>1 DEF ExplainViewsAgree
  <2>. QED  BY <2>1, <2>2, <2>3, <2>4 DEF EInv, arguments, planning, loading
<1>7. CASE Execute
  <2>1. /\ UNCHANGED <<arguments, loading, planning>> /\ at = "executing"
        /\ at' \in {"printing", "catching"}
    BY <1>7 DEF Execute, ExecutionReturns, ExecutionThrows, Goes, Throw
  <2>2. LP!IInv'
    BY <2>1, LoadingStays DEF EInv
  <2>3. PInv'
    BY <2>1, PlanStays DEF EInv, arguments, loading
  <2>4. ExplainViewsAgree'
    BY <2>1 DEF ExplainViewsAgree
  <2>. QED  BY <2>1, <2>2, <2>3, <2>4 DEF EInv, arguments, planning, loading
<1>8. CASE Prints
  <2>1. /\ UNCHANGED <<arguments, loading, planning>> /\ at = "printing" /\ at' = "exited"
        /\ command = "explain" => stdout'[1] = JObject(Views)
        /\ command = "explain-analyze" => stdout'[1] = JObject(Joined(Views, Analysis))
    BY <1>8 DEF Prints, Goes
  <2>2. LP!IInv'
    BY <2>1, LoadingStays DEF EInv
  <2>3. ASSUME command \in {"explain", "explain-analyze"}
        PROVE  ViewsAgree(stdout'[1].members)
    <3> DEFINE views == stdout'[1].members
    <3>1. \/ views = Views
          \/ views = Joined(Views, Analysis)
      BY <2>1, <2>3 DEF JObject
    <3>2. /\ views.parsedPipeline = Views.parsedPipeline
          /\ views.logicalPlan = Views.logicalPlan
          /\ views.optimizedLogicalPlan = Views.optimizedLogicalPlan
          /\ views.rewrites = Views.rewrites
          /\ views.physicalPlan = Views.physicalPlan
      BY <3>1 DEF Joined, Views
    <3>. HIDE DEF views
    <3>3. ViewsAgree(views)
      BY <2>1, <3>2, PlansViewsAgree DEF EInv, PInv
    <3>. QED  BY <3>3 DEF views
  <2>4. ExplainViewsAgree'
    <3>1. ASSUME command \in {"explain", "explain-analyze"}
          PROVE  ViewsAgree(stdout[1].members)'
      BY <2>1, <2>3, <3>1 DEF ViewsAgree, planning
    <3>. QED  BY <2>1, <3>1 DEF ExplainViewsAgree, arguments
  <2>. QED  BY <2>1, <2>2, <2>4 DEF EInv, arguments
<1>9. CASE Catch
  <2>1. UNCHANGED <<arguments, loading, planning>> /\ at' = "exited" /\ exit_code' = 1
    BY <1>9 DEF Catch, Goes
  <2>2. LP!IInv'
    BY <2>1, LoadingStays DEF EInv
  <2>3. ExplainViewsAgree'
    BY <2>1 DEF ExplainViewsAgree
  <2>. QED  BY <2>1, <2>2, <2>3 DEF EInv, arguments
<1>10. CASE UNCHANGED vars
  <2>1. UNCHANGED <<arguments, loading, planning, at, printed>>
    BY <1>10 DEF vars
  <2>2. LP!IInv'
    BY <2>1, LoadingStays DEF EInv
  <2>3. at \in {"planning", "executing", "printing"} => PInv'
    BY <2>1, PlanStays DEF EInv, arguments, loading
  <2>4. at \in {"parsing arguments", "loading", "reading"} => Unplanned'
    BY <2>1, StillUnplanned DEF EInv
  <2>5. ExplainViewsAgree'
    <3>1. ViewsAgree(stdout[1].members) => ViewsAgree(stdout[1].members)'
      BY <2>1 DEF ViewsAgree, planning, printed
    <3>. QED  BY <2>1, <3>1 DEF EInv, ExplainViewsAgree, arguments, printed
  <2>. QED  BY <2>1, <2>2, <2>3, <2>4, <2>5 DEF EInv, arguments, loading, planning
<1>. QED  BY <1>1, <1>2, <1>3, <1>4, <1>5, <1>6, <1>7, <1>8, <1>9, <1>10 DEF Next, Over

\* Whatever the pipeline and the table, the views of EXPLAIN agree: the logical plan with
\* the parsed pipeline stage by stage, the physical plan with the optimized plan, and the
\* trace with the difference of the two logical plans (query_facade.cpp:30-40).
THEOREM ViewsOfExplainAgree == Spec => []ExplainViewsAgree
<1>1. EInv => ExplainViewsAgree
  BY DEF EInv
<1>. QED  BY <1>1, ExplainInitInv, ExplainNextInv, PTL DEF Spec
-----------------------------------------------------------------------------
(***************************************************************************)
(* From the text to the answer.                                            *)
(***************************************************************************)
\* The meaning of the stages written over rows by names.
MeantBy(written, named) ==
    LET upTo[i \in 0 .. Len(written)] ==
          IF i = 0 THEN {Yields(named)}
          ELSE UNION {NamedApply(NamedStage(written[i]), o) : o \in upTo[i - 1]}
    IN  upTo[Len(written)]

LEMMA MeaningStays ==
    ASSUME UNCHANGED <<data_text, pipeline_text>>
    PROVE  Meaning' = Meaning
<1>1. NamedRows' = NamedRows
  BY DEF NamedRows, FieldsOfAll, Documents
<1>2. Meaning = MeantBy(Document(pipeline_text).elements, NamedRows)
  BY Zenon DEF Meaning, MeantBy
<1>3. Meaning' = MeantBy(Document(pipeline_text').elements, NamedRows')
  BY Zenon DEF Meaning, MeantBy
<1>. QED  BY <1>1, <1>2, <1>3

\* Rows about to be printed are those of an outcome of the plan, and a failure of the
\* plan on its way to the handlers is one of the text.
AInv ==
    /\ include_results => command = "explain-analyze"
    /\ at = "printing" /\ command # "explain" =>
          \E o \in Outcomes(physical, rows) : o.fate = "eof" /\ result = o.rows
    /\ at = "catching" /\ planner_phase = "planned" => \E o \in Meaning : o.fate # "eof"
    /\ AnswersAsWritten

LEMMA AnswerInitInv == Init => AInv
BY DEF Init, AInv, AnswersAsWritten

\* Up to the answer.
LEMMA Unanswered ==
    ASSUME AInv, UNCHANGED <<command, include_results>>,
           \/ at' \notin {"printing", "catching", "exited"}
           \/ at' = "catching" /\ planner_phase' # "planned"
    PROVE  AInv'
BY DEF AInv, AnswersAsWritten

\* What is executed answers as the text does.
LEMMA ExecutesWhatIsMeant ==
    ASSUME EInv, at \in {"executing", "printing"}, NEW o \in Outcomes(physical, rows)
    PROVE  /\ o.fate # "eof" => \E m \in Meaning : m.fate # "eof"
           /\ o.fate = "eof" =>
                 \E m \in Meaning :
                    \/ m = FailsToOpen
                    \/ m.fate = "eof" /\ Shows(RowsToJson(o.rows, output_schema), m.rows)
<1>1. PICK width :
         /\ AreNames(output_schema, width)
         /\ \A x \in Outcomes(physical, rows) :
               \/ FailsToOpen \in Meaning
               \/ IsOutcome(x, width) /\ OutcomeByNames(output_schema, x) \in Meaning
  BY MeaningOfPlan DEF EInv, PInv
<1>2. CASE FailsToOpen \in Meaning
  <2>1. FailsToOpen.fate # "eof"
    BY DEF FailsToOpen
  <2>. QED  BY <1>2, <2>1
<1>3. CASE IsOutcome(o, width) /\ OutcomeByNames(output_schema, o) \in Meaning
  <2> DEFINE m == OutcomeByNames(output_schema, o)
  <2>1. m.fate = o.fate /\ m.rows = RowsByNames(output_schema, o.rows)
    BY DEF OutcomeByNames
  <2>2. Shows(RowsToJson(o.rows, output_schema), m.rows)
    BY <1>1, <1>3, <2>1, PrintedShows DEF IsOutcome
  <2>. HIDE DEF m
  <2>3. m \in Meaning
    BY <1>3 DEF m
  <2>. QED  BY <2>1, <2>2, <2>3
<1>. QED  BY <1>1, <1>2, <1>3

LEMMA AnswerNextInv == OInv /\ EInv /\ AInv /\ [Next]_vars => AInv'
<1>. SUFFICES ASSUME OInv, EInv, AInv, [Next]_vars PROVE AInv'
  OBVIOUS
<1>1. CASE Parses
  <2>1. UNCHANGED <<arguments, planning>> /\ at = "parsing arguments" /\ at' \in {"loading", "exited"}
    BY <1>1 DEF Parses, ParseArguments, Goes
  <2>2. planner_phase' # "planned"
    BY <2>1 DEF EInv, Unplanned, planning
  <2>. QED  BY <2>1, <2>2 DEF AInv, AnswersAsWritten, arguments
<1>2. CASE Loads
  <2>1. UNCHANGED arguments /\ at' = "loading"
    BY <1>2 DEF Loads
  <2>. QED  BY <2>1, Unanswered DEF arguments
<1>3. CASE Loaded \/ ReadPipeline
  <2>1. /\ UNCHANGED <<arguments, planning>> /\ at \in {"loading", "reading"}
        /\ at' \in {"reading", "planning", "catching"}
    BY <1>3 DEF Loaded, ReadPipeline, Goes, Throw
  <2>2. planner_phase' # "planned"
    BY <2>1 DEF EInv, Unplanned, planning
  <2>. QED  BY <2>1, <2>2, Unanswered DEF arguments
<1>4. CASE Plans
  <2>1. UNCHANGED arguments /\ at' = "planning"
    BY <1>4 DEF Plans
  <2>. QED  BY <2>1, Unanswered DEF arguments
<1>5. CASE Planned
  <2>1. /\ UNCHANGED <<arguments, planning>>
        /\ \/ at' = "printing" /\ command = "explain"
           \/ at' = "executing"
           \/ at' = "catching" /\ planner_phase # "planned"
    BY <1>5 DEF Planned, Goes, Throw
  <2>2. CASE at' = "printing" /\ command = "explain"
    BY <2>1, <2>2 DEF AInv, AnswersAsWritten, arguments
  <2>3. CASE at' = "executing" \/ (at' = "catching" /\ planner_phase # "planned")
    BY <2>1, <2>3, Unanswered DEF arguments, planning
  <2>. QED  BY <2>1, <2>2, <2>3
<1>6. CASE Execute
  <2>1. UNCHANGED <<arguments, loading, planning>> /\ at = "executing"
    BY <1>6 DEF Execute, ExecutionReturns, ExecutionThrows, Goes, Throw
  <2>2. PICK o \in Outcomes(physical, rows) :
           IF o.fate = "eof" THEN ExecutionReturns(o) ELSE ExecutionThrows(o)
    BY <1>6 DEF Execute
  <2>3. CASE o.fate = "eof"
    <3>1. at' = "printing" /\ result' = o.rows
      BY <2>2, <2>3 DEF ExecutionReturns, Goes
    <3>2. \E x \in Outcomes(physical', rows') : x.fate = "eof" /\ result' = x.rows
      BY <2>1, <2>3, <3>1 DEF planning, loading
    <3>. QED  BY <2>1, <3>1, <3>2 DEF AInv, AnswersAsWritten, arguments
  <2>4. CASE o.fate # "eof"
    <3>1. at' = "catching"
      BY <2>2, <2>4 DEF ExecutionThrows, Throw, Goes
    <3>2. \E m \in Meaning : m.fate # "eof"
      BY <2>1, <2>4, ExecutesWhatIsMeant
    <3>3. Meaning' = Meaning
      BY <2>1, MeaningStays DEF arguments, loading
    <3>. QED  BY <2>1, <3>1, <3>2, <3>3 DEF AInv, AnswersAsWritten, arguments
  <2>. QED  BY <2>3, <2>4
<1>7. CASE Prints
  <2>1. /\ UNCHANGED <<arguments, loading, planning, exit_code>> /\ at = "printing" /\ at' = "exited"
        /\ command = "run" => stdout'[1] = PrintedRows
        /\ command = "explain-analyze" => stdout'[1] = JObject(Joined(Views, Analysis))
    BY <1>7 DEF Prints, Goes
  <2>2. Meaning' = Meaning
    BY <2>1, MeaningStays DEF arguments, loading
  <2>3. exit_code' = 0
    BY <2>1 DEF OInv, Silent
  <2>4. ASSUME command = "run" \/ include_results
        PROVE  (IF command = "run" THEN stdout'[1] ELSE stdout'[1].members.result) = PrintedRows
    <3>1. CASE command = "run"
      BY <2>1, <3>1
    <3>2. CASE command # "run"
      <4>1. include_results /\ command = "explain-analyze"
        BY <2>4, <3>2 DEF AInv
      <4>2. stdout'[1].members = Joined(Views, Analysis)
        BY <2>1, <4>1 DEF JObject
      <4>3. "result" \in DOMAIN Analysis /\ Analysis.result = PrintedRows
        BY <4>1 DEF Analysis
      <4>4. "result" \notin DOMAIN Views
        BY DEF Views
      <4>5. Joined(Views, Analysis).result = Analysis.result
        BY <4>3, <4>4 DEF Joined
      <4>. QED  BY <3>2, <4>2, <4>3, <4>5
    <3>. QED  BY <3>1, <3>2
  <2>5. ASSUME command = "run" \/ include_results
        PROVE  \E m \in Meaning : \/ m = FailsToOpen
                                  \/ m.fate = "eof" /\ Shows(PrintedRows, m.rows)
    <3>1. command # "explain"
      BY <2>5 DEF AInv
    <3>2. PICK o \in Outcomes(physical, rows) : o.fate = "eof" /\ result = o.rows
      BY <2>1, <3>1 DEF AInv
    <3>. QED  BY <2>1, <3>2, ExecutesWhatIsMeant DEF PrintedRows
  <2>6. AnswersAsWritten'
    <3>. SUFFICES ASSUME command' = "run" \/ include_results'
                  PROVE  \E m \in Meaning' :
                            \/ m = FailsToOpen
                            \/ /\ m.fate = "eof"
                               /\ Shows(IF command' = "run" THEN stdout'[1]
                                        ELSE stdout'[1].members.result, m.rows)
      BY <2>3 DEF AnswersAsWritten
    <3>1. command' = command /\ include_results' = include_results
      BY <2>1 DEF arguments
    <3>. QED  BY <2>2, <2>4, <2>5, <3>1
  <2>. QED  BY <2>1, <2>6 DEF AInv, arguments
<1>8. CASE Catch
  <2>1. UNCHANGED <<arguments, loading, planning>> /\ at = "catching" /\ at' = "exited" /\ exit_code' = 1
    BY <1>8 DEF Catch, Goes
  <2>2. Meaning' = Meaning
    BY <2>1, MeaningStays DEF arguments, loading
  <2>3. AnswersAsWritten'
    <3>1. planner_phase' = "planned" => \E o \in Meaning' : o.fate # "eof"
      BY <2>1, <2>2 DEF AInv, planning
    <3>. QED  BY <2>1, <3>1 DEF AnswersAsWritten
  <2>. QED  BY <2>1, <2>3 DEF AInv, arguments
<1>9. CASE UNCHANGED vars
  <2>1. UNCHANGED <<arguments, loading, planning, at, printed, result>>
    BY <1>9 DEF vars
  <2>2. Meaning' = Meaning
    BY <2>1, MeaningStays DEF arguments, loading
  <2>3. AnswersAsWritten'
    BY <2>1, <2>2 DEF AInv, AnswersAsWritten, arguments, planning, printed
  <2>4. at' = "printing" /\ command' # "explain" =>
          \E o \in Outcomes(physical', rows') : o.fate = "eof" /\ result' = o.rows
    BY <2>1 DEF AInv, arguments, planning, loading
  <2>5. at' = "catching" /\ planner_phase' = "planned" => \E o \in Meaning' : o.fate # "eof"
    BY <2>1, <2>2 DEF AInv, planning
  <2>. QED  BY <2>1, <2>3, <2>4, <2>5 DEF AInv, arguments
<1>. QED  BY <1>1, <1>2, <1>3, <1>4, <1>5, <1>6, <1>7, <1>8, <1>9 DEF Next, Over

\* Whatever the files: a command that executes a valid pipeline prints the rows the
\* pipeline means over the documents, in order and each cell under its name, and fails
\* only where the pipeline does; but a sort that fails may be answered, where a top-k
\* took its place (main.cpp, query_facade.cpp, json_serialize.cpp:14-31).
THEOREM AnswersFollowTheText == Spec => []AnswersAsWritten
<1>1. AInv => AnswersAsWritten
  BY DEF AInv
<1>. QED  BY <1>1, OutputInitInv, OutputNextInv, ExplainInitInv, ExplainNextInv, AnswerInitInv,
             AnswerNextInv, PTL DEF Spec
==============================================================================

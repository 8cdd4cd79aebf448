------------------------------ MODULE DataProofs ------------------------------
(***************************************************************************)
(* What the proofs need of the data: strict orders and the sequences that  *)
(* list a finite set in them, the values of JSON, cells, rows under the    *)
(* row comparator, the outcomes of plans, and rows by the names of their   *)
(* columns.                                                                *)
(***************************************************************************)
EXTENDS PipelineSemantics, JsonValues, FiniteSetTheorems, TLAPS

\* A strict order of the members of S, as a set of pairs; how many members come
\* before x; and the members one after the other.
StrictlyOrders(R, S) ==
    /\ \A x \in S : <<x, x>> \notin R
    /\ \A x, y \in S : x # y => <<x, y>> \in R \/ <<y, x>> \in R
    /\ \A x, y, z \in S : <<x, y>> \in R /\ <<y, z>> \in R => <<x, z>> \in R

RankIn(R, S, x) == Cardinality({y \in S : <<y, x>> \in R})

Listed(R, S) == [i \in 1 .. Cardinality(S) |-> CHOOSE x \in S : RankIn(R, S, x) = i - 1]

\* A proper part of a finite set has fewer elements.
LEMMA ProperSubset ==
    ASSUME NEW S, IsFiniteSet(S), NEW T \in SUBSET S, T # S
    PROVE  /\ Cardinality(T) \in Nat /\ Cardinality(S) \in Nat
           /\ Cardinality(T) < Cardinality(S)
<1>1. IsFiniteSet(T) /\ Cardinality(T) <= Cardinality(S) /\ Cardinality(T) # Cardinality(S)
  BY FS_Subset
<1>2. Cardinality(T) \in Nat /\ Cardinality(S) \in Nat
  BY <1>1, FS_CardinalityType
<1>. QED  BY <1>1, <1>2

\* In a strict order of a finite set every element has a rank of its own.
LEMMA RankGrows ==
    ASSUME NEW S, NEW R, IsFiniteSet(S), StrictlyOrders(R, S)
    PROVE  /\ Cardinality(S) \in Nat
           /\ \A x \in S : RankIn(R, S, x) \in Nat /\ RankIn(R, S, x) < Cardinality(S)
           /\ \A x, y \in S : <<x, y>> \in R <=> RankIn(R, S, x) < RankIn(R, S, y)
           /\ \A x, y \in S : RankIn(R, S, x) = RankIn(R, S, y) => x = y
<1> DEFINE Under(x) == {y \in S : <<y, x>> \in R}
<1>1. Cardinality(S) \in Nat
  BY FS_CardinalityType
<1>2. ASSUME NEW x \in S
      PROVE  RankIn(R, S, x) \in Nat /\ RankIn(R, S, x) < Cardinality(S)
  <2>1. Under(x) \in SUBSET S /\ Under(x) # S
    BY DEF StrictlyOrders
  <2>. HIDE DEF Under
  <2>2. Cardinality(Under(x)) \in Nat /\ Cardinality(Under(x)) < Cardinality(S)
    BY <2>1, ProperSubset
  <2>. QED  BY <2>2 DEF RankIn, Under
<1>3. ASSUME NEW x \in S, NEW y \in S, <<x, y>> \in R
      PROVE  RankIn(R, S, x) < RankIn(R, S, y)
  <2>1. Under(x) \in SUBSET Under(y)
    BY <1>3 DEF StrictlyOrders
  <2>2. x \in Under(y) /\ x \notin Under(x)
    BY <1>3 DEF StrictlyOrders
  <2>3. Under(y) \in SUBSET S
    OBVIOUS
  <2>. HIDE DEF Under
  <2>4. IsFiniteSet(Under(y))
    BY <2>3, FS_Subset
  <2>5. Cardinality(Under(x)) < Cardinality(Under(y))
    BY <2>1, <2>2, <2>4, ProperSubset
  <2>. QED  BY <2>5 DEF RankIn, Under
<1>4. \A x, y \in S : \/ x = y
                      \/ <<x, y>> \in R /\ RankIn(R, S, x) < RankIn(R, S, y)
                      \/ <<y, x>> \in R /\ RankIn(R, S, y) < RankIn(R, S, x)
  BY <1>3 DEF StrictlyOrders
<1>5. \A x, y \in S : RankIn(R, S, x) \in Nat /\ RankIn(R, S, y) \in Nat
  BY <1>2
<1>6. ASSUME NEW x \in S, NEW y \in S
      PROVE  /\ RankIn(R, S, x) = RankIn(R, S, y) => x = y
             /\ <<x, y>> \in R <=> RankIn(R, S, x) < RankIn(R, S, y)
  <2> DEFINE m == RankIn(R, S, x)
             n == RankIn(R, S, y)
  <2>1. /\ m \in Nat /\ n \in Nat
        /\ x = y \/ (<<x, y>> \in R /\ m < n) \/ (<<y, x>> \in R /\ n < m)
        /\ <<x, y>> \in R => m < n
        /\ x = y => m = n
    BY <1>3, <1>4, <1>5
  <2>. HIDE DEF m, n
  <2>2. (m = n => x = y) /\ (<<x, y>> \in R <=> m < n)
    BY <2>1
  <2>. QED  BY <2>2 DEF m, n
<1>. QED  BY <1>1, <1>2, <1>6

\* Every number below the size of S is the rank of a member.
LEMMA RankReaches ==
    ASSUME NEW S, NEW R, IsFiniteSet(S), StrictlyOrders(R, S), NEW i \in 1 .. Cardinality(S)
    PROVE  \E x \in S : RankIn(R, S, x) = i - 1
<1> DEFINE n == Cardinality(S)
           f == [x \in S |-> RankIn(R, S, x) + 1]
<1>1. n \in Nat
  BY FS_CardinalityType
<1>2. IsFiniteSet(1 .. n) /\ Cardinality(1 .. n) = n
  BY <1>1, FS_Interval
<1>3. \A x \in S : RankIn(R, S, x) \in Nat /\ RankIn(R, S, x) < n
  BY RankGrows
<1>4. f \in [S -> 1 .. n]
  BY <1>1, <1>3
<1>5. f \in Injection(S, 1 .. n)
  <2>1. ASSUME NEW x \in S, NEW y \in S, f[x] = f[y] PROVE x = y
    <3>1. RankIn(R, S, x) = RankIn(R, S, y)
      BY <2>1, <1>3
    <3>. QED  BY <3>1, RankGrows
  <2>. QED  BY <1>4, <2>1 DEF Injection, IsInjective
<1>6. f \in Surjection(S, 1 .. n)
  BY <1>2, <1>5, FS_Injection
<1>7. PICK x \in S : f[x] = i
  BY <1>6 DEF Surjection
<1>. QED  BY <1>1, <1>3, <1>7

\* The list of a finite set has every member, once, in the order.
LEMMA ListedInOrder ==
    ASSUME NEW S, NEW R, IsFiniteSet(S), StrictlyOrders(R, S)
    PROVE  LET n == Cardinality(S)
               s == Listed(R, S)
           IN  /\ n \in Nat /\ s \in [1 .. n -> S]
               /\ \A i \in 1 .. n : RankIn(R, S, s[i]) = i - 1
               /\ \A x \in S : \E i \in 1 .. n : s[i] = x
               /\ \A i, j \in 1 .. n : i < j => <<s[i], s[j]>> \in R
<1> DEFINE n == Cardinality(S)
           s == Listed(R, S)
<1>1. n \in Nat
  BY FS_CardinalityType
<1>2. ASSUME NEW i \in 1 .. n
      PROVE  s[i] \in S /\ RankIn(R, S, s[i]) = i - 1
  <2>1. \E x \in S : RankIn(R, S, x) = i - 1
    BY RankReaches
  <2>2. s[i] = CHOOSE x \in S : RankIn(R, S, x) = i - 1
    BY DEF Listed
  <2>. QED  BY <2>1, <2>2
<1>3. s \in [1 .. n -> S]
  BY <1>2 DEF Listed
<1>. HIDE DEF s, n
<1>4. ASSUME NEW x \in S PROVE \E i \in 1 .. n : s[i] = x
  <2> DEFINE i == RankIn(R, S, x) + 1
  <2>1. RankIn(R, S, x) \in Nat /\ RankIn(R, S, x) < n
    BY RankGrows DEF n
  <2>2. i \in 1 .. n /\ i - 1 = RankIn(R, S, x)
    BY <1>1, <2>1
  <2>3. s[i] = x
    BY <1>2, <2>2, RankGrows
  <2>. QED  BY <2>2, <2>3
<1>5. ASSUME NEW i \in 1 .. n, NEW j \in 1 .. n, i < j PROVE <<s[i], s[j]>> \in R
  <2>1. RankIn(R, S, s[i]) < RankIn(R, S, s[j])
    BY <1>1, <1>2, <1>5
  <2>. QED  BY <1>2, <2>1, RankGrows
<1>. QED  BY <1>1, <1>2, <1>3, <1>4, <1>5 DEF s, n

\* A set of members that come before all others is a beginning of the list.
LEMMA ListedBeginning ==
    ASSUME NEW S, NEW R, IsFiniteSet(S), StrictlyOrders(R, S), NEW B \in SUBSET S,
           \A a \in B, b \in S \ B : <<a, b>> \in R
    PROVE  /\ IsFiniteSet(B) /\ StrictlyOrders(R, B)
           /\ Cardinality(B) \in Nat /\ Cardinality(B) <= Cardinality(S)
           /\ \A i \in 1 .. Cardinality(B) : Listed(R, B)[i] = Listed(R, S)[i]
<1> DEFINE m == Cardinality(B)
           n == Cardinality(S)
<1>1. IsFiniteSet(B) /\ m <= n
  BY FS_Subset
<1>2. m \in Nat /\ n \in Nat
  BY <1>1, FS_CardinalityType
<1>3. StrictlyOrders(R, B)
  BY DEF StrictlyOrders
<1>4. ASSUME NEW i \in 1 .. m PROVE Listed(R, B)[i] = Listed(R, S)[i]
  <2> DEFINE x == Listed(R, B)[i]
             y == Listed(R, S)[i]
  <2>1. x \in B /\ RankIn(R, B, x) = i - 1
    BY <1>1, <1>3, ListedInOrder
  <2>2. y \in S /\ RankIn(R, S, y) = i - 1
    <3>1. i \in 1 .. n
      BY <1>1, <1>2
    <3>. QED  BY <3>1, ListedInOrder
  <2>. HIDE DEF x, y
  <2>3. \A z \in S : <<z, x>> \in R => z \in B
    BY <2>1 DEF StrictlyOrders
  <2>4. {z \in B : <<z, x>> \in R} = {z \in S : <<z, x>> \in R}
    BY <2>3
  <2>5. RankIn(R, S, x) = RankIn(R, S, y)
    BY <2>1, <2>2, <2>4 DEF RankIn
  <2>6. x = y
    BY <2>1, <2>2, <2>5, RankGrows
  <2>. QED  BY <2>6 DEF x, y
<1>. QED  BY <1>1, <1>2, <1>3, <1>4

\* The first n members come before all others, and no other n do.
LEMMA OneBeginning ==
    ASSUME NEW S, NEW R, IsFiniteSet(S), StrictlyOrders(R, S), NEW n \in Nat, n <= Cardinality(S)
    PROVE  LET First == {Listed(R, S)[i] : i \in 1 .. n}
               IsBeginning(B) == Cardinality(B) = n /\ \A a \in B, b \in S \ B : <<a, b>> \in R
           IN  /\ First \in SUBSET S /\ IsBeginning(First)
               /\ \A B \in SUBSET S : IsBeginning(B) => B = First
<1> DEFINE m == Cardinality(S)
           s == Listed(R, S)
           First == {s[i] : i \in 1 .. n}
           f == [i \in 1 .. n |-> s[i]]
<1>1. /\ m \in Nat /\ s \in [1 .. m -> S]
      /\ \A x \in S : \E i \in 1 .. m : s[i] = x
      /\ \A i, j \in 1 .. m : i < j => <<s[i], s[j]>> \in R
  BY ListedInOrder
<1>. HIDE DEF s
<1>2. \A i \in 1 .. n : i \in 1 .. m
  BY <1>1
<1>3. First \in SUBSET S
  BY <1>1, <1>2
<1>4. Cardinality(First) = n
  <2>1. IsFiniteSet(1 .. n) /\ Cardinality(1 .. n) = n
    BY FS_Interval
  <2>2. \A i, j \in 1 .. n : s[i] = s[j] => i = j
    <3>1. TAKE i, j \in 1 .. n
    <3>2. i \in 1 .. m /\ j \in 1 .. m /\ s[i] \in S /\ s[j] \in S
      BY <1>1, <1>2
    <3>3. (i < j => <<s[i], s[j]>> \in R) /\ (j < i => <<s[j], s[i]>> \in R)
      BY <1>1, <3>2
    <3>4. <<s[i], s[i]>> \notin R
      BY <3>2 DEF StrictlyOrders
    <3>5. s[i] = s[j] => ~(i < j) /\ ~(j < i)
      BY <3>3, <3>4
    <3>6. i \in Int /\ j \in Int
      OBVIOUS
    <3>. QED  BY <3>5, <3>6
  <2>3. f \in Bijection(1 .. n, First)
    BY <2>2 DEF Bijection, Injection, Surjection, IsInjective
  <2>. HIDE DEF First, f
  <2>4. ExistsBijection(1 .. n, First)
    BY <2>3 DEF ExistsBijection
  <2>. QED  BY <2>1, <2>4, FS_Bijection
<1>5. ASSUME NEW a \in First, NEW b \in S \ First PROVE <<a, b>> \in R
  <2>1. PICK i \in 1 .. n : a = s[i]
    OBVIOUS
  <2>2. PICK j \in 1 .. m : b = s[j]
    BY <1>1
  <2>3. j \notin 1 .. n
    BY <2>2
  <2>4. i < j
    BY <1>1, <2>3
  <2>. QED  BY <1>1, <1>2, <2>1, <2>2, <2>4
<1>6. ASSUME NEW B \in SUBSET S, Cardinality(B) = n, \A a \in B, b \in S \ B : <<a, b>> \in R
      PROVE  B = First
  <2>1. \A i \in 1 .. n : Listed(R, B)[i] = s[i]
    BY <1>6, ListedBeginning DEF s
  <2>2. /\ IsFiniteSet(B) /\ StrictlyOrders(R, B)
    BY <1>6, ListedBeginning
  <2>3. Listed(R, B) \in [1 .. n -> B] /\ \A x \in B : \E i \in 1 .. n : Listed(R, B)[i] = x
    BY <1>6, <2>2, ListedInOrder
  <2>. QED  BY <2>1, <2>3
<1>. QED  BY <1>3, <1>4, <1>5, <1>6 DEF s

\* A set of names is visited as a sequence that lists it in order.
LEMMA AscendingLists ==
    ASSUME NEW S \in SUBSET Int, IsFiniteSet(S)
    PROVE  /\ Cardinality(S) \in Nat
           /\ Ascending(S) \in [1 .. Cardinality(S) -> S]
           /\ \A x \in S : \E i \in 1 .. Cardinality(S) : Ascending(S)[i] = x
           /\ \A i, j \in 1 .. Cardinality(S) : i < j => Ascending(S)[i] < Ascending(S)[j]
<1> DEFINE R == {p \in S \X S : p[1] < p[2]}
<1>1. \A x, y \in S : <<x, y>> \in R <=> x < y
  OBVIOUS
<1>2. \A x, y, z \in S : ~(x < x) /\ (x # y => x < y \/ y < x) /\ (x < y /\ y < z => x < z)
  <2>1. TAKE x, y, z \in S
  <2>2. x \in Int /\ y \in Int /\ z \in Int
    OBVIOUS
  <2>. QED  BY <2>2
<1>. HIDE DEF R
<1>3. StrictlyOrders(R, S)
  BY <1>1, <1>2 DEF StrictlyOrders
<1>4. \A x \in S : RankIn(R, S, x) = Cardinality({y \in S : y < x})
  <2>1. TAKE x \in S
  <2>2. {y \in S : <<y, x>> \in R} = {y \in S : y < x}
    BY <1>1
  <2>. QED  BY <2>2 DEF RankIn
<1>5. Listed(R, S) = Ascending(S)
  <2>1. ASSUME NEW i \in 1 .. Cardinality(S)
        PROVE  (CHOOSE x \in S : RankIn(R, S, x) = i - 1)
                  = CHOOSE x \in S : Cardinality({y \in S : y < x}) = i - 1
    BY <1>4
  <2>2. \A i \in 1 .. Cardinality(S) : Listed(R, S)[i] = Ascending(S)[i]
    BY <2>1 DEF Listed, Ascending
  <2>3. /\ Listed(R, S) = [i \in 1 .. Cardinality(S) |-> Listed(R, S)[i]]
        /\ Ascending(S) = [i \in 1 .. Cardinality(S) |-> Ascending(S)[i]]
    BY DEF Listed, Ascending
  <2>. QED  BY <2>2, <2>3
<1>6. /\ Cardinality(S) \in Nat /\ Listed(R, S) \in [1 .. Cardinality(S) -> S]
      /\ \A x \in S : \E i \in 1 .. Cardinality(S) : Listed(R, S)[i] = x
      /\ \A i, j \in 1 .. Cardinality(S) : i < j => <<Listed(R, S)[i], Listed(R, S)[j]>> \in R
  BY <1>3, ListedInOrder
<1>. QED  BY <1>1, <1>5, <1>6

\* A finite set of numbers that is not empty has a least and a greatest one.
LEMMA LeastAndGreatest ==
    ASSUME NEW S \in SUBSET Int, IsFiniteSet(S), S # {}
    PROVE  /\ Min(S) \in S /\ \A x \in S : Min(S) <= x
           /\ Max(S) \in S /\ \A x \in S : x <= Max(S)
<1> DEFINE n == Cardinality(S)
           s == Ascending(S)
<1>1. /\ n \in Nat /\ s \in [1 .. n -> S] /\ \A x \in S : \E i \in 1 .. n : s[i] = x
      /\ \A i, j \in 1 .. n : i < j => s[i] < s[j]
  BY AscendingLists
<1>2. 1 \in 1 .. n /\ n \in 1 .. n
  <2>1. n # 0
    BY FS_EmptySet
  <2>. QED  BY <1>1, <2>1
<1>. HIDE DEF s, n
<1>3. \A i \in 1 .. n : s[1] <= s[i] /\ s[i] <= s[n]
  <2>1. TAKE i \in 1 .. n
  <2>2. s[1] \in Int /\ s[n] \in Int /\ s[i] \in Int
    BY <1>1, <1>2
  <2>. QED  BY <1>1, <1>2, <2>2
<1>4. \E x \in S : \A y \in S : x <= y
  BY <1>1, <1>2, <1>3
<1>5. \E x \in S : \A y \in S : x >= y
  BY <1>1, <1>2, <1>3
<1>6. Min(S) \in S /\ \A x \in S : Min(S) <= x
  BY <1>4 DEF Min
<1>7. Max(S) \in S /\ \A x \in S : Max(S) >= x
  BY <1>5 DEF Max
<1>8. Max(S) \in Int /\ \A x \in S : x \in Int
  BY <1>7
<1>. QED  BY <1>6, <1>7, <1>8

\* The places in a list are finitely many.
LEMMA PlacesFinite ==
    ASSUME NEW n \in Nat
    PROVE  IsFiniteSet(1 .. n)
BY FS_Interval

\* Of some places in a list one is the first.
LEMMA LeastPlace ==
    ASSUME NEW n \in Nat, NEW S \in SUBSET (1 .. n), S # {}
    PROVE  Min(S) \in S /\ \A i \in S : Min(S) <= i
<1>1. IsFiniteSet(1 .. n)
  BY FS_Interval
<1>2. IsFiniteSet(S)
  BY <1>1, FS_Subset
<1>3. S \in SUBSET Int
  OBVIOUS
<1>. QED  BY <1>2, <1>3, LeastAndGreatest

-----------------------------------------------------------------------------
\* JSON.

\* A sequence of steps gives what each of them gives, or throws what the first
\* that throws does.
LEMMA GivesAllOf ==
    ASSUME NEW n \in Nat, NEW s, DOMAIN s = 1 .. n
    PROVE  /\ (\A i \in 1 .. n : s[i].error = "none") =>
                 GivesAll(s) = Gives([i \in 1 .. n |-> s[i].value])
           /\ ~(\A i \in 1 .. n : s[i].error = "none") =>
                 \E i \in 1 .. n : /\ GivesAll(s) = s[i] /\ s[i].error # "none"
                                   /\ \A j \in 1 .. i - 1 : s[j].error = "none"
           /\ GivesAll(s).error = "none" <=> \A i \in 1 .. n : s[i].error = "none"
<1> DEFINE bad == {i \in DOMAIN s : s[i].error # "none"}
<1>1. bad \in SUBSET (1 .. n)
  OBVIOUS
<1>2. CASE \A i \in 1 .. n : s[i].error = "none"
  <2>1. bad = {}
    BY <1>2
  <2>2. GivesAll(s) = Gives([i \in 1 .. n |-> s[i].value])
    BY <2>1 DEF GivesAll
  <2>. QED  BY <1>2, <2>2 DEF Gives
<1>3. CASE ~(\A i \in 1 .. n : s[i].error = "none")
  <2>1. bad # {}
    BY <1>3
  <2>2. Min(bad) \in bad /\ \A i \in bad : Min(bad) <= i
    BY <1>1, <2>1, LeastPlace
  <2>3. GivesAll(s) = s[Min(bad)]
    BY <2>1 DEF GivesAll
  <2>4. ASSUME NEW j \in 1 .. Min(bad) - 1 PROVE s[j].error = "none"
    <3>1. j \in 1 .. n /\ ~(Min(bad) <= j)
      BY <2>2
    <3>. QED  BY <2>2, <3>1
  <2>. QED  BY <1>3, <2>2, <2>3, <2>4
<1>. QED  BY <1>2, <1>3

\* What the conversion of a scalar keeps: the number or the text, and the type
\* but for the one integer type of a table.
LEMMA ScalarKeeps ==
    ASSUME NEW j, IsJson(j), NEW nested, nested # "none"
    PROVE  /\ Scalar(j, nested).error = "none" <=>
                 /\ j.type \notin {"array", "object"}
                 /\ j.type = "number_unsigned" => j.v <= Int64Max
           /\ Scalar(j, nested).error = "none" =>
                 LET value == Scalar(j, nested).value
                 IN  /\ value \in Value /\ value.v = j.v
                     /\ <<j.type, value.type>> \in
                           {<<"null", "kNull">>, <<"boolean", "kBool">>,
                            <<"number_integer", "kInt64">>, <<"number_unsigned", "kInt64">>,
                            <<"number_float", "kDouble">>, <<"string", "kString">>}
<1>1. CASE j.type \in {"array", "object"}
  BY <1>1 DEF Scalar, Throws
<1>2. CASE j \in JScalars /\ j.type \notin {"array", "object"}
  <2>1. CASE j = JNull
    BY <2>1 DEF Scalar, Gives, JNull, Json, Null, Value
  <2>2. CASE j \in {JBool(b) : b \in {0, 1}}
    BY <2>2 DEF Scalar, Gives, JBool, Json, Bool, Value
  <2>3. CASE j \in [type : {"number_integer"}, v : Int64Min .. Int64Max]
    BY <2>3 DEF Scalar, Gives, Int64, Value
  <2>4. CASE j \in [type : {"number_unsigned"}, v : Nat]
    <3>1. CASE j.v <= Int64Max
      <4>1. j.v \in Int64Min .. Int64Max
        BY <2>4, <3>1, Int64Assumption
      <4>. QED  BY <2>4, <3>1, <4>1, Int64Assumption DEF Scalar, Unsigned, Gives, Int64, Value
    <3>2. CASE ~(j.v <= Int64Max)
      BY <2>4, <3>2, Int64Assumption DEF Scalar, Unsigned, Throws
    <3>. QED  BY <3>1, <3>2
  <2>5. CASE j \in [type : {"number_float"}, v : Doubles]
    BY <2>5 DEF Scalar, Gives, Double, Value
  <2>6. CASE j \in [type : {"string"}, v : Strings]
    BY <2>6 DEF Scalar, Gives, String, Value
  <2>. QED  BY <1>2, <2>1, <2>2, <2>3, <2>4, <2>5, <2>6 DEF JScalars
<1>. QED  BY <1>1, <1>2 DEF IsJson

\* An array lists its elements and an object has finitely many members.
LEMMA ArraysAndObjects ==
    ASSUME NEW j, IsJson(j)
    PROVE  /\ j.type = "array" => j.elements \in Seq(ToSet(j.elements))
           /\ j.type = "object" => IsFiniteSet(DOMAIN j.members)
<1>1. j \in JScalars => j.type \notin {"array", "object"}
  BY DEF JScalars, JNull, JBool, Json
<1>. QED  BY <1>1 DEF IsJson

-----------------------------------------------------------------------------
\* Cells.

\* What a cell of each type holds.
LEMMA ValueCases ==
    ASSUME NEW a \in Value
    PROVE  \/ a.type = "kNull"
           \/ a.type = "kBool"
           \/ a.type = "kInt64" /\ a.v \in Int
              /\ LowerBound <= 2 * a.v /\ 2 * a.v < UpperBound
           \/ a.type = "kDouble" /\ a.v = NaN
           \/ a.type = "kDouble" /\ a.v \in Doubles /\ a.v \in Int /\ a.v # NaN
           \/ a.type = "kString" /\ a.v \in Int
BY Int64Assumption, DoublesAssumption, StringsAssumption
   DEF Value, Null, Bool, Int64, Double, String, LowerBound, UpperBound

\* static_cast<double> of an integer that is a double rounds nothing.
LEMMA CastExact ==
    ASSUME NEW i \in Int, 2 * i \in Doubles
    PROVE  ToDouble(i) = 2 * i
<1> DEFINE Nearest(f) == \A g \in Doubles : Magnitude(f - 2 * i) <= Magnitude(g - 2 * i)
<1>1. Nearest(2 * i)
  BY DoublesAssumption DEF Magnitude
<1>2. \A f \in Doubles : Nearest(f) => f = 2 * i
  <2>1. SUFFICES ASSUME NEW f \in Doubles, Nearest(f) PROVE f = 2 * i
    OBVIOUS
  <2>2. Magnitude(f - 2 * i) <= Magnitude(2 * i - 2 * i)
    BY <2>1
  <2>. QED  BY <2>2, DoublesAssumption DEF Magnitude
<1>3. ToDouble(i) = CHOOSE f \in Doubles : Nearest(f)
  BY DEF ToDouble
<1>. QED  BY <1>1, <1>2, <1>3

\* compareIntToDouble() is exact (value.cpp:29-45).
THEOREM CompareIntToDoubleExact ==
    ASSUME NEW i \in Int, LowerBound <= 2 * i, 2 * i < UpperBound,
           NEW f \in Doubles
    PROVE  CompareIntToDouble(i, f) = Order(2 * i, f)
<1>1. f \in Int /\ f # NaN
  BY DoublesAssumption
<1>2. CASE f < LowerBound \/ f >= UpperBound
  BY <1>1, <1>2, Int64Assumption DEF CompareIntToDouble, Order, LowerBound, UpperBound
<1>3. CASE LowerBound <= f /\ f < UpperBound
  <2> DEFINE t == Truncate(f)
  <2>1. t \in Int
    BY <1>1 DEF Truncate
  <2>2. 2 * t \in Doubles
    BY <1>3, DoublesAssumption
  <2>3. ToDouble(t) = 2 * t
    BY <2>1, <2>2, CastExact
  <2>4. CompareIntToDouble(i, f) = IF i # t THEN Order(i, t) ELSE Order(2 * t, f)
    BY <1>1, <1>3, <2>3, Int64Assumption DEF CompareIntToDouble, LowerBound, UpperBound
  <2>5. /\ f >= 0 => 2 * t <= f /\ f <= 2 * t + 1
        /\ f < 0  => f <= 2 * t /\ 2 * t <= f + 1
    BY <1>1 DEF Truncate
  <2>. HIDE DEF t
  <2>. QED  BY <1>1, <2>1, <2>4, <2>5 DEF Order
<1>. QED  BY <1>1, <1>2, <1>3, Int64Assumption DEF LowerBound, UpperBound

\* Cells that compare() orders: two numbers or two strings.
Number(a)   == IsNumeric(a) /\ a.v # NaN
Comparable(a, b) == \/ Number(a) /\ Number(b)
                    \/ a.type = "kString" /\ b.type = "kString"

\* A double counts as a whole number of its units.
LEMMA DoubleIsInt == \A f \in Doubles : f \in Int
BY DoublesAssumption

\* The exact value of a number or a string is a whole number.
LEMMA ExactIsInt ==
    ASSUME NEW a \in Value, Number(a) \/ a.type = "kString"
    PROVE  Exact(a) \in Int
BY ValueCases DEF Exact, Number, IsNumeric

\* invert() turns the arguments of a comparison around.
LEMMA InvertOrder ==
    ASSUME NEW a \in Int, NEW b \in Int
    PROVE  Invert(Order(a, b)) = Order(b, a)
BY DEF Invert, Order

\* On comparable cells compare() is the order of the exact values; on other
\* non-null cells it throws.
LEMMA CompareCases ==
    ASSUME NEW a \in Value, NEW b \in Value, a.type # "kNull", b.type # "kNull"
    PROVE  /\ Comparable(a, b) => Compare(a, b) = Order(Exact(a), Exact(b))
           /\ ~Comparable(a, b) => Compare(a, b) \in ComparisonError
<1>1. CASE a.type = "kInt64" /\ b.type = "kInt64"
  <2>1. a.v \in Int /\ b.v \in Int
    BY <1>1, ValueCases
  <2>2. Compare(a, b) = Order(a.v, b.v)
    BY <1>1 DEF Compare, CompareNumeric, IsNumeric
  <2>3. Order(a.v, b.v) = Order(2 * a.v, 2 * b.v)
    BY <2>1 DEF Order
  <2>. QED  BY <1>1, <2>1, <2>2, <2>3, DoublesAssumption DEF Comparable, Number, IsNumeric, Exact
<1>2. CASE a.type = "kDouble" /\ b.type = "kDouble"
  <2>1. Compare(a, b) = CompareDoubles(a.v, b.v)
    BY <1>2 DEF Compare, CompareNumeric, IsNumeric
  <2>. QED  BY <1>2, <2>1 DEF CompareDoubles, ComparisonError, Comparable, Number, IsNumeric, Exact
<1>3. CASE a.type = "kInt64" /\ b.type = "kDouble"
  <2>1. Compare(a, b) = CompareIntToDouble(a.v, b.v)
    BY <1>3 DEF Compare, CompareNumeric, IsNumeric
  <2>2. a.v \in Int /\ LowerBound <= 2 * a.v /\ 2 * a.v < UpperBound /\ a.v # NaN
    BY <1>3, ValueCases, DoublesAssumption
  <2>3. CASE b.v = NaN
    BY <1>3, <2>1, <2>3 DEF CompareIntToDouble, ComparisonError, Comparable, Number
  <2>4. CASE b.v \in Doubles
    <3>1. CompareIntToDouble(a.v, b.v) = Order(2 * a.v, b.v)
      BY <2>2, <2>4, CompareIntToDoubleExact
    <3>. QED  BY <1>3, <2>1, <2>2, <2>4, <3>1, DoublesAssumption
              DEF Comparable, Number, IsNumeric, Exact
  <2>. QED  BY <1>3, <2>3, <2>4, ValueCases
<1>4. CASE a.type = "kDouble" /\ b.type = "kInt64"
  <2>1. Compare(a, b) = Invert(CompareIntToDouble(b.v, a.v))
    BY <1>4 DEF Compare, CompareNumeric, IsNumeric
  <2>2. b.v \in Int /\ LowerBound <= 2 * b.v /\ 2 * b.v < UpperBound /\ b.v # NaN
    BY <1>4, ValueCases, DoublesAssumption
  <2>3. CASE a.v = NaN
    BY <1>4, <2>1, <2>3 DEF CompareIntToDouble, Invert, ComparisonError, Comparable, Number
  <2>4. CASE a.v \in Doubles
    <3>1. CompareIntToDouble(b.v, a.v) = Order(2 * b.v, a.v)
      BY <2>2, <2>4, CompareIntToDoubleExact
    <3>2. a.v \in Int /\ 2 * b.v \in Int
      BY <2>2, <2>4, DoubleIsInt
    <3>3. Compare(a, b) = Order(a.v, 2 * b.v)
      BY <2>1, <3>1, <3>2, InvertOrder
    <3>. QED  BY <1>4, <2>2, <2>4, <3>3, DoublesAssumption
              DEF Comparable, Number, IsNumeric, Exact
  <2>. QED  BY <1>4, <2>3, <2>4, ValueCases
<1>5. CASE ~(IsNumeric(a) /\ IsNumeric(b))
  BY <1>5, ValueCases DEF Compare, IsNumeric, ComparisonError, Comparable, Number, Exact
<1>. QED  BY <1>1, <1>2, <1>3, <1>4, <1>5 DEF IsNumeric

-----------------------------------------------------------------------------
\* Rows.

\* Rows a sort can be asked about: with a cell in its column, and told apart by their
\* ordinals.
Sortable(sort, S) ==
    /\ sort.direction \in SortDirection
    /\ \A r \in S : r.ordinal \in Int /\ r.values[sort.column] \in Value
    /\ \A r, q \in S : r.ordinal = q.ordinal => r = q

\* The comparator in terms of exact values and ordinals.
LEMMA LessThanCases ==
    ASSUME NEW sort, sort.direction \in SortDirection, NEW r, NEW q,
           r.values[sort.column] \in Value, q.values[sort.column] \in Value
    PROVE  LET a == r.values[sort.column]
               b == q.values[sort.column]
               answer == LessThan(sort, r, q)
           IN  /\ a.type = "kNull" /\ b.type = "kNull" => answer = Truth(r.ordinal < q.ordinal)
               /\ (a.type = "kNull") # (b.type = "kNull")
                     => answer = Truth(sort.direction = "kAscending" <=> b.type = "kNull")
               /\ Comparable(a, b)
                     => answer = Truth(\/ Exact(a) = Exact(b) /\ r.ordinal < q.ordinal
                                       \/ sort.direction = "kAscending" /\ Exact(a) < Exact(b)
                                       \/ sort.direction = "kDescending" /\ Exact(a) > Exact(b))
               /\ a.type # "kNull" /\ b.type # "kNull" /\ ~Comparable(a, b)
                     => answer = Compare(a, b) /\ answer \in ComparisonError
<1> DEFINE a == r.values[sort.column]
           b == q.values[sort.column]
           d == sort.direction
           i == r.ordinal
           j == q.ordinal
           answer == LessThan(sort, r, q)
<1>1. a \in Value /\ b \in Value
  OBVIOUS
<1>2. answer = IF a.type = "kNull" /\ b.type = "kNull"
               THEN Truth(i < j)
               ELSE IF a.type = "kNull" \/ b.type = "kNull"
               THEN Truth(d = "kAscending" <=> b.type = "kNull")
               ELSE IF Compare(a, b) \in ComparisonError THEN Compare(a, b)
               ELSE IF Compare(a, b) = "kEqual" THEN Truth(i < j)
               ELSE Truth(Compare(a, b) = IF d = "kAscending" THEN "kLess" ELSE "kGreater")
  BY DEF LessThan
<1>. HIDE DEF a, b, i, j, answer
<1>3. a.type = "kNull" /\ b.type = "kNull" => answer = Truth(i < j)
  BY <1>2
<1>4. (a.type = "kNull") # (b.type = "kNull")
         => answer = Truth(d = "kAscending" <=> b.type = "kNull")
  BY <1>2
<1>5. a.type # "kNull" /\ b.type # "kNull" /\ ~Comparable(a, b)
         => answer = Compare(a, b) /\ answer \in ComparisonError
  BY <1>1, <1>2, CompareCases
<1>6. Comparable(a, b)
         => answer = Truth(\/ Exact(a) = Exact(b) /\ i < j
                           \/ d = "kAscending" /\ Exact(a) < Exact(b)
                           \/ d = "kDescending" /\ Exact(a) > Exact(b))
  <2>1. SUFFICES ASSUME Comparable(a, b)
                 PROVE  answer = Truth(\/ Exact(a) = Exact(b) /\ i < j
                                       \/ d = "kAscending" /\ Exact(a) < Exact(b)
                                       \/ d = "kDescending" /\ Exact(a) > Exact(b))
    OBVIOUS
  <2>2. a.type # "kNull" /\ b.type # "kNull"
    BY <2>1 DEF Comparable, Number, IsNumeric
  <2>3. Compare(a, b) = Order(Exact(a), Exact(b))
    BY <1>1, <2>1, <2>2, CompareCases
  <2>4. Exact(a) \in Int /\ Exact(b) \in Int
    BY <1>1, <2>1, ExactIsInt DEF Comparable
  <2>5. answer = IF Exact(a) = Exact(b) THEN Truth(i < j)
                 ELSE Truth(Order(Exact(a), Exact(b))
                               = IF d = "kAscending" THEN "kLess" ELSE "kGreater")
    BY <1>2, <2>2, <2>3, <2>4 DEF Order, ComparisonError
  <2>. QED  BY <2>4, <2>5 DEF Order, Truth, SortDirection
<1>. QED  BY <1>3, <1>4, <1>5, <1>6 DEF a, b, i, j, answer

\* In either direction the comparator is a strict order of the rows, and throws for a
\* pair of them whichever way round it is asked.
LEMMA RowsOrdered ==
    ASSUME NEW sort, NEW S, Sortable(sort, S)
    PROVE  /\ \A r \in S : ~RowBefore(sort, r, r)
           /\ \A r, q \in S :
                 r # q => \/ /\ RowClash(sort, r, q) /\ RowClash(sort, q, r)
                             /\ ~RowBefore(sort, r, q) /\ ~RowBefore(sort, q, r)
                          \/ /\ ~RowClash(sort, r, q) /\ ~RowClash(sort, q, r)
                             /\ RowBefore(sort, r, q) <=> ~RowBefore(sort, q, r)
           /\ \A r, q, s \in S :
                 RowBefore(sort, r, q) /\ RowBefore(sort, q, s) => RowBefore(sort, r, s)
<1> DEFINE before(r, q) == RowBefore(sort, r, q)
           clash(r, q)  == RowClash(sort, r, q)
           cell(r)      == r.values[sort.column]
           null(r)      == cell(r).type = "kNull"
           x(r)         == Exact(cell(r))
           ordered(r, q) == Comparable(cell(r), cell(q))
           d            == sort.direction
           ahead(r, q)  == \/ x(r) = x(q) /\ r.ordinal < q.ordinal
                           \/ d = "kAscending" /\ x(r) < x(q)
                           \/ d = "kDescending" /\ x(r) > x(q)
<1>1. ASSUME NEW r \in S, NEW q \in S
      PROVE  /\ null(r) /\ null(q) => (before(r, q) <=> r.ordinal < q.ordinal) /\ ~clash(r, q)
             /\ (null(r) # null(q)) =>
                  ((before(r, q) <=> (d = "kAscending" <=> null(q))) /\ ~clash(r, q))
             /\ ordered(r, q) => (before(r, q) <=> ahead(r, q)) /\ ~clash(r, q)
             /\ ~null(r) /\ ~null(q) /\ ~ordered(r, q) => ~before(r, q) /\ clash(r, q)
  <2> DEFINE answer == LessThan(sort, r, q)
  <2>0. d \in SortDirection /\ cell(r) \in Value /\ cell(q) \in Value
    BY DEF Sortable
  <2>1. /\ null(r) /\ null(q) => answer = Truth(r.ordinal < q.ordinal)
        /\ null(r) # null(q) => answer = Truth(d = "kAscending" <=> null(q))
        /\ ordered(r, q) => answer = Truth(ahead(r, q))
        /\ ~null(r) /\ ~null(q) /\ ~ordered(r, q) => answer \in ComparisonError
    <3> DEFINE a == cell(r)
               b == cell(q)
    <3>1. /\ a.type = "kNull" /\ b.type = "kNull" => answer = Truth(r.ordinal < q.ordinal)
          /\ (a.type = "kNull") # (b.type = "kNull")
                => answer = Truth(d = "kAscending" <=> b.type = "kNull")
          /\ Comparable(a, b)
                => answer = Truth(\/ Exact(a) = Exact(b) /\ r.ordinal < q.ordinal
                                  \/ d = "kAscending" /\ Exact(a) < Exact(b)
                                  \/ d = "kDescending" /\ Exact(a) > Exact(b))
          /\ a.type # "kNull" /\ b.type # "kNull" /\ ~Comparable(a, b)
                => answer = Compare(a, b) /\ answer \in ComparisonError
      BY <2>0, LessThanCases
    <3>. HIDE DEF answer, a, b
    <3>. QED  BY <3>1 DEF a, b
  <2>2. (before(r, q) <=> answer = "true") /\ (clash(r, q) <=> answer \in ComparisonError)
    BY DEF RowBefore, RowClash
  <2>3. /\ answer = "true" => before(r, q) /\ ~clash(r, q)
        /\ answer = "false" => ~before(r, q) /\ ~clash(r, q)
    BY <2>2 DEF ComparisonError
  <2>4. answer \in ComparisonError => ~before(r, q) /\ clash(r, q)
    BY <2>2 DEF ComparisonError
  <2> HIDE DEF answer, before, clash, x, ordered, null
  <2>. QED  BY <2>1, <2>3, <2>4 DEF Truth
<1>2. ASSUME NEW r \in S, NEW q \in S
      PROVE  /\ ordered(r, q) <=> ordered(q, r)
             /\ ordered(r, q) => ~null(r) /\ ~null(q) /\ x(r) \in Int /\ x(q) \in Int
  <2>1. cell(r) \in Value /\ cell(q) \in Value
    BY DEF Sortable
  <2>. QED  BY <2>1, ExactIsInt DEF Comparable, Number, IsNumeric
<1>3. ASSUME NEW r \in S, NEW q \in S, NEW s \in S, ordered(r, q), ordered(q, s)
      PROVE  ordered(r, s)
  BY <1>3 DEF Comparable, Number, IsNumeric
<1>4. /\ d \in SortDirection
      /\ \A r \in S : r.ordinal \in Int
      /\ \A r, q \in S : r.ordinal = q.ordinal => r = q
  BY DEF Sortable
<1> HIDE DEF before, clash, x, ordered, null, d
<1>5. ASSUME NEW r \in S PROVE ~before(r, r)
  BY <1>1, <1>2, <1>4
<1>6. ASSUME NEW r \in S, NEW q \in S, r # q
      PROVE  \/ /\ clash(r, q) /\ clash(q, r)
                /\ ~before(r, q) /\ ~before(q, r)
             \/ /\ ~clash(r, q) /\ ~clash(q, r)
                /\ before(r, q) <=> ~before(q, r)
  <2>1. /\ r.ordinal \in Int /\ q.ordinal \in Int
        /\ r.ordinal < q.ordinal <=> ~(q.ordinal < r.ordinal)
    <3>1. r.ordinal \in Int /\ q.ordinal \in Int /\ r.ordinal # q.ordinal
      BY <1>4, <1>6
    <3>. QED  BY <3>1
  <2>2. CASE null(r) \/ null(q)
    BY <1>1, <1>4, <2>1, <2>2 DEF SortDirection
  <2>3. CASE ordered(r, q)
    BY <1>1, <1>2, <1>4, <2>1, <2>3 DEF SortDirection
  <2>4. CASE ~null(r) /\ ~null(q) /\ ~ordered(r, q)
    BY <1>1, <1>2, <2>4
  <2>. QED  BY <2>2, <2>3, <2>4
<1>7. ASSUME NEW r \in S, NEW q \in S, NEW s \in S, before(r, q), before(q, s)
      PROVE  before(r, s)
  BY <1>1, <1>2, <1>3, <1>4, <1>7 DEF SortDirection
<1>. QED  BY <1>5, <1>6, <1>7 DEF before, clash

-----------------------------------------------------------------------------
\* What plans mean.

RowsOf(width) == [ordinal : Nat, values : [1 .. width -> Value]]

\* An outcome of a plan whose last stage yields rows of a width.
IsOutcome(o, width) ==
    /\ o = [rows |-> o.rows, fate |-> o.fate]
    /\ AreRows(o.rows, width)
    /\ o.fate \in {"eof", "fails", "opens not"}
    /\ o.fate = "opens not" => o.rows = <<>>

\* A stage over rows of a width, and the width of those it yields.
FitsOver(st, width) ==
    \/ st.stage = "Filter"
    \/ st.stage = "Project" /\ st.columns \in Seq(1 .. width)
    \/ st.stage = "Limit" /\ st.limit \in Nat
    \/ /\ st.stage \in {"Sort", "TopK"}
       /\ st.sort.column \in 1 .. width /\ st.sort.direction \in SortDirection
       /\ st.stage = "TopK" => st.k \in Nat

WidthOver(st, width) == IF st.stage = "Project" THEN Len(st.columns) ELSE width

\* A failure to open goes up through every stage.
LEMMA FailureToOpenGoesUp ==
    ASSUME NEW st, NEW width, FitsOver(st, width)
    PROVE  Apply(st, FailsToOpen) = {FailsToOpen}
<1> DEFINE o == FailsToOpen
<1>0. /\ o = [rows |-> <<>>, fate |-> "opens not"] /\ o.rows = <<>> /\ o.fate = "opens not"
      /\ DOMAIN o.rows = 1 .. 0 /\ DOMAIN o.rows = {}
  BY DEF FailsToOpen
<1>. HIDE DEF o
<1>1. CASE st.stage = "Filter"
  <2> DEFINE p == st.predicate
             bad == {j \in DOMAIN o.rows : Evaluate(p, o.rows[j]) \in ComparisonError}
             seen == IF bad = {} THEN DOMAIN o.rows ELSE 1 .. Min(bad) - 1
             good == {j \in seen : Evaluate(p, o.rows[j]) = "true"}
             kept == Ascending(good)
             rows == [i \in DOMAIN kept |-> o.rows[kept[i]]]
  <2>1. bad = {} /\ good = {}
    BY <1>0
  <2>2. Filtered(p, o) = [rows |-> rows, fate |-> IF bad = {} THEN o.fate ELSE "fails"]
    BY DEF Filtered, RowsAt
  <2>. HIDE DEF bad, good
  <2>3. DOMAIN kept = 1 .. 0
    BY <2>1, FS_EmptySet DEF Ascending
  <2>. HIDE DEF kept
  <2>4. rows = <<>>
    BY <2>3
  <2>. QED  BY <1>0, <1>1, <2>1, <2>2, <2>4 DEF Apply, o
<1>2. CASE st.stage = "Project"
  <2> DEFINE rows == [j \in DOMAIN o.rows |-> ProjectRow(st.columns, o.rows[j])]
  <2>1. rows = <<>>
    <3>1. rows \in [1 .. 0 -> {}]
      BY <1>0
    <3>. QED  BY <3>1
  <2>2. Apply(st, o) = {[o EXCEPT !.rows = rows]}
    BY <1>2 DEF Apply
  <2>. HIDE DEF rows
  <2>3. [o EXCEPT !.rows = rows] = o
    BY <1>0, <2>1
  <2>. QED  BY <2>2, <2>3 DEF o
<1>3. CASE st.stage = "Limit"
  BY <1>3 DEF Apply, Limited, o
<1>4. CASE st.stage \in {"Sort", "TopK"}
  BY <1>0, <1>4 DEF Apply, Ordered, o
<1>. QED  BY <1>1, <1>2, <1>3, <1>4 DEF FitsOver

\* A part of the rows, taken once each in any order, is rows again.
LEMMA RowsTaken ==
    ASSUME NEW rows, NEW width, AreRows(rows, width), NEW n \in Nat,
           NEW at \in [1 .. n -> DOMAIN rows], \A i, j \in 1 .. n : at[i] = at[j] => i = j
    PROVE  AreRows([i \in 1 .. n |-> rows[at[i]]], width)
<1> DEFINE s == [i \in 1 .. n |-> rows[at[i]]]
<1>1. rows \in Seq(RowsOf(width))
  BY DEF AreRows, RowsOf
<1>2. \A i \in DOMAIN rows : rows[i] \in RowsOf(width)
  BY <1>1
<1>3. s \in [1 .. n -> RowsOf(width)]
  BY <1>2
<1>4. s \in Seq(RowsOf(width)) /\ DOMAIN s = 1 .. n
  BY <1>3
<1>5. ASSUME NEW i \in 1 .. n, NEW j \in 1 .. n, s[i].ordinal = s[j].ordinal PROVE i = j
  BY <1>5 DEF AreRows
<1>. QED  BY <1>4, <1>5 DEF AreRows, RowsOf

\* The rows of a sequence are finitely many and can be sorted.
LEMMA RowsSortable ==
    ASSUME NEW rows, NEW width, AreRows(rows, width),
           NEW sort, sort.column \in 1 .. width, sort.direction \in SortDirection
    PROVE  /\ IsFiniteSet(ToSet(rows)) /\ ToSet(rows) \subseteq RowsOf(width)
           /\ Sortable(sort, ToSet(rows))
<1>1. rows \in Seq(RowsOf(width))
  BY DEF AreRows, RowsOf
<1>2. Len(rows) \in Nat /\ DOMAIN rows = 1 .. Len(rows)
  BY <1>1
<1>3. ToSet(rows) = {rows[i] : i \in DOMAIN rows}
  BY DEF ToSet
<1>4. IsFiniteSet(DOMAIN rows)
  BY <1>2, PlacesFinite
<1>5. IsFiniteSet(ToSet(rows))
  <2> DEFINE f == [i \in DOMAIN rows |-> rows[i]]
  <2>1. f \in Surjection(DOMAIN rows, ToSet(rows))
    BY <1>3 DEF Surjection
  <2>. HIDE DEF f
  <2>. QED  BY <1>4, <2>1, FS_Surjection
<1>6. ToSet(rows) \subseteq RowsOf(width)
  BY <1>1, <1>3
<1>7. ASSUME NEW r \in RowsOf(width)
      PROVE  r.ordinal \in Int /\ r.values[sort.column] \in Value
  <2>1. r.ordinal \in Nat /\ r.values \in [1 .. width -> Value]
    BY DEF RowsOf
  <2>2. r.values[sort.column] \in Value
    BY <2>1
  <2>. QED  BY <2>1, <2>2
<1>8. \A r, q \in ToSet(rows) : r.ordinal = q.ordinal => r = q
  BY <1>3 DEF AreRows
<1>. QED  BY <1>5, <1>6, <1>7, <1>8 DEF Sortable

\* The order of a sort as a set of pairs of rows.
OrderOf(sort, S) == {p \in S \X S : RowBefore(sort, p[1], p[2])}

\* Rows that do not clash are listed by the order of the sort, and so is any part of
\* them.
LEMMA InOrderLists ==
    ASSUME NEW sort, NEW S, Sortable(sort, S), ~Clashing(sort, S)
    PROVE  /\ StrictlyOrders(OrderOf(sort, S), S)
           /\ \A x, y \in S : <<x, y>> \in OrderOf(sort, S) <=> RowBefore(sort, x, y)
           /\ \A B \in SUBSET S : InOrder(sort, B) = Listed(OrderOf(sort, S), B)
<1> DEFINE R == OrderOf(sort, S)
<1>1. \A x, y \in S : <<x, y>> \in R <=> RowBefore(sort, x, y)
  BY DEF OrderOf
<1>. HIDE DEF R
<1>2. \A x, y \in S : x # y => ~RowClash(sort, x, y)
  BY DEF Clashing
<1>3. StrictlyOrders(R, S)
  <2>1. \A x \in S : <<x, x>> \notin R
    BY <1>1, RowsOrdered
  <2>2. ASSUME NEW x \in S, NEW y \in S, x # y PROVE <<x, y>> \in R \/ <<y, x>> \in R
    <3>1. RowBefore(sort, x, y) \/ RowBefore(sort, y, x)
      BY <1>2, <2>2, RowsOrdered
    <3>. QED  BY <1>1, <3>1
  <2>3. ASSUME NEW x \in S, NEW y \in S, NEW z \in S, <<x, y>> \in R, <<y, z>> \in R
        PROVE  <<x, z>> \in R
    <3>1. RowBefore(sort, x, z)
      BY <1>1, <2>3, RowsOrdered
    <3>. QED  BY <1>1, <3>1
  <2>. QED  BY <2>1, <2>2, <2>3 DEF StrictlyOrders
<1>4. ASSUME NEW B \in SUBSET S PROVE InOrder(sort, B) = Listed(R, B)
  <2>1. ASSUME NEW r \in B
        PROVE  Cardinality({x \in B : RowBefore(sort, x, r)}) = RankIn(R, B, r)
    <3>1. {x \in B : RowBefore(sort, x, r)} = {x \in B : <<x, r>> \in R}
      BY <1>1
    <3>. QED  BY <3>1 DEF RankIn
  <2>2. ASSUME NEW i \in 1 .. Cardinality(B)
        PROVE  (CHOOSE r \in B : Cardinality({x \in B : RowBefore(sort, x, r)}) = i - 1)
                  = CHOOSE r \in B : RankIn(R, B, r) = i - 1
    BY <2>1
  <2> DEFINE N == 1 .. Cardinality(B)
             f(i) == CHOOSE r \in B : Cardinality({x \in B : RowBefore(sort, x, r)}) = i - 1
             g(i) == CHOOSE r \in B : RankIn(R, B, r) = i - 1
  <2>3. InOrder(sort, B) = [i \in N |-> f(i)] /\ Listed(R, B) = [i \in N |-> g(i)]
    BY DEF InOrder, Listed
  <2>4. \A i \in N : f(i) = g(i)
    BY <2>2
  <2>. HIDE DEF N, f, g
  <2>. QED  BY <2>3, <2>4
<1>. QED  BY <1>1, <1>3, <1>4 DEF R

\* A part of rows that can be sorted can be sorted.
LEMMA SortablePart ==
    ASSUME NEW sort, NEW S, Sortable(sort, S), NEW B \in SUBSET S
    PROVE  Sortable(sort, B)
BY DEF Sortable

\* Any part of the rows in the order of a sort is rows.
LEMMA SortedRows ==
    ASSUME NEW rows, NEW width, AreRows(rows, width),
           NEW sort, sort.column \in 1 .. width, sort.direction \in SortDirection,
           NEW B \in SUBSET ToSet(rows), ~Clashing(sort, B)
    PROVE  AreRows(InOrder(sort, B), width)
<1> DEFINE s == InOrder(sort, B)
           n == Cardinality(B)
           R == OrderOf(sort, B)
<1>1. /\ IsFiniteSet(ToSet(rows)) /\ ToSet(rows) \subseteq RowsOf(width)
      /\ Sortable(sort, ToSet(rows))
  BY RowsSortable
<1>2. IsFiniteSet(B) /\ Sortable(sort, B)
  BY <1>1, FS_Subset, SortablePart
<1>3. StrictlyOrders(R, B) /\ s = Listed(R, B)
  BY <1>2, InOrderLists
<1>. HIDE DEF R, s
<1>4. n \in Nat /\ s \in [1 .. n -> B] /\ \A i, j \in 1 .. n : i < j => <<s[i], s[j]>> \in R
  BY <1>2, <1>3, ListedInOrder
<1>5. \A i, j \in 1 .. n : s[i] = s[j] => i = j
  <2>1. TAKE i, j \in 1 .. n
  <2>2. <<s[i], s[i]>> \notin R
    BY <1>3, <1>4 DEF StrictlyOrders
  <2>3. s[i] = s[j] => ~(i < j) /\ ~(j < i)
    BY <1>4, <2>2
  <2>4. i \in Int /\ j \in Int
    BY <1>4
  <2>. QED  BY <2>3, <2>4
<1>6. s \in [1 .. n -> RowsOf(width)]
  BY <1>1, <1>4
<1>7. s \in Seq(RowsOf(width)) /\ DOMAIN s = 1 .. n
  BY <1>4, <1>6
<1>8. ASSUME NEW i \in 1 .. n, NEW j \in 1 .. n, s[i].ordinal = s[j].ordinal PROVE i = j
  <2>1. s[i] \in B /\ s[j] \in B
    BY <1>4
  <2>2. s[i] = s[j]
    BY <1>2, <1>8, <2>1 DEF Sortable
  <2>. QED  BY <1>5, <2>2
<1>. QED  BY <1>7, <1>8 DEF AreRows, RowsOf, s

\* A sequence over a set lists elements of it.
LEMMA SequenceLists ==
    ASSUME NEW S, NEW s \in Seq(S)
    PROVE  Len(s) \in Nat /\ DOMAIN s = 1 .. Len(s) /\ \A i \in DOMAIN s : s[i] \in S
OBVIOUS

\* A list of elements of a set is a sequence over it.
LEMMA ListIsSequence ==
    ASSUME NEW S, NEW n \in Nat, NEW s \in [1 .. n -> S]
    PROVE  s \in Seq(S)
OBVIOUS

\* Rows are a sequence of rows of their width.
LEMMA RowsListed ==
    ASSUME NEW rows, NEW width, AreRows(rows, width)
    PROVE  /\ rows \in Seq(RowsOf(width)) /\ Len(rows) \in Nat /\ DOMAIN rows = 1 .. Len(rows)
           /\ \A i \in DOMAIN rows : rows[i] \in RowsOf(width)
<1>1. rows \in Seq(RowsOf(width))
  BY DEF AreRows, RowsOf
<1>. QED  BY <1>1

\* No rows are rows of any width.
LEMMA NoRows ==
    ASSUME NEW width
    PROVE  AreRows(<<>>, width) /\ IsOutcome(FailsToOpen, width) /\ Len(<<>>) = 0
<1>1. AreRows(<<>>, width) /\ Len(<<>>) = 0
  BY DEF AreRows
<1>. QED  BY <1>1 DEF IsOutcome, FailsToOpen

\* A filter makes an outcome of an outcome, of the same width,
LEMMA FilterKeeps ==
    ASSUME NEW o, NEW width, IsOutcome(o, width), NEW p
    PROVE  IsOutcome(Filtered(p, o), width)
<1> DEFINE bad  == {j \in DOMAIN o.rows : Evaluate(p, o.rows[j]) \in ComparisonError}
           seen == IF bad = {} THEN DOMAIN o.rows ELSE 1 .. Min(bad) - 1
           good == {j \in seen : Evaluate(p, o.rows[j]) = "true"}
           kept == Ascending(good)
           n    == Cardinality(good)
           rows == [i \in DOMAIN kept |-> o.rows[kept[i]]]
           fate == IF bad = {} THEN o.fate ELSE "fails"
<1>1. AreRows(o.rows, width) /\ o.fate \in {"eof", "fails", "opens not"}
      /\ (o.fate = "opens not" => o.rows = <<>>)
  BY DEF IsOutcome
<1>2. Filtered(p, o) = [rows |-> rows, fate |-> fate]
  BY DEF Filtered, RowsAt
<1>3. Len(o.rows) \in Nat /\ DOMAIN o.rows = 1 .. Len(o.rows)
  BY <1>1, RowsListed
<1>4. bad \in SUBSET (1 .. Len(o.rows))
  BY <1>3
<1>5. o.rows = <<>> => bad = {}
  OBVIOUS
<1>. HIDE DEF bad
<1>6. seen \subseteq 1 .. Len(o.rows)
  <2>1. ASSUME bad # {} PROVE Min(bad) \in 1 .. Len(o.rows)
    BY <1>3, <1>4, <2>1, LeastPlace
  <2>2. ASSUME bad # {} PROVE 1 .. Min(bad) - 1 \subseteq 1 .. Len(o.rows)
    BY <1>3, <2>1, <2>2
  <2>. QED  BY <1>3, <2>2
<1>. HIDE DEF seen
<1>7. good \subseteq 1 .. Len(o.rows) /\ good \subseteq Int
  <2>1. good \subseteq seen
    OBVIOUS
  <2>. HIDE DEF good
  <2>2. good \subseteq 1 .. Len(o.rows)
    BY <1>6, <2>1
  <2>. QED  BY <2>2
<1>8. IsFiniteSet(good)
  <2>1. IsFiniteSet(1 .. Len(o.rows))
    BY <1>3, PlacesFinite
  <2>. QED  BY <1>7, <2>1, FS_Subset
<1>. HIDE DEF good
<1>9. /\ n \in Nat /\ kept \in [1 .. n -> good]
      /\ \A i, j \in 1 .. n : i < j => kept[i] < kept[j]
  BY <1>7, <1>8, AscendingLists
<1>. HIDE DEF n, kept
<1>10. kept \in [1 .. n -> DOMAIN o.rows] /\ DOMAIN kept = 1 .. n
  BY <1>3, <1>7, <1>9
<1>11. \A i, j \in 1 .. n : kept[i] = kept[j] => i = j
  <2>1. TAKE i, j \in 1 .. n
  <2>2. kept[i] \in Int /\ kept[j] \in Int
    BY <1>7, <1>9, Zenon
  <2>3. i \in Int /\ j \in Int
    BY <1>9
  <2>. QED  BY <1>9, <2>2, <2>3
<1>12. AreRows(rows, width)
  <2> DEFINE all == o.rows
  <2>1. AreRows(all, width) /\ n \in Nat /\ kept \in [1 .. n -> DOMAIN all]
    BY <1>1, <1>9, <1>10
  <2>. HIDE DEF all
  <2>2. AreRows([i \in 1 .. n |-> all[kept[i]]], width)
    BY <1>11, <2>1, RowsTaken
  <2>. QED  BY <1>10, <2>2 DEF all
<1>13. o.rows = <<>> => rows = <<>>
  <2>1. ASSUME o.rows = <<>> PROVE n = 0
    <3>1. \A i \in 1 .. n : kept[i] \in {}
      BY <1>10, <2>1
    <3>. QED  BY <1>9, <3>1
  <2>2. ASSUME o.rows = <<>> PROVE rows \in [1 .. 0 -> {}]
    BY <1>10, <2>1, <2>2
  <2>. QED  BY <2>2
<1>14. fate \in {"eof", "fails", "opens not"} /\ (fate = "opens not" => rows = <<>>)
  BY <1>1, <1>13
<1>. HIDE DEF rows, fate
<1>15. Filtered(p, o).rows = rows /\ Filtered(p, o).fate = fate
  BY <1>2
<1>16. Filtered(p, o) = [rows |-> Filtered(p, o).rows, fate |-> Filtered(p, o).fate]
  BY <1>2
<1>. QED  BY <1>12, <1>14, <1>15, <1>16 DEF IsOutcome

\* a projection one as wide as it has columns,
LEMMA ProjectKeeps ==
    ASSUME NEW o, NEW width, IsOutcome(o, width), NEW columns \in Seq(1 .. width)
    PROVE  IsOutcome([o EXCEPT !.rows = [j \in DOMAIN o.rows |-> ProjectRow(columns, o.rows[j])]],
                     Len(columns))
<1>0. Len(columns) \in Nat /\ DOMAIN columns = 1 .. Len(columns)
      /\ \A j \in DOMAIN columns : columns[j] \in 1 .. width
  BY SequenceLists
<1> DEFINE s == [j \in DOMAIN o.rows |-> ProjectRow(columns, o.rows[j])]
           m == Len(columns)
           n == Len(o.rows)
<1>1. AreRows(o.rows, width) /\ o = [rows |-> o.rows, fate |-> o.fate]
  BY DEF IsOutcome
<1>2. n \in Nat /\ DOMAIN o.rows = 1 .. n /\ \A j \in 1 .. n : o.rows[j] \in RowsOf(width)
  BY <1>1, RowsListed
<1>3. ASSUME NEW r \in RowsOf(width)
      PROVE  ProjectRow(columns, r) \in RowsOf(m) /\ ProjectRow(columns, r).ordinal = r.ordinal
  <2> DEFINE v == [j \in DOMAIN columns |-> r.values[columns[j]]]
  <2>1. /\ r = [ordinal |-> r.ordinal, values |-> r.values]
        /\ r.ordinal \in Nat /\ r.values \in [1 .. width -> Value]
    BY DEF RowsOf
  <2>2. m \in Nat /\ DOMAIN columns = 1 .. m /\ \A j \in DOMAIN columns : columns[j] \in 1 .. width
    BY <1>0
  <2>3. v \in [1 .. m -> Value]
    BY <2>1, <2>2
  <2>. HIDE DEF v
  <2>4. [r EXCEPT !.values = v] = [ordinal |-> r.ordinal, values |-> v]
    BY <2>1
  <2>5. ProjectRow(columns, r) = [ordinal |-> r.ordinal, values |-> v]
    BY <2>4 DEF ProjectRow, v
  <2>. QED  BY <2>1, <2>3, <2>5 DEF RowsOf
<1>4. s \in [1 .. n -> RowsOf(m)] /\ \A j \in 1 .. n : s[j].ordinal = o.rows[j].ordinal
  BY <1>2, <1>3
<1>5. s \in Seq(RowsOf(m)) /\ DOMAIN s = 1 .. n
  BY <1>2, <1>4
<1>6. o.rows = <<>> => s = <<>>
  <2>1. ASSUME o.rows = <<>> PROVE s \in [1 .. 0 -> {}]
    BY <2>1
  <2>. QED  BY <2>1
<1>. HIDE DEF s
<1>7. [o EXCEPT !.rows = s] = [rows |-> s, fate |-> o.fate]
  BY <1>1
<1>8. AreRows(s, m)
  BY <1>2, <1>4, <1>5 DEF IsOutcome, AreRows, RowsOf
<1>9. IsOutcome([o EXCEPT !.rows = s], m)
  BY <1>6, <1>7, <1>8 DEF IsOutcome
<1>. QED  BY <1>9 DEF s

\* a limit one of the same width,
LEMMA LimitKeeps ==
    ASSUME NEW o, NEW width, IsOutcome(o, width), NEW n \in Nat
    PROVE  IsOutcome(Limited(n, o), width)
<1>1. CASE n <= Len(o.rows) /\ o # FailsToOpen
  <2> DEFINE s == SubSeq(o.rows, 1, n)
             at == [i \in 1 .. n |-> i]
  <2>0. AreRows(o.rows, width)
    BY DEF IsOutcome
  <2>1. Len(o.rows) \in Nat /\ DOMAIN o.rows = 1 .. Len(o.rows) /\ AreRows(o.rows, width)
    BY <2>0, RowsListed
  <2>2. at \in [1 .. n -> DOMAIN o.rows] /\ \A i, j \in 1 .. n : at[i] = at[j] => i = j
    BY <1>1, <2>1
  <2>3. o.rows \in Seq(RowsOf(width))
    BY DEF IsOutcome, AreRows, RowsOf
  <2>4. s = [i \in 1 .. n |-> o.rows[i]]
    BY <1>1, <2>1, <2>3
  <2>5. s = [i \in 1 .. n |-> o.rows[at[i]]]
    BY <2>4
  <2>. HIDE DEF s, at
  <2>6. AreRows(s, width)
    <3> DEFINE all == o.rows
    <3>1. AreRows(all, width) /\ at \in [1 .. n -> DOMAIN all]
      BY <2>1, <2>2
    <3>2. s = [i \in 1 .. n |-> all[at[i]]]
      BY <2>5
    <3>. HIDE DEF all
    <3>3. AreRows([i \in 1 .. n |-> all[at[i]]], width)
      BY <2>2, <3>1, RowsTaken
    <3>. QED  BY <3>2, <3>3, Zenon
  <2>. QED  BY <1>1, <2>6 DEF Limited, IsOutcome, Yields, s
<1>2. CASE ~(n <= Len(o.rows) /\ o # FailsToOpen)
  BY <1>2 DEF Limited
<1>. QED  BY <1>1, <1>2

\* and so do a sort and a top-k.
LEMMA OrderKeeps ==
    ASSUME NEW o, NEW width, IsOutcome(o, width),
           NEW st, st.stage \in {"Sort", "TopK"},
           st.sort.column \in 1 .. width, st.sort.direction \in SortDirection,
           NEW x \in Ordered(st, o)
    PROVE  IsOutcome(x, width)
<1> DEFINE S == ToSet(o.rows)
<1>1. AreRows(o.rows, width)
  BY DEF IsOutcome
<1>2. ASSUME NEW B \in SUBSET S, ~Clashing(st.sort, B)
      PROVE  IsOutcome(Yields(InOrder(st.sort, B)), width)
  <2>1. AreRows(InOrder(st.sort, B), width)
    BY <1>1, <1>2, SortedRows
  <2>. QED  BY <2>1 DEF IsOutcome, Yields
<1>3. CASE x = FailsToOpen
  BY <1>3, NoRows
<1>4. CASE st.stage = "Sort" /\ x # FailsToOpen
  <2>1. ~Clashing(st.sort, S) /\ x = Yields(InOrder(st.sort, S))
    BY <1>4 DEF Ordered
  <2>. QED  BY <1>2, <2>1
<1>5. CASE st.stage = "TopK" /\ x # FailsToOpen
  <2>1. PICK B \in IF st.k = 0 THEN {{}} ELSE Least(st.sort, st.k, S) :
              x = Yields(InOrder(st.sort, B))
    BY <1>5 DEF Ordered
  <2>2. B \in SUBSET S /\ ~Clashing(st.sort, B)
    BY DEF Least, Clashing
  <2>. QED  BY <1>2, <2>1, <2>2
<1>. QED  BY <1>3, <1>4, <1>5

\* A stage makes outcomes of its width of one over rows it fits.
LEMMA ApplyKeeps ==
    ASSUME NEW o, NEW width, IsOutcome(o, width), NEW st, FitsOver(st, width),
           NEW x \in Apply(st, o)
    PROVE  IsOutcome(x, WidthOver(st, width))
<1>1. CASE st.stage = "Filter"
  BY <1>1, FilterKeeps DEF Apply, WidthOver
<1>2. CASE st.stage = "Project"
  <2>1. x = [o EXCEPT !.rows = [j \in DOMAIN o.rows |-> ProjectRow(st.columns, o.rows[j])]]
    BY <1>2 DEF Apply
  <2>2. st.columns \in Seq(1 .. width)
    BY <1>2 DEF FitsOver
  <2>. QED  BY <1>2, <2>1, <2>2, ProjectKeeps DEF WidthOver
<1>3. CASE st.stage = "Limit"
  BY <1>3, LimitKeeps DEF Apply, WidthOver, FitsOver
<1>4. CASE st.stage \in {"Sort", "TopK"}
  BY <1>4, OrderKeeps DEF Apply, WidthOver, FitsOver
<1>. QED  BY <1>1, <1>2, <1>3, <1>4 DEF FitsOver
\* B are the least n rows of S and the first m in the order of the sort.
AreFirst(B, m, sort, n, S) ==
    /\ B \in SUBSET S /\ Least(sort, n, S) = {B} /\ (m = 0 => B = {})
    /\ InOrder(sort, B) = [i \in 1 .. m |-> InOrder(sort, S)[i]]

\* Of rows that do not clash the least n are the first n of them in the order of
\* the sort.
LEMMA LeastAreFirst ==
    ASSUME NEW sort, NEW S, IsFiniteSet(S), Sortable(sort, S), ~Clashing(sort, S), NEW n \in Nat,
           NEW N, N = Cardinality(S), NEW m, m = IF n < N THEN n ELSE N
    PROVE  /\ N \in Nat /\ m \in Nat
           /\ DOMAIN InOrder(sort, S) = 1 .. N
           /\ InOrder(sort, S) \in Seq(S) /\ Len(InOrder(sort, S)) = N
           /\ \E B : AreFirst(B, m, sort, n, S)
<1> DEFINE R == OrderOf(sort, S)
           First == {Listed(R, S)[i] : i \in 1 .. m}
           IsBeginning(B) == Cardinality(B) = m /\ \A a \in B, b \in S \ B : <<a, b>> \in R
<1>1. N \in Nat
  BY FS_CardinalityType
<1>2. m \in Nat /\ m <= N
  BY <1>1
<1>3. /\ StrictlyOrders(R, S)
      /\ \A x, y \in S : <<x, y>> \in R <=> RowBefore(sort, x, y)
      /\ \A B \in SUBSET S : InOrder(sort, B) = Listed(R, B)
  BY InOrderLists
<1>. HIDE DEF R
<1>4. /\ First \in SUBSET S /\ IsBeginning(First)
      /\ \A B \in SUBSET S : IsBeginning(B) => B = First
  <2>1. IsFiniteSet(S) /\ StrictlyOrders(R, S) /\ m \in Nat /\ m <= Cardinality(S)
    BY <1>2, <1>3
  <2>. HIDE DEF IsBeginning, First
  <2>2. /\ First \in SUBSET S /\ IsBeginning(First)
    BY <2>1, OneBeginning DEF IsBeginning, First
  <2>3. \A B \in SUBSET S : IsBeginning(B) => B = First
    BY <2>1, OneBeginning DEF IsBeginning, First
  <2>. QED  BY <2>2, <2>3
<1>. HIDE DEF First
<1>5. Least(sort, n, S) = {First}
  <2>1. ASSUME NEW B \in SUBSET S PROVE ~Clashing(sort, B)
    BY DEF Clashing
  <2>2. \A B \in SUBSET S : (\A a \in B, b \in S \ B : RowBefore(sort, a, b))
                               <=> \A a \in B, b \in S \ B : <<a, b>> \in R
    BY <1>3
  <2>3. \A B : B \in Least(sort, n, S) <=> B \in SUBSET S /\ IsBeginning(B)
    BY <2>1, <2>2 DEF Least
  <2>. QED  BY <1>4, <2>3
<1>6. \A i \in 1 .. m : Listed(R, First)[i] = Listed(R, S)[i]
  BY <1>3, <1>4, ListedBeginning
<1>7. /\ InOrder(sort, S) = Listed(R, S) /\ InOrder(sort, First) = Listed(R, First)
      /\ Listed(R, S) \in [1 .. N -> S]
  BY <1>3, <1>4, ListedInOrder
<1>8. InOrder(sort, S) \in Seq(S) /\ Len(InOrder(sort, S)) = N /\ DOMAIN InOrder(sort, S) = 1 .. N
  BY <1>1, <1>7
<1>9. InOrder(sort, First) = [i \in 1 .. m |-> InOrder(sort, S)[i]]
  <2>1. DOMAIN Listed(R, First) = 1 .. m
    BY <1>4 DEF Listed
  <2>2. Listed(R, First) = [i \in 1 .. Cardinality(First) |-> Listed(R, First)[i]]
    BY DEF Listed
  <2>3. Listed(R, First) = [i \in 1 .. m |-> Listed(R, First)[i]]
    BY <1>4, <2>2
  <2>. QED  BY <1>6, <1>7, <2>3
<1>10. m = 0 => First = {}
  BY DEF First
<1>11. AreFirst(First, m, sort, n, S)
  BY <1>4, <1>5, <1>9, <1>10 DEF AreFirst
<1>. QED  BY <1>1, <1>2, <1>8, <1>11

\* A top-k does what the limit over the sort does, unless the sort clashes.
LEMMA FusedMeansTheSame ==
    ASSUME NEW o, NEW width, IsOutcome(o, width), NEW c \in 1 .. width, NEW d \in SortDirection,
           NEW n \in Nat
    PROVE  LET apart == UNION {Apply(Limit(n), y) : y \in Apply(Sort(c, d), o)}
           IN  FailsToOpen \in apart \/ Apply(TopK(c, d, n), o) = apart
<1> DEFINE sort == [column |-> c, direction |-> d]
           S == ToSet(o.rows)
           N == Cardinality(S)
           apart == UNION {Apply(Limit(n), y) : y \in Apply(Sort(c, d), o)}
<1>1. /\ \A y : Apply(Limit(n), y) = {Limited(n, y)}
      /\ Apply(Sort(c, d), o) = Ordered(Sort(c, d), o)
      /\ Apply(TopK(c, d, n), o) = Ordered(TopK(c, d, n), o)
  BY DEF Apply, Limit, Sort, TopK
<1>2. /\ Sort(c, d).stage = "Sort" /\ Sort(c, d).sort = sort
      /\ TopK(c, d, n).stage = "TopK" /\ TopK(c, d, n).sort = sort /\ TopK(c, d, n).k = n
  BY DEF Sort, TopK
<1>3. ASSUME NEW y, Ordered(Sort(c, d), o) = {y} PROVE apart = {Limited(n, y)}
  BY <1>1, <1>3
<1>4. Limited(n, FailsToOpen) = FailsToOpen
  BY DEF Limited
<1>. HIDE DEF apart
<1>5. CASE o.fate # "eof"
  <2>1. Ordered(Sort(c, d), o) = {FailsToOpen}
    BY <1>5 DEF Ordered
  <2>. QED  BY <1>3, <1>4, <2>1 DEF apart
<1>6. CASE o.fate = "eof" /\ Clashing(sort, S)
  <2>1. Ordered(Sort(c, d), o) = {FailsToOpen}
    BY <1>2, <1>6 DEF Ordered
  <2>. QED  BY <1>3, <1>4, <2>1 DEF apart
<1>7. CASE o.fate = "eof" /\ ~Clashing(sort, S)
  <2> DEFINE y == Yields(InOrder(sort, S))
             m == IF n < N THEN n ELSE N
             s == InOrder(sort, S)
  <2>1. Ordered(Sort(c, d), o) = {y}
    BY <1>2, <1>7 DEF Ordered
  <2>2. IsFiniteSet(S) /\ Sortable(sort, S)
    <3>1. AreRows(o.rows, width) /\ sort.column \in 1 .. width /\ sort.direction \in SortDirection
      BY DEF IsOutcome
    <3>. HIDE DEF sort, S
    <3>2. IsFiniteSet(ToSet(o.rows)) /\ Sortable(sort, ToSet(o.rows))
      BY <3>1, RowsSortable
    <3>. QED  BY <3>2 DEF S
  <2>. HIDE DEF sort, S, N
  <2>3. /\ N \in Nat /\ m \in Nat /\ DOMAIN s = 1 .. N /\ s \in Seq(S) /\ Len(s) = N
        /\ \E B : AreFirst(B, m, sort, n, S)
    <3>1. ~Clashing(sort, S)
      BY <1>7
    <3>2. N = Cardinality(S) /\ m = IF n < N THEN n ELSE N
      BY DEF N
    <3>. HIDE DEF y, m, s
    <3>3. /\ N \in Nat /\ m \in Nat
          /\ DOMAIN InOrder(sort, S) = 1 .. N
          /\ InOrder(sort, S) \in Seq(S) /\ Len(InOrder(sort, S)) = N
      BY <2>2, <3>1, <3>2, LeastAreFirst
    <3>4. \E B : AreFirst(B, m, sort, n, S)
      BY <2>2, <3>1, <3>2, LeastAreFirst
    <3>. QED  BY <3>3, <3>4 DEF s
  <2>4. PICK B : /\ Least(sort, n, S) = {B} /\ (m = 0 => B = {})
                 /\ InOrder(sort, B) = [i \in 1 .. m |-> s[i]]
    BY <2>3 DEF AreFirst
  <2>5. Ordered(TopK(c, d, n), o) = {Yields(InOrder(sort, B))}
    <3>1. (IF n = 0 THEN {{}} ELSE Least(sort, n, S)) = {B}
      <4>1. n = 0 => m = 0
        BY <2>3
      <4>. HIDE DEF y, m
      <4>. QED  BY <2>4, <4>1
    <3>2. Ordered(TopK(c, d, n), o)
            = {Yields(InOrder(sort, b)) : b \in IF n = 0 THEN {{}} ELSE Least(sort, n, S)}
      BY <1>2, <1>7 DEF Ordered, S
    <3>. QED  BY <3>1, <3>2
  <2>6. y.rows = s /\ y # FailsToOpen /\ y = Yields(s)
    BY DEF Yields, FailsToOpen
  <2>. HIDE DEF s
  <2>7. Limited(n, y) = Yields([i \in 1 .. m |-> s[i]])
    <3>1. CASE n <= N
      <4>1. m = n
        BY <2>3, <3>1
      <4>2. SubSeq(s, 1, n) = [i \in 1 .. n |-> s[i]]
        BY <2>3, <3>1
      <4>. HIDE DEF y
      <4>3. Limited(n, y) = Yields(SubSeq(s, 1, n))
        BY <2>3, <2>6, <3>1 DEF Limited
      <4>. QED  BY <4>1, <4>2, <4>3
    <3>2. CASE ~(n <= N)
      <4>1. m = N
        BY <2>3, <3>2
      <4>2. s = [i \in 1 .. N |-> s[i]]
        BY <2>3
      <4>. HIDE DEF y
      <4>3. Limited(n, y) = y
        BY <2>3, <2>6, <3>2 DEF Limited
      <4>. QED  BY <2>6, <4>1, <4>2, <4>3
    <3>. QED  BY <3>1, <3>2
  <2>. HIDE DEF y, m
  <2>8. apart = {Limited(n, y)}
    BY <1>3, <2>1
  <2>9. Apply(TopK(c, d, n), o) = apart
    BY <1>1, <2>4, <2>5, <2>7, <2>8
  <2>. QED  BY <2>9 DEF apart
<1>. QED  BY <1>5, <1>6, <1>7
\* The outcomes of the stages of a plan, from the scan up.
AreStages(plan, N) == N \in Nat /\ N > 0 /\ DOMAIN plan = 1 .. N /\ Len(plan) = N

After(st, outcomes) == UNION {Apply(st, o) : o \in outcomes}

Passes(f, plan, N, t) ==
    f = [i \in 1 .. N |-> IF i = 1 THEN {Yields(t)} ELSE After(plan[i], f[i - 1])]

\* What passes up a plan begins with its table and goes from stage to stage.
LEMMA PassOn ==
    ASSUME NEW f, NEW plan, NEW N \in Nat, N > 0, NEW t, Passes(f, plan, N, t)
    PROVE  f[1] = {Yields(t)} /\ \A i \in 2 .. N : f[i] = After(plan[i], f[i - 1])
<1>1. \A i \in 1 .. N : f[i] = IF i = 1 THEN {Yields(t)} ELSE After(plan[i], f[i - 1])
  BY DEF Passes
<1>2. 1 \in 1 .. N /\ \A i \in 2 .. N : i \in 1 .. N /\ i # 1
  OBVIOUS
<1>. QED  BY <1>1, <1>2

\* The outcomes of a plan are those that pass up to its last stage.
LEMMA OutcomesOf ==
    ASSUME NEW plan, NEW N, AreStages(plan, N), NEW t
    PROVE  \E f : Passes(f, plan, N, t) /\ Outcomes(plan, t) = f[N]
<1> DEFINE Odd == {n \in 1 .. N : ~\E f : Passes(f, plan, n, t)}
<1>1. N \in Nat /\ N \in 1 .. N /\ DOMAIN plan = 1 .. N /\ Len(plan) = N
  BY DEF AreStages
<1>2. Odd = {}
  <2>. SUFFICES ASSUME Odd # {} PROVE FALSE
    OBVIOUS
  <2>1. PICK n \in Odd : \A m \in Odd : n <= m
    <3>1. Odd \in SUBSET (1 .. N)
      OBVIOUS
    <3>. QED  BY <1>1, <3>1, LeastPlace
  <2>2. n \in 1 .. N /\ ~\E f : Passes(f, plan, n, t)
    OBVIOUS
  <2>3. CASE n = 1
    <3> DEFINE f == [i \in 1 .. 1 |-> {Yields(t)}]
    <3>1. f = [i \in 1 .. 1 |-> IF i = 1 THEN {Yields(t)} ELSE After(plan[i], f[i - 1])]
      OBVIOUS
    <3>. HIDE DEF f
    <3>2. Passes(f, plan, n, t)
      BY <2>3, <3>1 DEF Passes
    <3>. QED  BY <2>2, <3>2
  <2>4. CASE n # 1
    <3>1. n - 1 \in 1 .. N /\ ~(n <= n - 1) /\ n \in Nat
      BY <1>1, <2>2, <2>4
    <3>2. n - 1 \notin Odd
      BY <2>1, <3>1
    <3>3. PICK g : Passes(g, plan, n - 1, t)
      BY <3>1, <3>2
    <3> DEFINE f == [i \in 1 .. n |-> IF i = n THEN After(plan[n], g[n - 1]) ELSE g[i]]
    <3>4. g = [i \in 1 .. n - 1 |-> IF i = 1 THEN {Yields(t)} ELSE After(plan[i], g[i - 1])]
      BY <3>3 DEF Passes
    <3>5. f[n] = After(plan[n], f[n - 1])
      BY <2>2, <2>4
    <3>6. ASSUME NEW i \in 1 .. n - 1
          PROVE  f[i] = IF i = 1 THEN {Yields(t)} ELSE After(plan[i], f[i - 1])
      <4>1. f[i] = g[i] /\ (i # 1 => f[i - 1] = g[i - 1])
        BY <3>1
      <4>2. g[i] = IF i = 1 THEN {Yields(t)} ELSE After(plan[i], g[i - 1])
        BY <3>4
      <4>. HIDE DEF f
      <4>. QED  BY <4>1, <4>2
    <3>7. f = [i \in 1 .. n |-> f[i]]
      OBVIOUS
    <3>. HIDE DEF f
    <3>8. \A i \in 1 .. n : f[i] = IF i = 1 THEN {Yields(t)} ELSE After(plan[i], f[i - 1])
      <4>1. TAKE i \in 1 .. n
      <4>2. i = n \/ i \in 1 .. n - 1
        BY <3>1
      <4>. QED  BY <2>4, <3>5, <3>6, <4>2
    <3>9. Passes(f, plan, n, t)
      BY <3>7, <3>8 DEF Passes
    <3>. QED  BY <2>2, <3>9
  <2>. QED  BY <2>3, <2>4
<1>3. \E f : Passes(f, plan, N, t)
  BY <1>1, <1>2
<1> DEFINE upTo == CHOOSE f : f = [i \in DOMAIN plan |->
                                     IF i = 1 THEN {Yields(t)}
                                     ELSE UNION {Apply(plan[i], o) : o \in f[i - 1]}]
<1>4. \E f : f = [i \in DOMAIN plan |-> IF i = 1 THEN {Yields(t)}
                                        ELSE UNION {Apply(plan[i], o) : o \in f[i - 1]}]
  BY <1>1, <1>3 DEF Passes, After
<1>5. Outcomes(plan, t) = upTo[Len(plan)]
  BY DEF Outcomes
<1>6. upTo = [i \in DOMAIN plan |-> IF i = 1 THEN {Yields(t)}
                                    ELSE UNION {Apply(plan[i], o) : o \in upTo[i - 1]}]
  BY <1>4
<1>. HIDE DEF upTo
<1>7. Passes(upTo, plan, N, t)
  BY <1>1, <1>6 DEF Passes, After
<1>. QED  BY <1>1, <1>5, <1>7

\* The widths of the rows of a plan's stages, from the scan up.
LEMMA WidthsOf ==
    ASSUME NEW p, NEW n, AreStages(p, n), NEW width
    PROVE  LET w == WidthAt(p, width)
           IN  w[1] = width /\ \A i \in 2 .. n : w[i] = WidthOver(p[i], w[i - 1])
<1> DEFINE Step(g, i) == IF i = 1 THEN width
                         ELSE IF p[i].stage = "Project" THEN Len(p[i].columns) ELSE g[i - 1]
           Widths(g, m) == g = [i \in 1 .. m |-> Step(g, i)]
           Odd == {m \in 1 .. n : ~\E g : Widths(g, m)}
<1>1. n \in Nat /\ n \in 1 .. n /\ DOMAIN p = 1 .. n
  BY DEF AreStages
<1>2. Odd = {}
  <2>. SUFFICES ASSUME Odd # {} PROVE FALSE
    OBVIOUS
  <2>1. PICK m \in Odd : \A j \in Odd : m <= j
    <3>1. Odd \in SUBSET (1 .. n)
      OBVIOUS
    <3>. QED  BY <1>1, <3>1, LeastPlace
  <2>2. m \in 1 .. n /\ ~\E g : Widths(g, m)
    OBVIOUS
  <2>3. CASE m = 1
    <3>1. PICK g : g = [i \in 1 .. m |-> width]
      OBVIOUS
    <3>2. \A i \in 1 .. m : Step(g, i) = width
      BY <2>3
    <3>3. Widths(g, m)
      BY <3>1, <3>2
    <3>. QED  BY <2>2, <3>3
  <2>4. CASE m # 1
    <3>1. m - 1 \in 1 .. n /\ ~(m <= m - 1) /\ m \in Nat
      BY <1>1, <2>2, <2>4
    <3>2. m - 1 \notin Odd
      BY <2>1, <3>1
    <3>3. PICK g : Widths(g, m - 1)
      BY <3>1, <3>2
    <3>4. PICK h : h = [i \in 1 .. m |-> IF i = m THEN Step(g, m) ELSE g[i]]
      OBVIOUS
    <3>5. ASSUME NEW i \in 1 .. m PROVE h[i] = Step(h, i)
      <4>1. CASE i = m
        <5>1. h[m] = Step(g, m) /\ h[m - 1] = g[m - 1]
          BY <2>2, <2>4, <3>1, <3>4
        <5>. QED  BY <2>4, <4>1, <5>1
      <4>2. CASE i # m
        <5>1. i \in 1 .. m - 1 /\ h[i] = g[i] /\ (i # 1 => h[i - 1] = g[i - 1])
          BY <3>1, <3>4, <4>2
        <5>2. g[i] = Step(g, i)
          BY <3>3, <5>1
        <5>. QED  BY <5>1, <5>2
      <4>. QED  BY <4>1, <4>2
    <3>6. h = [i \in 1 .. m |-> Step(h, i)]
      <4>1. h = [i \in 1 .. m |-> h[i]]
        BY <3>4
      <4>. HIDE DEF Step
      <4>. QED  BY <3>5, <4>1
    <3>. QED  BY <2>2, <3>6
  <2>. QED  BY <2>3, <2>4
<1>3. \E g : g = [i \in DOMAIN p |-> IF i = 1 THEN width
                                     ELSE IF p[i].stage = "Project" THEN Len(p[i].columns)
                                     ELSE g[i - 1]]
  BY <1>1, <1>2
<1> DEFINE w == CHOOSE g : g = [i \in DOMAIN p |->
                                  IF i = 1 THEN width
                                  ELSE IF p[i].stage = "Project" THEN Len(p[i].columns)
                                  ELSE g[i - 1]]
<1>4. w = [i \in DOMAIN p |-> IF i = 1 THEN width
                              ELSE IF p[i].stage = "Project" THEN Len(p[i].columns)
                              ELSE w[i - 1]]
  BY <1>3
<1>5. WidthAt(p, width) = w
  BY DEF WidthAt
<1>. HIDE DEF w
<1>6. w[1] = width
  BY <1>1, <1>4
<1>7. ASSUME NEW i \in 2 .. n PROVE w[i] = WidthOver(p[i], w[i - 1])
  <2>1. i \in 1 .. n /\ i # 1
    BY <1>1
  <2>. QED  BY <1>1, <1>4, <2>1 DEF WidthOver
<1>. QED  BY <1>5, <1>6, <1>7

\* A plan whose stages fit over one another, over rows of the widths w.
FitTogether(plan, N, w) ==
    \A i \in 2 .. N : FitsOver(plan[i], w[i - 1]) /\ w[i] = WidthOver(plan[i], w[i - 1])

\* What passes up a plan whose stages fit together are outcomes of the width of each.
LEMMA OutcomesFit ==
    ASSUME NEW plan, NEW N, AreStages(plan, N), NEW w, FitTogether(plan, N, w),
           NEW t, AreRows(t, w[1]), NEW f, Passes(f, plan, N, t)
    PROVE  \A i \in 1 .. N : \A o \in f[i] : IsOutcome(o, w[i])
<1> DEFINE Odd == {i \in 1 .. N : ~\A o \in f[i] : IsOutcome(o, w[i])}
<1>. SUFFICES ASSUME Odd # {} PROVE FALSE
  OBVIOUS
<1>1. PICK i \in Odd : \A j \in Odd : i <= j
  <2>1. Odd \in SUBSET (1 .. N) /\ N \in Nat
    BY DEF AreStages
  <2>. QED  BY <2>1, LeastPlace
<1>2. i \in 1 .. N /\ ~\A o \in f[i] : IsOutcome(o, w[i])
  OBVIOUS
<1>3. f[i] = IF i = 1 THEN {Yields(t)} ELSE After(plan[i], f[i - 1])
  BY <1>2 DEF Passes
<1>4. CASE i = 1
  <2>1. f[i] = {Yields(t)} /\ AreRows(t, w[i])
    BY <1>3, <1>4
  <2>2. IsOutcome(Yields(t), w[i])
    BY <2>1 DEF IsOutcome, Yields
  <2>. QED  BY <1>2, <2>1, <2>2
<1>5. CASE i # 1
  <2>1. i \in 2 .. N /\ i - 1 \in 1 .. N /\ ~(i <= i - 1)
    BY <1>2, <1>5 DEF AreStages
  <2>2. \A o \in f[i - 1] : IsOutcome(o, w[i - 1])
    BY <1>1, <2>1
  <2>3. FitsOver(plan[i], w[i - 1]) /\ w[i] = WidthOver(plan[i], w[i - 1])
    BY <2>1 DEF FitTogether
  <2>4. ASSUME NEW x \in f[i] PROVE IsOutcome(x, w[i])
    <3>1. PICK o \in f[i - 1] : x \in Apply(plan[i], o)
      BY <1>3, <1>5 DEF After
    <3>. QED  BY <2>2, <2>3, <3>1, ApplyKeeps
  <2>. QED  BY <1>2, <2>4
<1>. QED  BY <1>4, <1>5

\* Outcomes of a plan that is left its meaning.
MeansStill(before, after) == FailsToOpen \in before \/ after = before

\* What is kept below a stage is kept above it.
LEMMA StageKeeps ==
    ASSUME NEW st, NEW width, FitsOver(st, width), NEW before, NEW after, MeansStill(before, after)
    PROVE  MeansStill(After(st, before), After(st, after))
<1>1. CASE FailsToOpen \in before
  <2>1. FailsToOpen \in Apply(st, FailsToOpen)
    BY FailureToOpenGoesUp
  <2>2. FailsToOpen \in After(st, before)
    BY <1>1, <2>1 DEF After
  <2>. QED  BY <2>2 DEF MeansStill
<1>2. CASE after = before
  BY <1>2 DEF MeansStill
<1>. QED  BY <1>1, <1>2 DEF MeansStill

\* A top-k means, after any outcomes, what the sort and the limit after it mean.
LEMMA FusedStagesKeep ==
    ASSUME NEW outcomes, NEW width, \A o \in outcomes : IsOutcome(o, width),
           NEW c \in 1 .. width, NEW d \in SortDirection, NEW n \in Nat
    PROVE  MeansStill(After(Limit(n), After(Sort(c, d), outcomes)), After(TopK(c, d, n), outcomes))
<1> DEFINE apart(o) == After(Limit(n), Apply(Sort(c, d), o))
           both == After(Limit(n), After(Sort(c, d), outcomes))
<1>1. both = UNION {apart(o) : o \in outcomes}
  <2> DEFINE limit(y) == Apply(Limit(n), y)
             sort(o) == Apply(Sort(c, d), o)
  <2>1. both = UNION {limit(y) : y \in UNION {sort(o) : o \in outcomes}}
    BY DEF After
  <2>2. \A o : apart(o) = UNION {limit(y) : y \in sort(o)}
    BY DEF After
  <2>. HIDE DEF limit, sort, both, apart
  <2>. QED  BY <2>1, <2>2
<1>2. \A o \in outcomes : FailsToOpen \in apart(o) \/ Apply(TopK(c, d, n), o) = apart(o)
  BY FusedMeansTheSame DEF After
<1>. HIDE DEF apart, both
<1>3. CASE \E o \in outcomes : FailsToOpen \in apart(o)
  BY <1>1, <1>3 DEF MeansStill, both
<1>4. CASE \A o \in outcomes : Apply(TopK(c, d, n), o) = apart(o)
  <2>1. {Apply(TopK(c, d, n), o) : o \in outcomes} = {apart(o) : o \in outcomes}
    BY <1>4
  <2>2. After(TopK(c, d, n), outcomes) = both
    BY <1>1, <2>1 DEF After
  <2>. QED  BY <2>2 DEF MeansStill, both
<1>. QED  BY <1>2, <1>3, <1>4

\* A plan with a top-k in place of a limit over a sort means the same.
LEMMA FusingKeepsMeaning ==
    ASSUME NEW plan, NEW N, AreStages(plan, N), NEW w, FitTogether(plan, N, w),
           NEW t, AreRows(t, w[1]),
           NEW m \in 3 .. N, NEW c, NEW d \in SortDirection, NEW n \in Nat,
           plan[m] = Limit(n), plan[m - 1] = Sort(c, d), c \in 1 .. w[m - 2],
           NEW fused, AreStages(fused, N - 1), fused[m - 1] = TopK(c, d, n),
           \A i \in 1 .. m - 2 : fused[i] = plan[i],
           \A i \in m .. N - 1 : fused[i] = plan[i + 1]
    PROVE  MeansStill(Outcomes(plan, t), Outcomes(fused, t))
<1>0. N \in Nat /\ m \in Nat
  BY DEF AreStages
<1>1. PICK f : Passes(f, plan, N, t) /\ Outcomes(plan, t) = f[N]
  BY OutcomesOf
<1>2. PICK g : Passes(g, fused, N - 1, t) /\ Outcomes(fused, t) = g[N - 1]
  BY OutcomesOf
<1>3. /\ f[1] = {Yields(t)}
      /\ \A i \in 2 .. N : f[i] = After(plan[i], f[i - 1])
  BY <1>0, <1>1, PassOn
<1>4. /\ g[1] = {Yields(t)}
      /\ \A i \in 2 .. N - 1 : g[i] = After(fused[i], g[i - 1])
  <2>1. N - 1 \in Nat /\ N - 1 > 0
    BY <1>0
  <2>. QED  BY <1>2, <2>1, PassOn
<1>5. \A i \in 1 .. N : \A o \in f[i] : IsOutcome(o, w[i])
  BY <1>1, OutcomesFit
<1>6. \A i \in 1 .. m - 2 : g[i] = f[i]
  <2> DEFINE Odd == {i \in 1 .. m - 2 : g[i] # f[i]}
  <2>. SUFFICES ASSUME Odd # {} PROVE FALSE
    OBVIOUS
  <2>1. PICK i \in Odd : \A j \in Odd : i <= j
    <3>1. Odd \in SUBSET (1 .. m - 2) /\ m - 2 \in Nat
      BY <1>0
    <3>. QED  BY <3>1, LeastPlace
  <2>2. i \in 1 .. m - 2 /\ g[i] # f[i]
    OBVIOUS
  <2>3. i # 1
    BY <1>3, <1>4, <2>2
  <2>4. i \in 2 .. N /\ i \in 2 .. N - 1 /\ i - 1 \in 1 .. m - 2 /\ ~(i <= i - 1)
    BY <1>0, <2>2, <2>3
  <2>5. g[i - 1] = f[i - 1]
    BY <2>1, <2>4
  <2>. QED  BY <1>3, <1>4, <2>2, <2>4, <2>5
<1>7. MeansStill(f[m], g[m - 1])
  <2>1. /\ m \in 2 .. N /\ m - 1 \in 2 .. N /\ m - 1 \in 2 .. N - 1 /\ m - 2 \in 1 .. N
        /\ m - 2 \in 1 .. m - 2 /\ (m - 1) - 1 = m - 2
    BY <1>0
  <2>2. f[m] = After(Limit(n), After(Sort(c, d), f[m - 2]))
    BY <1>3, <2>1
  <2>3. g[m - 1] = After(TopK(c, d, n), f[m - 2])
    BY <1>4, <1>6, <2>1
  <2>4. \A o \in f[m - 2] : IsOutcome(o, w[m - 2])
    BY <1>5, <2>1
  <2>. QED  BY <2>2, <2>3, <2>4, FusedStagesKeep
<1>8. \A i \in m .. N : MeansStill(f[i], g[i - 1])
  <2> DEFINE Odd == {i \in m .. N : ~MeansStill(f[i], g[i - 1])}
  <2>. SUFFICES ASSUME Odd # {} PROVE FALSE
    OBVIOUS
  <2>1. PICK i \in Odd : \A j \in Odd : i <= j
    <3>1. Odd \in SUBSET (1 .. N)
      BY <1>0
    <3>. QED  BY <1>0, <3>1, LeastPlace
  <2>2. i \in m .. N /\ ~MeansStill(f[i], g[i - 1])
    OBVIOUS
  <2>3. i # m
    BY <1>7, <2>2
  <2>4. /\ i \in 2 .. N /\ i - 1 \in 2 .. N - 1 /\ i - 1 \in m .. N /\ ~(i <= i - 1)
        /\ i - 1 \in m .. N - 1 /\ (i - 1) + 1 = i
    BY <1>0, <2>2, <2>3
  <2>5. MeansStill(f[i - 1], g[(i - 1) - 1])
    BY <2>1, <2>4
  <2>6. fused[i - 1] = plan[i]
    BY <2>4
  <2>7. f[i] = After(plan[i], f[i - 1]) /\ g[i - 1] = After(plan[i], g[(i - 1) - 1])
    BY <1>3, <1>4, <2>4, <2>6
  <2>8. FitsOver(plan[i], w[i - 1])
    BY <2>4 DEF FitTogether
  <2>. QED  BY <2>2, <2>5, <2>7, <2>8, StageKeeps
<1>9. N \in m .. N
  BY <1>0
<1>. QED  BY <1>1, <1>2, <1>8, <1>9
-----------------------------------------------------------------------------
\* Stages row by row.

\* The predicate p does not fail for the first m rows, and the places of those it keeps.
Fine(p, rows, m) == \A j \in 1 .. m : Evaluate(p, rows[j]) \notin ComparisonError
KeptOf(p, rows, m) == {j \in 1 .. m : Evaluate(p, rows[j]) = "true"}

\* The members of a set up to a number are a beginning of its list.
LEMMA AscendingBeginning ==
    ASSUME NEW S \in SUBSET Int, IsFiniteSet(S), NEW m \in Int, NEW B, B = {x \in S : x <= m}
    PROVE  /\ IsFiniteSet(B) /\ Cardinality(B) \in Nat /\ Cardinality(B) <= Cardinality(S)
           /\ \A i \in 1 .. Cardinality(B) : Ascending(B)[i] = Ascending(S)[i]
<1> DEFINE b == Cardinality(B)
           s == Cardinality(S)
           before == Ascending(S)
<1>1. B \in SUBSET S /\ B \in SUBSET Int
  OBVIOUS
<1>2. IsFiniteSet(B) /\ b <= s
  BY <1>1, FS_Subset
<1>3. /\ b \in Nat /\ Ascending(B) \in [1 .. b -> B]
      /\ \A x \in B : \E i \in 1 .. b : Ascending(B)[i] = x
      /\ \A i, j \in 1 .. b : i < j => Ascending(B)[i] < Ascending(B)[j]
  BY <1>1, <1>2, AscendingLists
<1>4. /\ s \in Nat /\ before \in [1 .. s -> S]
      /\ \A x \in S : \E i \in 1 .. s : before[i] = x
      /\ \A i, j \in 1 .. s : i < j => before[i] < before[j]
  BY AscendingLists
<1> DEFINE Rank(x) == Cardinality({y \in B : y < x})
<1>5. \A x \in B : {y \in S : y < x} = {y \in B : y < x}
  <2>1. TAKE x \in B
  <2>2. x \in Int /\ x <= m
    OBVIOUS
  <2>3. ASSUME NEW y \in S, y < x PROVE y <= m
    BY <2>2, <2>3
  <2>. QED  BY <2>3
<1>6. Ascending(B) = [i \in 1 .. b |-> CHOOSE x \in B : Cardinality({y \in B : y < x}) = i - 1]
  BY DEF Ascending
<1>7. before = [i \in 1 .. s |-> CHOOSE x \in S : Cardinality({y \in S : y < x}) = i - 1]
  BY DEF Ascending
<1> DEFINE R == {p \in S \X S : p[1] < p[2]}
<1>8. \A x, y \in S : <<x, y>> \in R <=> x < y
  OBVIOUS
<1>9. \A x, y, z \in S : ~(x < x) /\ (x # y => x < y \/ y < x) /\ (x < y /\ y < z => x < z)
  <2>1. TAKE x, y, z \in S
  <2>2. x \in Int /\ y \in Int /\ z \in Int
    OBVIOUS
  <2>. QED  BY <2>2
<1>. HIDE DEF R
<1>10. StrictlyOrders(R, S)
  BY <1>8, <1>9 DEF StrictlyOrders
<1>11. \A x \in S : /\ RankIn(R, S, x) = Cardinality({y \in S : y < x})
                    /\ RankIn(R, B, x) = Cardinality({y \in B : y < x})
  <2>1. TAKE x \in S
  <2>2. /\ {y \in S : <<y, x>> \in R} = {y \in S : y < x}
        /\ {y \in B : <<y, x>> \in R} = {y \in B : y < x}
    BY <1>1, <1>8
  <2>. QED  BY <2>2 DEF RankIn
<1>12. Listed(R, S) = before /\ Listed(R, B) = Ascending(B)
  <2>1. \A i \in 1 .. s : (CHOOSE x \in S : RankIn(R, S, x) = i - 1)
                            = CHOOSE x \in S : Cardinality({y \in S : y < x}) = i - 1
    BY <1>11
  <2>2. \A i \in 1 .. b : (CHOOSE x \in B : RankIn(R, B, x) = i - 1)
                            = CHOOSE x \in B : Cardinality({y \in B : y < x}) = i - 1
    BY <1>1, <1>11
  <2>. QED  BY <1>6, <1>7, <2>1, <2>2 DEF Listed
<1>13. \A x \in B, y \in S \ B : <<x, y>> \in R
  <2>1. TAKE x \in B, y \in S \ B
  <2>2. x \in Int /\ y \in Int /\ x <= m /\ ~(y <= m) /\ x \in S
    OBVIOUS
  <2>3. x < y
    BY <2>2
  <2>. QED  BY <1>8, <2>2, <2>3
<1>14. \A i \in 1 .. b : Listed(R, B)[i] = Listed(R, S)[i]
  BY <1>1, <1>10, <1>13, ListedBeginning
<1>. QED  BY <1>2, <1>3, <1>12, <1>14

\* A filter asks about the rows up to the first for which the predicate fails.
LEMMA FilterAsks ==
    ASSUME NEW o, NEW width, IsOutcome(o, width), NEW p
    PROVE  \E c \in 0 .. Len(o.rows) :
              /\ Fine(p, o.rows, c)
              /\ Filtered(p, o).rows = RowsAt(o.rows, Ascending(KeptOf(p, o.rows, c)))
              /\ c = Len(o.rows) => Filtered(p, o) = [rows |-> Filtered(p, o).rows, fate |-> o.fate]
              /\ c < Len(o.rows) => /\ Evaluate(p, o.rows[c + 1]) \in ComparisonError
                                    /\ Filtered(p, o) = FailsAfter(Filtered(p, o).rows)
<1> DEFINE bad  == {j \in DOMAIN o.rows : Evaluate(p, o.rows[j]) \in ComparisonError}
           seen == IF bad = {} THEN DOMAIN o.rows ELSE 1 .. Min(bad) - 1
           kept == {j \in seen : Evaluate(p, o.rows[j]) = "true"}
           fate == IF bad = {} THEN o.fate ELSE "fails"
<1>1. Filtered(p, o) = [rows |-> RowsAt(o.rows, Ascending(kept)), fate |-> fate]
  BY DEF Filtered
<1>2. AreRows(o.rows, width)
  BY DEF IsOutcome
<1>3. Len(o.rows) \in Nat /\ DOMAIN o.rows = 1 .. Len(o.rows)
  BY <1>2, RowsListed
<1>4. bad \in SUBSET (1 .. Len(o.rows))
  BY <1>3
<1>5. \A j \in 1 .. Len(o.rows) : j \in bad <=> Evaluate(p, o.rows[j]) \in ComparisonError
  BY <1>3
<1>. HIDE DEF bad
<1> DEFINE F == Filtered(p, o)
<1>8. F.rows = RowsAt(o.rows, Ascending(kept)) /\ F = [rows |-> F.rows, fate |-> fate]
  BY <1>1
<1>. HIDE DEF F
<1>6. CASE bad = {}
  <2>1. Fine(p, o.rows, Len(o.rows))
    BY <1>5, <1>6 DEF Fine
  <2>2. kept = KeptOf(p, o.rows, Len(o.rows)) /\ fate = o.fate
    BY <1>3, <1>6 DEF KeptOf
  <2>. HIDE DEF kept, fate
  <2>3. Len(o.rows) \in 0 .. Len(o.rows) /\ ~(Len(o.rows) < Len(o.rows))
    BY <1>3
  <2>. QED  BY <1>8, <2>1, <2>2, <2>3 DEF F
<1>7. CASE bad # {}
  <2> DEFINE c == Min(bad) - 1
  <2>1. Min(bad) \in bad /\ \A i \in bad : Min(bad) <= i
    BY <1>3, <1>4, <1>7, LeastPlace
  <2>0. Min(bad) \in 1 .. Len(o.rows)
    BY <1>4, <2>1
  <2>2. c \in 0 .. Len(o.rows) /\ c < Len(o.rows) /\ c + 1 = Min(bad)
    BY <1>3, <2>0
  <2>3. kept = KeptOf(p, o.rows, c) /\ fate = "fails"
    BY <1>7 DEF KeptOf
  <2>. HIDE DEF c, kept, fate
  <2>4. ASSUME NEW j \in 1 .. c PROVE Evaluate(p, o.rows[j]) \notin ComparisonError
    <3>1. j \in 1 .. Len(o.rows) /\ ~(c + 1 <= j)
      BY <1>3, <2>2
    <3>. QED  BY <1>5, <2>1, <2>2, <3>1
  <2>5. Evaluate(p, o.rows[c + 1]) \in ComparisonError
    BY <1>4, <1>5, <2>1, <2>2
  <2>6. Fine(p, o.rows, c)
    BY <2>4 DEF Fine
  <2>7. F = FailsAfter(F.rows)
    BY <1>8, <2>3 DEF FailsAfter
  <2>8. c # Len(o.rows)
    BY <1>3, <2>2
  <2>. QED  BY <1>8, <2>2, <2>3, <2>5, <2>6, <2>7, <2>8 DEF F
<1>. QED  BY <1>6, <1>7

\* The places kept of the first m rows are the first of the places kept.
LEMMA KeptPlaces ==
    ASSUME NEW p, NEW rows, NEW c \in Nat, NEW m \in 0 .. c
    PROVE  LET kept == KeptOf(p, rows, m)
               n == Cardinality(kept)
           IN  /\ IsFiniteSet(kept) /\ n \in Nat /\ n <= Cardinality(KeptOf(p, rows, c))
               /\ Cardinality(KeptOf(p, rows, c)) \in Nat
               /\ Ascending(kept) \in [1 .. n -> kept] /\ kept \subseteq 1 .. m
               /\ \A i \in 1 .. n : Ascending(kept)[i] = Ascending(KeptOf(p, rows, c))[i]
<1> DEFINE all == KeptOf(p, rows, c)
           kept == KeptOf(p, rows, m)
           n == Cardinality(kept)
<1>1. /\ all \subseteq 1 .. c /\ kept \subseteq 1 .. m
      /\ kept = {x \in all : x <= m}
  BY DEF KeptOf
<1>. HIDE DEF all, kept
<1>2. IsFiniteSet(all) /\ all \in SUBSET Int /\ kept \in SUBSET Int
  <2>1. IsFiniteSet(1 .. c)
    BY PlacesFinite
  <2>2. IsFiniteSet(all)
    BY <1>1, <2>1, FS_Subset
  <2>3. 1 .. c \subseteq Int /\ 1 .. m \subseteq Int
    OBVIOUS
  <2>. QED  BY <1>1, <2>2, <2>3
<1>3. /\ IsFiniteSet(kept) /\ n \in Nat /\ n <= Cardinality(all)
      /\ \A i \in 1 .. n : Ascending(kept)[i] = Ascending(all)[i]
  BY <1>1, <1>2, AscendingBeginning
<1>4. Cardinality(all) \in Nat
  BY <1>2, FS_CardinalityType
<1>5. Ascending(kept) \in [1 .. n -> kept]
  BY <1>2, <1>3, AscendingLists
<1>. QED  BY <1>1, <1>3, <1>4, <1>5 DEF all, kept

\* A row more is kept behind the others, or not kept.
LEMMA KeptNext ==
    ASSUME NEW p, NEW rows, NEW m \in Nat
    PROVE  LET kept == KeptOf(p, rows, m)
               next == KeptOf(p, rows, m + 1)
           IN  /\ Evaluate(p, rows[m + 1]) # "true" => next = kept
               /\ Evaluate(p, rows[m + 1]) = "true" =>
                     /\ Cardinality(next) = Cardinality(kept) + 1
                     /\ Ascending(next)[Cardinality(kept) + 1] = m + 1
<1> DEFINE kept == KeptOf(p, rows, m)
           next == KeptOf(p, rows, m + 1)
           n == Cardinality(next)
<1>1. /\ next \subseteq 1 .. m + 1 /\ m + 1 \notin kept
      /\ Evaluate(p, rows[m + 1]) # "true" => next = kept
      /\ Evaluate(p, rows[m + 1]) = "true" => next = kept \cup {m + 1}
  BY DEF KeptOf
<1>2. IsFiniteSet(kept) /\ IsFiniteSet(next) /\ Cardinality(kept) \in Nat
  <2>1. m + 1 \in Nat /\ m \in 0 .. m + 1 /\ m + 1 \in 0 .. m + 1
    OBVIOUS
  <2>. HIDE DEF kept, next
  <2>2. IsFiniteSet(KeptOf(p, rows, m)) /\ Cardinality(KeptOf(p, rows, m)) \in Nat
    BY <2>1, KeptPlaces
  <2>3. IsFiniteSet(KeptOf(p, rows, m + 1))
    BY <2>1, KeptPlaces
  <2>. QED  BY <2>2, <2>3 DEF kept, next
<1>. HIDE DEF kept, next
<1>3. ASSUME Evaluate(p, rows[m + 1]) = "true"
      PROVE  /\ n = Cardinality(kept) + 1
             /\ Ascending(next)[n] = m + 1
  <2>1. n = Cardinality(kept) + 1
    BY <1>1, <1>2, <1>3, FS_AddElement
  <2>2. /\ Ascending(next) \in [1 .. n -> next]
        /\ \A x \in next : \E i \in 1 .. n : Ascending(next)[i] = x
        /\ \A i, j \in 1 .. n : i < j => Ascending(next)[i] < Ascending(next)[j]
    <3>1. next \in SUBSET Int
      BY <1>1
    <3>. QED  BY <1>2, <3>1, AscendingLists
  <2>3. PICK i \in 1 .. n : Ascending(next)[i] = m + 1
    BY <1>1, <1>3, <2>2
  <2>4. i = n
    <3>1. n \in 1 .. n
      BY <1>2, <2>1
    <3>2. Ascending(next)[n] \in 1 .. m + 1
      BY <1>1, <2>2, <3>1
    <3>3. ~(m + 1 < Ascending(next)[n])
      BY <3>2
    <3>. QED  BY <2>2, <2>3, <3>1, <3>3
  <2>. QED  BY <2>1, <2>3, <2>4
<1>. QED  BY <1>1, <1>3 DEF kept, next

\* What a filter gives of an outcome it has taken the first m rows of.
LEMMA FilterGives ==
    ASSUME NEW o, NEW width, IsOutcome(o, width), NEW p,
           NEW m \in 0 .. Len(o.rows), Fine(p, o.rows, m)
    PROVE  LET given == Filtered(p, o)
               n == Cardinality(KeptOf(p, o.rows, m))
           IN  /\ Len(given.rows) \in Nat /\ n \in Nat /\ n <= Len(given.rows)
               /\ m = Len(o.rows) => n = Len(given.rows) /\ given.fate = o.fate
               /\ m < Len(o.rows) =>
                     /\ Evaluate(p, o.rows[m + 1]) \in ComparisonError
                           => n = Len(given.rows) /\ given.fate = "fails"
                     /\ Evaluate(p, o.rows[m + 1]) = "false" =>
                           /\ Fine(p, o.rows, m + 1)
                           /\ Cardinality(KeptOf(p, o.rows, m + 1)) = n
                     /\ Evaluate(p, o.rows[m + 1]) = "true" =>
                           /\ Fine(p, o.rows, m + 1)
                           /\ Cardinality(KeptOf(p, o.rows, m + 1)) = n + 1
                           /\ n + 1 <= Len(given.rows) /\ given.rows[n + 1] = o.rows[m + 1]
<1> DEFINE F == Filtered(p, o)
           K(i) == KeptOf(p, o.rows, i)
           L == Len(o.rows)
<1>1. L \in Nat
  <2>1. AreRows(o.rows, width)
    BY DEF IsOutcome
  <2>. QED  BY <2>1, RowsListed
<1>2. PICK c \in 0 .. L :
         /\ Fine(p, o.rows, c)
         /\ F.rows = RowsAt(o.rows, Ascending(K(c)))
         /\ c = L => F = [rows |-> F.rows, fate |-> o.fate]
         /\ c < L => /\ Evaluate(p, o.rows[c + 1]) \in ComparisonError
                     /\ F = FailsAfter(F.rows)
  BY FilterAsks
<1>. HIDE DEF F, L
<1>3. m \in 0 .. c
  <2>1. m \in Nat /\ c \in Nat /\ m <= L /\ c <= L
    BY <1>1 DEF L
  <2>2. ASSUME c < m PROVE FALSE
    <3>1. c + 1 \in 1 .. m /\ c < L
      BY <1>1, <2>1, <2>2
    <3>. QED  BY <1>2, <3>1 DEF Fine
  <2>. QED  BY <2>1, <2>2
<1>4. c \in Nat /\ m \in Nat
  BY <1>1, <1>3
<1>5. /\ IsFiniteSet(K(c)) /\ Cardinality(K(c)) \in Nat /\ Cardinality(K(m)) \in Nat
      /\ Cardinality(K(m)) <= Cardinality(K(c))
      /\ Ascending(K(c)) \in [1 .. Cardinality(K(c)) -> K(c)]
  <2>1. c \in 0 .. c
    BY <1>4
  <2>. QED  BY <1>3, <1>4, <2>1, KeptPlaces
<1>. HIDE DEF K
<1>6. /\ Len(F.rows) = Cardinality(K(c))
      /\ \A i \in 1 .. Cardinality(K(c)) : F.rows[i] = o.rows[Ascending(K(c))[i]]
  <2> DEFINE C == Cardinality(K(c))
             A == Ascending(K(c))
  <2>. HIDE DEF C, A
  <2>1. DOMAIN A = 1 .. C /\ C \in Nat
    BY <1>5 DEF A, C
  <2>2. F.rows = [i \in 1 .. C |-> o.rows[A[i]]]
    BY <1>2, <2>1 DEF RowsAt, A, C
  <2>3. Len(F.rows) = C
    BY <2>1, <2>2
  <2>. QED  BY <2>2, <2>3 DEF A, C
<1>7. ASSUME m = L PROVE Cardinality(K(m)) = Len(F.rows) /\ F.fate = o.fate
  <2>1. c = m /\ c = L
    BY <1>1, <1>3, <1>7
  <2>. QED  BY <1>2, <1>6, <2>1
<1>8. ASSUME m < L, Evaluate(p, o.rows[m + 1]) \in ComparisonError
      PROVE  Cardinality(K(m)) = Len(F.rows) /\ F.fate = "fails"
  <2>1. ASSUME m < c PROVE FALSE
    <3>1. m + 1 \in 1 .. c
      BY <1>3, <1>4, <2>1
    <3>. QED  BY <1>2, <1>8, <3>1 DEF Fine
  <2>2. c = m /\ c < L
    BY <1>3, <1>4, <1>8, <2>1
  <2>. QED  BY <1>2, <1>6, <2>2 DEF FailsAfter
<1>9. ASSUME m < L, Evaluate(p, o.rows[m + 1]) \notin ComparisonError
      PROVE  Fine(p, o.rows, m + 1) /\ m + 1 \in 0 .. c
  <2>1. \A j \in 1 .. m + 1 : j \in 1 .. m \/ j = m + 1
    BY <1>4
  <2>2. c # m
    <3>. SUFFICES ASSUME c = m PROVE FALSE
      OBVIOUS
    <3>. QED  BY <1>2, <1>9
  <2>. QED  BY <1>3, <1>4, <1>9, <2>1, <2>2 DEF Fine
<1>10. ASSUME m < L, Evaluate(p, o.rows[m + 1]) = "false"
       PROVE  Fine(p, o.rows, m + 1) /\ Cardinality(K(m + 1)) = Cardinality(K(m))
  <2>1. Fine(p, o.rows, m + 1)
    BY <1>9, <1>10 DEF ComparisonError
  <2>2. K(m + 1) = K(m)
    BY <1>4, <1>10, KeptNext DEF K
  <2>. QED  BY <2>1, <2>2
<1>11. ASSUME m < L, Evaluate(p, o.rows[m + 1]) = "true"
       PROVE  LET n == Cardinality(K(m))
              IN  /\ Fine(p, o.rows, m + 1) /\ Cardinality(K(m + 1)) = n + 1
                  /\ n + 1 <= Len(F.rows) /\ F.rows[n + 1] = o.rows[m + 1]
  <2> DEFINE n == Cardinality(K(m))
  <2>1. Fine(p, o.rows, m + 1) /\ m + 1 \in 0 .. c
    BY <1>9, <1>11 DEF ComparisonError
  <2>2. Cardinality(K(m + 1)) = n + 1 /\ Ascending(K(m + 1))[n + 1] = m + 1
    BY <1>4, <1>11, KeptNext DEF K
  <2>3. /\ Cardinality(K(m + 1)) <= Cardinality(K(c))
        /\ \A i \in 1 .. Cardinality(K(m + 1)) : Ascending(K(m + 1))[i] = Ascending(K(c))[i]
    BY <1>4, <2>1, KeptPlaces DEF K
  <2>4. n + 1 \in 1 .. Cardinality(K(m + 1)) /\ n + 1 \in 1 .. Cardinality(K(c))
    BY <1>5, <2>2, <2>3
  <2>. QED  BY <1>6, <2>1, <2>2, <2>3, <2>4
<1>. QED  BY <1>5, <1>6, <1>7, <1>8, <1>10, <1>11 DEF F, K, L

\* What a limit gives of an outcome it has taken the first m rows of.
LEMMA LimitGives ==
    ASSUME NEW o, NEW width, IsOutcome(o, width), o # FailsToOpen, NEW k \in Nat,
           NEW m \in 0 .. Len(o.rows), m <= k
    PROVE  LET given == Limited(k, o)
           IN  /\ Len(given.rows) \in Nat /\ m <= Len(given.rows)
               /\ m = k => Len(given.rows) = m /\ given.fate = "eof"
               /\ m < k /\ m = Len(o.rows) => given = o
               /\ m < k /\ m < Len(o.rows) =>
                     m + 1 <= Len(given.rows) /\ given.rows[m + 1] = o.rows[m + 1]
<1> DEFINE L == Len(o.rows)
           given == Limited(k, o)
<1>1. L \in Nat /\ o.rows \in Seq(RowsOf(width))
  <2>1. AreRows(o.rows, width)
    BY DEF IsOutcome
  <2>. QED  BY <2>1, RowsListed
<1>3. CASE k <= L
  <2>1. given = Yields(SubSeq(o.rows, 1, k))
    BY <1>3 DEF Limited
  <2>2. Len(SubSeq(o.rows, 1, k)) = k /\ \A i \in 1 .. k : SubSeq(o.rows, 1, k)[i] = o.rows[i]
    BY <1>1, <1>3
  <2>3. given.rows = SubSeq(o.rows, 1, k) /\ given.fate = "eof"
    BY <2>1 DEF Yields
  <2>4. m < k => m + 1 \in 1 .. k
    BY <1>1
  <2>5. Len(given.rows) = k /\ m \in Nat /\ (m < k => given.rows[m + 1] = o.rows[m + 1])
    BY <1>1, <2>2, <2>3, <2>4
  <2>. HIDE DEF given
  <2>6. m < k /\ m = L => FALSE
    BY <1>1, <1>3
  <2>. QED  BY <2>3, <2>5, <2>6 DEF given
<1>4. CASE ~(k <= L)
  <2>1. given = o
    BY <1>4 DEF Limited
  <2>2. m \in Nat /\ m # k /\ m < k
    BY <1>1, <1>4
  <2>. HIDE DEF given
  <2>. QED  BY <1>1, <2>1, <2>2 DEF given
<1>. QED  BY <1>3, <1>4

\* What a projection gives of an outcome.
LEMMA ProjectGives ==
    ASSUME NEW o, NEW width, IsOutcome(o, width), NEW st, st.stage = "Project"
    PROVE  \E given :
              /\ Apply(st, o) = {given} /\ given.fate = o.fate
              /\ Len(given.rows) = Len(o.rows)
              /\ \A j \in 1 .. Len(o.rows) : given.rows[j] = ProjectRow(st.columns, o.rows[j])
<1> DEFINE rows == [j \in DOMAIN o.rows |-> ProjectRow(st.columns, o.rows[j])]
           given == [o EXCEPT !.rows = rows]
<1>1. Apply(st, o) = {given}
  BY DEF Apply
<1>2. Len(o.rows) \in Nat /\ DOMAIN o.rows = 1 .. Len(o.rows)
  <2>1. AreRows(o.rows, width)
    BY DEF IsOutcome
  <2>. QED  BY <2>1, RowsListed
<1>3. Len(rows) = Len(o.rows) /\ \A j \in 1 .. Len(o.rows) : rows[j] = ProjectRow(st.columns, o.rows[j])
  BY <1>2
<1>. HIDE DEF rows
<1>4. given.rows = rows /\ given.fate = o.fate
  <2>1. o = [rows |-> o.rows, fate |-> o.fate]
    BY DEF IsOutcome
  <2>. QED  BY <2>1
<1>. QED  BY <1>1, <1>3, <1>4

\* The first m rows of a sequence are an outcome of their own.
LEMMA FirstRows ==
    ASSUME NEW rows, NEW width, AreRows(rows, width), NEW m \in 0 .. Len(rows)
    PROVE  /\ SubSeq(rows, 1, m) = [i \in 1 .. m |-> rows[i]]
           /\ Len(SubSeq(rows, 1, m)) = m
           /\ IsOutcome(Yields(SubSeq(rows, 1, m)), width)
<1> DEFINE s == SubSeq(rows, 1, m)
<1>1. /\ rows \in Seq(RowsOf(width)) /\ Len(rows) \in Nat /\ DOMAIN rows = 1 .. Len(rows)
  BY RowsListed
<1>2. /\ s = [i \in 1 .. m |-> rows[i]] /\ s \in Seq(RowsOf(width)) /\ Len(s) = m
  BY <1>1
<1>. HIDE DEF s
<1>3. \A i, j \in DOMAIN s : s[i].ordinal = s[j].ordinal => i = j
  <2>1. DOMAIN s = 1 .. m /\ 1 .. m \subseteq DOMAIN rows
    BY <1>1, <1>2
  <2>. QED  BY <1>2, <2>1 DEF AreRows
<1>4. AreRows(s, width)
  BY <1>2, <1>3 DEF AreRows, RowsOf
<1>. QED  BY <1>2, <1>4 DEF IsOutcome, Yields, s

\* What a filter makes of the first m rows is a beginning of what it makes of all of
\* them: as many rows as it keeps of the m.
LEMMA FilterOfFirst ==
    ASSUME NEW o, NEW width, IsOutcome(o, width), NEW p,
           NEW m \in 0 .. Len(o.rows), Fine(p, o.rows, m)
    PROVE  Filtered(p, Yields(SubSeq(o.rows, 1, m)))
             = Yields(SubSeq(Filtered(p, o).rows, 1, Cardinality(KeptOf(p, o.rows, m))))
<1> DEFINE F == Filtered(p, o)
           K(i) == KeptOf(p, o.rows, i)
           L == Len(o.rows)
           s == SubSeq(o.rows, 1, m)
           G == Filtered(p, Yields(s))
           n == Cardinality(K(m))
<1>1. AreRows(o.rows, width) /\ L \in Nat /\ m \in Nat /\ m <= L
  <2>1. AreRows(o.rows, width)
    BY DEF IsOutcome
  <2>. QED  BY <2>1, RowsListed
<1>2. s = [i \in 1 .. m |-> o.rows[i]] /\ Len(s) = m /\ IsOutcome(Yields(s), width)
  BY <1>1, FirstRows
<1>3. PICK c \in 0 .. L :
         /\ Fine(p, o.rows, c)
         /\ F.rows = RowsAt(o.rows, Ascending(K(c)))
         /\ c < L => Evaluate(p, o.rows[c + 1]) \in ComparisonError
  BY FilterAsks
<1>. HIDE DEF s
<1>4. PICK d \in 0 .. m :
         /\ Fine(p, s, d)
         /\ G.rows = RowsAt(s, Ascending(KeptOf(p, s, d)))
         /\ d = m => G = [rows |-> G.rows, fate |-> "eof"]
         /\ d < m => Evaluate(p, s[d + 1]) \in ComparisonError
  <2> DEFINE z == Yields(s)
             H == Filtered(p, z)
  <2>1. z.rows = s /\ z.fate = "eof" /\ IsOutcome(z, width)
    BY <1>2 DEF Yields
  <2>. HIDE DEF z
  <2>2. \E d \in 0 .. Len(z.rows) :
           /\ Fine(p, z.rows, d)
           /\ H.rows = RowsAt(z.rows, Ascending(KeptOf(p, z.rows, d)))
           /\ d = Len(z.rows) => H = [rows |-> H.rows, fate |-> z.fate]
           /\ d < Len(z.rows) => Evaluate(p, z.rows[d + 1]) \in ComparisonError
    BY <2>1, FilterAsks
  <2>. HIDE DEF H
  <2>3. \E d \in 0 .. m :
           /\ Fine(p, s, d)
           /\ H.rows = RowsAt(s, Ascending(KeptOf(p, s, d)))
           /\ d = m => H = [rows |-> H.rows, fate |-> "eof"]
           /\ d < m => Evaluate(p, s[d + 1]) \in ComparisonError
    BY <1>2, <2>1, <2>2
  <2>. QED  BY <2>3 DEF H, z
<1>. HIDE DEF F, L, G
<1>5. m <= c /\ c \in Nat
  <2>1. ASSUME c < m PROVE FALSE
    <3>1. c + 1 \in 1 .. m /\ c < L
      BY <1>1, <1>3, <2>1
    <3>. QED  BY <1>3, <3>1 DEF Fine
  <2>. QED  BY <1>1, <1>3, <2>1
<1>6. d = m
  <2>1. ASSUME d < m PROVE FALSE
    <3>1. d + 1 \in 1 .. m
      BY <1>1, <1>4, <2>1
    <3>. QED  BY <1>2, <1>4, <2>1, <3>1 DEF Fine
  <2>. QED  BY <1>1, <1>4, <2>1
<1>7. KeptOf(p, s, m) = K(m)
  BY <1>2 DEF KeptOf
<1>8. /\ n \in Nat /\ n <= Cardinality(K(c)) /\ Cardinality(K(c)) \in Nat
      /\ Ascending(K(m)) \in [1 .. n -> K(m)] /\ K(m) \subseteq 1 .. m
      /\ \A i \in 1 .. n : Ascending(K(m))[i] = Ascending(K(c))[i]
      /\ Ascending(K(c)) \in [1 .. Cardinality(K(c)) -> K(c)] /\ K(c) \subseteq 1 .. c
  <2>1. m \in 0 .. c /\ c \in 0 .. c
    BY <1>1, <1>5
  <2>. QED  BY <1>5, <2>1, KeptPlaces
<1>. HIDE DEF K
<1> DEFINE A == Ascending(K(m))
           B == Ascending(K(c))
           C == Cardinality(K(c))
<1>9. G = Yields(RowsAt(s, A))
  BY <1>4, <1>6, <1>7 DEF Yields
<1>10. RowsAt(s, A) = [i \in 1 .. n |-> o.rows[A[i]]]
  <2>1. DOMAIN A = 1 .. n /\ \A i \in 1 .. n : A[i] \in 1 .. m
    BY <1>8
  <2>. QED  BY <1>2, <2>1 DEF RowsAt
<1>11. F.rows = [i \in 1 .. C |-> o.rows[B[i]]]
  BY <1>3, <1>8 DEF RowsAt
<1>12. SubSeq(F.rows, 1, n) = [i \in 1 .. n |-> o.rows[A[i]]]
  <2>. HIDE DEF A, B, C, n
  <2>1. C \in Nat /\ n \in 0 .. C /\ \A i \in 1 .. n : A[i] = B[i]
    BY <1>8 DEF A, B, C, n
  <2> DEFINE S == {o.rows[B[i]] : i \in 1 .. C}
  <2>2. F.rows \in [1 .. C -> S]
    BY <1>11
  <2>. HIDE DEF S
  <2>3. F.rows \in Seq(S) /\ Len(F.rows) = C
    BY <2>1, <2>2, ListIsSequence
  <2>4. SubSeq(F.rows, 1, n) = [i \in 1 .. n |-> F.rows[i]]
    BY <2>1, <2>3
  <2>5. \A i \in 1 .. n : F.rows[i] = o.rows[A[i]]
    BY <1>11, <2>1
  <2>. QED  BY <2>4, <2>5
<1>. QED  BY <1>9, <1>10, <1>12 DEF F, G, K, s

\* What a projection makes of the first m rows is the first m rows projected.
LEMMA ProjectOfFirst ==
    ASSUME NEW o, NEW width, IsOutcome(o, width), NEW st, st.stage = "Project",
           NEW m \in 0 .. Len(o.rows), NEW y \in Apply(st, o)
    PROVE  Apply(st, Yields(SubSeq(o.rows, 1, m))) = {Yields(SubSeq(y.rows, 1, m))}
<1> DEFINE s == SubSeq(o.rows, 1, m)
           x == Yields(s)
           P(r) == ProjectRow(st.columns, r)
<1>1. /\ AreRows(o.rows, width) /\ Len(o.rows) \in Nat /\ m \in Nat /\ m <= Len(o.rows)
      /\ DOMAIN o.rows = 1 .. Len(o.rows)
  <2>1. AreRows(o.rows, width)
    BY DEF IsOutcome
  <2>. QED  BY <2>1, RowsListed
<1>2. s = [i \in 1 .. m |-> o.rows[i]] /\ Len(s) = m
  BY <1>1, FirstRows
<1>3. y = [o EXCEPT !.rows = [j \in DOMAIN o.rows |-> P(o.rows[j])]]
  BY DEF Apply
<1>4. Apply(st, x) = {[x EXCEPT !.rows = [j \in DOMAIN x.rows |-> P(x.rows[j])]]}
  BY DEF Apply
<1>. HIDE DEF s, P
<1>5. [x EXCEPT !.rows = [j \in DOMAIN x.rows |-> P(x.rows[j])]] = Yields([j \in 1 .. m |-> P(o.rows[j])])
  <2>1. x = [rows |-> s, fate |-> "eof"] /\ DOMAIN s = 1 .. m
    BY <1>2 DEF Yields
  <2>2. [j \in DOMAIN s |-> P(s[j])] = [j \in 1 .. m |-> P(o.rows[j])]
    BY <1>2
  <2>3. x.rows = s
    BY <2>1
  <2> DEFINE e == [j \in DOMAIN x.rows |-> P(x.rows[j])]
  <2>4. e = [j \in 1 .. m |-> P(o.rows[j])]
    BY <2>2, <2>3
  <2>. HIDE DEF e, x
  <2>5. [x EXCEPT !.rows = e] = [rows |-> e, fate |-> "eof"]
    BY <2>1
  <2>. QED  BY <2>4, <2>5 DEF Yields, e
<1>6. y.rows = [j \in 1 .. Len(o.rows) |-> P(o.rows[j])]
  <2>1. o = [rows |-> o.rows, fate |-> o.fate]
    BY DEF IsOutcome
  <2>. QED  BY <1>1, <1>3, <2>1
<1>7. SubSeq(y.rows, 1, m) = [j \in 1 .. m |-> P(o.rows[j])]
  <2> DEFINE S == {P(o.rows[i]) : i \in 1 .. Len(o.rows)}
  <2>1. y.rows \in [1 .. Len(o.rows) -> S]
    BY <1>6
  <2>. HIDE DEF S
  <2>2. y.rows \in Seq(S) /\ Len(y.rows) = Len(o.rows)
    BY <1>1, <2>1, ListIsSequence
  <2>3. SubSeq(y.rows, 1, m) = [j \in 1 .. m |-> y.rows[j]]
    BY <1>1, <2>2
  <2>. QED  BY <1>1, <1>6, <2>3
<1>. QED  BY <1>4, <1>5, <1>7 DEF s

\* A limit passes on the first m rows as they are while it has room for them.
LEMMA LimitOfFirst ==
    ASSUME NEW o, NEW width, IsOutcome(o, width), o # FailsToOpen, NEW k \in Nat,
           NEW m \in 0 .. Len(o.rows), m <= k
    PROVE  Limited(k, Yields(SubSeq(o.rows, 1, m))) = Yields(SubSeq(Limited(k, o).rows, 1, m))
<1> DEFINE s == SubSeq(o.rows, 1, m)
           L == Len(o.rows)
<1>1. AreRows(o.rows, width) /\ o.rows \in Seq(RowsOf(width)) /\ L \in Nat /\ m \in Nat /\ m <= L
  <2>1. AreRows(o.rows, width)
    BY DEF IsOutcome
  <2>. QED  BY <2>1, RowsListed
<1>2. s = [i \in 1 .. m |-> o.rows[i]] /\ Len(s) = m /\ s \in Seq(RowsOf(width))
  BY <1>1, FirstRows
<1>3. Limited(k, Yields(s)) = Yields(s)
  <2>. HIDE DEF s
  <2>1. Yields(s).rows = s
    BY DEF Yields
  <2>2. k <= Len(s) => SubSeq(s, 1, k) = s
    <3>1. k <= Len(s) => k = m
      BY <1>1, <1>2
    <3>2. SubSeq(s, 1, m) = s
      BY <1>2, <1>1
    <3>. QED  BY <3>1, <3>2
  <2>. QED  BY <2>1, <2>2 DEF Limited
<1>4. SubSeq(Limited(k, o).rows, 1, m) = s
  <2>1. CASE k <= L
    <3>1. Limited(k, o).rows = SubSeq(o.rows, 1, k)
      BY <2>1 DEF Limited, Yields
    <3>2. SubSeq(SubSeq(o.rows, 1, k), 1, m) = [i \in 1 .. m |-> o.rows[i]]
      BY <1>1, <2>1
    <3>. QED  BY <1>2, <3>1, <3>2
  <2>2. CASE ~(k <= L)
    BY <2>2 DEF Limited
  <2>. QED  BY <2>1, <2>2
<1>. QED  BY <1>3, <1>4

\* A heap of the least k rows of S.
Heap(sort, k, S, B) ==
    /\ B \subseteq S
    /\ Cardinality(B) = IF k < Cardinality(S) THEN k ELSE Cardinality(S)
    /\ \A a \in B, b \in S \ B : RowBefore(sort, a, b)

\* A set without one of its elements has one less.
LEMMA OneLess ==
    ASSUME NEW X, IsFiniteSet(X), NEW w \in X, NEW n \in Nat, Cardinality(X) = n + 1
    PROVE  Cardinality(X \ {w}) = n
<1>1. Cardinality(X \ {w}) = Cardinality(X) - 1
  BY FS_RemoveElement
<1>. QED  BY <1>1

\* A row more for the heap, which gives up the worst of more than k.
LEMMA HeapKeeps ==
    ASSUME NEW sort, NEW S, IsFiniteSet(S), NEW k \in Nat, NEW B, Heap(sort, k, S, B),
           NEW r, r \notin S, Sortable(sort, S \cup {r})
    PROVE  /\ Cardinality(B \cup {r}) \in Nat
           /\ Cardinality(B \cup {r}) <= k => Heap(sort, k, S \cup {r}, B \cup {r})
           /\ Cardinality(B \cup {r}) > k =>
                 \A w \in B \cup {r} :
                    (\A x \in (B \cup {r}) \ {w} : RowBefore(sort, x, w))
                       => Heap(sort, k, S \cup {r}, (B \cup {r}) \ {w})
<1> DEFINE X == B \cup {r}
           T == S \cup {r}
           s == Cardinality(S)
           b == Cardinality(B)
<1>1. B \subseteq S /\ \A a \in B, c \in S \ B : RowBefore(sort, a, c)
  BY DEF Heap
<1>2. /\ s \in Nat /\ Cardinality(T) = s + 1
      /\ IsFiniteSet(B) /\ b \in Nat /\ b = IF k < s THEN k ELSE s
      /\ IsFiniteSet(X) /\ Cardinality(X) = b + 1
  <2>1. IsFiniteSet(B) /\ r \notin B
    BY <1>1, FS_Subset
  <2>. QED  BY <2>1, FS_AddElement, FS_CardinalityType DEF Heap
<1>5. s \in Nat /\ b \in Nat /\ b = IF k < s THEN k ELSE s
  BY <1>2
<1>6. X = B \cup {r} /\ T = S \cup {r}
  OBVIOUS
<1>. HIDE DEF X, T, s, b
<1>3. ASSUME Cardinality(X) <= k PROVE Heap(sort, k, T, X)
  <2>0. b + 1 <= k
    BY <1>2, <1>3
  <2>1. b = s
    BY <1>5, <2>0
  <2>2. B = S
    <3>. SUFFICES ASSUME B # S PROVE FALSE
      OBVIOUS
    <3>1. Cardinality(B) < Cardinality(S)
      BY <1>1, ProperSubset
    <3>. QED  BY <1>5, <2>1, <3>1 DEF s, b
  <2>3. X = T /\ Cardinality(X) = s + 1 /\ Cardinality(T) = s + 1 /\ ~(k < s + 1)
    BY <1>2, <1>3, <1>6, <2>1, <2>2
  <2>. QED  BY <2>3 DEF Heap
<1>4. ASSUME Cardinality(X) > k, NEW w \in X, \A x \in X \ {w} : RowBefore(sort, x, w)
      PROVE  Heap(sort, k, T, X \ {w})
  <2>0. b + 1 > k
    BY <1>2, <1>4
  <2>1. b = k /\ k < s + 1
    BY <1>5, <2>0
  <2>2. Cardinality(X \ {w}) = k
    <3>1. IsFiniteSet(X) /\ w \in X /\ Cardinality(X) = b + 1
      BY <1>2, <1>4
    <3>2. Cardinality(X \ {w}) = b
      BY <1>5, <3>1, OneLess
    <3>. QED  BY <2>1, <3>2
  <2>3. ASSUME NEW a \in X \ {w}, NEW c \in T \ (X \ {w}) PROVE RowBefore(sort, a, c)
    <3>1. RowBefore(sort, a, w)
      BY <1>4
    <3>2. c = w \/ c \in S \ B
      BY <1>6
    <3>3. ASSUME c \in S \ B PROVE RowBefore(sort, a, c)
      <4>1. CASE a \in B
        BY <1>1, <3>3, <4>1
      <4>2. CASE a \notin B
        <5>1. w \in B /\ RowBefore(sort, w, c)
          BY <1>1, <1>4, <1>6, <3>3, <4>2
        <5>2. a \in T /\ w \in T /\ c \in T
          BY <1>1, <1>4, <1>6
        <5>3. Sortable(sort, T)
          BY <1>6
        <5>. QED  BY <3>1, <5>1, <5>2, <5>3, RowsOrdered
      <4>. QED  BY <4>1, <4>2
    <3>. QED  BY <3>1, <3>2, <3>3
  <2>4. X \ {w} \subseteq T
    BY <1>1, <1>6
  <2>. QED  BY <1>2, <2>1, <2>2, <2>3, <2>4 DEF Heap
<1>. QED  BY <1>2, <1>3, <1>4, <1>5 DEF X, T

\* What a blocking stage makes of all the rows of an outcome, if it does not fail, and
\* when it may fail.
LEMMA SortGives ==
    ASSUME NEW o, NEW width, IsOutcome(o, width), NEW st, st.stage \in {"Sort", "TopK"}
    PROVE  /\ o.fate # "eof" => FailsToOpen \in Apply(st, o)
           /\ st.stage = "Sort" =>
                 /\ Clashing(st.sort, ToSet(o.rows)) => FailsToOpen \in Apply(st, o)
                 /\ o.fate = "eof" /\ ~Clashing(st.sort, ToSet(o.rows))
                       => Yields(InOrder(st.sort, ToSet(o.rows))) \in Apply(st, o)
           /\ st.stage = "TopK" /\ st.k \in Nat =>
                 /\ st.k > 0 /\ Clashing(st.sort, ToSet(o.rows)) => FailsToOpen \in Apply(st, o)
                 /\ \A B : Heap(st.sort, st.k, ToSet(o.rows), B) /\ IsFiniteSet(ToSet(o.rows)) =>
                       /\ Clashing(st.sort, B) => FailsToOpen \in Apply(st, o)
                       /\ o.fate = "eof" /\ ~Clashing(st.sort, B)
                             => Yields(InOrder(st.sort, B)) \in Apply(st, o)
<1> DEFINE S == ToSet(o.rows)
<1>1. Apply(st, o) = Ordered(st, o)
  BY DEF Apply
<1>2. o.fate # "eof" => FailsToOpen \in Apply(st, o)
  BY <1>1 DEF Ordered
<1>3. ASSUME st.stage = "Sort", o.fate = "eof"
      PROVE  Apply(st, o) = {IF Clashing(st.sort, S) THEN FailsToOpen
                             ELSE Yields(InOrder(st.sort, S))}
  BY <1>1, <1>3 DEF Ordered
<1>4. ASSUME st.stage = "TopK", o.fate = "eof"
      PROVE  Apply(st, o) = {Yields(InOrder(st.sort, B)) :
                                B \in IF st.k = 0 THEN {{}} ELSE Least(st.sort, st.k, S)}
                            \cup (IF st.k > 0 /\ Clashing(st.sort, S) THEN {FailsToOpen} ELSE {})
  BY <1>1, <1>4 DEF Ordered
<1>. HIDE DEF S
<1>5. ASSUME st.stage = "TopK", st.k \in Nat, NEW B, Heap(st.sort, st.k, S, B), IsFiniteSet(S)
      PROVE  /\ Clashing(st.sort, B) => st.k > 0 /\ Clashing(st.sort, S)
             /\ ~Clashing(st.sort, B)
                   => B \in IF st.k = 0 THEN {{}} ELSE Least(st.sort, st.k, S)
  <2>1. /\ B \subseteq S /\ \A a \in B, b \in S \ B : RowBefore(st.sort, a, b)
        /\ Cardinality(B) = IF st.k < Cardinality(S) THEN st.k ELSE Cardinality(S)
    BY <1>5 DEF Heap
  <2>2. st.k = 0 => B = {}
    <3>1. IsFiniteSet(B) /\ Cardinality(S) \in Nat
      BY <1>5, <2>1, FS_Subset, FS_CardinalityType
    <3>2. st.k = 0 => Cardinality(B) = 0
      BY <1>5, <2>1, <3>1
    <3>. QED  BY <3>1, <3>2, FS_EmptySet
  <2>3. Clashing(st.sort, B) => B # {} /\ Clashing(st.sort, S)
    BY <2>1 DEF Clashing
  <2>4. ~Clashing(st.sort, B) => B \in Least(st.sort, st.k, S)
    BY <2>1 DEF Least
  <2>5. st.k > 0 \/ st.k = 0
    BY <1>5
  <2>. QED  BY <2>2, <2>3, <2>4, <2>5
<1>6. ASSUME st.stage = "TopK", st.k \in Nat, st.k > 0, Clashing(st.sort, S)
      PROVE  FailsToOpen \in Apply(st, o)
  BY <1>2, <1>4, <1>6
<1>7. ASSUME st.stage = "TopK", st.k \in Nat, NEW B, Heap(st.sort, st.k, S, B), IsFiniteSet(S),
             o.fate = "eof", ~Clashing(st.sort, B)
      PROVE  Yields(InOrder(st.sort, B)) \in Apply(st, o)
  BY <1>4, <1>5, <1>7
<1>8. ASSUME st.stage = "Sort"
      PROVE  /\ Clashing(st.sort, S) => FailsToOpen \in Apply(st, o)
             /\ o.fate = "eof" /\ ~Clashing(st.sort, S)
                   => Yields(InOrder(st.sort, S)) \in Apply(st, o)
  BY <1>2, <1>3, <1>8
<1>. QED  BY <1>2, <1>5, <1>6, <1>7, <1>8 DEF S

-----------------------------------------------------------------------------
\* Rows by names.

\* The names of the columns of rows of a width.
AreNames(s, width) ==
    width \in Nat /\ DOMAIN s = 1 .. width /\ \A i, j \in 1 .. width : s[i] = s[j] => i = j

\* The row r as a function from the names s of its columns, and an outcome of such rows.
RowByNames(s, r) ==
    [ordinal |-> r.ordinal,
     values  |-> [f \in ToSet(s) |-> r.values[CHOOSE j \in DOMAIN s : s[j] = f]]]

RowsByNames(s, rows) == [i \in DOMAIN rows |-> RowByNames(s, rows[i])]

OutcomeByNames(s, o) == [rows |-> RowsByNames(s, o.rows), fate |-> o.fate]

LEMMA CellsByNames ==
    ASSUME NEW s, NEW width, AreNames(s, width), NEW r
    PROVE  /\ RowByNames(s, r).ordinal = r.ordinal
           /\ DOMAIN RowByNames(s, r).values = ToSet(s)
           /\ ToSet(s) = {s[j] : j \in 1 .. width}
           /\ \A j \in 1 .. width : RowByNames(s, r).values[s[j]] = r.values[j]
<1>1. ToSet(s) = {s[j] : j \in 1 .. width}
  BY DEF ToSet, AreNames
<1>2. ASSUME NEW j \in 1 .. width PROVE RowByNames(s, r).values[s[j]] = r.values[j]
  <2>1. (CHOOSE i \in DOMAIN s : s[i] = s[j]) = j
    BY DEF AreNames
  <2>2. s[j] \in ToSet(s)
    BY <1>1
  <2>. QED  BY <2>1, <2>2 DEF RowByNames
<1>. QED  BY <1>1, <1>2 DEF RowByNames

\* A row is known by its names.
LEMMA NamesTellRows ==
    ASSUME NEW s, NEW width, AreNames(s, width), NEW r \in RowsOf(width), NEW q \in RowsOf(width),
           RowByNames(s, r) = RowByNames(s, q)
    PROVE  r = q
<1>1. /\ r = [ordinal |-> r.ordinal, values |-> r.values]
      /\ q = [ordinal |-> q.ordinal, values |-> q.values]
      /\ r.values \in [1 .. width -> Value] /\ q.values \in [1 .. width -> Value]
  BY DEF RowsOf
<1>2. r.ordinal = q.ordinal
  BY CellsByNames
<1>3. \A j \in 1 .. width : r.values[j] = q.values[j]
  BY CellsByNames
<1>4. r.values = q.values
  <2> DEFINE u == r.values
             v == q.values
  <2>1. u \in [1 .. width -> Value] /\ v \in [1 .. width -> Value] /\ \A j \in 1 .. width : u[j] = v[j]
    BY <1>1, <1>3, Zenon
  <2>. HIDE DEF u, v
  <2>2. u = [j \in 1 .. width |-> u[j]] /\ v = [j \in 1 .. width |-> v[j]]
    BY <2>1
  <2>3. u = v
    BY <2>1, <2>2, Zenon
  <2>. QED  BY <2>3 DEF u, v
<1>. QED  BY <1>1, <1>2, <1>4

\* The stage asks of names what st asks of the columns with these names.
AsksByNames(s, st, named) ==
    /\ named.stage = st.stage
    /\ \/ /\ st.stage = "Filter"
          /\ Len(st.predicate) \in Nat /\ DOMAIN st.predicate = 1 .. Len(st.predicate)
          /\ DOMAIN named.predicate = DOMAIN st.predicate
          /\ \A i \in DOMAIN st.predicate :
                LET c == st.predicate[i]
                    n == named.predicate[i]
                IN  c.column \in DOMAIN s /\ n.column = s[c.column]
                    /\ n.op = c.op /\ n.literal = c.literal
       \/ /\ st.stage = "Project"
          /\ AreNames(named.columns, Len(st.columns)) /\ DOMAIN st.columns = 1 .. Len(st.columns)
          /\ \A j \in DOMAIN st.columns :
                st.columns[j] \in DOMAIN s /\ named.columns[j] = s[st.columns[j]]
       \/ st.stage = "Limit" /\ named.limit = st.limit /\ st.limit \in Nat
       \/ /\ st.stage = "Sort"
          /\ st.sort.column \in DOMAIN s /\ named.sort.column = s[st.sort.column]
          /\ named.sort.direction = st.sort.direction /\ st.sort.direction \in SortDirection

LEMMA EvaluateByNames ==
    ASSUME NEW s, NEW width, AreNames(s, width), NEW st, NEW named, AsksByNames(s, st, named),
           st.stage = "Filter", NEW r
    PROVE  Evaluate(named.predicate, RowByNames(s, r)) = Evaluate(st.predicate, r)
<1> DEFINE p == st.predicate
           q == named.predicate
           Answer(i) == EvaluateComparison(p[i].op, r.values[p[i].column], p[i].literal)
           Named(i) == EvaluateComparison(q[i].op, RowByNames(s, r).values[q[i].column], q[i].literal)
           decisive == {i \in DOMAIN p : Answer(i) # "true"}
           decides == {i \in DOMAIN q : Named(i) # "true"}
<1>1. /\ Len(p) \in Nat /\ DOMAIN p = 1 .. Len(p) /\ DOMAIN q = DOMAIN p
      /\ \A i \in DOMAIN p : /\ p[i].column \in 1 .. width /\ q[i].column = s[p[i].column]
                             /\ q[i].op = p[i].op /\ q[i].literal = p[i].literal
  BY DEF AsksByNames, AreNames
<1>2. ASSUME NEW i \in DOMAIN p PROVE Named(i) = Answer(i)
  <2>1. RowByNames(s, r).values[s[p[i].column]] = r.values[p[i].column]
    BY <1>1, CellsByNames
  <2>. QED  BY <1>1, <2>1
<1>3. /\ Evaluate(p, r) = IF decisive = {} THEN "true" ELSE Answer(Min(decisive))
      /\ Evaluate(q, RowByNames(s, r)) = IF decides = {} THEN "true" ELSE Named(Min(decides))
  BY DEF Evaluate
<1>. HIDE DEF Answer, Named, p, q
<1>4. decides = decisive
  BY <1>1, <1>2
<1>5. decisive # {} => Min(decisive) \in DOMAIN p
  <2>1. decisive \in SUBSET (1 .. Len(p))
    BY <1>1
  <2>2. decisive # {} => Min(decisive) \in decisive
    BY <1>1, <2>1, LeastPlace
  <2>. QED  BY <2>2
<1>. QED  BY <1>2, <1>3, <1>4, <1>5 DEF p, q

\* Filtering by names.
LEMMA FilterByNames ==
    ASSUME NEW s, NEW width, AreNames(s, width), NEW st, NEW named, AsksByNames(s, st, named),
           st.stage = "Filter", NEW o, IsOutcome(o, width)
    PROVE  Filtered(named.predicate, OutcomeByNames(s, o))
             = OutcomeByNames(s, Filtered(st.predicate, o))
<1> DEFINE p == st.predicate
           q == named.predicate
           no == OutcomeByNames(s, o)
           bad == {j \in DOMAIN o.rows : Evaluate(p, o.rows[j]) \in ComparisonError}
           seen == IF bad = {} THEN DOMAIN o.rows ELSE 1 .. Min(bad) - 1
           kept == {j \in seen : Evaluate(p, o.rows[j]) = "true"}
           nbad == {j \in DOMAIN no.rows : Evaluate(q, no.rows[j]) \in ComparisonError}
           nseen == IF nbad = {} THEN DOMAIN no.rows ELSE 1 .. Min(nbad) - 1
           nkept == {j \in nseen : Evaluate(q, no.rows[j]) = "true"}
<1>1. Len(o.rows) \in Nat /\ DOMAIN o.rows = 1 .. Len(o.rows)
  BY RowsListed DEF IsOutcome
<1>2. /\ DOMAIN no.rows = DOMAIN o.rows /\ no.fate = o.fate
      /\ \A j \in DOMAIN o.rows : no.rows[j] = RowByNames(s, o.rows[j])
  BY DEF OutcomeByNames, RowsByNames
<1>3. \A j \in DOMAIN o.rows : Evaluate(q, no.rows[j]) = Evaluate(p, o.rows[j])
  BY <1>2, EvaluateByNames
<1>4. /\ Filtered(p, o) = [rows |-> RowsAt(o.rows, Ascending(kept)),
                           fate |-> IF bad = {} THEN o.fate ELSE "fails"]
      /\ Filtered(q, no) = [rows |-> RowsAt(no.rows, Ascending(nkept)),
                            fate |-> IF nbad = {} THEN no.fate ELSE "fails"]
  BY DEF Filtered
<1>. HIDE DEF no, p, q
<1>5. nbad = bad
  BY <1>2, <1>3
<1>6. seen \subseteq DOMAIN o.rows
  <2>1. bad \in SUBSET (1 .. Len(o.rows))
    BY <1>1
  <2>2. bad # {} => Min(bad) \in 1 .. Len(o.rows)
    BY <1>1, <2>1, LeastPlace
  <2>. HIDE DEF bad
  <2>. QED  BY <1>1, <2>2
<1>7. nseen = seen
  BY <1>2, <1>5
<1>. HIDE DEF seen, nseen, bad, nbad
<1>8. nkept = kept
  BY <1>3, <1>6, <1>7
<1> DEFINE at == Ascending(kept)
<1>9. \A i \in DOMAIN at : at[i] \in DOMAIN o.rows
  <2>1. kept \in SUBSET (1 .. Len(o.rows)) /\ kept \in SUBSET Int
    BY <1>1, <1>6
  <2>2. IsFiniteSet(kept)
    BY <1>1, <2>1, PlacesFinite, FS_Subset
  <2>. HIDE DEF kept
  <2>3. at \in [1 .. Cardinality(kept) -> kept]
    BY <2>1, <2>2, AscendingLists
  <2>. QED  BY <1>1, <2>1, <2>3
<1>. HIDE DEF at, kept, nkept
<1>10. RowsAt(no.rows, at) = RowsByNames(s, RowsAt(o.rows, at))
  <2>1. RowsAt(no.rows, at) = [i \in DOMAIN at |-> no.rows[at[i]]]
    BY DEF RowsAt
  <2>2. RowsByNames(s, RowsAt(o.rows, at)) = [i \in DOMAIN at |-> RowByNames(s, o.rows[at[i]])]
    BY DEF RowsAt, RowsByNames
  <2>3. \A i \in DOMAIN at : no.rows[at[i]] = RowByNames(s, o.rows[at[i]])
    BY <1>2, <1>9
  <2>. QED  BY <2>1, <2>2, <2>3
<1>. QED  BY <1>2, <1>4, <1>5, <1>8, <1>10 DEF OutcomeByNames, at, p, q, no

\* Limiting by names.
LEMMA LimitByNames ==
    ASSUME NEW s, NEW o, NEW width, IsOutcome(o, width), NEW n \in Nat
    PROVE  Limited(n, OutcomeByNames(s, o)) = OutcomeByNames(s, Limited(n, o))
<1> DEFINE no == OutcomeByNames(s, o)
           L == Len(o.rows)
<1>0. /\ o.fate = "opens not" => o.rows = <<>>
      /\ o = [rows |-> o.rows, fate |-> o.fate]
  BY DEF IsOutcome
<1>1. L \in Nat /\ DOMAIN o.rows = 1 .. L /\ o.rows \in Seq(RowsOf(width))
  BY RowsListed DEF IsOutcome
<1>2. /\ no = [rows |-> RowsByNames(s, o.rows), fate |-> o.fate]
      /\ no.rows = [i \in 1 .. L |-> RowByNames(s, o.rows[i])]
  BY <1>1 DEF OutcomeByNames, RowsByNames
<1> DEFINE named == no.rows
           Row(i) == RowByNames(s, o.rows[i])
<1>. HIDE DEF no, L
<1>3. Len(named) = L /\ named \in Seq({Row(i) : i \in 1 .. L})
  <2>1. named = [i \in 1 .. L |-> Row(i)] /\ L \in Nat
    BY <1>1, <1>2
  <2>. HIDE DEF named, Row
  <2>. QED  BY <2>1
<1>4. no = FailsToOpen <=> o = FailsToOpen
  <2>1. o = FailsToOpen <=> o.fate = "opens not"
    <3>1. o = [rows |-> o.rows, fate |-> o.fate] /\ (o.fate = "opens not" => o.rows = <<>>)
      BY <1>0
    <3>2. FailsToOpen.fate = "opens not"
      BY DEF FailsToOpen
    <3>3. ASSUME o.fate = "opens not" PROVE o = FailsToOpen
      <4>1. o = [rows |-> <<>>, fate |-> "opens not"]
        BY <3>1, <3>3, Zenon
      <4>. QED  BY <4>1 DEF FailsToOpen
    <3>. QED  BY <3>2, <3>3, Zenon
  <2>2. o.fate = "opens not" => no.rows = <<>>
    <3>1. o.rows = <<>> => L = 0
      BY DEF L
    <3>2. L = 0 => no.rows = <<>>
      BY <1>2
    <3>. QED  BY <1>0, <3>1, <3>2
  <2>3. no = FailsToOpen <=> no.fate = "opens not"
    <3>1. no = [rows |-> no.rows, fate |-> no.fate]
      BY <1>2
    <3>. QED  BY <2>2, <3>1, <1>2, Zenon DEF FailsToOpen
  <2>. QED  BY <1>2, <2>1, <2>3
<1>5. CASE n <= L /\ o # FailsToOpen
  <2> DEFINE t == SubSeq(o.rows, 1, n)
             nt == SubSeq(no.rows, 1, n)
  <2>1. DOMAIN t = 1 .. n /\ \A i \in 1 .. n : t[i] = o.rows[i]
    <3>1. t = [i \in 1 .. n |-> o.rows[i]]
      BY <1>1, <1>5 DEF L
    <3>. QED  BY <3>1
  <2>2. nt = [i \in 1 .. n |-> no.rows[i]]
    <3>1. SubSeq(named, 1, n) = [i \in 1 .. n |-> named[i]]
      <4>1. n <= Len(named)
        BY <1>3, <1>5 DEF L
      <4>. HIDE DEF named, Row
      <4>. QED  BY <1>3, <4>1
    <3>. QED  BY <3>1
  <2>3. \A i \in 1 .. n : no.rows[i] = RowByNames(s, t[i])
    <3>1. \A i \in 1 .. n : i \in 1 .. L
      BY <1>1, <1>5 DEF L
    <3>. QED  BY <1>2, <2>1, <3>1
  <2>4. RowsByNames(s, t) = [i \in 1 .. n |-> RowByNames(s, t[i])]
    BY <2>1 DEF RowsByNames
  <2>5. Limited(n, o) = Yields(t) /\ Limited(n, no) = Yields(nt)
    BY <1>3, <1>4, <1>5 DEF Limited, L
  <2>. HIDE DEF t, nt, no
  <2>6. nt = RowsByNames(s, t)
    BY <2>1, <2>2, <2>3, <2>4
  <2>. QED  BY <2>5, <2>6 DEF Yields, OutcomeByNames, no
<1>6. CASE ~(n <= L /\ o # FailsToOpen)
  BY <1>3, <1>4, <1>6 DEF Limited, L, no
<1>. QED  BY <1>5, <1>6

\* A one-to-one image of an ordered set, in the order of the images, is listed as the
\* images of the list.
LEMMA ListedImage ==
    ASSUME NEW S, NEW R, IsFiniteSet(S), StrictlyOrders(R, S), NEW T, NEW Q, StrictlyOrders(Q, T),
           NEW f \in Bijection(S, T), \A x, y \in S : <<x, y>> \in R <=> <<f[x], f[y]>> \in Q
    PROVE  /\ IsFiniteSet(T) /\ Cardinality(T) = Cardinality(S) /\ Cardinality(S) \in Nat
           /\ \A i \in 1 .. Cardinality(S) : Listed(Q, T)[i] = f[Listed(R, S)[i]]
<1>1. /\ f \in [S -> T] /\ \A x, y \in S : f[x] = f[y] => x = y
      /\ \A y \in T : \E x \in S : f[x] = y
  BY DEF Bijection, Injection, IsInjective, Surjection
<1>2. IsFiniteSet(T) /\ Cardinality(T) = Cardinality(S)
  BY FS_Bijection DEF ExistsBijection
<1>3. ASSUME NEW x \in S PROVE RankIn(Q, T, f[x]) = RankIn(R, S, x)
  <2> DEFINE A == {y \in S : <<y, x>> \in R}
             B == {y \in T : <<y, f[x]>> \in Q}
             g == [y \in A |-> f[y]]
  <2>1. IsFiniteSet(A)
    BY FS_Subset
  <2>2. \A y \in A : f[y] \in B
    BY <1>1
  <2>3. \A z \in B : \E y \in A : f[y] = z
    BY <1>1
  <2>4. \A y, z \in A : f[y] = f[z] => y = z
    BY <1>1
  <2>. HIDE DEF A, B
  <2>5. g \in Bijection(A, B)
    <3>1. g \in Injection(A, B)
      BY <2>2, <2>4 DEF Injection, IsInjective
    <3>2. g \in Surjection(A, B)
      BY <2>2, <2>3 DEF Surjection
    <3>. QED  BY <3>1, <3>2 DEF Bijection
  <2>6. ExistsBijection(A, B)
    BY <2>5 DEF ExistsBijection
  <2>7. Cardinality(B) = Cardinality(A)
    BY <2>1, <2>6, FS_Bijection
  <2>. QED  BY <2>7 DEF RankIn, A, B
<1>4. Cardinality(S) \in Nat
  BY FS_CardinalityType
<1>5. ASSUME NEW i \in 1 .. Cardinality(S) PROVE Listed(Q, T)[i] = f[Listed(R, S)[i]]
  <2> DEFINE x == Listed(R, S)[i]
             y == Listed(Q, T)[i]
  <2>1. x \in S /\ RankIn(R, S, x) = i - 1
    BY ListedInOrder
  <2>2. y \in T /\ RankIn(Q, T, y) = i - 1
    BY <1>2, ListedInOrder
  <2>. HIDE DEF x, y
  <2>3. f[x] \in T /\ RankIn(Q, T, f[x]) = i - 1
    BY <1>1, <1>3, <2>1
  <2>4. f[x] = y
    BY <1>2, <2>2, <2>3, RankGrows
  <2>. QED  BY <2>4 DEF x, y
<1>. QED  BY <1>2, <1>4, <1>5

\* The comparator by names.
LEMMA OrderByNames ==
    ASSUME NEW s, NEW width, AreNames(s, width), NEW st, NEW named, AsksByNames(s, st, named),
           st.stage = "Sort", NEW r, NEW q
    PROVE  LessThan(named.sort, RowByNames(s, r), RowByNames(s, q)) = LessThan(st.sort, r, q)
<1> DEFINE c == st.sort.column
           R == RowByNames(s, r)
           Q == RowByNames(s, q)
<1>1. /\ c \in 1 .. width /\ named.sort.column = s[c]
      /\ named.sort.direction = st.sort.direction
  BY DEF AsksByNames, AreNames
<1>2. R.values[s[c]] = r.values[c] /\ Q.values[s[c]] = q.values[c]
  BY <1>1, CellsByNames
<1>3. R.ordinal = r.ordinal /\ Q.ordinal = q.ordinal
  BY CellsByNames
<1>. HIDE DEF R, Q, c
<1>. QED  BY <1>1, <1>2, <1>3, Zenon DEF LessThan, c, R, Q

\* Sorting by names.
LEMMA SortByNames ==
    ASSUME NEW s, NEW width, AreNames(s, width), NEW st, NEW named, AsksByNames(s, st, named),
           st.stage = "Sort", NEW o, IsOutcome(o, width)
    PROVE  Ordered(named, OutcomeByNames(s, o)) = {OutcomeByNames(s, x) : x \in Ordered(st, o)}
<1> DEFINE no == OutcomeByNames(s, o)
           S == ToSet(o.rows)
           T == ToSet(no.rows)
           sort == st.sort
           nsort == named.sort
           f == [r \in S |-> RowByNames(s, r)]
           in == InOrder(sort, S)
           nin == InOrder(nsort, T)
<1>1. /\ sort.column \in 1 .. width /\ sort.direction \in SortDirection
      /\ nsort.column = s[sort.column] /\ nsort.direction = sort.direction
  BY DEF AsksByNames, AreNames
<1>2. AreRows(o.rows, width) /\ DOMAIN o.rows = 1 .. Len(o.rows) /\ Len(o.rows) \in Nat
  BY RowsListed DEF IsOutcome
<1>3. IsFiniteSet(S) /\ S \subseteq RowsOf(width) /\ Sortable(sort, S)
  BY <1>1, <1>2, RowsSortable
<1>4. T = {f[r] : r \in S}
  BY DEF ToSet, OutcomeByNames, RowsByNames
<1>5. \A r \in S : f[r] = RowByNames(s, r)
  OBVIOUS
<1>6. no.fate = o.fate
  BY DEF OutcomeByNames
<1>. HIDE DEF f, no, S, T, sort, nsort
<1>7. f \in Bijection(S, T)
  <2>1. \A r, q \in S : f[r] = f[q] => r = q
    BY <1>3, <1>5, NamesTellRows
  <2>2. f \in [S -> T]
    BY <1>4 DEF f
  <2>3. f \in Injection(S, T)
    BY <2>1, <2>2 DEF Injection, IsInjective
  <2>4. f \in Surjection(S, T)
    BY <1>4, <2>2 DEF Surjection
  <2>. QED  BY <2>3, <2>4 DEF Bijection
<1>8. /\ \A r, q \in S : LessThan(nsort, f[r], f[q]) = LessThan(sort, r, q)
      /\ \A r, q \in S : f[r] = f[q] => r = q
  <2>1. \A r, q \in S : LessThan(nsort, f[r], f[q]) = LessThan(sort, r, q)
    BY <1>5, OrderByNames DEF sort, nsort
  <2>. QED  BY <1>7, <2>1 DEF Bijection, Injection, IsInjective
<1>9. Clashing(nsort, T) <=> Clashing(sort, S)
  BY <1>4, <1>8 DEF Clashing, RowClash
<1>10. Sortable(nsort, T)
  <2>1. ASSUME NEW r \in S PROVE f[r].ordinal = r.ordinal /\ f[r].values[nsort.column] = r.values[sort.column]
    BY <1>1, <1>5, CellsByNames
  <2>. QED  BY <1>1, <1>3, <1>4, <2>1 DEF Sortable
<1>11. /\ Ordered(st, o) = IF o.fate # "eof" THEN {FailsToOpen}
                           ELSE {IF Clashing(sort, S) THEN FailsToOpen ELSE Yields(InOrder(sort, S))}
       /\ Ordered(named, no) = IF no.fate # "eof" THEN {FailsToOpen}
                               ELSE {IF Clashing(nsort, T) THEN FailsToOpen
                                     ELSE Yields(InOrder(nsort, T))}
  <2>1. st.stage = "Sort" /\ named.stage = "Sort"
    BY DEF AsksByNames
  <2>. QED  BY <2>1 DEF Ordered, S, T, sort, nsort
<1>12. OutcomeByNames(s, FailsToOpen) = FailsToOpen
  <2>1. RowsByNames(s, <<>>) = <<>>
    <3>1. DOMAIN <<>> = {}
      OBVIOUS
    <3>2. RowsByNames(s, <<>>) \in [1 .. 0 -> {}]
      BY <3>1 DEF RowsByNames
    <3>. QED  BY <3>2
  <2>. QED  BY <2>1 DEF OutcomeByNames, FailsToOpen
<1>13. ASSUME ~Clashing(sort, S) PROVE OutcomeByNames(s, Yields(in)) = Yields(nin)
  <2>1. /\ StrictlyOrders(OrderOf(sort, S), S)
        /\ \A x, y \in S : <<x, y>> \in OrderOf(sort, S) <=> RowBefore(sort, x, y)
        /\ in = Listed(OrderOf(sort, S), S)
    BY <1>3, <1>13, InOrderLists
  <2>2. /\ StrictlyOrders(OrderOf(nsort, T), T)
        /\ \A x, y \in T : <<x, y>> \in OrderOf(nsort, T) <=> RowBefore(nsort, x, y)
        /\ nin = Listed(OrderOf(nsort, T), T)
    BY <1>9, <1>10, <1>13, InOrderLists
  <2>3. f \in [S -> T]
    BY <1>7 DEF Bijection, Injection
  <2>4. \A x, y \in S : <<x, y>> \in OrderOf(sort, S) <=> <<f[x], f[y]>> \in OrderOf(nsort, T)
    <3>1. TAKE x, y \in S
    <3>2. f[x] \in T /\ f[y] \in T
      BY <2>3
    <3>3. RowBefore(sort, x, y) <=> RowBefore(nsort, f[x], f[y])
      BY <1>8 DEF RowBefore
    <3>. QED  BY <2>1, <2>2, <3>2, <3>3
  <2> DEFINE n == Cardinality(S)
  <2>. HIDE DEF in, nin, n
  <2>5. n \in Nat /\ Cardinality(T) = n /\ \A i \in 1 .. n : nin[i] = f[in[i]]
    BY <1>3, <1>7, <2>1, <2>2, <2>4, ListedImage DEF n
  <2>6. /\ DOMAIN in = 1 .. n /\ \A i \in 1 .. n : in[i] \in S
        /\ nin = [i \in 1 .. n |-> nin[i]]
    <3>1. in \in [1 .. n -> S]
      BY <1>3, <2>1, ListedInOrder DEF n
    <3>2. nin = [i \in 1 .. n |-> nin[i]]
      BY <2>2, <2>5 DEF Listed
    <3>. QED  BY <3>1, <3>2
  <2>7. RowsByNames(s, in) = [i \in 1 .. n |-> RowByNames(s, in[i])]
    BY <2>6 DEF RowsByNames
  <2>8. \A i \in 1 .. n : nin[i] = RowByNames(s, in[i])
    BY <1>5, <2>5, <2>6
  <2>9. nin = RowsByNames(s, in)
    BY <2>6, <2>7, <2>8
  <2>. QED  BY <2>9 DEF OutcomeByNames, Yields
<1>. QED  BY <1>6, <1>9, <1>11, <1>12, <1>13 DEF no

\* Projecting by names.
LEMMA ProjectByNames ==
    ASSUME NEW s, NEW width, AreNames(s, width), NEW st, NEW named, AsksByNames(s, st, named),
           st.stage = "Project", NEW r \in RowsOf(width)
    PROVE  RowByNames(named.columns, ProjectRow(st.columns, r))
             = [RowByNames(s, r) EXCEPT
                   !.values = [f \in ToSet(named.columns) |-> RowByNames(s, r).values[f]]]
<1> DEFINE cs == st.columns
           ns == named.columns
           n == Len(cs)
           p == ProjectRow(cs, r)
           R == RowByNames(s, r)
           P == RowByNames(ns, p)
<1>1. /\ AreNames(ns, n) /\ DOMAIN cs = 1 .. n
      /\ \A j \in 1 .. n : cs[j] \in 1 .. width /\ ns[j] = s[cs[j]]
  BY DEF AsksByNames, AreNames
<1>2. p.ordinal = r.ordinal /\ \A j \in 1 .. n : p.values[j] = r.values[cs[j]]
  <2>1. r = [ordinal |-> r.ordinal, values |-> r.values]
    BY DEF RowsOf
  <2>2. p = [ordinal |-> r.ordinal, values |-> [j \in DOMAIN cs |-> r.values[cs[j]]]]
    BY <2>1 DEF ProjectRow
  <2>. HIDE DEF p
  <2>. QED  BY <1>1, <2>2
<1>3. R = [ordinal |-> r.ordinal, values |-> R.values]
  BY DEF RowByNames
<1>4. P = [ordinal |-> p.ordinal, values |-> P.values]
      /\ P.values = [f \in ToSet(ns) |-> P.values[f]]
  BY DEF RowByNames
<1>. HIDE DEF p, R, P, cs, ns, n
<1>5. ToSet(ns) = {ns[j] : j \in 1 .. n} /\ \A j \in 1 .. n : P.values[ns[j]] = p.values[j]
  BY <1>1, CellsByNames DEF P
<1>6. \A j \in 1 .. n : R.values[ns[j]] = p.values[j]
  <2>1. TAKE j \in 1 .. n
  <2>2. R.values[s[cs[j]]] = r.values[cs[j]]
    BY <1>1, CellsByNames DEF R
  <2>. QED  BY <1>1, <1>2, <2>2
<1>7. \A f \in ToSet(ns) : P.values[f] = R.values[f]
  BY <1>5, <1>6
<1>8. P.values = [f \in ToSet(ns) |-> R.values[f]]
  BY <1>4, <1>7
<1>. QED  BY <1>2, <1>3, <1>4, <1>8 DEF P, R, p, cs, ns
==============================================================================

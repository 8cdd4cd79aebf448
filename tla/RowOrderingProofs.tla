-------------------------- MODULE RowOrderingProofs --------------------------
(***************************************************************************)
(* compare() is exact and the row comparator is a strict order, for every  *)
(* width of the integers and every set of doubles and strings that the     *)
(* assumptions of Values admit.                                            *)
(***************************************************************************)
EXTENDS RowOrdering, DataProofs

LEMMA TypeInvariant == Spec => []TypeOK
<1>1. Init => TypeOK
  BY DEF Init, TypeOK, Value
<1>2. TypeOK /\ [Next]_cells => TypeOK'
  BY DEF TypeOK, Next, SetCell
<1>. QED  BY <1>1, <1>2, PTL DEF Spec

\* compare() orders any two numbers by their exact values (value.cpp:26-71).
THEOREM ExactComparison == Spec => []NumbersCompareExactly
<1>1. TypeOK => NumbersCompareExactly
  <2>1. SUFFICES ASSUME TypeOK,
                        IsNumeric(cells[1]), IsNumeric(cells[2]),
                        NaN \notin {cells[1].v, cells[2].v}
                 PROVE  Compare(cells[1], cells[2]) = Order(Exact(cells[1]), Exact(cells[2]))
    BY DEF NumbersCompareExactly
  <2>2. cells[1] \in Value /\ cells[2] \in Value
    BY <2>1 DEF TypeOK, Ordinals
  <2>3. Comparable(cells[1], cells[2])
    BY <2>1 DEF Comparable, Number
  <2>4. cells[1].type # "kNull" /\ cells[2].type # "kNull"
    BY <2>1 DEF IsNumeric
  <2>. QED  BY <2>2, <2>3, <2>4, CompareCases
<1>. QED  BY <1>1, TypeInvariant, PTL

\* The row comparator is a strict order in either direction, and throws for a
\* pair of rows whichever way round it is asked (row_comparator.cpp:7-30).
THEOREM StrictOrder == Spec => []RowsStrictlyOrdered
<1>1. TypeOK => RowsStrictlyOrdered
  <2>1. SUFFICES ASSUME TypeOK, NEW d \in SortDirection
                 PROVE  LET before(i, j) == RowBefore(SortBy(d), Row(i), Row(j))
                            clash(i, j)  == RowClash(SortBy(d), Row(i), Row(j))
                        IN  /\ \A i \in Ordinals : ~before(i, i)
                            /\ \A i, j \in Ordinals :
                                  i # j => \/ clash(i, j) /\ clash(j, i)
                                           \/ /\ ~clash(i, j) /\ ~clash(j, i)
                                              /\ before(i, j) # before(j, i)
                            /\ \A i, j, k \in Ordinals :
                                  before(i, j) /\ before(j, k) => before(i, k)
    BY DEF RowsStrictlyOrdered
  <2> DEFINE S == {Row(i) : i \in Ordinals}
  <2>2. Sortable(SortBy(d), S)
    <3>1. SortBy(d).direction \in SortDirection /\ SortBy(d).column = 1
      BY DEF SortBy
    <3>2. \A i \in Ordinals : Row(i).ordinal = i /\ Row(i).values[1] \in Value /\ i \in Int
      BY <2>1 DEF Row, TypeOK, Ordinals
    <3>. HIDE DEF Row, SortBy
    <3>. QED  BY <3>1, <3>2 DEF Sortable
  <2>3. \A i, j \in Ordinals : i # j => Row(i) # Row(j)
    BY DEF Row
  <2>4. \A i \in Ordinals : Row(i) \in S
    OBVIOUS
  <2>. HIDE DEF S
  <2>5. \A i \in Ordinals : ~RowBefore(SortBy(d), Row(i), Row(i))
    BY <2>2, <2>4, RowsOrdered
  <2>6. ASSUME NEW i \in Ordinals, NEW j \in Ordinals, i # j
        PROVE  \/ RowClash(SortBy(d), Row(i), Row(j)) /\ RowClash(SortBy(d), Row(j), Row(i))
               \/ /\ ~RowClash(SortBy(d), Row(i), Row(j)) /\ ~RowClash(SortBy(d), Row(j), Row(i))
                  /\ RowBefore(SortBy(d), Row(i), Row(j)) # RowBefore(SortBy(d), Row(j), Row(i))
    <3>1. Row(i) # Row(j)
      BY <2>3, <2>6
    <3>2. \/ RowClash(SortBy(d), Row(i), Row(j)) /\ RowClash(SortBy(d), Row(j), Row(i))
          \/ /\ ~RowClash(SortBy(d), Row(i), Row(j)) /\ ~RowClash(SortBy(d), Row(j), Row(i))
             /\ RowBefore(SortBy(d), Row(i), Row(j)) <=> ~RowBefore(SortBy(d), Row(j), Row(i))
      BY <2>2, <2>4, <3>1, RowsOrdered
    <3>. QED  BY <3>2 DEF RowBefore
  <2>7. ASSUME NEW i \in Ordinals, NEW j \in Ordinals, NEW k \in Ordinals,
               RowBefore(SortBy(d), Row(i), Row(j)), RowBefore(SortBy(d), Row(j), Row(k))
        PROVE  RowBefore(SortBy(d), Row(i), Row(k))
    BY <2>2, <2>4, <2>7, RowsOrdered
  <2>. QED  BY <2>5, <2>6, <2>7
<1>. QED  BY <1>1, TypeInvariant, PTL
-----------------------------------------------------------------------------
\* valuesEqual() of two cells that are neither null nor bool: it throws what
\* compare() throws, and otherwise tells whether compare() finds them equal.
LEMMA EqualityCases ==
    ASSUME NEW a \in Value, NEW b \in Value,
           {"kNull", "kBool"} \cap {a.type, b.type} = {}
    PROVE  \/ ValuesEqual(a, b) = Compare(a, b) /\ Compare(a, b) \in ComparisonError
           \/ /\ ValuesEqual(a, b) = Truth(Compare(a, b) = "kEqual")
              /\ Compare(a, b) \notin ComparisonError
<1>1. CASE IsNumeric(a) /\ IsNumeric(b)
  <2>1. Compare(a, b) = CompareNumeric(a, b)
    BY <1>1 DEF Compare, IsNumeric
  <2>2. ValuesEqual(a, b) = IF CompareNumeric(a, b) \in ComparisonError
                            THEN CompareNumeric(a, b)
                            ELSE Truth(CompareNumeric(a, b) = "kEqual")
    BY <1>1 DEF ValuesEqual, IsNumeric
  <2>. QED  BY <2>1, <2>2
<1>2. CASE a.type = "kString" /\ b.type = "kString"
  <2>1. a.v \in Int /\ b.v \in Int
    BY <1>2, ValueCases
  <2>2. Compare(a, b) = Order(a.v, b.v) /\ ValuesEqual(a, b) = Truth(a.v = b.v)
    BY <1>2 DEF Compare, ValuesEqual, IsNumeric
  <2>. QED  BY <2>1, <2>2 DEF Order, ComparisonError
<1>3. CASE ~(IsNumeric(a) /\ IsNumeric(b)) /\ ~(a.type = "kString" /\ b.type = "kString")
  <2>1. a.type # b.type
    BY <1>3, ValueCases DEF IsNumeric
  <2>2. Compare(a, b) = "kIncompatibleTypes" /\ ValuesEqual(a, b) = "kIncompatibleTypes"
    BY <1>3, <2>1 DEF Compare, ValuesEqual
  <2>. QED  BY <2>2 DEF ComparisonError
<1>. QED  BY <1>1, <1>2, <1>3

\* valuesEqual() and compare() agree (value.cpp:104-148).
THEOREM EqualityIsOrder == Spec => []EqualityAgreesWithOrder
<1>1. TypeOK => EqualityAgreesWithOrder
  BY EqualityCases DEF TypeOK, Ordinals, EqualityAgreesWithOrder
<1>. QED  BY <1>1, TypeInvariant, PTL

\* Two cells that are equal and not bools: two nulls, or ordered and of the same
\* exact value.
LEMMA EqualCells ==
    ASSUME NEW a \in Value, NEW b \in Value, a.type # "kBool"
    PROVE  ValuesEqual(a, b) = "true" <=>
              \/ a.type = "kNull" /\ b.type = "kNull"
              \/ Comparable(a, b) /\ Exact(a) = Exact(b)
<1>1. CASE "kNull" \in {a.type, b.type}
  BY <1>1 DEF ValuesEqual, Truth, Comparable, Number, IsNumeric
<1>2. CASE b.type = "kBool" /\ a.type # "kNull"
  BY <1>2 DEF ValuesEqual, Truth, Comparable, Number, IsNumeric
<1>3. CASE {"kNull", "kBool"} \cap {a.type, b.type} = {}
  <2>1. \/ ValuesEqual(a, b) \in ComparisonError /\ Compare(a, b) \in ComparisonError
        \/ /\ ValuesEqual(a, b) = Truth(Compare(a, b) = "kEqual")
           /\ Compare(a, b) \notin ComparisonError
    BY <1>3, EqualityCases
  <2>2. ~Comparable(a, b) => Compare(a, b) \in ComparisonError
    BY <1>3, CompareCases
  <2>3. Comparable(a, b) => /\ Compare(a, b) = Order(Exact(a), Exact(b))
                         /\ Exact(a) \in Int /\ Exact(b) \in Int
    BY <1>3, CompareCases, ExactIsInt DEF Comparable
  <2>4. Comparable(a, b) => (ValuesEqual(a, b) = "true" <=> Exact(a) = Exact(b))
    BY <2>1, <2>3 DEF Order, ComparisonError, Truth
  <2>. QED  BY <1>3, <2>1, <2>2, <2>4 DEF ComparisonError
<1>. QED  BY <1>1, <1>2, <1>3
\* compare() throws the same whichever way round it is asked.
LEMMA SameError ==
    ASSUME NEW a \in Value, NEW b \in Value, a.type # "kNull", b.type # "kNull",
           ~Comparable(a, b)
    PROVE  Compare(a, b) = Compare(b, a)
<1>1. CASE a.type = "kDouble" /\ b.type = "kDouble"
  <2>1. a.v = NaN \/ b.v = NaN
    BY <1>1 DEF Comparable, Number, IsNumeric
  <2>2. Compare(a, b) = CompareDoubles(a.v, b.v) /\ Compare(b, a) = CompareDoubles(b.v, a.v)
    BY <1>1 DEF Compare, CompareNumeric, IsNumeric
  <2>. QED  BY <2>1, <2>2 DEF CompareDoubles
<1>2. CASE a.type = "kInt64" /\ b.type = "kDouble"
  <2>1. b.v = NaN
    BY <1>2, ValueCases, DoublesAssumption DEF Comparable, Number, IsNumeric
  <2>2. /\ Compare(a, b) = CompareIntToDouble(a.v, b.v)
        /\ Compare(b, a) = Invert(CompareIntToDouble(a.v, b.v))
    BY <1>2 DEF Compare, CompareNumeric, IsNumeric
  <2>. QED  BY <2>1, <2>2 DEF CompareIntToDouble, Invert
<1>3. CASE a.type = "kDouble" /\ b.type = "kInt64"
  <2>1. a.v = NaN
    BY <1>3, ValueCases, DoublesAssumption DEF Comparable, Number, IsNumeric
  <2>2. /\ Compare(a, b) = Invert(CompareIntToDouble(b.v, a.v))
        /\ Compare(b, a) = CompareIntToDouble(b.v, a.v)
    BY <1>3 DEF Compare, CompareNumeric, IsNumeric
  <2>. QED  BY <2>1, <2>2 DEF CompareIntToDouble, Invert
<1>4. ~(a.type = "kInt64" /\ b.type = "kInt64")
  BY ValueCases, DoublesAssumption DEF Comparable, Number, IsNumeric
<1>5. CASE ~(IsNumeric(a) /\ IsNumeric(b))
  <2>1. ~(a.type = "kString" /\ b.type = "kString")
    BY DEF Comparable
  <2>. QED  BY <1>5, <2>1 DEF Compare
<1>. QED  BY <1>1, <1>2, <1>3, <1>4, <1>5 DEF IsNumeric

\* The comparator on rows of ordered cells.
LEMMA RowsLess ==
    ASSUME TypeOK, NEW i \in Ordinals, NEW j \in Ordinals, NEW d \in SortDirection,
           Comparable(cells[i], cells[j])
    PROVE  LessThan(SortBy(d), Row(i), Row(j)) =
              Truth(\/ Exact(cells[i]) = Exact(cells[j]) /\ i < j
                    \/ d = "kAscending" /\ Exact(cells[i]) < Exact(cells[j])
                    \/ d = "kDescending" /\ Exact(cells[i]) > Exact(cells[j]))
<1> DEFINE sort == SortBy(d)
           r == Row(i)
           q == Row(j)
           a == r.values[sort.column]
           b == q.values[sort.column]
<1>1. /\ sort.direction = d /\ r.ordinal = i /\ q.ordinal = j
      /\ a = cells[i] /\ b = cells[j] /\ a \in Value /\ b \in Value
  BY DEF SortBy, Row, TypeOK
<1>. HIDE DEF sort, r, q
<1>2. LessThan(sort, r, q) =
         Truth(\/ Exact(a) = Exact(b) /\ r.ordinal < q.ordinal
               \/ sort.direction = "kAscending" /\ Exact(a) < Exact(b)
               \/ sort.direction = "kDescending" /\ Exact(a) > Exact(b))
  BY <1>1, LessThanCases
<1>3. LessThan(sort, r, q) =
         Truth(\/ Exact(cells[i]) = Exact(cells[j]) /\ i < j
               \/ d = "kAscending" /\ Exact(cells[i]) < Exact(cells[j])
               \/ d = "kDescending" /\ Exact(cells[i]) > Exact(cells[j]))
  BY <1>1, <1>2
<1>. QED  BY <1>3 DEF sort, r, q

\* Sorting downwards reverses all but ties (row_comparator.h:17-18).
THEOREM DescendingReverses == Spec => []DescendingReversesAllButTies
<1>1. TypeOK => DescendingReversesAllButTies
  <2>1. SUFFICES ASSUME TypeOK, NEW i \in Ordinals, NEW j \in Ordinals, i # j
                 PROVE  LET up   == LessThan(SortBy("kAscending"), Row(i), Row(j))
                            down == LessThan(SortBy("kDescending"), Row(i), Row(j))
                        IN  IF ValuesEqual(cells[i], cells[j]) = "true" /\ cells[i].type # "kBool"
                            THEN up = Truth(i < j) /\ down = Truth(i < j)
                            ELSE down = LessThan(SortBy("kAscending"), Row(j), Row(i))
    BY DEF DescendingReversesAllButTies
  <2> DEFINE a == cells[i]
             b == cells[j]
             up == LessThan(SortBy("kAscending"), Row(i), Row(j))
             down == LessThan(SortBy("kDescending"), Row(i), Row(j))
             pu == LessThan(SortBy("kAscending"), Row(j), Row(i))
  <2>2. a \in Value /\ b \in Value /\ i \in Int /\ j \in Int
    BY <2>1 DEF TypeOK, Ordinals
  <2>3. \A d \in SortDirection :
           /\ Row(i).ordinal = i /\ Row(i).values[1] = a
           /\ Row(j).ordinal = j /\ Row(j).values[1] = b
           /\ SortBy(d).column = 1 /\ SortBy(d).direction = d
    BY DEF Row, SortBy
  <2>4. CASE a.type = "kNull" /\ b.type = "kNull"
    BY <2>3, <2>4 DEF LessThan, SortDirection, ValuesEqual, Truth
  <2>5. CASE (a.type = "kNull") # (b.type = "kNull")
    BY <2>3, <2>5 DEF LessThan, SortDirection, ValuesEqual, Truth
  <2>6. CASE Comparable(a, b)
    <3>1. Exact(a) \in Int /\ Exact(b) \in Int /\ Comparable(b, a)
      BY <2>2, <2>6, ExactIsInt DEF Comparable
    <3>2. /\ up = Truth((Exact(a) = Exact(b) /\ i < j) \/ Exact(a) < Exact(b))
          /\ down = Truth((Exact(a) = Exact(b) /\ i < j) \/ Exact(a) > Exact(b))
          /\ pu = Truth((Exact(b) = Exact(a) /\ j < i) \/ Exact(b) < Exact(a))
      BY <2>1, <2>6, <3>1, RowsLess DEF SortDirection
    <3>3. a.type # "kBool" /\ (ValuesEqual(a, b) = "true" <=> Exact(a) = Exact(b))
      BY <2>2, <2>6, EqualCells DEF Comparable, Number, IsNumeric
    <3>. QED  BY <2>2, <3>1, <3>2, <3>3 DEF Truth
  <2>7. CASE a.type # "kNull" /\ b.type # "kNull" /\ ~Comparable(a, b)
    <3>1. Compare(a, b) \in ComparisonError /\ Compare(b, a) = Compare(a, b)
      BY <2>2, <2>7, CompareCases, SameError
    <3>2. down = Compare(a, b) /\ pu = Compare(a, b)
      BY <2>3, <2>7, <3>1 DEF LessThan, SortDirection
    <3>3. ~(ValuesEqual(a, b) = "true" /\ a.type # "kBool")
      BY <2>2, <2>7, EqualCells
    <3>. QED  BY <3>2, <3>3
  <2>. QED  BY <2>4, <2>5, <2>6, <2>7
<1>. QED  BY <1>1, TypeInvariant, PTL
\* What the six operators say, by the outcomes of valuesEqual() and compare().
LEMMA OperatorCases ==
    ASSUME NEW a, NEW b
    PROVE  LET eq == ValuesEqual(a, b)
               r  == Compare(a, b)
               Ordering(accepted) == IF r \in ComparisonError THEN r ELSE Truth(r \in accepted)
           IN  /\ EvaluateComparison("kEq", a, b) = eq
               /\ EvaluateComparison("kNe", a, b) =
                     IF eq \in ComparisonError THEN eq ELSE Truth(eq = "false")
               /\ EvaluateComparison("kLt", a, b) = Ordering({"kLess"})
               /\ EvaluateComparison("kLte", a, b) = Ordering({"kLess", "kEqual"})
               /\ EvaluateComparison("kGt", a, b) = Ordering({"kGreater"})
               /\ EvaluateComparison("kGte", a, b) = Ordering({"kGreater", "kEqual"})
BY DEF EvaluateComparison

\* The six operators of $match say the same (comparison_expression.cpp:13-34).
THEOREM OperatorsAlwaysAgree == Spec => []OperatorsAgree
<1>1. TypeOK => OperatorsAgree
  <2> SUFFICES ASSUME TypeOK PROVE OperatorsAgree
    OBVIOUS
  <2> DEFINE a == cells[1]
             b == cells[2]
             says(op) == EvaluateComparison(op, a, b)
             null     == "kNull" \in {a.type, b.type}
             bool     == "kBool" \in {a.type, b.type}
             holds    == {op \in ComparisonOperator : says(op) = "true"}
             agree    == IF \E op \in ComparisonOperator : says(op) \in ComparisonError
                         THEN /\ ~null
                              /\ ~bool => \A op \in ComparisonOperator : says(op) = says("kEq")
                         ELSE /\ {says(op) : op \in ComparisonOperator} = {"true", "false"}
                              /\ IF null THEN holds \in {{"kEq"}, {"kNe"}}
                                 ELSE holds \in {{"kEq", "kLte", "kGte"}, {"kNe", "kLt", "kLte"},
                                                 {"kNe", "kGt", "kGte"}}
  <2>1. a \in Value /\ b \in Value
    BY DEF TypeOK, Ordinals
  <2>2. SUFFICES agree
    BY DEF OperatorsAgree
  <2>3. CASE null
    <3>1. Compare(a, b) = "kUnordered"
      BY <2>3 DEF Compare
    <3>2. ValuesEqual(a, b) \in {"true", "false"}
      BY <2>3 DEF ValuesEqual, Truth
    <3>3. /\ says("kEq") = ValuesEqual(a, b) /\ says("kNe") = Truth(ValuesEqual(a, b) = "false")
          /\ says("kLt") = "false" /\ says("kLte") = "false"
          /\ says("kGt") = "false" /\ says("kGte") = "false"
      BY <3>1, <3>2, OperatorCases DEF ComparisonError, Truth
    <3> HIDE DEF says
    <3>. QED  BY <2>3, <3>2, <3>3 DEF ComparisonOperator, ComparisonError, Truth
  <2>4. CASE ~null /\ Compare(a, b) \in ComparisonError
    <3>1. says("kLt") \in ComparisonError
      BY <2>4, OperatorCases
    <3>2. CASE bool
      BY <2>4, <3>1, <3>2 DEF ComparisonOperator
    <3>3. CASE ~bool
      <4>1. ValuesEqual(a, b) = Compare(a, b)
        BY <2>1, <2>4, <3>3, EqualityCases
      <4>2. \A op \in ComparisonOperator : says(op) = Compare(a, b)
        BY <2>4, <4>1, OperatorCases DEF ComparisonOperator
      <4> HIDE DEF says
      <4>. QED  BY <2>4, <3>1, <4>2 DEF ComparisonOperator
    <3>. QED  BY <3>2, <3>3
  <2>5. CASE ~null /\ Compare(a, b) \notin ComparisonError
    <3>1. Comparable(a, b)
      BY <2>1, <2>5, CompareCases
    <3>2. ~bool /\ Exact(a) \in Int /\ Exact(b) \in Int
      BY <2>1, <3>1, ExactIsInt DEF Comparable, Number, IsNumeric
    <3>3. Compare(a, b) \in {"kLess", "kEqual", "kGreater"}
      BY <2>1, <2>5, <3>1, <3>2, CompareCases DEF Order
    <3>4. ValuesEqual(a, b) = Truth(Compare(a, b) = "kEqual")
      BY <2>1, <2>5, <3>2, EqualityCases
    <3>5. /\ says("kEq") = Truth(Compare(a, b) = "kEqual")
          /\ says("kNe") = Truth(Compare(a, b) # "kEqual")
          /\ says("kLt") = Truth(Compare(a, b) = "kLess")
          /\ says("kLte") = Truth(Compare(a, b) # "kGreater")
          /\ says("kGt") = Truth(Compare(a, b) = "kGreater")
          /\ says("kGte") = Truth(Compare(a, b) # "kLess")
      BY <3>3, <3>4, OperatorCases DEF ComparisonError, Truth
    <3> HIDE DEF says
    <3>6. CASE Compare(a, b) = "kEqual"
      <4>1. /\ says("kEq") = "true" /\ says("kLte") = "true" /\ says("kGte") = "true"
            /\ says("kNe") = "false" /\ says("kLt") = "false" /\ says("kGt") = "false"
        BY <3>5, <3>6 DEF Truth
      <4>2. holds = {"kEq", "kLte", "kGte"}
        BY <4>1 DEF ComparisonOperator
      <4>. QED  BY <2>5, <4>1, <4>2 DEF ComparisonOperator, ComparisonError
    <3>7. CASE Compare(a, b) = "kLess"
      <4>1. /\ says("kNe") = "true" /\ says("kLt") = "true" /\ says("kLte") = "true"
            /\ says("kEq") = "false" /\ says("kGt") = "false" /\ says("kGte") = "false"
        BY <3>5, <3>7 DEF Truth
      <4>2. holds = {"kNe", "kLt", "kLte"}
        BY <4>1 DEF ComparisonOperator
      <4>. QED  BY <2>5, <4>1, <4>2 DEF ComparisonOperator, ComparisonError
    <3>8. CASE Compare(a, b) = "kGreater"
      <4>1. /\ says("kNe") = "true" /\ says("kGt") = "true" /\ says("kGte") = "true"
            /\ says("kEq") = "false" /\ says("kLt") = "false" /\ says("kLte") = "false"
        BY <3>5, <3>8 DEF Truth
      <4>2. holds = {"kNe", "kGt", "kGte"}
        BY <4>1 DEF ComparisonOperator
      <4>. QED  BY <2>5, <4>1, <4>2 DEF ComparisonOperator, ComparisonError
    <3>. QED  BY <3>3, <3>6, <3>7, <3>8
  <2>. QED  BY <2>3, <2>4, <2>5
<1>. QED  BY <1>1, TypeInvariant, PTL
==============================================================================

SPECIFICATION Spec
CONSTANTS
    Int64Min <- MCInt64Min
    Int64Max <- MCInt64Max
    Doubles <- MCDoubles
    Strings <- MCStrings
    NaN = NaN
INVARIANTS
    NumbersCompareExactly
    EqualityAgreesWithOrder
    RowsStrictlyOrdered
    DescendingReversesAllButTies
    OperatorsAgree

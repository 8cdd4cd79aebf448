SPECIFICATION BothSpec
CONSTANTS
    Int64Min <- MCInt64Min
    Int64Max <- MCInt64Max
    Doubles <- MCDoubles
    Strings <- MCStrings
    NaN = NaN
    Limits <- MCLimits
    Comparators <- MCComparators
    Rows <- MCRows
    Before <- RowBefore
    Clash <- RowClash
INVARIANTS
    SameFailure
CHECK_DEADLOCK FALSE

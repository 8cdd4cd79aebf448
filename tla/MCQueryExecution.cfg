SPECIFICATION Spec
CONSTANTS
    Int64Min <- MCInt64Min
    Int64Max <- MCInt64Max
    Doubles <- MCDoubles
    NaN = NaN
    Strings <- MCStrings
    StringSize <- MCStringSize
    N = 4
    Width = 2
    Plans <- MCPlans
    Tables <- MCTables
INVARIANTS
    ResultIsMeaning
    AllReleased
    RowsAccounted
    LimitStopsPulling
    ExaminesJustEnough
PROPERTIES
    KeepsLifecycle
    Terminates

SPECIFICATION Spec
CONSTANTS
    Int64Min <- MCInt64Min
    Int64Max <- MCInt64Max
    Doubles <- MCDoubles
    NaN = NaN
    Strings <- MCStrings
    Texts <- MCTexts
INVARIANT OnlyQueryLumeErrors

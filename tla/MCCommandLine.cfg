SPECIFICATION Spec
CONSTANTS
    Int64Min <- MCInt64Min
    Int64Max <- MCInt64Max
    Doubles <- MCDoubles
    NaN = NaN
    Strings <- MCStrings
    ShownDouble <- MCShownDouble
    DataTexts <- MCDataTexts
    PipelineTexts <- MCPipelineTexts
INVARIANTS
    AnswersAsWritten
    OutputOnlyOnSuccess
    ExplainViewsAgree
PROPERTY
    Exits

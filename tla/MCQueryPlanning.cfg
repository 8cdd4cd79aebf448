SPECIFICATION Spec
CONSTANTS
    Int64Min <- MCInt64Min
    Int64Max <- MCInt64Max
    Doubles <- MCDoubles
    NaN = NaN
    Strings <- MCStrings
    Pipelines <- MCPipelines
    Schemas <- MCSchemas
    Tables <- MCTables
INVARIANTS
    TypeOK
    ColumnsMatchNames
    PlanSaysWhatIsWritten
    PlansJustTheValid
    OptimizerKeepsMeaning
    NothingLeftToRewrite
    OutputSchemaFits
PROPERTY
    Plans

SPECIFICATION TimedSpec
CONSTANTS
    N = 3
    TicksPerMicro = 2
    MaxNow = 4
INVARIANTS
    InclusiveOfEveryDescendant

SPECIFICATION TimedSpec
CONSTANTS
    N = 4
    TicksPerMicro = 2
    MaxNow = 4
INVARIANTS
    TypeOK
    OnlyOwnerMisuses
    ReleasedOnce
    ChainAgrees
    FailedOpenReleases
    InclusiveTimes
PROPERTIES
    OneWay

SPECIFICATION FairSpec
CONSTANTS
    SM = SM
    Duration = 3
    WaveDistance = 1
    Workers = 2
    MinLife = 1
    RedisFails = TRUE
INVARIANTS
    TypeOK
    ShutdownDrains
    StuckOnlyByDeparture
PROPERTIES
    HangsOnlyOnBarrier
CHECK_DEADLOCK FALSE

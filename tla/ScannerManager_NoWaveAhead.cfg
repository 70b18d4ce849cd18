SPECIFICATION FairSpec
CONSTANTS
    SM = SM
    Duration = 4
    WaveDistance = 4
    Workers = 1
    MinLife = 1
    RedisFails = FALSE
INVARIANT NoWaveAhead
CHECK_DEADLOCK FALSE

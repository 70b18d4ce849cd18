SPECIFICATION FairSpec
CONSTANTS
    SM = SM
    Duration = 4
    WaveDistance = 4
    Workers = 1
    MinLife = 1
    RedisFails = FALSE
PROPERTY Terminates
CHECK_DEADLOCK FALSE

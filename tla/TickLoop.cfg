SPECIFICATION FairSpec
CONSTANTS
    Duration = 5
    WaveDistance = 2
INVARIANTS
    TypeOK
    Lockstep
    Handshake
PROPERTIES
    ImplementsClock
    HangsOnlyOnGiveUp
CHECK_DEADLOCK FALSE

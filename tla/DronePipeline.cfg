SPECIFICATION FairSpec
CONSTANTS
    Drones = {d1}
    Charger = charger
    Consumers = {c1, c2}
    Duration = 2
    ReadCount = 2
    BatchSize = 3
    MaxTries = 2
    MaxStream = 3
    MaxErrors = 1
INVARIANTS
    TypeOK
    Accounted
    LateLossBounded
PROPERTIES
    ImplementsDelivery
    HangsOnlyWithoutLast
CHECK_DEADLOCK FALSE

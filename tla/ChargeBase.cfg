SPECIFICATION FairSpec
CONSTANTS
    Drones = {d1, d2}
    None = None
    Full = 9
    Landings = {0}
    Rates = {2}
    Unit = 4
    Factors = {3, 8}
    Grain = 4
    TopGain = 4
    PopLimit = 1
    QueueLimit = 1
    MaxFaults = 2
    MaxErrors = 2
INVARIANTS
    TypeOK
    OneBerth
    SetFollowsMap
    GhostsAreReturned
PROPERTIES
    ImplementsService
    ChargedInTheEnd
CHECK_DEADLOCK FALSE

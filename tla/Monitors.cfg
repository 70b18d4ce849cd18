SPECIFICATION FairSpec
CONSTANTS
    d1 = d1
    d2 = d2
    Drones = {d1, d2}
    Hungry = {d2}
    Tables <- MCTables
    MinRecharge = 2
    MaxRecharge = 2
    Gap = 2
    MaxCommits = 3
    MaxErrors = 1
INVARIANTS
    TypeOK
    LogsTellTruth
    NothingSkipped
    AreaBrackets
PROPERTIES
    EndsUnlessStuck
CHECK_DEADLOCK FALSE

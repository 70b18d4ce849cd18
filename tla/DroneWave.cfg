SPECIFICATION FairSpec
CONSTANTS
    Size = 2
    Border = 3
    Step = 1
    DirStep <- TwoWays
    FullCharge = 18
    Rate = 1
    Grace = 2
    Duration = 40
    Faults <- AllFaults
    FaultTicks <- Ticks
    MaxFaults = 2
INVARIANTS
    TypeOK
    CountsCover
    OnlyDoubleCountStartsEarly
    OneFate
PROPERTIES
    WaitsOnlyForSomeone
    ResumeSurvives
    WaveEmpties
CHECK_DEADLOCK FALSE

SPECIFICATION FairSpec
CONSTANTS
    Size = 3
    Border = 2990000
    Step = 20000
    DirStep <- RealWays
    FullCharge = 10000000
    Rate = 13444
    Grace = 20
    Duration = 1000
    Faults <- Losses
    FaultTicks <- LineTicks
    MaxFaults = 1
INVARIANT
    HealthyReturn
CHECK_DEADLOCK FALSE

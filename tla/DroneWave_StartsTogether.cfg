SPECIFICATION FairSpec
CONSTANTS
    Size = 3
    Border = 3
    Step = 1
    DirStep <- ThreeWays
    FullCharge = 18
    Rate = 1
    Grace = 2
    Duration = 40
    Faults <- Reconnections
    FaultTicks <- Ticks
    MaxFaults = 1
INVARIANT
    StartsTogether
CHECK_DEADLOCK FALSE

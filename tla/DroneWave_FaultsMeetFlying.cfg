SPECIFICATION FairSpec
CONSTANTS
    Size = 2
    Border = 3
    Step = 1
    DirStep <- TwoWays
    FullCharge = 18
    Rate = 1
    Grace = 2
    Duration = 40
    Faults <- Reconnections
    FaultTicks <- Ticks
    MaxFaults = 1
INVARIANT
    FaultsMeetFlying
CHECK_DEADLOCK FALSE

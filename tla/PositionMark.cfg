SPECIFICATION FairSpec
CONSTANTS
    Ticks = {minute, fast}
    MinuteTick = minute
    Multiples = {0, 4, 6, 8}
    One = 4
    PartialAt = 10
    TakeProfit = 12
    TrailArm = 8
    TrailKeep = 3
    BreakEvenArm = 6
    BreakEvenExit = 4
    TimeExit = 1
    Stagnation = 1
    PumpCheck = 0
    Pump = TRUE
    MaxHours = 1
    NotFlat = NotFlat
INVARIANTS
    MarkInv
    HeldMeansNoStop
PROPERTY
    TimeExitComes
CHECK_DEADLOCK FALSE

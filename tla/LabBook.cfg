SPECIFICATION Spec
CONSTANTS
    Coins = {c1, c2}
    Hands = {h1}
    Tick = tick
    Marks = {2}
    Start = 4
    Size = 2
    Rungs = {1, 2, 4}
    MaxConcurrent = 1
    MaxExposure = 4
    Floor = 3
    CycleGain = 2
    MaxCycles = 2
    NoValue = NoValue
SYMMETRY Symmetry
INVARIANTS
    LabInv
    SequentialBooks
    ConcurrencyHolds
PROPERTY
    FailedIsFinal

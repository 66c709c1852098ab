SPECIFICATION FairSpec
CONSTANTS
    Buys = {b1}
    OwnBuys = {b1}
    Workers = {w1, w2}
    Exits = {x1}
    MaxAttempts = 1
    MaxFailures = 1
    MaxClears = 1
    NoIntent = NoIntent
    NoBuy = NoBuy
INVARIANTS
    FailureBudget
    IInv
PROPERTIES
    IntentResolves
    TerminalIsFinal
    ImplementsLedger

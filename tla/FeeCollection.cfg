SPECIFICATION Spec
CONSTANTS
    Requests = {r1, r2}
    MaxMonth = 4
    Pnl <- GainAndLoss
    MaxTrades = 3
    Share = 2
SYMMETRY Symmetry
INVARIANTS
    FeeInv
    FeeSentOnce
    PaidWasSent
    ChargedOnce
CHECK_DEADLOCK FALSE

SPECIFICATION Spec
CONSTANTS
    Buys = {b1}
    OwnBuys = {}
    Workers = {w1, w2}
    Exits = {x1, x2}
    MaxAttempts = 2
    MaxFailures = 2
    MaxClears = 0
    NoIntent = NoIntent
    NoBuy = NoBuy
SYMMETRY Symmetry
INVARIANTS
    SentOnce
    RetryableSoldNothing
    BooksMatchChain
    DisputeIsReal
    ExecutedSellBound
    SoldOnce

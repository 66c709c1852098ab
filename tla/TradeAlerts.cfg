SPECIFICATION FairSpec
CONSTANTS
    Positions = {p1}
    Ticks = {d1, d2}
    Devices = {v1}
    MAX_ATTEMPTS = 2
    Backoff <- MCBackoff
    MAX_PER_TICK = 2
INVARIANTS
    AlertInv
    TwiceOnlyIfLost
    OpenArrivesFirst
    PushedMeansAsked
PROPERTY
    AlertEnds

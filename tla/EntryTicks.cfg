SPECIFICATION Spec
CONSTANTS
    Owner = owner
    Members = {m1}
    OWN_SWITCH_MEMBERS = {m1}
    Coins = {c1, c2, c3}
    Drivers = {d1, d2}
    MaxOpen = 1
    MaxTrades = 1
    MaxCoin = 1
    NoBuy = NoBuy
SYMMETRY Symmetry
INVARIANTS
    EntryInv
    DailyTradesBound

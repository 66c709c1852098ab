SPECIFICATION Spec
CONSTANTS
    Requests = {q1, q2}
    Processes = {p1}
    Rugs = {r1}
    Choices <- MCChoices
    base = base
    q50 = q50
    NoStrategy = NoStrategy
    NoTicket = NoTicket
    MaxClock = 3
    MaxRestarts = 1
SYMMETRY Symmetry
INVARIANTS
    SwitchInv
    OneStopPerRug
    RestartIsUndoneOnce
PROPERTY
    ImplementsSwitch

SPECIFICATION FairSpec
CONSTANTS
    Tokens = {t1}
    Workers = {w1, w2}
    Threshold = 3
    MinFailing = 3
    RetryIdle = 3
    Cooldown = 2
    PriorityInterval = 1
    Interval = 2
    MaxBackoff = 3
    Never = Never
INVARIANTS
    EvidenceInv
    ParkedOnEvidence
PROPERTY
    NeverStranded

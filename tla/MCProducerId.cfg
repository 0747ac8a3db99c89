SPECIFICATION Spec
CONSTANTS
    Brokers = {b1, b2}
    Partitions = {p1, p2}
    Slots = {s1, s2}
    PidIds = {7}
    EpochMax = 2
    Gapless = FALSE
    None = None
    NoReq = NoReq
    MaxDrains = 2
SYMMETRY Symmetry
INVARIANTS
    CounterExact
    RequestsCarryTopparPid
    BumpsAValidPid
PROPERTY
    EpochNeverGoesBack
CHECK_DEADLOCK FALSE

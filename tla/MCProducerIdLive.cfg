SPECIFICATION FairSpec
CONSTANTS
    Brokers = {b1, b2}
    Partitions = {p1}
    Slots = {s1, s2}
    PidIds = {7}
    EpochMax = 2
    Gapless = TRUE
    None = None
    NoReq = NoReq
    MaxDrains = 2
PROPERTY
    BumpCompletes
CHECK_DEADLOCK FALSE

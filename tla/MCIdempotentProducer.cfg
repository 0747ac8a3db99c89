SPECIFICATION MCSpec
CONSTANTS
    Brokers = {b1, b2}
    None = None
    BatchMax = 2
    Window = 3
    MaxRetries = 1
    Gapless = FALSE
    SeqMax = 99
    Faults <- MCFaults
    MaxMsgs = 3
    MaxReqs = 4
CHECK_DEADLOCK FALSE
INVARIANTS MessageConserved WritesInOrder StatusTruthful RequestsSound

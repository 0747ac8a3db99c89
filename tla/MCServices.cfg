SPECIFICATION Spec
CONSTANTS
    None = None
    r1 = r1
    r2 = r2
    b1 = b1
    b2 = b2
    t1 = t1
    t2 = t2
    t3 = t3
INVARIANTS AdminSafe TimersSafe TopicSafe MsgSetsSound
PROPERTIES ServicesProgress
CHECK_DEADLOCK FALSE

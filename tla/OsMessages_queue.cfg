CONSTANTS
    Threads = {t1, t2, t3}
    Messages = {m1, m2}
    NumSlots = 3
    Capacities = {0, 2, 3}
    MaxWake = 3
    NoMessage = NoMessage
    NoCall = NoCall
SPECIFICATION Spec
INVARIANTS
    TypeOK
    RingInBounds
    NoLostWakeup
PROPERTY
    FifoSpec

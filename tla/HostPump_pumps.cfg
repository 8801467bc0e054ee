SPECIFICATION FairSpec
CONSTANTS
    hi = hi
    lo = lo
    Threads = {hi, lo}
    Prio <- MCPrio
    Cancellable = {hi, lo}
    Alarms = {a1, a2}
    MaxWait = 1
    GuestBatch = 2
    HostBatch = 1
    MinDrain = 2
    MaxCallbacks = 1
INVARIANTS
    TypeOK
    QueueSorted
    OneDispatch
    DisableBalanced
PROPERTY
    DueIsServed
CHECK_DEADLOCK FALSE

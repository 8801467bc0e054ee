SPECIFICATION Spec
CONSTANTS
    hi = hi
    lo = lo
    Threads = {hi, lo}
    Prio <- MCPrio
    Cancellable = {}
    Alarms = {a1, a2}
    MaxWait = 1
    GuestBatch = 2
    HostBatch = 1
    MinDrain = 2
    MaxCallbacks = 1
INVARIANT
    GuardStaysWithDispatch
CHECK_DEADLOCK FALSE

SPECIFICATION Spec
CONSTANTS
    main = main
    t1 = t1
    t2 = t2
    q1 = q1
    m1 = m1
    Threads = {main, t1, t2}
    Main = main
    Queues = {q1}
    Mutexes = {m1}
    NumPrio = 2
    BasePrio <- MainLast
    Guests = { {"create", "resume", "exit", "join", "lock", "sleep", "wakeup"} }
    MaxSuspend = 1
    MaxCount = 1
    MaxDepth = 4
    NoThread = NoThread
    NoQueue = NoQueue
    IdleContext = IdleContext
INVARIANTS
    TerminatedThreadIsCleanedUp
CHECK_DEADLOCK FALSE

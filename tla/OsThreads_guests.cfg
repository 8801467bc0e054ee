SPECIFICATION Spec
CONSTANTS
    main = main
    t1 = t1
    t2 = t2
    q1 = q1
    m1 = m1
    m2 = m2
    Threads = {main, t1, t2}
    Main = main
    Queues = {q1}
    Mutexes = {m1, m2}
    NumPrio = 3
    BasePrio <- Graded
    Guests = { {"create", "resume", "cancel", "exit", "join", "detach", "sleep", "wakeup"},
               {"create", "resume", "lock", "unlock", "sleep", "wakeup", "yield"},
               {"create", "resume", "suspend", "lock", "unlock", "yield"},
               {"create", "resume", "suspend", "ticks", "yield", "sleep", "wakeup"},
               {"create", "resume", "disable", "callback", "sleep", "wakeup", "ticks"}}
    MaxSuspend = 2
    MaxCount = 2
    MaxDepth = 4
    NoThread = NoThread
    NoQueue = NoQueue
    IdleContext = IdleContext
CHECK_DEADLOCK FALSE
INVARIANTS
    TypeOK
    QueuesWellFormed
    NoLostThread
    HostRunsRunningThread
    MutexConsistent
    PriorityInherited
    MostUrgentRuns
PROPERTIES
    TimerWakesSleeper
    NoSwitchWhileDisabled
    ImplementsGuestMutex

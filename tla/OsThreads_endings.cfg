SPECIFICATION FairSpec
CONSTANTS
    main = main
    t1 = t1
    t2 = t2
    q1 = q1
    m1 = m1
    Threads = {main, t1, t2}
    Main = main
    Queues = {q1}
    Mutexes = {m1}
    NumPrio = 2
    BasePrio <- MainLast
    MaxSuspend = 1
    MaxCount = 1
    MaxDepth = 3
    NoThread = NoThread
    NoQueue = NoQueue
    IdleContext = IdleContext
    Guests = { {"create", "resume", "exit", "cancel", "join", "lock", "unlock"},
               {"create", "resume", "lock", "unlock", "ticks", "sleep", "wakeup"},
               {"create", "resume", "return", "exit", "cancel", "yield"} }
INVARIANTS
    MutexConsistent
    TerminatedThreadIsCleanedUp
PROPERTIES
    HandlersEnd
    SleepersAreServed
CHECK_DEADLOCK FALSE

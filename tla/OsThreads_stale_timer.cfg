SPECIFICATION Spec
CONSTANTS
    main = main
    t1 = t1
    t2 = t2
    Threads = {main, t1, t2}
    Main = main
    Queues = {}
    Mutexes = {}
    NumPrio = 2
    BasePrio <- MainLast
    Guests = { {"create", "resume", "cancel", "join", "ticks"} }
    MaxSuspend = 1
    MaxCount = 1
    MaxDepth = 4
    NoThread = NoThread
    NoQueue = NoQueue
    IdleContext = IdleContext
PROPERTIES
    TimerWakesSleeper
CHECK_DEADLOCK FALSE

CONSTANTS
    Threads = {t1}
    NumFds = 1
    MaxRequests = 2
    MaxSockets = 2
    NoThread = NoThread
    NotSet = NotSet
SPECIFICATION Spec
INVARIANTS
    TypeOK
    WokenHasItsResult
    OneAnswerPerRequest
PROPERTIES
    ConnectedIsCurrent
    Answered
CHECK_DEADLOCK FALSE

CONSTANTS
    Slots = 3
    SlotUnits = 3
    BlockUnits = 2
    Limit = 5
    MaxBacklog = 2
    MaxTick = 2
    MaxResumes = 2
    Buffers = {b1, b2}
    Uploads = {b1, b2}
    Worlds = {{"renderer"}, {"ax"}}
    NotRead = NotRead
SPECIFICATION Spec
INVARIANTS
    TypeOK
    MixIsDoneWhenRead
    MixReadsAsIfAtOnce
    BlocksStayWhole
PROPERTIES
    BlocksAreAccepted
    AudioGoesOn
CHECK_DEADLOCK FALSE

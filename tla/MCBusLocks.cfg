SPECIFICATION LockingSpec
CONSTANTS
    FastAddr <- MCFast
    SlowAddr <- MCSlow
    WaitStates = 2
    Modulus = 1
    Master <- LockMaster
    MaxLength = 3
    Blocking <- LockBlocking
    StartAddress <- LockStart
    BurstLength = 3
    Span = 8
INVARIANTS
    TypeOK
    SlaveFollowsBus
    OneLock
    GrantServed
    OvertakenLimit
PROPERTY
    ServedDespiteOne

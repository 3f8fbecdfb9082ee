SPECIFICATION LockingSpec
CONSTANTS
    FastAddr <- MCFast
    SlowAddr <- MCSlow
    WaitStates = 1
    Modulus = 1
    Master <- LockMaster
    MaxLength = 3
    Blocking <- LockBlocking
    StartAddress <- LockStart
    BurstLength = 3
    Span = 8
INVARIANT
    HolderServed

SPECIFICATION Spec
CONSTANTS
    FastAddr <- MCFast
    SlowAddr <- MCSlow
    WaitStates = 1
    Modulus = 2
    Master <- DataMaster
    MaxLength = 3
    Blocking <- DataBlocking
    StartAddress <- DataStart
    BurstLength = 3
    Span = 8
INVARIANT
    BurstOutcome
PROPERTIES
    ServiceSpec
    BurstReturns

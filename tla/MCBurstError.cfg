SPECIFICATION Spec
CONSTANTS
    FastAddr <- MCFast
    SlowAddr <- MCSlow
    WaitStates = 1
    Modulus = 1
    Master <- OutsideMaster
    MaxLength = 3
    Blocking <- OutsideMaster
    StartAddress <- OutsideStart
    BurstLength = 3
    Span = 8
PROPERTY
    BurstReturns

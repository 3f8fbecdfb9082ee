SPECIFICATION RunSpec
CONSTANTS
    Timeout = 30
    ComTimeout = 5
    CrcWords = 1
    MemoryEnd = 51
    ImageMaxSize = 6
    FreshMem = {0}
    RunTime = 3000
    ByteSize = 4
    XorByte <- MCXorByte
    Digest <- MCDigest
    Lines <- MCLines
    Image <- MCImage
INVARIANTS
    OneStageAtATime
    DecryptionSweep
    RotatesImageAtBase
    FinishOnlyWhenComplete
    Pace
PROPERTIES
    ImageProcessed
    PipelineSpec

CHECK_DEADLOCK FALSE

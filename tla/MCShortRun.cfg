SPECIFICATION RunSpec
CONSTANTS
    Timeout = 30
    ComTimeout = 5
    CrcWords = 16
    MemoryEnd = 51
    ImageMaxSize = 6
    FreshMem = {0}
    RunTime = 1464
    ByteSize = 4
    XorByte <- MCXorByte
    Digest <- MCDigest
    Lines <- MCLines
    Image <- MCImage
PROPERTY
    RotatedInTime
CHECK_DEADLOCK FALSE

SPECIFICATION Spec
CONSTANTS
    Timeout = 30
    ComTimeout = 5
    CrcWords = 1
    MemoryEnd = 51
    ImageMaxSize = 6
    FreshMem = {0}
    ByteSize = 4
    XorByte <- MCXorByte
    Digest <- MCDigest
    Lines <- MCLines
INVARIANT
    TooBigNotRotated

SPECIFICATION Spec
CONSTANTS
    Timeout = 30
    ComTimeout = 5
    CrcWords = 2
    MemoryEnd = 23
    ImageMaxSize = 4
    FreshMem = {0, 1, 9}
    ByteSize = 4
    XorByte <- MCXorByte
    Digest <- MCDigest
    Lines <- MCLines
INVARIANTS
    TypeOK
    PacketIntegrity
    StoredInOrder
PROPERTIES
    ChannelSpec
    EventuallyAnnounced
    RefusedImageStays
    RefusedForEver

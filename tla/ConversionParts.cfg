\* A buffer of four, of which a flush writes half: an input of eight messages
\* with three keys fills it up to three times.  Five calls of one device on its
\* stream, or four of two devices, on streams of their own and on one they
\* share.  Numbers up to 6 wrap a counter of three values twice, so that a gap
\* may be as long as the counter and longer.  Payloads around the two bytes of
\* a LIN header, the eight of a message and the ten of LIN; two devices, three
\* interfaces; map files of up to two entries.
CONSTANTS
    d1 = d1
    d2 = d2
    s1 = s1
    s2 = s2
    i1 = i1
    i2 = i2
    MaxKey = 3
    MaxPushes = 8
    Capacity = 4
    FlushSize = 2
    Entry <- MCEntry
    Devices = {d1, d2}
    Streams = {s1, s2}
    Interfaces = {i1, i2}
    CounterMod = 3
    Mapped <- MCMapped
    Messages <- MCMessages
    MaxCalls = 5
    MaxMixed = 4
    Sources <- TwoDevices
    MaxSent = 6
    MaxArrived = 3
    Byte = 4
    Half = 16
    Word = 4
    BuiltIn <- MCBuiltIn
    Lengths = {0, 1, 2, 3, 8, 9, 10, 11, 12}
    BusDevices = {0, 1}
    BusInterfaces = {0, 1, 2}
    Frames <- MCFrames
    Documents <- MCDocuments
SPECIFICATION MCSpec
INVARIANTS
    BoundedBuffer
    NothingLostOrDuplicated
    InputOrderKept
    EqualKeysKeepOrder
    SortedWhenDisorderBounded
    FramesAreWhole
    EveryWholeFrameReturned
    ActiveContextsAreChains
    CountIsExact
    NoLossUnreported
    PayloadKept
    NoByteFromBeyond
    NetworkFromLatestMap
    SurvivesDatabase
PROPERTIES
    FlushesEarliest

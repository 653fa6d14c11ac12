\* Segments of two devices on one stream, on the instance of ConversionParts.
CONSTANTS
    d1 = d1
    d2 = d2
    s1 = s1
    s2 = s2
    i1 = i1
    i2 = i2
    MaxKey = 3
    MaxPushes = 8
    Capacity = 4
    FlushSize = 2
    Entry <- MCEntry
    Devices = {d1, d2}
    Streams = {s1, s2}
    Interfaces = {i1, i2}
    CounterMod = 3
    Mapped <- MCMapped
    Messages <- MCMessages
    MaxCalls = 5
    MaxMixed = 4
    Sources <- TwoDevices
    MaxSent = 6
    MaxArrived = 3
    Byte = 4
    Half = 16
    Word = 4
    BuiltIn <- MCBuiltIn
    Lengths = {0, 1, 2, 3, 8, 9, 10, 11, 12}
    BusDevices = {0, 1}
    BusInterfaces = {0, 1, 2}
    Frames <- MCFrames
    Documents <- MCDocuments
SPECIFICATION MCSpec
INVARIANT
    NoFrameOfTwoDevices

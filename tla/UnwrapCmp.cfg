CONSTANTS
    d1 = d1
    d2 = d2
    s1 = s1
    s2 = s2
    i1 = i1
    i2 = i2
    NoNetwork = NoNetwork
    Devices = {d1, d2}
    Streams = {s1, s2}
    Interfaces = {i1, i2}
    Mapped <- MCMapped
    CounterMod = 3
    Messages <- MCMessages
    MaxCalls = 5
    MaxMessages = 5
    Entry <- MCEntry
    Capacity = 3
    FlushSize = 1
    ProgressEvery = 2
    Arguments <- MCCalls
SPECIFICATION MCSpec
INVARIANTS
    NativeIffDecodable
    DropEventsMatchInput
    OuterTimestampsKeepOrder
PROPERTIES
    ImplementsConversion

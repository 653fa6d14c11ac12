\* Recordings of up to three messages, complete or without their last bytes,
\* few or several messages' worth; two sizes of payload in line, three EDP
\* entries referred to in every order; buffers that are too small for all
\* payloads, for some and for none.  For Python: recordings of up to four
\* messages that fit the first buffer, are too large for it or are refused, one
\* that cannot be read; the file is opened three times, two loops are in one
\* another.
CONSTANTS
    HeaderSize = 16
    SizeField = 1
    EndSlack = 12
    TimeTrailer = 6
    EdpStart = 4
    FakeSize = 12500
    Files <- MCFiles
    MinLength = 0
    MaxLength = 3
    Cuts = {0, 1, 5, 15, 17, 30}
    InLine = {0, 2, 20}
    Sections <- MCSections
    Dangling = {5}
    Words = {0, 5}
    Buffers = {16, 18, 40}
    Sizes = {0, 1, 2, 3}
    MaxReads = 4
    StartSize = 1
    MaxOpens = 3
    MaxLoops = 2
    PyFiles <- MCPyFiles
SPECIFICATION MCSpec
INVARIANTS
    ReadsInOrder
    PayloadsAreOwn
    GivenStaysValid
    HandlesClosedOnce
    BuffersFreedOnce
    LoopsAreComplete
PROPERTIES
    KeepsPromise
    ReadingEnds
    LoopsEnd

CONSTANTS
    HeaderSize = 16
    SizeField = 1
    EndSlack = 12
    TimeTrailer = 6
    EdpStart = 4
    FakeSize = 12500
    Files <- MCFiles
    MinLength = 1
    MaxLength = 2
    Cuts = {0}
    InLine = {0, 2}
    Sections <- OneEntry
    Dangling = {}
    Words = {0, 1}
    Buffers = {16, 40}
    Sizes = {1}
    MaxReads = 1
    StartSize = 1
    MaxOpens = 3
    MaxLoops = 2
    PyFiles <- MCPyFiles
SPECIFICATION MCSpec
INVARIANTS
    InvalidMeansCorrupted

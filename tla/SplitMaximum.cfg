\* The largest size that is asked for, and what the parts have.
CONSTANTS
    HeaderSize = 16
    FileHeader = 2
    ProgressEvery = 2
    Times = {1, 2}
    Payloads = {0, 8}
    SourceLength = 4
    FileLength = 2
    MaxShort = 2
    Sources <- MCSources
    Bounds <- MCBounds
    Directories <- MCDirectories
SPECIFICATION MCSpec
INVARIANT
    PartsWithinMaximum

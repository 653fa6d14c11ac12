\* Sources of up to four messages with and without payload, split by one or
\* two messages or by a size that one, two or three messages reach, at most one
\* of their parts missing; directories of up to three files of up to two
\* messages with two times, each unreadable, complete or cut off by a refused
\* payload; up to two writes that fall short; a callback at every second message.
CONSTANTS
    HeaderSize = 16
    FileHeader = 2
    ProgressEvery = 2
    Times = {1, 2}
    Payloads = {0, 8}
    SourceLength = 4
    FileLength = 2
    MaxShort = 2
    Sources <- MCSources
    Bounds <- MCBounds
    Directories <- MCDirectories
SPECIFICATION MCSpec
INVARIANTS
    PartsAreTheFile
    PartsAreFull
    ReadersDeletedOnce
    OutputFollowsMerge
    RoundTrip
PROPERTIES
    MergesByTime

\* A recording of six messages in any order with a cache of four; two
\* recordings of up to three and two messages with equal keys; every kind of
\* time stamp. A half of a time stamp has 1024 values, a second 1000
\* nanoseconds, a network a low byte of four.
CONSTANTS
    Word = 1024
    ShortWord = 16
    Wrap = 26000016
    EpochOffset = 100000
    Second = 1000
    Micro = 25
    Byte = 4
    CacheLimit = 4
    ProgressEvery = 2
    Histories <- MCHistories
    Filters <- MCFilters
    LongStamps <- MCLongStamps
SPECIFICATION MCSpec
INVARIANTS
    StoredInOrder
    SummariesMatch
    ExportIsTheInput
    TimesAreNanoseconds
    CaptureMatches
PROPERTIES
    KeepsFirstOfEachKey

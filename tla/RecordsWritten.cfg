\* An export whose file cannot be created, and one that is stopped.
CONSTANTS
    Word = 1024
    ShortWord = 16
    Wrap = 26000016
    EpochOffset = 100000
    Second = 1000
    Micro = 25
    Byte = 4
    CacheLimit = 4
    ProgressEvery = 2
    Histories <- MCHistories
    Filters <- MCFilters
    LongStamps <- MCLongStamps
SPECIFICATION MCSpec
INVARIANT
    RecordsWrittenReturned

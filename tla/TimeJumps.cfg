\* Time stamps of the kind that counts 10 ns, with the high half in use.
CONSTANTS
    Word = 1024
    ShortWord = 16
    Wrap = 26000016
    EpochOffset = 100000
    Second = 1000
    Micro = 25
    Byte = 4
    CacheLimit = 4
    ProgressEvery = 2
    Histories <- MCHistories
    Filters <- MCFilters
    LongStamps <- RedLongStamps
SPECIFICATION MCSpec
INVARIANT
    TimesAreNanoseconds

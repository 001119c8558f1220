SPECIFICATION FairSpec
CONSTANTS
    FileLen = 7
    SkipAhead = 4
    Ahead = 2
    Behind = 2
    BackOff = 1
    KeptMax = 2
    Retries = 1
    MaxRanges = 4
    MaxFetches = 2
    MaxFaults = 1
    Reads <- MCReads

PROPERTY EveryReadReturns
CHECK_DEADLOCK FALSE

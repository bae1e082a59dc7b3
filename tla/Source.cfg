SPECIFICATION FairSpec

CONSTANTS
    MaxThreads = 7
    CreateMayFail = TRUE
    RetryMax = 2
    RetrySec = 2
    MaxRetrySec = 3
    MaxFaults = 3
    LateFaults = 2
    ReadThreshold = 2

 
PROPERTY LossIsRetried 
\* The source may come to rest: freed, given up, or reading with no failure left.
CHECK_DEADLOCK FALSE

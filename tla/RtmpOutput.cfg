SPECIFICATION FairSpec

CONSTANTS
    MaxThreads = 6
    CreateMayFail = TRUE
    RetryMax = 3
    RetrySec = 2
    MaxRetrySec = 5
    Prompt = TRUE
    Releases = TRUE
    MaxFaults = 4
    LateFaults = 2

INVARIANT RetryLadder 
PROPERTY LossIsRetried
\* The output may come to rest: freed, given up, or sending with no failure left.
CHECK_DEADLOCK FALSE

SPECIFICATION FairSpec

CONSTANTS
    MaxThreads = 9
    CreateMayFail = FALSE
    RetryMax = 1
    RetrySec = 2
    MaxRetrySec = 5
    Prompt = TRUE
    Releases = TRUE
    MaxFaults = 1
    LateFaults = 1

PROPERTY StopReturns
\* The output may come to rest: freed, given up, or sending with no failure left.
CHECK_DEADLOCK FALSE

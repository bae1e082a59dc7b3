\* Two printers, a ring of three lines at most, files of a few bytes.
SPECIFICATION FairSpec
CONSTANTS
    Printers = {p1, p2}
    BuffSize = 7
    MaxLine = 3
    LineLens = {2}
    Blocks = {TRUE, FALSE}
    MaxLines = 4
    MaxFaults = 1
    LogSize = 1
    LogCount = 1
INVARIANT LinesAccounted 
PROPERTY LoggingEnds

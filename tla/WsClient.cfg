SPECIFICATION FairSpec

CONSTANTS
    Addresses = {a, b}
    RecordDestMax = 1
    RecordNodeMax = 2
    RepeatedGapMax = 30
    Now = 1000
    MaxMsgNo = 0
    MaxReceived = 2
    MaxSends = 2
    MaxFaults = 2

INVARIANT  AuthFirst
PROPERTY Progresses
\* The process may end: registration refused, destroyed or aborted.
CHECK_DEADLOCK FALSE

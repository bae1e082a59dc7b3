SPECIFICATION MCSpec

CONSTANTS
    Nodes = {n1, n2, n3}
    Names = {camera, other}
    Owners = {o1, o2, o3}
    Null = null
    Sns = {sn1}
    StreamNames = {s1}
    OutputNames = {w1, w2}
    MaxDevices = 2
    MaxStreams = 1
    Config <- MCConfig

INVARIANT  StreamsAreSound
 
\* The core may be shut down, hung or broken.
CHECK_DEADLOCK FALSE

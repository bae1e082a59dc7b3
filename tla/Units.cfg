SPECIFICATION Spec
CONSTANTS
  LongFrom = 5
  MaxEnd = 60
  Rates = {2, 3, 4, 5}
  Signals <- MCSignals
  MaxSamples = 200
  MaxAhead = 2
  Strings <- MCStrings
  Pointers = {p1, p2}
  Align = 2
  Garbage = garbage
  None = none
  Cells = {1, 2, 3, 4}
  Names = {1, 2, 3}
  Atoms = {7}
  MaxHeld = 2
  MaxItems = 3
  MaxVersion = 4
  Addresses = 3
  Ts = 3
  Payload = 6
  Pieces = {1, 2, 4, 6, 7, 13}
  MaxPacket = 20
  ErrorThreshold = 1
  MaxTime = 7
  MaxMuxers = 2
  Users = {u1, u2, u3}
  Keys = {1, 2}
  Segments = {1, 2}
\* One user of the shared memory is as good as another.
SYMMETRY MCUsers
INVARIANT AmfKept CodecsAgree SettingsSound ConfigSurvives MediaArrives  MemoryIsShared
PROPERTY ItemImplements MuxNeverBack
\* Conversions are done once, and every bounded unit ends.
CHECK_DEADLOCK FALSE

SPECIFICATION Spec
CONSTANTS
  HasUser = TRUE
  Window = 3
  Rooms = {0, 1}
  MaxAttempts = 2
  MaxAuth = 2
  MaxExtra = 1
  MaxMedia = 1
INVARIANT SocketsAccounted SessionAgrees
PROPERTY AttemptEnds
CHECK_DEADLOCK FALSE

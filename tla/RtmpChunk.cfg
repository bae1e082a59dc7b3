SPECIFICATION Spec
CONSTANTS
  Channels = {2, 4, 5}
  Types = {"info", "audio", "video"}
  Sizes = {1, 3}
  Times = {0, 2, 6}
  TsMod = 8
  ExtTs = 5
  DataFrame = 2
  ChunkSizes = {2, 4}
  DefaultChunk = 2
  MaxMessages = 3
INVARIANT ChunksRead
PROPERTY Delivered
CHECK_DEADLOCK FALSE

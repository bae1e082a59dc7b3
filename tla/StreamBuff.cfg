\* Every interleaving of one writer and one reader that go round the ring
\* twice: four records, eight bytes; four bytes are too many to put, three too many to get.
SPECIFICATION FairSpec
CONSTANTS
  Readers = {r1}
  MaxValidFrames = 4
  DataSize = 8
  RecSize = 1
  FrameTypes = {"I", "P"}
  Lens = {2, 3, 4}
  MaxFrameLen = 2
  JumpBack = 2
  MaxPuts = 7
\* The writer stops at its bound and a reader level with it has nothing to do.
CHECK_DEADLOCK FALSE
INVARIANTS RingHoldsTail DeliveredIntact NewestTwoSurvive NeverAhead FirstIsKey
PROPERTY NeverBack ReaderDrains

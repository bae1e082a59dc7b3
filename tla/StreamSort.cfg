SPECIFICATION Spec
CONSTANTS
  Stamps = {1, 2, 3, 4, 5}
  Lens = {1, 2}
  uiSize = 4
  MAX_SORT_BUFF_LEN = 8
  RingHalf = 9
  uiSortTimeBak = 1
  uiMaxSortTime = 3
  LongTime = 1
  ShortTime = 1
  Fall1 = 2
  Fall2 = 1
  JumpTime = 3
  DropLimit = 1
  UintMod = 16
  MaxPuts = 6
  MaxDrops = 3
INVARIANT SortsInTime HeldIntact

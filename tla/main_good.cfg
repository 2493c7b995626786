CONSTANTS
  Capacity = 3
  Real = 2
  OffMax = 9
  PageCells = 1
  Kinds = {"blk"}
  Lens = {}
  Rounds <- AllRounds
  MaxErrs = 3
  MaxRots = 0
  Chunk = 2
  Unlimited = 9
  Seeks = {0}
  Sizes = {2, 9}
  MaxCalls = 8
  U64Max = 3
SPECIFICATION MainSpec
INVARIANTS
  MainTypeOK
  NoMismatchOnGoodDisk
  SuccessMeansTested
  FakeNeverSucceeds

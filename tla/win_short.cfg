CONSTANTS
  Capacity = 3
  Real = 3
  OffMax = 9
  DiskSize = 3
  PageCells = 1
  Kinds = {"blk"}
  Lens = {}
  Rounds = {0}
  MaxErrs = 0
  MaxRots = 0
  Chunk = 2
  Unlimited = 9
  Seeks = {0}
  Sizes = {4}
  MaxCalls = 1
SPECIFICATION WinSpec
INVARIANTS
  OkMeansComplete

CONSTANTS
  Capacity = 4
  Real = 4
  OffMax = 9
  PageCells = 2
  Kinds = {"blk"}
  Lens = {}
  Rounds = {0}
  MaxErrs = 0
  MaxRots = 0
  Chunk = 2
  Unlimited = 9
  Seeks = {0}
  Sizes = {3}
  MaxCalls = 1
SPECIFICATION Spec
INVARIANTS
  ColdAfterWrite

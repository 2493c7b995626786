CONSTANTS
  Capacity = 2
  Real = 2
  OffMax = 9
  PageCells = 1
  Kinds = {"blk"}
  Lens = {}
  Rounds <- AllRounds
  MaxErrs = 0
  MaxRots = 0
  Chunk = 2
  Unlimited = 9
  Seeks = {0}
  Sizes = {2}
  MaxCalls = 8
  U64Max = 3
SPECIFICATION MainSpec
INVARIANTS
  AbortStopsRounds

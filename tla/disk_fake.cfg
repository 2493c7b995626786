CONSTANTS
  Capacity = 3
  Real = 2
  OffMax = 9
  PageCells = 1
  Kinds = {"blk"}
  Lens = {0}
  Rounds = {0, 1}
  MaxErrs = 2
  MaxRots = 1
  Chunk = 2
  Unlimited = 9
  Seeks = {0}
  Sizes = {2, 9}
  MaxCalls = 2
SPECIFICATION Spec
INVARIANTS
  WriteOkDurable
  ColdAfterWrite
  VerifySound
  FakeDetected

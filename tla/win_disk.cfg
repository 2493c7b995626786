CONSTANTS
  Capacity = 4
  Real = 3
  OffMax = 5
  DiskSize = 3
  PageCells = 1
  Kinds <- BothKinds
  Lens = {0}
  Rounds = {0}
  MaxErrs = 1
  MaxRots = 0
  Chunk = 2
  Unlimited = 9
  Seeks = {0, 5, 6}
  Sizes = {3,9}
  MaxCalls = 2
SPECIFICATION WinFairSpec
INVARIANTS
  WinWriteOkDurable
  ColdAfterWrite
  VerifySound
  FakeDetected
  OkFillsDisk
PROPERTIES
  WinCallReturns

CONSTANTS
  Capacity = 3
  Real = 3
  OffMax = 5
  PageCells = 2
  Kinds <- AllKinds
  Lens = {0, 3}
  Rounds = {0}
  MaxErrs = 2
  MaxRots = 0
  Chunk = 2
  Unlimited = 9
  Seeks = {0, 3, 5, 6}
  Sizes = {0, 2, 4, 9}
  MaxCalls = 2
SPECIFICATION FairSpec
INVARIANTS
  TypeOK
  NoFalseMismatch
  OkMeansComplete
PROPERTIES
  CallReturns

SPECIFICATION FairSpec
CONSTANTS
  MaxThres = 3
  LoThres = 1
  BaseSize = 2
  ChunkFactor = 2
  Offsets <- MCOffsets
  MaxActivations = 2
  MaxTaken = 5
PROPERTIES
  StopReturns

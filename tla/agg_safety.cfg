SPECIFICATION Spec
CONSTANTS
  NumThreads = 3
  MaxThres = 2
  BaseSize = 2
  ChunkFactor = 2
  Offsets <- MCOffsets
  SectorSizes <- MCSectorSizes
  MaxActivations = 2
  MaxGot = 7
INVARIANTS
  TypeOK
  SeekNeverFails
  OffsetsFit
  SectorAligned
  AllocBounded
PROPERTIES
  ImplementsPattern
  UsesSources

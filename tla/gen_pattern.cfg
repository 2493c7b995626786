CONSTANTS
  ByteBits = 2
  CrcBytes = 2
  TidBytes = 1
  WordBytes = 1
  Poly = 9
  BaseWords = 3
  Derive <- MCDerive
  KeyStream <- MCKeyStream
  CipherKey = 2
  Types = {"Crc", "ChaCha"}
  Seeds <- MCSeeds
  Threads = {0, 1, 3}
  Rounds = {0, 1, 5}
  Offsets = {0, 3, 8, 16, 24, 104}
  ChunkFactors = {1, 2}
  MaxCounter = 16
  MaxStarts = 2
SPECIFICATION Spec
INVARIANTS
  ChunkIsPattern
  BlocksDiffer
  KeysDiffer
CHECK_DEADLOCK FALSE

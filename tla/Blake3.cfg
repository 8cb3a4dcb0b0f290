SPECIFICATION HasherSpec
CONSTANTS
  Compress <- MC_Compress
  BLOCK_LEN = 4
  CHUNK_LEN = 8
  MAX_DEPTH = 6
  SizeBits = 9
  InitialKey = 101
  UserKey = 202
  Degrees = {1, 4, 8, 16}
  Lengths <- MC_Lengths
  Windows <- MC_Windows
  MaxUpdates = 3
INVARIANTS
  DigestIsTreeHash
  StackCoversInput
CHECK_DEADLOCK FALSE

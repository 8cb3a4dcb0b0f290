SPECIFICATION Spec
CONSTANTS
  Digests <- MC_Digests
  Bits <- MC_Bits
  Width = 24
  Compress <- MC_Compress
  Inputs <- MC_Inputs
  Sizes <- MC_Sizes
  Blocks = 2
  Key <- MC_Key
  Counters <- MC_Counters
  HalfBits = 4
  Add <- AddW
  Xor <- XorW
  Rotr <- RotrW
  RotrBytes <- ShuffleBytes
  IV <- MC_IV
  Jobs <- MC_Jobs
  AesBlocks = {0, 1, 2, 3, 4, 5, 6, 7}
  XorB <- XorBits
  S <- MC_S
  SInv <- MC_SInv
  Mix <- MC_Mix
  MixInv <- MC_MixInv
  KeyExp <- MC_KeyExp
  CurveP = 43
  CurveA24 = 2
  CurveL = 11
  CurveBase = 4
  WordKeys = {3, 7, 10}
  IdKeys = {1, 2, 5, 8, 11, 13}
  Blinds = {1, 4, 9, 10, 20}
  HexLen = 3
  ULongDigits = 4
  Sources <- MC_Sources
  BigNumbers <- MC_BigNumbers
  Behind <- MC_Behind
  HashThreads = {w1, w2}
  Processors <- MC_Processors
  UNDEFINED = UNDEFINED
INVARIANTS
  DecryptionInverts
  LadderExact
  TokensMeet
  KernelsAgree
  CompressionsAgree
  LeadingBits
  ReadBackExact
  KernelsSupported
CHECK_DEADLOCK FALSE

SPECIFICATION Spec
CONSTANTS
  Keywords <- MC_Keywords
  Docs <- MC_Docs
  Databases <- MC_Databases
  N_threads = 2
  CounterMod = 2
  MAX_BF_BIN_SIZE = 53
  KS = 0
  KI = 0
  KZ = 0
  KX = 0
  AESENC <- MC_AESENC
  AESDEC <- MC_AESDEC
  Scalars <- MC_Scalars
  Mul <- MC_Mul
  Inv <- MC_Inv
  Points <- MC_Scalars
  Base = 7
  ScalarMul <- MC_ScalarMul
  BFIdx <- MC_BFIdx
INVARIANTS
  TypeOK
  Complete
  AnswerInRowOrder
  SpuriousOnlyIfSwapped
CHECK_DEADLOCK FALSE

SPECIFICATION FairSpec
CONSTANTS
  Shapes <- MC_Shapes
  MaxRowIds = 2
  Workers = {w1, w2}
  None = None
  Torn = Torn
  Junk = Junk
INVARIANTS
  TypeOK
  CleanRunExact
  FilterImpliesIndex
PROPERTY
  ServerEnds
CHECK_DEADLOCK FALSE

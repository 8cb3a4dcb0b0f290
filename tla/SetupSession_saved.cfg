SPECIFICATION Spec
CONSTANTS
  Shapes <- MC_Shapes
  MaxRowIds = 2
  Workers = {w1, w2}
  None = None
  Torn = Torn
  Junk = Junk
INVARIANT
  SavedAsAnnounced
CHECK_DEADLOCK FALSE

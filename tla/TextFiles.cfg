SPECIFICATION FilesSpec
CONSTANTS
  Indices <- MC_Indices
  MaxFreq = 3
  MaxLines = 3
  n_iterations = 2
  Malformed = Malformed
  NotNumeric = NotNumeric
  Confs <- MC_Confs
  Missing = Missing
  NotNumber = NotNumber
  Elements <- MC_Elements
  DigestBits = 2
  MaxSet = 2
  Behinds <- MC_Behinds
INVARIANTS
  ResultsLineUp
  RarerFirst
  FilterFaithful
CHECK_DEADLOCK FALSE

SPECIFICATION Spec
CONSTANTS
  NQueries = 2
  RowLen <- MC_RowLen
  Hits <- MC_Hits
  MaxRow = 2
  MaxRuns = 2
  Zero = Zero
  Junk = Junk
INVARIANT ReportedExact

SPECIFICATION FairSpec
CONSTANTS
  Threads = {t1, t2}
  OpCodes = {1}
  Vals = {v1}
  Uninit = Uninit
  Zero = Zero
  IterMod = 3
PROPERTY ReleaseReturns
\* The program ends.
CHECK_DEADLOCK FALSE

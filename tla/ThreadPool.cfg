SPECIFICATION FairSpec
CONSTANTS
  Threads = {t1, t2, t3}
  OpCodes = {1, 8}
  Vals = {v1}
  Uninit = Uninit
  Zero = Zero
  IterMod = 3
INVARIANTS TypeOK RoundSync NoDataRace NoLostWakeup ReleaseRunsNothing
PROPERTIES BatchSpec CallReturns ReleaseReturnsOrMissed
\* The program ends, or hangs in ReleaseThreads (see ThreadPool_release.cfg).
CHECK_DEADLOCK FALSE

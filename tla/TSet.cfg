SPECIFICATION FairSpec
CONSTANTS
  Keywords = {k1, k2}
  Buckets = {b1, b2}
  Period = 2
  JidxMod = 3
  N_threads = 2
  N_max_ids = 3
  MaxSetups = 2
  Absent = Absent
  Garbage = Garbage
INVARIANTS TypeOK EntriesKept RetrieveExact WalkInBuffer

PROPERTY RetrieveEnds

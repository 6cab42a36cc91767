SPECIFICATION FairSpec
CONSTANTS
  NoValue = NoValue
  c1 = c1  c2 = c2  w1 = w1  w2 = w2  r1 = r1  r2 = r2
  Chunks <- MCChunks
  Workers <- MCWorkers
  Results <- MCResults
  MaxFence = 3
INVARIANTS FenceIdentifiesLease AcknowledgedResultStands
PROPERTIES RefinesFencedChunks RunEnds
CHECK_DEADLOCK FALSE

SPECIFICATION Spec
CONSTANTS
  NoValue = NoValue
  w1 = w1  w2 = w2  r1 = r1  r2 = r2  k1 = k1
  Chunks <- MCChunks
  Workers <- MCWorkers
  Results <- MCResults
  Keys <- MCKeys
  Capacity = 1
  Budget = 2
  LeaseMs = 1
  MaxClock = 1
  MaxCalls = 2
SYMMETRY Symm
INVARIANTS CapacityRespected AcceptedUnderHeldToken
PROPERTIES RefinesFencedChunks
CHECK_DEADLOCK FALSE

SPECIFICATION FairSpec
CONSTANTS
  NoValue = NoValue
  p1 = p1  p2 = p2
  Procs <- MCProcs
  Orderings <- MCOrderings
  Body <- MCBody
  MaxLanes <- MCMaxLanes
  MaxPhases = 1
  MaxAttempts = 2
  LostAcks = TRUE
INVARIANTS ProjectionIsAuthorised DeliveredOnce LaneAgreesWithStore
PROPERTIES RefinesHistory FinalizationEnds
CHECK_DEADLOCK FALSE

SPECIFICATION FairSpec
CONSTANTS
  NoValue = NoValue
  w1 = w1  w2 = w2  p1 = p1  p2 = p2  f1 = f1  f2 = f2  r0 = r0  r1 = r1
  Workers <- MCWorkers
  Phases <- MCPhases
  Finalizers <- MCFinalizers
  Roots <- MCRoots
  ExpectedParent = r0
  RequiresQuiescence = TRUE
  Errors = TRUE
INVARIANTS ClosedIsDrained SingleFinalizer OutcomeMatchesWrite
PROPERTIES ElectedTerminates
CHECK_DEADLOCK FALSE

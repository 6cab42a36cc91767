\* Two processes, ids that may collide, and one run kept by retention.
SPECIFICATION RunSpec
CONSTANTS
    Procs = {p1, p2}
    MaxTime = 1
    MaxRuns = 1
INVARIANTS UnmixedBundle SuccessIsWhole
PROPERTIES HardenedStands RunsEnd
CHECK_DEADLOCK FALSE

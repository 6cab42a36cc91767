SPECIFICATION Spec
CONSTANTS
    Nothing = Nothing
    MaxMoves = 1
    MaxRuns = 3
    MaxPolls = 1
    Sources <- MCSources
    ReceiptOptions <- MCReceiptOptions
INVARIANTS AnchoredTogether RowsAdjoin SnapshotsAtBoundaries ProofVerdictHonest
CHECK_DEADLOCK FALSE

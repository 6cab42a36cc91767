SPECIFICATION Spec
CONSTANTS
    Sender = sender
    Recipient = recipient
    None = none
    r1 = r1
    r2 = r2
    Resolvers <- MCResolvers
    Ladder <- MCLadder
    Workflows = {w1, w2}
    Outsiders = {}
    Amount = 2
    Stake = 3
    MaxLevel = 0
    Window = 1
    MaxDuration = 1
    ResponseWindow = 1
    Cooldown = 2
    MaxSuperseded = 5
    Capacity = 1
    CapacityChoices = {2}
    PartialAmounts = {1}
    Unilateral = FALSE
    MaxTime = 2
    MaxRulings = 1
    CustomResolvers = {r2}
    AutoTimes <- AutoRelease
INVARIANTS CapacityCounts
PROPERTIES RefinesLifecycle
CHECK_DEADLOCK FALSE

SPECIFICATION Spec
CONSTANTS
    Sender = sender
    Recipient = recipient
    None = none
    r1 = r1
    r2 = r2
    Resolvers <- MCResolvers
    Ladder <- MCLadder
    Workflows = {w1}
    Outsiders = {}
    Amount = 2
    Stake = 3
    MaxLevel = 1
    Window = 1
    MaxDuration = 2
    ResponseWindow = 0
    Cooldown = 2
    MaxSuperseded = 5
    Capacity = 0
    CapacityChoices = {}
    PartialAmounts = {}
    Unilateral = FALSE
    MaxTime = 5
    MaxRulings = 2
    CustomResolvers = {}
    AutoTimes <- NoAutoTimes
INVARIANTS RecoversLatestRuling
CHECK_DEADLOCK FALSE

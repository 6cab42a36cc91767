SPECIFICATION FairSpec
CONSTANTS
    Sender = sender
    Recipient = recipient
    None = none
    r1 = r1
    r2 = r2
    Resolvers <- MCResolvers
    Ladder <- MCLadder
    Workflows = {w1}
    Outsiders = {}
    Amount = 2
    Stake = 3
    MaxLevel = 2
    Window = 2
    MaxDuration = 3
    ResponseWindow = 1
    Cooldown = 2
    MaxSuperseded = 5
    Capacity = 0
    CapacityChoices = {}
    PartialAmounts = {}
    Unilateral = FALSE
    MaxTime = 4
    MaxRulings = 3
    CustomResolvers = {}
    AutoTimes <- AutoCancel
PROPERTIES RefusalIsFinal AppealWindowHonoured RefinesLifecycle DisputesSettle
CHECK_DEADLOCK FALSE

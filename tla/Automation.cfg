SPECIFICATION Spec
CONSTANTS
    Repeating = {"every"}  OneOff = {"once"}  Interval = 2  Horizon = 4
    RunIds = {1, 2, 3}  MaxStops = 1  MaxLostWrites = 1  MaxRequests = 2
    Messages = {1, 2, 3}  Existing = 1  ListLimit = 3  StartsPerPoll = 2
    RunsPerDay = 1  MaxOwnerActs = 2  MaxMisses = 1
    Deliveries = {1, 2, 3}  DeliveryIds = {"i", "j"}  Minute = 1  PerMinute = 1
    LastInstant = 2  MaxHookActs = 1  MaxHookFaults = 1
    MaxUpdates = 2  MaxKills = 1  MaxSlips = 1
    Apps = {1, 2}  MaxOAuthActs = 5  MaxTokens = 2  MaxWriteFaults = 2  MaxRestarts = 2
INVARIANTS AutomationTypeOK
    FireAtMostOnce FiresSpaced PileUpBounded
    EventStartsOnce BacklogStartsNothing DailyBudgetKept
    DeliveryStartsOnce RollingBudgetKept
    UpdateHandledOnce CardTellsTheTruth CardHasAKeeper
    UsableGrantIsLive
CHECK_DEADLOCK FALSE

SPECIFICATION TriggerSpec
CONSTANTS
    Messages = {1, 2, 3}  Existing = 2  ListLimit = 1  StartsPerPoll = 1
    RunsPerDay = 1  MaxOwnerActs = 0  MaxMisses = 0
INVARIANT BacklogStartsNothing
CHECK_DEADLOCK FALSE

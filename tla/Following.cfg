SPECIFICATION Spec
CONSTANTS
    Drivers = {1, 2}  MaxEvents = 7  MaxFailures = 1  MaxDeaths = 1
    Page = 2  MaxAttempts = 4  MaxFaults = 1  HeldPositions = {0, 2, 8}
    Followed = 5  Absent = 8
    WatchedTasks = {"task"}  WatchedRuns = {1, 2}  RecentLimit = 1
    MaxReboots = 1  MaxBlindLooks = 1
    CodingCalls = {"a", "b"}  CodingRoots = {"r", "s"}  MaxMishaps = 1  MaxRestarts = 1
INVARIANTS FollowingTypeOK
    ShownWithoutGap DoneSawTheEnd SettledIsInTheLog ToldOnce StopIsFinal
PROPERTIES StreamExplainsMoves
    FollowsToTheEnd ResultAnnounced ApprovalAnnounced StoppedJobEnds
CHECK_DEADLOCK FALSE

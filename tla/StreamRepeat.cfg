SPECIFICATION StreamSpec
CONSTANTS
    Drivers = {1}  MaxEvents = 4  MaxFailures = 0  MaxDeaths = 0
    Page = 2  MaxAttempts = 4  MaxFaults = 1  HeldPositions = {0}
INVARIANTS ContinuesFromTheNext
CHECK_DEADLOCK FALSE

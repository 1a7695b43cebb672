SPECIFICATION Spec
CONSTANTS
    r1 = r1  r2 = r2  c1 = c1  c2 = c2  t1 = t1  t2 = t2  t3 = t3  i1 = i1  i2 = i2
    NoRun = NoRun  NoCall = NoCall
    Runs <- OneRun  Parent <- NoParent
    Calls <- TwoCalls  RunOf <- TwoRunOf  Intent <- TwoIntents
    ByClient = {c2}
    Tasks <- TwoTasks
    MaxModelCalls = 1
    MaxCrashes = 0
PROPERTIES ContinuesOnItsOwnCall
CHECK_DEADLOCK FALSE

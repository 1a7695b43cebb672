SPECIFICATION FairSpec
CONSTANTS
    r1 = r1  r2 = r2  c1 = c1  c2 = c2  t1 = t1  t2 = t2  t3 = t3  i1 = i1  i2 = i2
    NoRun = NoRun  NoCall = NoCall
    Runs <- OneRun  Parent <- NoParent
    Calls <- OneCall  RunOf <- OneRunOf  Intent <- OneIntent
    ByClient = {}
    Tasks <- TwoTasks
    MaxModelCalls = 1
    MaxCrashes = 1
INVARIANTS TypeOK LedgerInv EffectAtMostOnce HeldEffectApproved OutcomeTruthful
PROPERTIES SettledForever RecordsFinal RestartAccounts ImplementsGate StopSettles
CHECK_DEADLOCK FALSE

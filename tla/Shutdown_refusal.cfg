SPECIFICATION SmallSpec
CONSTANTS
    run = run  bare = bare  waits = waits  code = code  proc = proc
    stop = stop  force = force  restart = restart
    Jobs <- AllJobs  Kind <- AllKinds
    Stops = {stop, force, restart}  Forced = {force}  Restarts = {restart}
    Deadline = TRUE
INVARIANTS RefusalDisruptsNothing
CHECK_DEADLOCK FALSE

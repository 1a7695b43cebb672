------------------------------- MODULE RunLog -------------------------------
(***************************************************************************)
(* One run's row, its durable event log and the tasks that write them:     *)
(* run_repository.rs and run_event_repository.rs (the guards), executor.rs *)
(* (the drivers) and gateway.rs (what continues a parked run).             *)
(*                                                                         *)
(* A driver moves the run in three statements: it reads the row again,     *)
(* appends the event of the move and then writes the row, guarded by the   *)
(* state and version it read.  Nothing keeps a second driver away: a run   *)
(* that was parked can be continued before the driver that parked it looks *)
(* again.  So a driver may lose its write after its event is in the log.   *)
(***************************************************************************)
EXTENDS Naturals, Sequences, FiniteSets

CONSTANTS Drivers,      \* bound: the tasks that may drive the run at once
          MaxEvents,    \* bound: the longest log explored
          MaxFailures,  \* bound: statements of a driver that storage fails
          MaxDeaths     \* bound: deaths of the daemon

ASSUME LogAssumption ==
    /\ Drivers # {}
    /\ MaxEvents \in Nat \ {0, 1}   \* the first event and a settlement
    /\ MaxFailures \in Nat
    /\ MaxDeaths \in Nat

VARIABLES
    up,        \* the daemon is running
    deaths,    \* how often it died
    row,       \* the run's state: received, working, parked or settled
    log,       \* the kinds of the run's events; the position is the sequence
    since,     \* the length of the log when the row last moved (history)
    drivers,   \* the tasks that drive the run
    failures   \* statements of drivers that storage failed

rowVars == <<row, log, since>>
logVars == <<up, deaths, row, log, since, drivers, failures>>

OpenStates == {"received", "working", "parked"}
Kinds      == {"received", "working", "parked", "output", "terminal"}

(* Where a driver is; whether it was spawned for a new run, whose errors   *)
(* fail_if_unfinished settles; whether it still has the decided call it    *)
(* was spawned for; the state it read and the one it is moving to; whether *)
(* the row's version is still the one it read, and whether the table has   *)
(* the move.                                                               *)
DriverPlaces == {"off", "look", "step", "append", "write", "abandon"}
DriverStates == [at : DriverPlaces, new : BOOLEAN, answer : BOOLEAN,
                 saw : OpenStates \union {"none"},
                 to : {"none", "working", "parked", "settled"},
                 fresh : BOOLEAN, legal : BOOLEAN]

Off == [at |-> "off", new |-> FALSE, answer |-> FALSE, saw |-> "none", to |-> "none",
        fresh |-> FALSE, legal |-> FALSE]

LogTypeOK ==
    /\ up \in BOOLEAN /\ deaths \in 0 .. MaxDeaths
    /\ row \in OpenStates \union {"settled"}
    /\ log \in Seq(Kinds) /\ Len(log) <= MaxEvents /\ since \in 0 .. Len(log)
    /\ drivers \in [Drivers -> DriverStates]
    /\ failures \in 0 .. MaxFailures

(* start_run creates the run and its first event in one transaction, so a  *)
(* log is never empty, and spawns the driver of the new run.  Which slot a *)
(* task takes is a matter of names.                                        *)
FirstDriver == CHOOSE d \in Drivers : TRUE

LogInit ==
    /\ up = TRUE /\ deaths = 0 /\ failures = 0
    /\ row = "received" /\ log = <<"received">> /\ since = 1
    /\ drivers = [d \in Drivers |->
                    IF d = FirstDriver THEN [Off EXCEPT !.at = "look", !.new = TRUE] ELSE Off]

-----------------------------------------------------------------------------
(* The two guarded writes.                                                 *)

(* append_run_event: the settlement guard and the next sequence are one    *)
(* statement.  The last place of the explored log is kept for a settlement. *)
AppendEvent_Unguarded(kind) ==
    /\ Len(log) + 1 < MaxEvents
    /\ log' = Append(log, kind)

AppendEvent(kind) ==
    /\ row # "settled"
    /\ Len(log) + 1 < MaxEvents
    /\ log' = Append(log, kind)

(* settle_run: the row and its terminal event are one transaction.         *)
SettleRun_RowOnly ==
    /\ row # "settled"
    /\ row' = "settled"
    /\ log' \in {log, Append(log, "terminal")}
    /\ since' = Len(log')

SettleRun ==
    /\ row # "settled"
    /\ row' = "settled"
    /\ log' = Append(log, "terminal")
    /\ since' = Len(log')

(* A write of the row moves its version: what any driver read is stale.    *)
Stale == [d \in Drivers |-> [drivers[d] EXCEPT !.fresh = FALSE]]

Put(d, state) == drivers' = [drivers EXCEPT ![d] = state]

-----------------------------------------------------------------------------
(* drive_run.                                                              *)

(* The loop looks at the run: it returns from a settled one, and from a    *)
(* parked one it has no decided call for, unless check_cancellation finds  *)
(* that a Stop asked for the run.                                          *)
DriverLooks(d) ==
    /\ up /\ drivers[d].at = "look"
    /\ \/ /\ row = "settled" \/ (row = "parked" /\ ~drivers[d].answer)
          /\ Put(d, Off)
       \/ /\ row # "settled"
          /\ Put(d, [drivers[d] EXCEPT !.at = "step", !.saw = row, !.fresh = TRUE])
    /\ UNCHANGED <<up, deaths, rowVars, failures>>

(* What a driver does with the state it read.  Working stands for several  *)
(* states: it moves between them, parks or settles.  A run it found parked *)
(* it continues with the call it holds, or else cancels.                   *)
Intends(d, to) ==
    CASE drivers[d].saw = "received" -> to = "working"
      [] drivers[d].saw = "working"  -> to \in {"working", "parked", "settled"}
      [] drivers[d].saw = "parked"   -> to = IF drivers[d].answer THEN "working" ELSE "settled"

(* The table, asked about the state that advance and settle read: it has   *)
(* the move when nobody wrote the row since the driver looked, never has   *)
(* the one from parked to parked, and otherwise may have it or not.        *)
InTable(d, to) ==
    IF drivers[d].fresh THEN {TRUE}
    ELSE IF row = "parked" /\ to = "parked" THEN {FALSE} ELSE BOOLEAN

(* advance and settle read the run again and leave a settled one alone.    *)
DriverReads(d, to) ==
    /\ up /\ drivers[d].at = "step" /\ Intends(d, to)
    /\ \/ row = "settled" /\ Put(d, Off)
       \/ /\ row # "settled"
          /\ \E legal \in InTable(d, to) :
                Put(d, [drivers[d] EXCEPT
                           !.at = IF to = "settled" THEN "write" ELSE "append",
                           !.answer = @ /\ drivers[d].saw # "parked",
                           !.saw = row, !.to = to, !.fresh = TRUE, !.legal = legal])
    /\ UNCHANGED <<up, deaths, rowVars, failures>>

(* advance writes the event of a move before the move itself.              *)
DriverAppends(d) ==
    /\ up /\ drivers[d].at = "append"
    /\ AppendEvent(drivers[d].to)
    /\ Put(d, [drivers[d] EXCEPT !.at = "write"])
    /\ UNCHANGED <<up, deaths, row, since, failures>>

(* transition_run and settle_run match the state and the version the       *)
(* driver read.                                                            *)
Matches_StateOnly(d) == drivers[d].saw = row

Matches(d) == drivers[d].fresh

Accepted(d) == drivers[d].legal /\ Matches(d)

(* After a move the driver looks again, or makes the next move of its      *)
(* errand at once (park_for_approval); a driver that settled returns.      *)
DriverWrites(d) ==
    /\ up /\ drivers[d].at = "write" /\ Accepted(d)
    /\ \/ /\ drivers[d].to = "settled"
          /\ SettleRun
          /\ drivers' = [Stale EXCEPT ![d] = Off]
       \/ /\ drivers[d].to # "settled" /\ row # "settled"
          /\ row' = drivers[d].to /\ since' = Len(log) /\ log' = log
          /\ \E next \in {"look"} \union (IF row' = "working" THEN {"step"} ELSE {}) :
                drivers' = [Stale EXCEPT ![d] =
                               [drivers[d] EXCEPT !.at = next, !.saw = row', !.to = "none",
                                                  !.fresh = TRUE, !.legal = FALSE]]
    /\ UNCHANGED <<up, deaths, failures>>

(* An append to a run that was settled meanwhile and a write whose         *)
(* expectation or move is refused are errors, and so is any statement      *)
(* storage fails.  The driver ends; that of a new run calls                *)
(* fail_if_unfinished, that of a continued one only logs.                  *)
DriverErrs(d) ==
    /\ up /\ drivers[d].at # "off"
    /\ \/ drivers[d].at = "append" /\ row = "settled" /\ failures' = failures
       \/ drivers[d].at = "write" /\ ~Accepted(d) /\ failures' = failures
       \/ failures < MaxFailures /\ failures' = failures + 1
    /\ Put(d, IF drivers[d].new THEN [Off EXCEPT !.at = "abandon"] ELSE Off)
    /\ UNCHANGED <<up, deaths, rowVars>>

(* fail_if_unfinished: the table does not let a parked run fail.           *)
DriverAbandons(d) ==
    /\ up /\ drivers[d].at = "abandon"
    /\ Put(d, IF row = "settled" THEN Off
              ELSE [Off EXCEPT !.at = "write", !.saw = row, !.to = "settled",
                               !.fresh = TRUE, !.legal = (row # "parked")])
    /\ UNCHANGED <<up, deaths, rowVars, failures>>

-----------------------------------------------------------------------------
(* The other writers.                                                      *)

(* An answer fragment of a driver, or the event of a tool call made        *)
(* against the run from outside its drivers.                               *)
AppendOutput ==
    /\ up
    /\ AppendEvent("output")
    /\ UNCHANGED <<up, deaths, row, since, drivers, failures>>

(* A Stop settles a run it finds parked itself, whatever drives it.        *)
StopParked ==
    /\ up /\ row = "parked"
    /\ SettleRun
    /\ drivers' = Stale
    /\ UNCHANGED <<up, deaths, failures>>

(* A decision spawns a driver for a run that is parked when                *)
(* continue_parked_run reads it; the driver that parked it may be there.   *)
Idle == {d \in Drivers : drivers[d].at = "off"}

Resume ==
    /\ up /\ row = "parked" /\ Idle # {}
    /\ Put(CHOOSE d \in Idle : TRUE, [Off EXCEPT !.at = "look", !.answer = TRUE])
    /\ UNCHANGED <<up, deaths, rowVars, failures>>

(* The daemon dies with its drivers, and recover_interrupted_runs settles  *)
(* every run that was not parked, and a parked one a Stop had asked for,   *)
(* before the listener binds.                                              *)
LogDies ==
    /\ up /\ deaths < MaxDeaths
    /\ up' = FALSE /\ deaths' = deaths + 1
    /\ drivers' = [d \in Drivers |-> Off]
    /\ UNCHANGED <<rowVars, failures>>

LogRecovers ==
    /\ ~up
    /\ up' = TRUE
    /\ \/ SettleRun
       \/ row \in {"parked", "settled"} /\ UNCHANGED rowVars
    /\ UNCHANGED <<deaths, drivers, failures>>

DriverStep(d) ==
    \/ DriverLooks(d)
    \/ \E to \in {"working", "parked", "settled"} : DriverReads(d, to)
    \/ DriverAppends(d)
    \/ DriverWrites(d)
    \/ DriverErrs(d)
    \/ DriverAbandons(d)

(* What happens while the daemon runs.                                     *)
WriterStep == (\E d \in Drivers : DriverStep(d)) \/ AppendOutput \/ StopParked \/ Resume

LogNext == WriterStep \/ LogDies \/ LogRecovers

LogSpec == LogInit /\ [][LogNext]_logVars

-----------------------------------------------------------------------------
(* Properties.                                                             *)

(* A run is settled exactly when its log ends in a terminal event, and the *)
(* log holds no other: the row and the record a client reads agree in      *)
(* every state, a death of the daemon included.                            *)
SettledIsInTheLog ==
    /\ \A i \in 1 .. Len(log) : log[i] = "terminal" => i = Len(log)
    /\ row = "settled" <=> log[Len(log)] = "terminal"

(* "the stream explains the sequence the run actually took" (executor.rs,  *)
(* enter_execution): whenever the row moves, the log has the event of that *)
(* move after everything it held at the move before.  A driver that lost   *)
(* its write leaves an event behind that no move answers; what may never   *)
(* happen is that such an old event stands for a later move, or none does. *)
StreamExplainsMoves ==
    [][row' # row \/ since' # since =>
          \E i \in (since + 1) .. Len(log') :
              log'[i] = IF row' = "settled" THEN "terminal" ELSE row']_logVars
=============================================================================

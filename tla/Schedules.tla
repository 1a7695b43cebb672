------------------------------ MODULE Schedules ------------------------------
(***************************************************************************)
(* Scheduled tasks: the scheduler's pass over due tasks, the owner's       *)
(* requests, and what a restart does to the runs a task started            *)
(* (schedule_service.rs, schedule_repository.rs, resume.rs, the interval   *)
(* and one-off cadences of core schedule.rs).                              *)
(*                                                                         *)
(* A pass reads the due rows, claims each with a compare-and-set, and then *)
(* starts one run per claim.  Every statement is a step: the owner, the    *)
(* runs and the daemon's death come in between.  The owner sends one       *)
(* request at a time.                                                      *)
(***************************************************************************)
EXTENDS Naturals, Sequences, FiniteSets

CONSTANTS Repeating,     \* tasks that repeat: every interval
          OneOff,        \* tasks that fire once
          Interval,      \* the interval of a repeating task
          Horizon,       \* bound: the last instant explored
          RunIds,        \* bound: the runs that may be started, 1 .. n in id order
          MaxStops,      \* bound: deaths of the daemon
          MaxLostWrites, \* bound: claims, reads, starts or recordings that fail
          MaxRequests    \* bound: the owner's requests

ASSUME ScheduleAssumption ==
    /\ Repeating \intersect OneOff = {}
    /\ IsFiniteSet(Repeating) /\ IsFiniteSet(OneOff)
    /\ Interval \in Nat \ {0}
    /\ Horizon \in Nat
    /\ IsFiniteSet(RunIds) /\ RunIds = 1 .. Cardinality(RunIds)
    /\ MaxStops \in Nat
    /\ MaxLostWrites \in Nat
    /\ MaxRequests \in Nat

Scheduled == Repeating \union OneOff

VARIABLES
    clock,     \* the wall clock, in intervals of the scheduler's tick
    alive,     \* the daemon is running
    stops,     \* how often it died
    tasks,     \* the schedules table
    runs,      \* the runs started for tasks
    pass,      \* the scheduler's pass: its step, its instant, its due and claimed rows
    lost,      \* claims, reads, starts and recordings that failed
    requests   \* requests of the owner so far

scheduleVars ==
    <<clock, alive, stops, tasks, runs, pass, lost, requests>>

NoRunId == 0
ActiveStates == {"working", "parked"}

Row  == [present : BOOLEAN, enabled : BOOLEAN, next : Nat, last : {NoRunId} \union RunIds]
Due  == [task : Scheduled, next : Nat, last : {NoRunId} \union RunIds]

Idle  == [at |-> "read", now |-> 0, rows |-> <<>>, claimed |-> <<>>, run |-> NoRunId]
Unused == [state |-> "none", task |-> "none", kind |-> "none", session |-> NoRunId,
           due |-> 0, at |-> 0]

ScheduleTypeOK ==
    /\ clock \in 0 .. Horizon /\ alive \in BOOLEAN /\ stops \in 0 .. MaxStops
    /\ tasks \in [Scheduled -> Row]
    /\ runs \in [RunIds ->
           [state : ActiveStates \union {"none", "settled", "interrupted"},
            task : Scheduled \union {"none"}, kind : {"none", "fire", "continuation"},
            session : {NoRunId} \union RunIds, due : Nat, at : Nat]]
    /\ pass \in [at : {"read", "claim", "check", "start", "record"}, now : Nat,
                 rows : Seq(Due), claimed : Seq(Due), run : {NoRunId} \union RunIds]
    /\ lost \in 0 .. MaxLostWrites /\ requests \in 0 .. MaxRequests

-----------------------------------------------------------------------------
(* Cadences.                                                               *)

(* first_fire: a repeating task fires an interval after it was created or  *)
(* resumed.  The one-off is set for the same instant.                      *)
FirstFire(now) == now + Interval

(* next_after measures from now, never from the time that was due.         *)
NextAfter_FromDue(now, due) == due + Interval

NextAfter(now, due) == now + Interval

ScheduleInit ==
    /\ clock = 0 /\ alive = TRUE /\ stops = 0
    /\ tasks = [t \in Scheduled |->
          [present |-> TRUE, enabled |-> TRUE, next |-> FirstFire(0), last |-> NoRunId]]
    /\ runs = [r \in RunIds |-> Unused]
    /\ pass = Idle
    /\ lost = 0 /\ requests = 0

Active(r)    == runs[r].state \in ActiveStates
Terminal(r)  == runs[r].state \in {"settled", "interrupted"}
UnusedRuns   == {r \in RunIds : runs[r].state = "none"}
NextRun      == Cardinality(RunIds \ UnusedRuns) + 1

(* The newest run of its conversation.                                     *)
Newest(r)    == \A s \in RunIds : runs[s].session = runs[r].session => s <= r

-----------------------------------------------------------------------------
(* The scheduler's pass over the due tasks.                                *)

(* The due rows, the longest overdue first, as they were read.             *)
DueRows ==
    LET due    == {t \in Scheduled :
                      tasks[t].present /\ tasks[t].enabled /\ tasks[t].next <= clock}
        orders == {o \in [1 .. Cardinality(due) -> due] :
                      /\ \A t \in due : \E i \in DOMAIN o : o[i] = t
                      /\ \A i, j \in DOMAIN o : i < j => tasks[o[i]].next <= tasks[o[j]].next}
    IN  {[i \in DOMAIN o |->
            [task |-> o[i], next |-> tasks[o[i]].next, last |-> tasks[o[i]].last]] : o \in orders}

(* tick: read what is due at this instant.  A closed gate is a pass that   *)
(* did nothing, as one with nothing due is.                                *)
ReadDue ==
    /\ alive /\ pass.at = "read"
    /\ \E s \in DueRows :
          pass' = IF s = <<>> THEN Idle
                  ELSE [pass EXCEPT !.at = "claim", !.now = clock, !.rows = s]
    /\ UNCHANGED <<clock, alive, stops, tasks, runs, lost, requests>>

(* claim_due_schedules: the compare-and-set of one row on its next fire    *)
(* and its enabled flag.  A one-off is disabled, a repeating task advanced. *)
(* A claim that fails ends the pass and loses the fires claimed before it. *)
ClaimRow ==
    /\ alive /\ pass.at = "claim"
    /\ LET row  == Head(pass.rows)
           t    == row.task
           mine == tasks[t].present /\ tasks[t].enabled /\ tasks[t].next = row.next
           more == Tail(pass.rows) # <<>>
           won  == IF mine THEN Append(pass.claimed, row) ELSE pass.claimed
       IN  \/ /\ tasks' = IF ~mine THEN tasks
                          ELSE IF t \in OneOff THEN [tasks EXCEPT ![t].enabled = FALSE]
                          ELSE [tasks EXCEPT ![t].next = NextAfter(pass.now, row.next)]
              /\ pass' = IF ~more /\ won = <<>> THEN Idle
                         ELSE [pass EXCEPT !.rows = Tail(@), !.claimed = won,
                                           !.at = IF more THEN "claim" ELSE "check"]
              /\ lost' = lost
           \/ /\ lost < MaxLostWrites /\ lost' = lost + 1
              /\ pass' = Idle /\ tasks' = tasks
    /\ UNCHANGED <<clock, alive, stops, runs, requests>>

(* The fire in hand is over; the next claimed one follows.                 *)
NextFire ==
    IF Len(pass.claimed) = 1 THEN Idle
    ELSE [pass EXCEPT !.claimed = Tail(@), !.at = "check", !.run = NoRunId]

(* previous_run_is_active reads the run the claimed row named.             *)
PreviousActive_WorkingOnly ==
    LET last == Head(pass.claimed).last IN last # NoRunId /\ runs[last].state = "working"

PreviousActive == LET last == Head(pass.claimed).last IN last # NoRunId /\ Active(last)

(* A fire is skipped while the previous run goes on, or when the task's    *)
(* project is paused or over its daily cap.  A previous run that cannot be *)
(* read blocks nothing.                                                    *)
CheckPrevious ==
    /\ alive /\ pass.at = "check"
    /\ \/ PreviousActive /\ pass' = NextFire /\ lost' = lost
       \/ ~PreviousActive /\ pass' \in {[pass EXCEPT !.at = "start"], NextFire} /\ lost' = lost
       \/ /\ PreviousActive /\ lost < MaxLostWrites /\ lost' = lost + 1
          /\ pass' = [pass EXCEPT !.at = "start"]
    /\ UNCHANGED <<clock, alive, stops, tasks, runs, requests>>

(* The conversation a fire joins: the one the task's row names, or its own. *)
SessionOf(row) == IF row.last = NoRunId THEN NextRun ELSE runs[row.last].session

(* start_and_drive creates the run; a start that fails loses the fire.     *)
StartRun ==
    /\ alive /\ pass.at = "start"
    /\ \/ /\ UnusedRuns # {}
          /\ LET row == Head(pass.claimed)
             IN  runs' = [runs EXCEPT ![NextRun] =
                    [state |-> "working", task |-> row.task, kind |-> "fire",
                     session |-> SessionOf(row), due |-> row.next, at |-> pass.now]]
          /\ pass' = [pass EXCEPT !.at = "record", !.run = NextRun]
          /\ lost' = lost
       \/ /\ lost < MaxLostWrites
          /\ lost' = lost + 1
          /\ pass' = NextFire
          /\ runs' = runs
    /\ UNCHANGED <<clock, alive, stops, tasks, requests>>

(* record_schedule_run, after the run is already going; its failure is     *)
(* logged and the run stays unrecorded.                                    *)
RecordRun ==
    /\ alive /\ pass.at = "record"
    /\ \/ /\ tasks' = [tasks EXCEPT ![Head(pass.claimed).task].last = pass.run]
          /\ lost' = lost
       \/ lost < MaxLostWrites /\ lost' = lost + 1 /\ tasks' = tasks
    /\ pass' = NextFire
    /\ UNCHANGED <<clock, alive, stops, runs, requests>>

-----------------------------------------------------------------------------
(* The owner.                                                              *)

(* One request for a task that exists.                                     *)
Request(t) ==
    /\ alive /\ tasks[t].present
    /\ requests < MaxRequests
    /\ requests' = requests + 1
    /\ UNCHANGED <<clock, alive, stops, runs, pass, lost>>

Pause(t) ==
    /\ Request(t) /\ tasks[t].enabled
    /\ tasks' = [tasks EXCEPT ![t].enabled = FALSE]

(* set_schedule_enabled: a repeating task starts a full interval from now, *)
(* a one-off whose time passed or that fired is finished.                  *)
Reenable_FiredToo(t) ==
    /\ Request(t) /\ ~tasks[t].enabled
    /\ tasks' = [tasks EXCEPT ![t].enabled = TRUE,
                              ![t].next = IF t \in OneOff THEN @ ELSE FirstFire(clock)]

Reenable(t) ==
    /\ Request(t) /\ ~tasks[t].enabled
    /\ t \in OneOff => tasks[t].last = NoRunId /\ tasks[t].next > clock
    /\ tasks' = [tasks EXCEPT ![t].enabled = TRUE,
                              ![t].next = IF t \in OneOff THEN @ ELSE FirstFire(clock)]

Delete(t) ==
    /\ Request(t)
    /\ tasks' = [tasks EXCEPT ![t].present = FALSE]

-----------------------------------------------------------------------------
(* The runs, the clock and the daemon.                                     *)

(* A run parks on an approval, is continued, settles.                      *)
RunMoves(r, to) ==
    /\ alive /\ Active(r) /\ runs[r].state # to
    /\ runs' = [runs EXCEPT ![r].state = to]
    /\ UNCHANGED <<clock, alive, stops, tasks, pass, lost, requests>>

TimePasses ==
    /\ clock < Horizon
    /\ clock' = clock + 1
    /\ UNCHANGED <<alive, stops, tasks, runs, pass, lost, requests>>

(* The pass lives in memory.                                               *)
DaemonDies ==
    /\ alive /\ stops < MaxStops
    /\ alive' = FALSE /\ stops' = stops + 1
    /\ pass' = Idle
    /\ UNCHANGED <<clock, tasks, runs, lost, requests>>

(* Recovery settles the working runs; continue_interrupted then continues   *)
(* the newest run of a conversation, never a continuation, and no start    *)
(* has to succeed.  A continuation is no run of the task's row.            *)
Restart ==
    /\ ~alive
    /\ LET cut    == {r \in RunIds : runs[r].state = "working"}
           again  == {r \in cut : Newest(r) /\ runs[r].kind = "fire"}
           new(r, S) == NextRun + Cardinality({s \in S : s < r})
       IN  \E S \in SUBSET again :
             /\ {new(r, S) : r \in S} \subseteq RunIds
             /\ runs' = [i \in RunIds |->
                   IF i \in cut THEN [runs[i] EXCEPT !.state = "interrupted"]
                   ELSE IF \E r \in S : new(r, S) = i
                     THEN LET r == CHOOSE r \in S : new(r, S) = i
                          IN  [runs[r] EXCEPT !.kind = "continuation", !.at = clock]
                   ELSE runs[i]]
    /\ alive' = TRUE
    /\ UNCHANGED <<clock, stops, tasks, pass, lost, requests>>

SchedulerStep == ReadDue \/ ClaimRow \/ CheckPrevious \/ StartRun \/ RecordRun

ScheduleNext ==
    \/ SchedulerStep
    \/ \E t \in Scheduled : Pause(t) \/ Reenable(t) \/ Delete(t)
    \/ \E r \in RunIds, to \in ActiveStates \union {"settled"} : RunMoves(r, to)
    \/ TimePasses
    \/ DaemonDies
    \/ Restart

ScheduleSpec == ScheduleInit /\ [][ScheduleNext]_scheduleVars

-----------------------------------------------------------------------------
(* Properties.                                                             *)

Fires(t) == {r \in RunIds : runs[r].task = t /\ runs[r].kind = "fire"}

(* A due time starts at most one run, and a one-off at most one in its     *)
(* life, whatever is paused, resumed, lost or restarted between the read   *)
(* of the due rows, the claim and the start.                               *)
FireAtMostOnce ==
    \A t \in Scheduled : \A r, s \in Fires(t) :
        r # s => t \in Repeating /\ runs[r].due # runs[s].due

(* A repeating task never catches up: two runs it starts are at least an   *)
(* interval apart, after an outage or a pause of any length too.           *)
FiresSpaced ==
    \A t \in Repeating : \A r, s \in Fires(t) :
        r < s => runs[r].at + Interval <= runs[s].at

(* Unanswered fires do not pile up: a task has one run going, and one more *)
(* only for each death of the daemon (its continuation, or a run that died *)
(* before it was recorded) and each run that could not be recorded or read. *)
PileUpBounded ==
    \A t \in Scheduled :
        Cardinality({r \in RunIds : runs[r].task = t /\ Active(r)}) <= 1 + stops + lost
=============================================================================

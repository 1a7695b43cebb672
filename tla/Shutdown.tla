------------------------------ MODULE Shutdown ------------------------------
(***************************************************************************)
(* How the daemon stops: the admission gate every piece of work passes     *)
(* (crates/jarvis-core/src/work_admission.rs), the stop and restart        *)
(* requests that reserve it (apps/jarvisd/src/stop.rs,                     *)
(* settings_service.rs) and the drain that waits for admitted work         *)
(* (apps/jarvisd/src/shutdown.rs).                                         *)
(*                                                                         *)
(* The gate is a lock held for one statement; what is interleaved are the  *)
(* awaits around it.  Work is published under one permit and executed      *)
(* under another, so between the two a job holds none.                     *)
(***************************************************************************)
EXTENDS Naturals, FiniteSets

CONSTANTS
    Jobs,        \* pieces of work
    Kind,        \* "run", "undriven" (no executor), "continuation", "coding", "process"
    Stops,       \* stop and restart requests
    Forced,      \* the ones with force=true
    Restarts,    \* the ones that come from POST settings/restart
    Deadline     \* whether the drain's grace period can run out

JobKinds == {"run", "undriven", "continuation", "coding", "process"}

ASSUME ShutdownAssumption ==
    /\ Kind \in [Jobs -> JobKinds]
    /\ Forced \subseteq Stops /\ Restarts \subseteq Stops
    /\ Deadline \in BOOLEAN

VARIABLES
    phase,       \* WorkAdmission.phase
    row,         \* the job's durable or registered state
    cancel,      \* cancellation was requested of it
    stage,       \* how far its publisher and worker are
    verdict,     \* what a coding worker will report
    late,        \* the verdict's time is not before the drain's start
    turned,      \* jobs whose worker was refused admission (history)
    cleanupFailed, \* ProcessTools.cleanup_failed
    request,     \* where each stop or restart request is
    helper,      \* a restart helper is on its way to POST shutdown
    wake,        \* STOP was notified
    drain,       \* the coordinator's next step
    sawActive,   \* its readings: permits were held,
    sawWork,     \*   rows were unfinished,
    sawError,    \*   the process registry reported a failed cleanup
    result       \* drain_work's result

jobVars == <<row, cancel, stage, verdict, late, turned, cleanupFailed>>
readings == <<sawActive, sawWork, sawError>>
vars == <<phase, jobVars, request, helper, wake, drain, readings, result>>

Phases == {"open", "checking", "closed"}
Rows == {"absent", "new", "working", "parked", "completed", "cancelled", "failed"}
Stages == {"idle", "inserting", "inserted", "spawned", "polled", "admitted",
           "parking", "leaving", "refused", "finishing", "supervised", "cleaning",
           "ended"}
Verdicts == {"none", "completed", "cancelled", "failed", "error"}
DrainStages == {"off", "signal", "cancel", "active", "unstarted", "durable",
                "managed", "certify", "over"}

(* The permits that are held: WorkAdmission.active counts them.            *)
Holders == {j \in Jobs : stage[j] \in {"inserting", "inserted", "admitted", "parking", "leaving"}}

(* read_shutdown_work: unsettled runs that are not parked, and queued or   *)
(* running coding jobs.  Processes are counted in their registry.          *)
Durable(j) == Kind[j] # "process"
Unfinished == {j \in Jobs : Durable(j) /\ row[j] \in {"new", "working"}}
Managed == {j \in Jobs : ~Durable(j) /\ row[j] = "working"}

Idle == Holders = {} /\ Unfinished = {} /\ Managed = {}

Init ==
    /\ phase = "open"
    /\ row = [j \in Jobs |-> IF Kind[j] = "continuation" THEN "parked" ELSE "absent"]
    /\ cancel = [j \in Jobs |-> FALSE]
    /\ stage = [j \in Jobs |-> "idle"]
    /\ verdict = [j \in Jobs |-> "none"]
    /\ late = [j \in Jobs |-> FALSE]
    /\ turned = {}
    /\ cleanupFailed = FALSE
    /\ request = [s \in Stops |-> "idle"]
    /\ helper = FALSE
    /\ wake = FALSE
    /\ drain = "off"
    /\ sawActive = TRUE /\ sawWork = TRUE /\ sawError = FALSE
    /\ result = "none"

controlVars == <<phase, request, helper, wake, drain, readings, result>>

Move(j, from, to) == stage[j] = from /\ stage' = [stage EXCEPT ![j] = to]
SetRow(j, r) == row' = [row EXCEPT ![j] = r]

-----------------------------------------------------------------------------
(* Publication: start_run, create_task and process start each hold a       *)
(* permit until what they publish can be counted.  A decision needs none:  *)
(* it spawns the continuation of a run that is already parked.             *)
Admits == phase = "open"

Admit(j) ==
    /\ Kind[j] # "continuation"
    /\ Admits
    /\ Move(j, "idle", "inserting")
    /\ UNCHANGED <<row, cancel, verdict, late, turned, cleanupFailed, controlVars>>

(* A row is inserted, or a process launched and registered; either can     *)
(* fail, and then the permit is given back with nothing published.         *)
InsertRow(j) == Durable(j) /\ SetRow(j, "new")

RegisterProcess(j) == ~Durable(j) /\ SetRow(j, "working")

Publish(j) ==
    /\ \/ /\ Move(j, "inserting", "inserted")
          /\ InsertRow(j) \/ RegisterProcess(j)
       \/ /\ Move(j, "inserting", "ended")
          /\ UNCHANGED row
    /\ UNCHANGED <<cancel, verdict, late, turned, cleanupFailed, controlVars>>

(* The permit is dropped and the worker spawned; with no executor composed *)
(* a run has none.                                                         *)
ReleasePublisher(j) ==
    /\ Move(j, "inserted", CASE Kind[j] = "process" -> "supervised"
                             [] Kind[j] = "undriven" -> "ended"
                             [] OTHER -> "spawned")
    /\ UNCHANGED <<row, cancel, verdict, late, turned, cleanupFailed, controlVars>>

Answer(j) ==
    /\ Kind[j] = "continuation"
    /\ Move(j, "idle", "spawned")
    /\ UNCHANGED <<row, cancel, verdict, late, turned, cleanupFailed, controlVars>>

-----------------------------------------------------------------------------
(* Run drivers (drive_run).  The run is read before the gate is passed.    *)
Terminal == {"completed", "cancelled", "failed"}
Driver(j) == Kind[j] \in {"run", "continuation"}

Poll(j) ==
    /\ Driver(j)
    /\ Move(j, "spawned", IF row[j] \in Terminal THEN "ended" ELSE "polled")
    /\ UNCHANGED <<row, cancel, verdict, late, turned, cleanupFailed, controlVars>>

AdmitDriver(j) ==
    /\ Move(j, "polled", IF Admits THEN "admitted"
                         ELSE IF Kind[j] = "run" THEN "refused" ELSE "ended")
    /\ turned' = IF Admits THEN turned ELSE turned \cup {j}
    /\ UNCHANGED <<row, cancel, verdict, late, cleanupFailed, controlVars>>

(* A refused driver of a new run settles it as failed, holding no permit   *)
(* (fail_if_unfinished); that of a continuation only logs.                 *)
FailUnfinished(j) ==
    /\ Move(j, "refused", "ended")
    /\ SetRow(j, IF row[j] \in Terminal THEN row[j] ELSE "failed")
    /\ UNCHANGED <<cancel, verdict, late, turned, cleanupFailed, controlVars>>

(* The run advances, parks, and settles; a recorded cancellation is seen   *)
(* after every transition, the parking one included.                       *)
DriverAdvances(j) ==
    /\ stage[j] = "admitted" /\ Driver(j)
    /\ row[j] \in {"new", "parked"}
    /\ SetRow(j, "working")
    /\ UNCHANGED <<stage, cancel, verdict, late, turned, cleanupFailed, controlVars>>

DriverParks(j) ==
    /\ Driver(j) /\ row[j] = "working"
    /\ Move(j, "admitted", "parking")
    /\ SetRow(j, "parked")
    /\ UNCHANGED <<cancel, verdict, late, turned, cleanupFailed, controlVars>>

DriverSettles(j) ==
    /\ Driver(j)
    /\ \/ /\ row[j] = "working"
          /\ Move(j, "admitted", "leaving")
          /\ \E to \in {"completed", "failed"} \cup (IF cancel[j] THEN {"cancelled"} ELSE {}) :
                SetRow(j, to)
       \/ /\ Move(j, "parking", "leaving")
          /\ SetRow(j, IF cancel[j] THEN "cancelled" ELSE "parked")
    /\ UNCHANGED <<cancel, verdict, late, turned, cleanupFailed, controlVars>>

(* The owner stops a run or a coding task (RunService::cancel,             *)
(* request_delegated_task_cancellation).                                   *)
OwnerCancels(j) ==
    /\ j \in Unfinished
    /\ cancel' = [cancel EXCEPT ![j] = TRUE]
    /\ UNCHANGED <<row, stage, verdict, late, turned, cleanupFailed, controlVars>>

ReleaseDriver(j) ==
    /\ Move(j, "leaving", "ended")
    /\ UNCHANGED <<row, cancel, verdict, late, turned, cleanupFailed, controlVars>>

-----------------------------------------------------------------------------
(* Coding workers (run_recorded_task, spawn_task).                         *)

(* The permit is dropped when the recorded task returns; only then is the  *)
(* result, stamped with the present time, written to the row.              *)
Return(j, from, v) ==
    /\ Move(j, from, "finishing")
    /\ verdict' = [verdict EXCEPT ![j] = v]
    /\ late' = [late EXCEPT ![j] = drain # "off"]

(* The worker waits for agent capacity, where a cancellation reaches it,   *)
(* and then for the gate, where a refusal reads as a cancellation.         *)
Dispatch(j) ==
    /\ Kind[j] = "coding"
    /\ \/ /\ Admits
          /\ Move(j, "spawned", "admitted")
          /\ UNCHANGED <<verdict, late, turned>>
       \/ /\ cancel[j]
          /\ Return(j, "spawned", "cancelled")
          /\ UNCHANGED turned
       \/ /\ ~Admits
          /\ Return(j, "spawned", "cancelled")
          /\ turned' = turned \cup {j}
    /\ UNCHANGED <<row, cancel, cleanupFailed, controlVars>>

(* mark_delegated_task_running refuses a cancelled task.                   *)
MarkRunning(j) ==
    /\ Kind[j] = "coding" /\ stage[j] = "admitted" /\ row[j] = "new"
    /\ \/ /\ ~cancel[j]
          /\ SetRow(j, "working")
          /\ UNCHANGED <<stage, verdict, late>>
       \/ /\ cancel[j]
          /\ Return(j, "admitted", "cancelled")
          /\ UNCHANGED row
    /\ UNCHANGED <<cancel, turned, cleanupFailed, controlVars>>

AgentEnds(j) ==
    /\ Kind[j] = "coding" /\ row[j] = "working"
    /\ \E v \in {"completed", "failed", "error"} \cup (IF cancel[j] THEN {"cancelled"} ELSE {}) :
          Return(j, "admitted", v)
    /\ UNCHANGED <<row, cancel, turned, cleanupFailed, controlVars>>

(* finish_delegated_task: an error or a failed cleanup stays visible, any  *)
(* other result of a cancelled task reads cancelled.                       *)
FinishedAs_StopHidesError(j) == IF cancel[j] THEN "cancelled" ELSE verdict[j]

FinishedAs(j) ==
    IF verdict[j] = "error" THEN "failed"
    ELSE IF cancel[j] THEN "cancelled" ELSE verdict[j]

FinishTask(j) ==
    /\ Kind[j] = "coding"
    /\ Move(j, "finishing", "ended")
    /\ SetRow(j, FinishedAs(j))
    /\ UNCHANGED <<cancel, verdict, late, turned, cleanupFailed, controlVars>>

-----------------------------------------------------------------------------
(* Managed processes (supervise): the process ends by itself or on the     *)
(* signal, is cleaned up, and only then leaves the registry.               *)
ProcessEnds(j) ==
    /\ Kind[j] = "process"
    /\ Move(j, "supervised", "cleaning")
    /\ UNCHANGED <<row, cancel, verdict, late, turned, cleanupFailed, controlVars>>

ProcessCleaned(j) ==
    /\ Kind[j] = "process"
    /\ Move(j, "cleaning", "finishing")
    /\ \E fails \in BOOLEAN : cleanupFailed' = (cleanupFailed \/ fails)
    /\ UNCHANGED <<row, cancel, verdict, late, turned, controlVars>>

Unregister(j) ==
    /\ Kind[j] = "process"
    /\ Move(j, "finishing", "ended")
    /\ SetRow(j, "completed")
    /\ UNCHANGED <<cancel, verdict, late, turned, cleanupFailed, controlVars>>

-----------------------------------------------------------------------------
(* Stop and restart requests.                                              *)

(* prepare_shutdown(force): only an open gate is reserved, and without     *)
(* force only when no permit is held.                                      *)
MayReserve_IgnoresPermits(s) == phase = "open"

MayReserve_SharesCheck(s) == phase # "closed" /\ (s \in Forced \/ Holders = {})

MayReserve(s) == phase = "open" /\ (s \in Forced \/ Holders = {})

(* A closed gate is acknowledged (a Stop wakes the daemon, a restart is    *)
(* refused); a reserved or busy one refuses and is left as it is.          *)
Reserve(s) ==
    /\ request[s] = "idle"
    /\ \/ /\ MayReserve(s)
          /\ phase' = "checking"
          /\ request' = [request EXCEPT ![s] = IF s \in Forced THEN "decide" ELSE "check"]
          /\ UNCHANGED wake
       \/ /\ ~MayReserve(s)
          /\ request' = [request EXCEPT ![s] = "answered"]
          /\ wake' = (wake \/ (phase = "closed" /\ s \notin Restarts))
          /\ UNCHANGED phase
    /\ UNCHANGED <<jobVars, helper, drain, readings, result>>

(* ShutdownPermit's Drop: a refused or abandoned check reopens the gate    *)
(* unless a signal has closed it meanwhile.                                *)
Reopen == phase' = IF phase = "checking" THEN "open" ELSE phase

CheckWork(s) ==
    /\ request[s] = "check"
    /\ \/ /\ Unfinished = {}
          /\ request' = [request EXCEPT ![s] = "decide"]
          /\ UNCHANGED phase
       \/ /\ Unfinished # {}
          /\ request' = [request EXCEPT ![s] = "answered"]
          /\ Reopen
    /\ UNCHANGED <<jobVars, helper, wake, drain, readings, result>>

Abandon(s) ==
    /\ request[s] \in {"check", "decide"} /\ s \notin Forced
    /\ request' = [request EXCEPT ![s] = "answered"]
    /\ Reopen
    /\ UNCHANGED <<jobVars, helper, wake, drain, readings, result>>

(* Without force, a managed process refuses the request as a row does.     *)
RefuseManaged(s) ==
    /\ s \notin Forced /\ Managed # {}
    /\ request' = [request EXCEPT ![s] = "answered"]
    /\ Reopen
    /\ UNCHANGED <<helper, wake>>

(* Stop commits whatever happened to the gate meanwhile.                   *)
CommitStop(s) ==
    /\ s \notin Restarts
    /\ request' = [request EXCEPT ![s] = "accepted"]
    /\ phase' = "closed"
    /\ wake' = TRUE
    /\ UNCHANGED helper

(* Restart launches its helper under the lock and only if it still holds   *)
(* its reservation; a launch that fails reopens.                           *)
CommitRestart(s) ==
    /\ s \in Restarts
    /\ \/ /\ phase = "checking"
          /\ phase' = "closed" /\ helper' = TRUE
          /\ request' = [request EXCEPT ![s] = "accepted"]
       \/ Reopen /\ request' = [request EXCEPT ![s] = "answered"] /\ UNCHANGED helper
    /\ UNCHANGED wake

(* The process registry is read and the request decided without an await   *)
(* in between.                                                             *)
Decide(s) ==
    /\ request[s] = "decide"
    /\ \/ RefuseManaged(s)
       \/ /\ s \in Forced \/ Managed = {}
          /\ CommitStop(s) \/ CommitRestart(s)
    /\ UNCHANGED <<jobVars, drain, readings, result>>

(* The helper's own Stop finds the gate closed and wakes the daemon; a     *)
(* helper that dies leaves the gate closed until the owner stops it.       *)
HelperStops ==
    /\ helper
    /\ helper' = FALSE
    /\ wake' \in {TRUE, wake}
    /\ UNCHANGED <<phase, jobVars, request, drain, readings, result>>

-----------------------------------------------------------------------------
(* drain_work.                                                             *)

(* The exit path, on a Stop or on a signal: close, then the loop.          *)
BeginDrain ==
    /\ drain = "off"
    /\ phase' = "closed"
    /\ drain' = "signal"
    /\ UNCHANGED <<jobVars, request, helper, wake, readings, result>>

(* The order of one round.  Permits are read before the rows they publish. *)
Following_RowsFirst(d) ==
    [signal |-> "cancel", cancel |-> "durable", durable |-> "active",
     active |-> "unstarted", unstarted |-> "managed"][d]

Following(d) ==
    [signal |-> "cancel", cancel |-> "active", active |-> "unstarted",
     unstarted |-> "durable", durable |-> "managed"][d]

SignalProcesses ==
    /\ drain = "signal"
    /\ sawError' = cleanupFailed
    /\ drain' = Following(drain)
    /\ UNCHANGED <<phase, jobVars, request, helper, wake, sawActive, sawWork, result>>

(* request_shutdown_cancellation: every run that works or has not started, *)
(* never one that waits for a person, and every queued or running task.    *)
RequestCancellation ==
    /\ drain = "cancel"
    /\ cancel' = [j \in Jobs |-> cancel[j] \/ j \in Unfinished]
    /\ drain' = Following(drain)
    /\ UNCHANGED <<phase, row, stage, verdict, late, turned, cleanupFailed, request,
                   helper, wake, readings, result>>

ReadActive ==
    /\ drain = "active"
    /\ sawActive' = (Holders # {})
    /\ drain' = Following(drain)
    /\ UNCHANGED <<phase, jobVars, request, helper, wake, sawWork, sawError, result>>

(* settle_unstarted_shutdown_runs, only when no permit was seen: runs that *)
(* were received and cancelled and that nothing drives any more.           *)
Unstarted_None == {}

Unstarted == {j \in Jobs : Kind[j] \in {"run", "undriven"} /\ row[j] = "new" /\ cancel[j]}

SettleUnstarted ==
    /\ drain = "unstarted"
    /\ row' = [j \in Jobs |-> IF ~sawActive /\ j \in Unstarted THEN "cancelled" ELSE row[j]]
    /\ drain' = Following(drain)
    /\ UNCHANGED <<phase, cancel, stage, verdict, late, turned, cleanupFailed, request,
                   helper, wake, readings, result>>

ReadDurable ==
    /\ drain = "durable"
    /\ sawWork' = (Unfinished # {})
    /\ drain' = Following(drain)
    /\ UNCHANGED <<phase, jobVars, request, helper, wake, sawActive, sawError, result>>

(* The registry is signalled and counted again; a failed cleanup ends the  *)
(* drain, a clean round certifies, anything else is another round.         *)
ReadManaged ==
    /\ drain = "managed"
    /\ \/ /\ cleanupFailed \/ sawError
          /\ drain' = "over" /\ result' = "failed"
       \/ /\ ~(cleanupFailed \/ sawError)
          /\ drain' = IF Managed = {} /\ ~sawWork /\ ~sawActive THEN "certify" ELSE "signal"
          /\ UNCHANGED result
    /\ UNCHANGED <<phase, jobVars, request, helper, wake, readings>>

(* shutdown_coding_failures since the drain began.                         *)
CodingFailures == {j \in Jobs : Kind[j] = "coding" /\ row[j] = "failed" /\ cancel[j] /\ late[j]}

Certify ==
    /\ drain = "certify"
    /\ drain' = "over"
    /\ result' = IF CodingFailures = {} THEN "ok" ELSE "failed"
    /\ UNCHANGED <<phase, jobVars, request, helper, wake, readings>>

(* The grace period ends the coordinator wherever it is; a table that      *)
(* cannot be read or written ends it where it is used.                     *)
DrainGivesUp ==
    /\ \/ Deadline /\ drain \notin {"off", "over"} /\ result' = "deadline"
       \/ /\ drain \in {"cancel", "active", "unstarted", "durable", "certify"}
          /\ result' = "failed"
    /\ drain' = "over"
    /\ UNCHANGED <<phase, jobVars, request, helper, wake, readings>>

-----------------------------------------------------------------------------
WorkerStep(j) ==
    \/ Publish(j) \/ ReleasePublisher(j)
    \/ Poll(j) \/ AdmitDriver(j) \/ FailUnfinished(j)
    \/ DriverAdvances(j) \/ DriverParks(j) \/ DriverSettles(j) \/ ReleaseDriver(j)
    \/ Dispatch(j) \/ MarkRunning(j) \/ FinishTask(j)
    \/ ProcessCleaned(j) \/ Unregister(j)

(* A process is only certain to end once it is signalled, a coding agent,  *)
(* whose deadline is the owner's choice, once its task is cancelled.       *)
SignalledProcessEnds(j) == drain # "off" /\ ProcessEnds(j)
CancelledAgentEnds(j) == cancel[j] /\ AgentEnds(j)

RequestStep(s) == CheckWork(s) \/ Decide(s)

DrainStep ==
    \/ SignalProcesses \/ RequestCancellation \/ ReadActive \/ SettleUnstarted
    \/ ReadDurable \/ ReadManaged \/ Certify

Next ==
    \/ \E j \in Jobs :
          \/ Admit(j) \/ Answer(j) \/ OwnerCancels(j)
          \/ AgentEnds(j) \/ ProcessEnds(j) \/ WorkerStep(j)
    \/ \E s \in Stops : Reserve(s) \/ Abandon(s) \/ RequestStep(s)
    \/ HelperStops
    \/ BeginDrain
    \/ DrainStep
    \/ DrainGivesUp

Spec == Init /\ [][Next]_vars

(* tokio polls every runnable task; a signalled process and a cancelled    *)
(* agent die; a reserved request is decided; a notified Stop starts the    *)
(* drain.                                                                  *)
Fairness ==
    /\ \A j \in Jobs :
          /\ WF_vars(WorkerStep(j))
          /\ WF_vars(SignalledProcessEnds(j))
          /\ WF_vars(CancelledAgentEnds(j))
    /\ \A s \in Stops : WF_vars(RequestStep(s))
    /\ WF_vars(wake /\ BeginDrain)
    /\ WF_vars(DrainStep)

FairSpec == Spec /\ Fairness

-----------------------------------------------------------------------------
(* Properties.                                                             *)

(* Every variable keeps its type.                                          *)
TypeOK ==
    /\ phase \in Phases
    /\ row \in [Jobs -> Rows]
    /\ cancel \in [Jobs -> BOOLEAN]
    /\ stage \in [Jobs -> Stages]
    /\ verdict \in [Jobs -> Verdicts]
    /\ late \in [Jobs -> BOOLEAN]
    /\ turned \subseteq Jobs
    /\ cleanupFailed \in BOOLEAN
    /\ request \in [Stops -> {"idle", "check", "decide", "answered", "accepted"}]
    /\ helper \in BOOLEAN /\ wake \in BOOLEAN
    /\ drain \in DrainStages
    /\ sawActive \in BOOLEAN /\ sawWork \in BOOLEAN /\ sawError \in BOOLEAN
    /\ result \in {"none", "ok", "failed", "deadline"}

(* A drain that reports success has left nothing behind, and nothing       *)
(* starts afterwards: no permit is held, no run is unfinished except one   *)
(* that waits for a person, no coding task is queued or running and no     *)
(* process is registered (drain_work reads permits before rows).           *)
DrainCertifiesQuiescence == result = "ok" => Idle

(* A drain that reports success hides no failed cleanup: no process's, and *)
(* no cancelled coding task's that ended while it drained                  *)
(* (request_shutdown, finish_delegated_task, shutdown_coding_failures).    *)
CleanupFailureReported ==
    result = "ok" =>
        /\ ~cleanupFailed
        /\ \A j \in Jobs : ~(verdict[j] = "error" /\ cancel[j] /\ late[j])

(* While a request checks, its reservation stands: no admission is open,   *)
(* and the gate is never left reserved by nobody (ShutdownPermit's Drop).  *)
ReservationStands ==
    /\ \A s \in Stops : request[s] \in {"check", "decide"} => phase # "open"
    /\ phase = "checking" => \E s \in Stops : request[s] \in {"check", "decide"}

(* A stop or restart that was not forced is accepted only when nothing is  *)
(* under way, whatever was published, dispatched or finished between its   *)
(* readings (prepare_shutdown, refusal_if_working, commit).                *)
AcceptedInterruptsNothing ==
    [][\A s \in Stops \ Forced :
          request[s] # "accepted" /\ request'[s] = "accepted" => Idle]_vars

(* The inductive strengthening of DrainCertifiesQuiescence and of          *)
(* AcceptedInterruptsNothing.  A reader who found the gate not open and no *)
(* permit held may rely on that, and then on the rows it found finished,   *)
(* because no new permit can appear.  The reader is a drain                *)
DrainInv ==
    /\ drain # "off" => phase = "closed"
    /\ drain \in {"unstarted", "durable", "managed", "certify"} /\ ~sawActive => Holders = {}
    /\ drain \in {"managed", "certify"} /\ ~sawActive /\ ~sawWork => Unfinished = {}
    /\ drain = "certify" => ~sawActive /\ ~sawWork /\ Managed = {}
    /\ result = "ok" => drain = "over" /\ Idle

(* or a request that was not forced; and one request, never two, holds the *)
(* reservation.                                                            *)
RequestInv ==
    /\ \A s \in Stops :
          request[s] \in {"check", "decide"} =>
              /\ phase # "open"
              /\ s \notin Forced => Holders = {}
              /\ s \notin Forced /\ request[s] = "decide" => Unfinished = {}
    /\ \A s, q \in Stops :
          phase = "checking" /\ request[s] \in {"check", "decide"}
              /\ request[q] \in {"check", "decide"} => s = q
    /\ phase = "checking" => \E s \in Stops : request[s] \in {"check", "decide"}

QuiescenceInv == DrainInv /\ RequestInv

(* Without a deadline a drain still ends: cancellation reaches every       *)
(* worker, and what no worker drives is settled by the drain itself.       *)
DrainEnds == drain # "off" ~> drain = "over"

(* A refused or abandoned check leaves the daemon as it was: once the gate *)
(* is open again, no run, continuation or coding task has been turned away *)
(* by it (stop.rs).                                                        *)
RefusalDisruptsNothing == phase = "open" => turned = {}
=============================================================================

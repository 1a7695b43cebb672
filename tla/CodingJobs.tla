----------------------------- MODULE CodingJobs -----------------------------
(***************************************************************************)
(* Coding jobs handed to an external agent: code_delegate_async.rs over    *)
(* delegated_task_repository.rs.  A call of a run creates a row, a worker  *)
(* waits for the only slot, marks the row running, starts an agent and     *)
(* saves what became of it.                                                *)
(*                                                                         *)
(* A Stop is a mark on the row.  It comes from the owner, for one job, or  *)
(* from the Stop of the run that made the call, for all jobs of the run;   *)
(* only the former also signals the worker, and only if it is registered.  *)
(* A worker polls its row for the rest.                                    *)
(***************************************************************************)
EXTENDS Naturals

CONSTANTS CodingCalls,  \* submitted calls of the launching tools
          CodingRoots,  \* the root runs they belong to
          MaxMishaps,   \* bound: spells in which reads and writes fail, dropped requests
          MaxRestarts   \* bound: deaths of the daemon

ASSUME CodingAssumption == MaxMishaps \in Nat /\ MaxRestarts \in Nat

VARIABLES
    caller,     \* the root run of each call
    going,      \* the root runs that are not settled
    halted,     \* run_family_stops: the root runs that were stopped
    submitted,  \* the calls whose outcome in the ledger is submitted
    job,        \* delegated_tasks, by origin call: status, cancellation_requested_at
    worker,     \* the spawned task of each job, and what it is about to save
    signal,     \* the Notify of each worker holds a permit
    agents,     \* how many agents each job has started
    barred,     \* history: jobs a Stop found before they were dispatched
    mishaps, restarts

codingVars == <<caller, going, halted, submitted, job, worker, signal,
                agents, barred, mishaps, restarts>>

(* What a worker has to save: spoiled is an error, or a failed cleanup.    *)
Unfinished == {"queued", "running"}
Outcomes   == {"completed", "cancelled", "failed", "spoiled"}
HoldsSlot  == {"slot", "setup", "agent"}
Polling    == {"queue"} \union HoldsSlot   \* registered, and looking at its Notify
NoWorker   == [at |-> "none", result |-> "none"]

CodingTypeOK ==
    /\ caller \in [CodingCalls -> CodingRoots]
    /\ going \subseteq CodingRoots /\ halted \subseteq CodingRoots
    /\ submitted \subseteq CodingCalls
    /\ job \in [CodingCalls ->
          [status : {"none", "completed", "failed", "cancelled", "interrupted"} \union Unfinished,
           requested : BOOLEAN]]
    /\ worker \in [CodingCalls ->
          [at : {"none", "launch", "queue", "slot", "setup", "agent", "save", "fallback", "gone"},
           result : {"none"} \union Outcomes]]
    /\ signal \in [CodingCalls -> BOOLEAN]
    /\ agents \in [CodingCalls -> 0 .. 1] /\ barred \subseteq CodingCalls
    /\ mishaps \in 0 .. MaxMishaps /\ restarts \in 0 .. MaxRestarts

(* The calls were submitted; a direct call may belong to a run that is     *)
(* settled.                                                                *)
CodingInit ==
    /\ caller \in [CodingCalls -> CodingRoots]
    /\ going = CodingRoots /\ halted = {}
    /\ submitted = CodingCalls
    /\ job = [c \in CodingCalls |-> [status |-> "none", requested |-> FALSE]]
    /\ worker = [c \in CodingCalls |-> NoWorker]
    /\ barred = {}
    /\ signal = [c \in CodingCalls |-> FALSE]
    /\ agents = [c \in CodingCalls |-> 0]
    /\ mishaps = 0 /\ restarts = 0

Mishap == mishaps < MaxMishaps /\ mishaps' = mishaps + 1

-----------------------------------------------------------------------------
(* Launching.                                                              *)

(* create_task, one transaction.  A call that has its row gets that row    *)
(* back and launches nothing; a gate that admits no work refuses.          *)
MayCreate(c) ==
    /\ job[c].status = "none"
    /\ c \in submitted /\ caller[c] \notin halted

CreateTask(c) ==
    /\ MayCreate(c)
    /\ job' = [job EXCEPT ![c].status = "queued"]
    /\ worker' = [worker EXCEPT ![c].at = "launch"]
    /\ UNCHANGED <<caller, going, halted, submitted, signal, agents,
                   barred, mishaps, restarts>>

(* resume_for_call: a job that ended without success is continued by a new *)
(* call, as a new job.                                                     *)
ResumeTask(c, previous) ==
    /\ job[previous].status \in {"interrupted", "failed", "cancelled"}
    /\ CreateTask(c)

SpawnTask(c) ==
    /\ worker[c].at = "launch"
    /\ worker' = [worker EXCEPT ![c].at = "queue"]
    /\ UNCHANGED <<caller, going, halted, submitted, job, signal, agents, barred,
                   mishaps, restarts>>

(* The row cannot be read back, or the client's request is dropped: the    *)
(* row stays queued and nobody works on it.                                *)
LaunchLost(c) ==
    /\ worker[c].at = "launch" /\ Mishap
    /\ worker' = [worker EXCEPT ![c].at = "gone"]
    /\ UNCHANGED <<caller, going, halted, submitted, job, signal, agents,
                   barred, restarts>>

-----------------------------------------------------------------------------
(* Stop.                                                                   *)

Marked(stopped) ==
    [c \in CodingCalls |->
        [job[c] EXCEPT !.requested = @ \/ (c \in stopped /\ job[c].status \in Unfinished)]]

(* stop and signal_stop: the mark, then the signal to a worker that is     *)
(* registered.  Between the two the row is marked and the worker is not    *)
(* told, which is how StopFamily leaves it.                                *)
StopJob(c) ==
    /\ job[c].status \in Unfinished
    /\ job' = Marked({c})
    /\ signal' = [signal EXCEPT ![c] = @ \/ worker[c].at \in Polling]
    /\ barred' = barred \union {d \in {c} : job[d].status = "queued"}
    /\ UNCHANGED <<caller, going, halted, submitted, worker, agents, mishaps, restarts>>

(* request_run_cancellation with cancel_coding_family, one transaction:    *)
(* refused when neither the run nor a job of it is unfinished.             *)
Family(p) == {c \in CodingCalls : caller[c] = p}

StopFamily(p) ==
    /\ p \in going \/ \E c \in Family(p) : job[c].status \in Unfinished
    /\ halted' = halted \union {p}
    /\ job' = Marked(Family(p))
    /\ barred' = barred \union {c \in Family(p) : job[c].status \in {"none", "queued"}}
    /\ UNCHANGED <<caller, going, submitted, worker, signal, agents,
                   mishaps, restarts>>

RootSettles(p) ==
    /\ p \in going /\ going' = going \ {p}
    /\ UNCHANGED <<caller, halted, submitted, job, worker, signal, agents,
                   barred, mishaps, restarts>>

-----------------------------------------------------------------------------
(* The worker.                                                             *)

(* run_with_cancellation: a mark on the row signals the worker.            *)
Poll_InTheQueueOnly(c) ==
    /\ worker[c].at \in Polling /\ job[c].requested /\ ~signal[c] /\ worker[c].at = "queue"
    /\ signal' = [signal EXCEPT ![c] = TRUE]
    /\ UNCHANGED <<caller, going, halted, submitted, job, worker, agents,
                   barred, mishaps, restarts>>

Poll(c) ==
    /\ worker[c].at \in Polling /\ job[c].requested /\ ~signal[c]
    /\ signal' = [signal EXCEPT ![c] = TRUE]
    /\ UNCHANGED <<caller, going, halted, submitted, job, worker, agents,
                   barred, mishaps, restarts>>

(* So does a row that cannot be read.                                      *)
PollFails(c) ==
    /\ worker[c].at \in Polling /\ ~signal[c] /\ Mishap
    /\ signal' = [signal EXCEPT ![c] = TRUE]
    /\ UNCHANGED <<caller, going, halted, submitted, job, worker, agents,
                   barred, restarts>>

(* run_recorded_task returns: the slot is given back, and nobody looks at  *)
(* the Notify any more.                                                    *)
Returns(c, result) ==
    /\ worker' = [worker EXCEPT ![c] = [at |-> "save", result |-> result]]
    /\ signal' = [signal EXCEPT ![c] = FALSE]
    /\ UNCHANGED <<caller, going, halted, submitted, job, agents, barred, restarts>>

(* acquire: the signal is looked at before the slot.                       *)
LeaveQueue(c) ==
    /\ worker[c].at = "queue" /\ signal[c]
    /\ Returns(c, "cancelled") /\ UNCHANGED mishaps

TakeSlot(c) ==
    /\ worker[c].at = "queue" /\ ~signal[c]
    /\ \A d \in CodingCalls : worker[d].at \notin HoldsSlot
    /\ worker' = [worker EXCEPT ![c].at = "slot"]
    /\ UNCHANGED <<caller, going, halted, submitted, job, signal, agents,
                   barred, mishaps, restarts>>

(* mark_delegated_task_running.                                            *)
MayRun_AnyQueued(c) == job[c].status = "queued"

MayRun(c) == job[c].status = "queued" /\ ~job[c].requested

Dispatch(c) ==
    /\ worker[c].at = "slot" /\ MayRun(c)
    /\ job' = [job EXCEPT ![c].status = "running"]
    /\ worker' = [worker EXCEPT ![c].at = "setup"]
    /\ UNCHANGED <<caller, going, halted, submitted, signal, agents, barred, mishaps, restarts>>

(* The row was marked; or the gate admits no work, whatever its phase; or  *)
(* the write failed.                                                       *)
NotDispatched(c) ==
    /\ worker[c].at = "slot"
    /\ \/ ~MayRun(c) /\ Returns(c, "cancelled") /\ UNCHANGED mishaps
       \/ \E result \in {"cancelled", "spoiled"} : Returns(c, result) /\ UNCHANGED mishaps
       \/ Mishap /\ Returns(c, "spoiled")

(* run_observing up to the agent's process: the folder, its worktree and   *)
(* the agent's command, with a look for the signal before and after.       *)
SetupEnds(c) ==
    /\ worker[c].at = "setup"
    /\ \/ signal[c] /\ Returns(c, "cancelled")
       \/ Returns(c, "spoiled")
    /\ UNCHANGED mishaps

StartAgent(c) ==
    /\ worker[c].at = "setup" /\ ~signal[c]
    /\ worker' = [worker EXCEPT ![c].at = "agent"]
    /\ agents' = [agents EXCEPT ![c] = @ + 1]
    /\ UNCHANGED <<caller, going, halted, submitted, job, signal, barred,
                   mishaps, restarts>>

(* The rest of run_observing.  A signalled agent is cancelled and killed;  *)
(* one that is not has no deadline.  Its signal may come too late.         *)
AgentStopped(c) ==
    /\ worker[c].at = "agent" /\ signal[c]
    /\ \E result \in {"cancelled", "spoiled"} : Returns(c, result)
    /\ UNCHANGED mishaps

AgentEnds(c) ==
    /\ worker[c].at = "agent"
    /\ \E result \in Outcomes : Returns(c, result)
    /\ UNCHANGED mishaps

(* finish_delegated_task: a failed cleanup or an unavailable result stays  *)
(* visible; otherwise a Stop decides, and then the result does.            *)
SavedAs(c) ==
    CASE worker[c].result = "spoiled" -> "failed"
      [] job[c].requested -> "cancelled"
      [] OTHER -> worker[c].result

(* The result is saved, or else the failure to save it is; the second      *)
(* write may meet the fault that failed the first.                         *)
Save(c) ==
    /\ worker[c].at \in {"save", "fallback"}
    /\ \/ /\ job' = [job EXCEPT ![c].status =
                        IF worker[c].at = "fallback" THEN "failed" ELSE SavedAs(c)]
          /\ worker' = [worker EXCEPT ![c] = [at |-> "gone", result |-> "none"]]
          /\ UNCHANGED mishaps
       \/ /\ worker[c].at = "save" /\ Mishap /\ UNCHANGED job
          /\ worker' = [worker EXCEPT ![c] = [at |-> "fallback", result |-> "none"]]
       \/ /\ worker[c].at = "fallback" /\ UNCHANGED <<job, mishaps>>
          /\ worker' = [worker EXCEPT ![c].at = "gone"]
    /\ UNCHANGED <<caller, going, halted, submitted, signal, agents, barred, restarts>>

-----------------------------------------------------------------------------
(* A death ends every worker.  Before it serves, the next daemon settles   *)
(* the rows (interrupt_delegated_tasks), the submitted calls and the runs  *)
(* that are not parked.                                                    *)
DaemonRestarts ==
    /\ restarts < MaxRestarts /\ restarts' = restarts + 1
    /\ job' = [c \in CodingCalls |->
          IF job[c].status \in Unfinished
            THEN [job[c] EXCEPT !.status = IF job[c].requested THEN "cancelled" ELSE "interrupted"]
            ELSE job[c]]
    /\ worker' = [c \in CodingCalls |-> NoWorker]
    /\ signal' = [c \in CodingCalls |-> FALSE]
    /\ submitted' = {}
    /\ going' \in SUBSET going
    /\ UNCHANGED <<caller, halted, agents, barred, mishaps>>

(* What a spawned task, or a request once it began, does by itself.        *)
WorkerStep(c) ==
    SpawnTask(c) \/ LeaveQueue(c) \/ Dispatch(c) \/ NotDispatched(c) \/ SetupEnds(c) \/ AgentStopped(c) \/ Save(c)

CodingNext ==
    \/ \E c \in CodingCalls :
          \/ CreateTask(c) \/ SpawnTask(c) \/ LaunchLost(c)
          \/ StopJob(c)
          \/ Poll(c) \/ PollFails(c) \/ LeaveQueue(c) \/ TakeSlot(c) \/ Dispatch(c) \/ NotDispatched(c)
          \/ SetupEnds(c) \/ StartAgent(c) \/ AgentStopped(c) \/ AgentEnds(c) \/ Save(c)
          \/ \E previous \in CodingCalls : ResumeTask(c, previous)
    \/ \E p \in {caller[c] : c \in CodingCalls} : StopFamily(p) \/ RootSettles(p)
    \/ DaemonRestarts

(* Tasks and their timers are polled, and a signalled agent is killed.     *)
(* Nobody has to ask for a Stop, an agent need not end by itself, and a    *)
(* queue need not move.                                                    *)
CodingFairness ==
    \A c \in CodingCalls : WF_codingVars(WorkerStep(c)) /\ WF_codingVars(Poll(c))

CodingSpec == CodingInit /\ [][CodingNext]_codingVars /\ CodingFairness

-----------------------------------------------------------------------------
(* Properties.                                                             *)

(* A Stop is final.  Whatever it found waiting, in the queue or in a call  *)
(* not yet dispatched, starts no agent ("queued work starts no agent"),    *)
(* though it races the call's dispatch, the worker's and the registration  *)
(* of its Notify; and a job that was stopped ends as cancelled or failed,  *)
(* whatever its agent reported and wherever the daemon died.               *)
StopIsFinal ==
    \A c \in CodingCalls :
        /\ c \in barred => agents[c] = 0
        /\ job[c].requested => job[c].status \notin {"completed", "interrupted"}

Alive(c) == worker[c].at \notin {"none", "gone"}

(* Neither the result nor the failure to save it could be written, or the  *)
(* launch was lost: the row stays until the next start settles it.         *)
Forsaken(c) == worker[c].at = "gone" /\ job[c].status \in Unfinished

(* A stopped job ends, though a Stop of its run signals nobody, a stop may *)
(* come before the worker is registered, an agent has no deadline, and the *)
(* job may be behind another one that never ends.                          *)
StoppedJobEnds ==
    \A c \in CodingCalls :
        (job[c].requested /\ Alive(c)) ~> (job[c].status \notin Unfinished \/ Forsaken(c))
=============================================================================

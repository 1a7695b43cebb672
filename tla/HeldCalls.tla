----------------------------- MODULE HeldCalls -----------------------------
(***************************************************************************)
(* Agent runs, the tool calls they make, the approvals that hold a call    *)
(* for a person, Stop, and a daemon that can die at any point.             *)
(*                                                                         *)
(* Every action is one durable statement, one transaction or one           *)
(* externally visible step of a tokio task; everything a task does between *)
(* two awaits is part of the action that ends it.  The tasks are those of  *)
(* apps/jarvisd/src: the run driver (executor.rs), a client's own tool     *)
(* call, and the release of an approved call (gateway.rs,                  *)
(* tool_pipeline.rs).  The rows are those of crates/jarvis-storage.        *)
(***************************************************************************)
EXTENDS Naturals, Sequences, FiniteSets, RunTables

CONSTANTS
    Runs,          \* agent_runs rows that may be created
    Parent,        \* agent_runs.parent_run_id: Runs -> Runs \cup {NoRun}
    NoRun,
    Calls,         \* tool_calls rows that may be created (one correlation id each)
    RunOf,         \* tool_calls.run_id: Calls -> Runs
    Intent,        \* tool_calls.intent_hash: what a call would do
    ByClient,      \* the calls POSTed by a client rather than made by a run's model
    NoCall,
    Tasks,         \* slots for tokio tasks: the bound on concurrency
    MaxModelCalls, \* executor.rs MAX_MODEL_CALLS
    MaxCrashes     \* bound on the number of daemon deaths

ASSUME ModelAssumption ==
    /\ NoRun \notin Runs
    /\ NoCall \notin Calls
    /\ Parent \in [Runs -> Runs \cup {NoRun}]
    /\ RunOf \in [Calls -> Runs]
    /\ ByClient \subseteq Calls
    /\ MaxModelCalls \in Nat \ {0}
    /\ MaxCrashes \in Nat

VARIABLES
    runState,   \* agent_runs.state, or "absent"
    runCancel,  \* agent_runs.cancellation_requested_at is set
    outcome,    \* tool_calls.outcome, or "absent"
    held,       \* policy answered require_approval for the call
    linked,     \* tool_calls.approval_id is set
    apState,    \* approvals.state, or "none"
    apArgs,     \* approvals.arguments_json is held
    lapsed,     \* the approval's expires_at has passed
    effects,    \* how often the adapter performed the call's effect (history)
    barred,     \* calls Stop revoked before they were submitted (history)
    pc,         \* where each task is
    kind,       \* what each task is
    tRun,       \* the run a task works for
    tCall,      \* the call a task is taking through the pipeline
    todo,       \* the states a driver has still to write, in order
    fresh,      \* the row version a task read is still the stored one
    pending,    \* RunLoopState.pending: the decided call a driver resumes
    turns,      \* RunLoopState.model_calls
    report,     \* what the adapter reported
    drives,     \* spawned drivers not yet polled: <<run, pending call>>
    releases,   \* spawned release_approved_call tasks not yet polled
    denials,    \* denials recorded whose continue_declined_run has not read the run
    stopping,   \* Stop targets not yet looked at by settle_parked_run_cancelled
    withdrawing,\* a withdraw_cancelled_run_approvals sweep is due
    boot,       \* startup stage; clients are served only in "serving"
    crashes

runVars   == <<runState, runCancel>>
callVars  == <<outcome, held, linked>>
approvalVars == <<apState, apArgs, lapsed>>
ledgerVars == <<effects, barred>>
taskVars  == <<pc, kind, tRun, tCall, todo, pending, turns, report>>
queueVars == <<drives, releases, denials, stopping, withdrawing>>
bootVars  == <<boot, crashes>>

vars == <<runVars, callVars, approvalVars, ledgerVars, taskVars, fresh,
          queueVars, bootVars>>

Drivers  == {"fresh", "resumed"}
ToolPcs  == {"admit", "hold", "link", "attach", "authorize", "submit",
             "adapter", "record", "continue", "clear"}
Pcs      == {"idle", "enter", "advance", "transition", "check", "settle",
             "settling", "generate", "round"} \cup ToolPcs
ApprovalStates == {"none", "pending", "approved", "denied", "expired"}
Kinds == {"idle", "client", "release", "abandon"} \cup Drivers
BootStages == {"calls", "arguments", "runs", "withdraw", "serving"}

Serving == boot = "serving"
Live(r) == runState[r] \in Unsettled
Settled(r) == runState[r] \in Terminal
Parked(r) == runState[r] = "awaiting_approval"
Family(r) == {q \in Runs : q = r \/ Parent[q] = r}

-----------------------------------------------------------------------------
Init ==
    /\ runState = [r \in Runs |-> "absent"]
    /\ runCancel = [r \in Runs |-> FALSE]
    /\ outcome = [c \in Calls |-> "absent"]
    /\ held = [c \in Calls |-> FALSE]
    /\ linked = [c \in Calls |-> FALSE]
    /\ apState = [c \in Calls |-> "none"]
    /\ apArgs = [c \in Calls |-> FALSE]
    /\ lapsed = [c \in Calls |-> FALSE]
    /\ effects = [c \in Calls |-> 0]
    /\ barred = {}
    /\ pc = [t \in Tasks |-> "idle"]
    /\ kind = [t \in Tasks |-> "idle"]
    /\ tRun = [t \in Tasks |-> NoRun]
    /\ tCall = [t \in Tasks |-> NoCall]
    /\ todo = [t \in Tasks |-> <<>>]
    /\ fresh = [t \in Tasks |-> FALSE]
    /\ pending = [t \in Tasks |-> NoCall]
    /\ turns = [t \in Tasks |-> 0]
    /\ report = [t \in Tasks |-> "none"]
    /\ drives = {}
    /\ releases = {}
    /\ denials = {}
    /\ stopping = {}
    /\ withdrawing = FALSE
    /\ boot = "serving"
    /\ crashes = 0

-----------------------------------------------------------------------------
(* A task ends: its slot is free again.                                    *)
Finish(t) ==
    /\ pc' = [pc EXCEPT ![t] = "idle"]
    /\ kind' = [kind EXCEPT ![t] = "idle"]
    /\ tRun' = [tRun EXCEPT ![t] = NoRun]
    /\ tCall' = [tCall EXCEPT ![t] = NoCall]
    /\ todo' = [todo EXCEPT ![t] = <<>>]
    /\ pending' = [pending EXCEPT ![t] = NoCall]
    /\ turns' = [turns EXCEPT ![t] = 0]
    /\ report' = [report EXCEPT ![t] = "none"]

(* A task moves on, keeping what it knows.                                 *)
Goto(t, p) ==
    /\ pc' = [pc EXCEPT ![t] = p]
    /\ UNCHANGED <<kind, tRun, tCall, todo, pending, turns, report>>

(* A driver sets out to write the given states one after the other.        *)
Write(t, p, states) ==
    /\ pc' = [pc EXCEPT ![t] = p]
    /\ todo' = [todo EXCEPT ![t] = states]
    /\ tCall' = [tCall EXCEPT ![t] = NoCall]
    /\ UNCHANGED <<kind, tRun, pending, turns, report>>

(* Every write of a run's state bumps its version, so every other          *)
(* expectation of that row is out of date.  Stop does not bump it.         *)
BumpVersion(r) == fresh' = [u \in Tasks |-> fresh[u] /\ tRun[u] # r]

(* A driver that returns an error: the spawned task of a new run settles   *)
(* it as failed (fail_if_unfinished), that of a continuation only logs.    *)
DriverError(t) ==
    \/ /\ kind[t] = "fresh"
       /\ kind' = [kind EXCEPT ![t] = "abandon"]
       /\ pc' = [pc EXCEPT ![t] = "settle"]
       /\ todo' = [todo EXCEPT ![t] = <<"failed">>]
       /\ tCall' = [tCall EXCEPT ![t] = NoCall]
       /\ UNCHANGED <<tRun, pending, turns, report>>
    \/ /\ kind[t] # "fresh"
       /\ Finish(t)

(* One iteration of drive_run's loop: what the observed state asks for.    *)
(* A run found parked is resumed only by a driver that was handed the      *)
(* decided call; any other driver leaves it.                               *)
Iterate(t, s) ==
    \/ s \in Terminal /\ Finish(t)
    \/ s = "received" /\ Write(t, "advance", <<"context_building">>)
    \/ s = "context_building" /\ Write(t, "advance", <<"planning">>)
    \/ s = "planning" /\ Write(t, "advance", <<"executing">>)
    \/ s = "executing" /\ Goto(t, "generate")
    \/ s = "observing" /\ Write(t, "advance", <<"responding">>)
    \/ s = "responding" /\ Write(t, "settle", <<"completed">>)
    \/ s = "awaiting_approval" /\ pending[t] = NoCall /\ Finish(t)
    \/ /\ s = "awaiting_approval" /\ pending[t] # NoCall
       /\ pc' = [pc EXCEPT ![t] = "advance"]
       /\ todo' = [todo EXCEPT ![t] = <<"executing">>]
       /\ pending' = [pending EXCEPT ![t] = NoCall]
       /\ UNCHANGED <<kind, tRun, tCall, turns, report>>

-----------------------------------------------------------------------------
(* Starting and driving runs.                                              *)

(* check_delegated_admission: a sub-agent is admitted, in the transaction  *)
(* that inserts it, only under a live, top-level run nobody has stopped.   *)
Admissible_LiveOnly(r) == Parent[r] # NoRun => Live(Parent[r])

Admissible(r) ==
    Parent[r] # NoRun => /\ Parent[Parent[r]] = NoRun
                         /\ ~runCancel[Parent[r]]
                         /\ Live(Parent[r])

(* start_and_drive: the row is inserted at received and a driver spawned.  *)
StartRun(r) ==
    /\ Serving
    /\ runState[r] = "absent"
    /\ Admissible(r)
    /\ runState' = [runState EXCEPT ![r] = "received"]
    /\ drives' = drives \cup {<<r, NoCall>>}
    /\ UNCHANGED <<runCancel, callVars, approvalVars, ledgerVars,
                   taskVars, fresh, releases, denials, stopping, withdrawing,
                   bootVars>>

(* A spawned driver is polled: execute_run_with_limits for a new run,      *)
(* resume_run_with_limits or its declined twin for a parked one, each with *)
(* counters of its own.                                                    *)
BeginDrive(t) ==
    \E d \in drives :
        /\ pc[t] = "idle"
        /\ drives' = drives \ {d}
        /\ pc' = [pc EXCEPT ![t] = "enter"]
        /\ kind' = [kind EXCEPT ![t] = IF d[2] = NoCall THEN "fresh" ELSE "resumed"]
        /\ tRun' = [tRun EXCEPT ![t] = d[1]]
        /\ pending' = [pending EXCEPT ![t] = d[2]]
        /\ UNCHANGED <<runVars, callVars, approvalVars, ledgerVars, tCall, todo,
                       turns, report, fresh, releases, denials, stopping,
                       withdrawing, bootVars>>

(* drive_run reads the run and enters its loop.                            *)
Enter(t) ==
    /\ pc[t] = "enter"
    /\ Iterate(t, runState[tRun[t]])
    /\ UNCHANGED <<runVars, callVars, approvalVars, ledgerVars, fresh, queueVars,
                   bootVars>>

(* advance, first half: re-read the run.  A settled run is not moved; the  *)
(* caller's cancellation check then ends the loop.                         *)
Advance(t) ==
    /\ pc[t] = "advance"
    /\ IF Settled(tRun[t])
         THEN Write(t, "check", <<>>) /\ UNCHANGED fresh
         ELSE Goto(t, "transition") /\ fresh' = [fresh EXCEPT ![t] = TRUE]
    /\ UNCHANGED <<runVars, callVars, approvalVars, ledgerVars, queueVars, bootVars>>

(* advance, second half: the table is consulted for the state that was     *)
(* read, and the update is guarded by that state and version.              *)
Transition(t) ==
    LET r == tRun[t]  next == Head(todo[t]) IN
    /\ pc[t] = "transition"
    /\ \/ /\ fresh[t] /\ CanTransitionTo(runState[r], next)
          /\ runState' = [runState EXCEPT ![r] = next]
          /\ BumpVersion(r)
          /\ Write(t, IF Tail(todo[t]) = <<>> THEN "check" ELSE "advance", Tail(todo[t]))
       \/ /\ ~(fresh[t] /\ CanTransitionTo(runState[r], next))
          /\ fresh' = [fresh EXCEPT ![t] = FALSE]
          /\ DriverError(t)
          /\ UNCHANGED runState
    /\ UNCHANGED <<runCancel, callVars, approvalVars, ledgerVars,
                   queueVars, bootVars>>

(* check_cancellation: the re-read both finds a Stop another request       *)
(* recorded and decides the next iteration.                                *)
CheckCancellation(t) ==
    LET r == tRun[t] IN
    /\ pc[t] = "check"
    /\ IF runCancel[r] /\ ~Settled(r)
         THEN Write(t, "settle", <<"cancelled">>)
         ELSE Iterate(t, runState[r])
    /\ UNCHANGED <<runVars, callVars, approvalVars, ledgerVars, fresh, queueVars,
                   bootVars>>

(* settle, first half: re-read; a run another writer settled is left.      *)
Settle(t) ==
    /\ pc[t] = "settle"
    /\ IF Settled(tRun[t])
         THEN Finish(t) /\ UNCHANGED fresh
         ELSE Goto(t, "settling") /\ fresh' = [fresh EXCEPT ![t] = TRUE]
    /\ UNCHANGED <<runVars, callVars, approvalVars, ledgerVars, queueVars, bootVars>>

(* settle_run: the guarded update and the terminal event in one            *)
(* transaction.  A settlement as cancelled stamps the request time.        *)
SettleRun(t) ==
    LET r == tRun[t]  to == Head(todo[t]) IN
    /\ pc[t] = "settling"
    /\ \/ /\ fresh[t] /\ CanTransitionTo(runState[r], to)
          /\ runState' = [runState EXCEPT ![r] = to]
          /\ runCancel' = [runCancel EXCEPT ![r] = @ \/ to = "cancelled"]
          /\ BumpVersion(r)
          /\ Finish(t)
       \/ /\ ~(fresh[t] /\ CanTransitionTo(runState[r], to))
          /\ fresh' = [fresh EXCEPT ![t] = FALSE]
          /\ DriverError(t)
          /\ UNCHANGED <<runState, runCancel>>
    /\ UNCHANGED <<callVars, approvalVars, ledgerVars, queueVars, bootVars>>

(* generate_step and generate.  The counter is incremented before it is    *)
(* compared.  A model turn ends as a failure, as a wait a Stop cut short,  *)
(* as the answer (output_completed is appended, which a settled run        *)
(* refuses, then Observing), or as a round of tool calls.                  *)
OverModelBudget_PostIncrement(t) == turns[t] > MaxModelCalls

OverModelBudget(t) == turns[t] + 1 > MaxModelCalls

GenerateFails(t) ==
    /\ pc[t] = "generate"
    /\ Write(t, "settle", <<"failed">>)
    /\ UNCHANGED <<runVars, callVars, approvalVars, ledgerVars, fresh, queueVars,
                   bootVars>>

GenerateStopped(t) ==
    /\ pc[t] = "generate"
    /\ ~OverModelBudget(t)
    /\ runCancel[tRun[t]]
    /\ pc' = [pc EXCEPT ![t] = "check"]
    /\ turns' = [turns EXCEPT ![t] = @ + 1]
    /\ UNCHANGED <<runVars, callVars, approvalVars, ledgerVars, kind, tRun, tCall,
                   todo, pending, report, fresh, queueVars, bootVars>>

GenerateAnswers(t) ==
    LET r == tRun[t] IN
    /\ pc[t] = "generate"
    /\ ~OverModelBudget(t)
    /\ \/ /\ ~Settled(r)
          /\ pc' = [pc EXCEPT ![t] = "advance"]
          /\ todo' = [todo EXCEPT ![t] = <<"observing">>]
          /\ turns' = [turns EXCEPT ![t] = @ + 1]
          /\ UNCHANGED <<kind, tRun, tCall, pending, report>>
       \/ /\ Settled(r)
          /\ DriverError(t)
    /\ UNCHANGED <<runVars, callVars, approvalVars, ledgerVars, fresh, queueVars,
                   bootVars>>

GenerateRequestsTools(t) ==
    /\ pc[t] = "generate"
    /\ ~OverModelBudget(t)
    /\ pc' = [pc EXCEPT ![t] = "round"]
    /\ turns' = [turns EXCEPT ![t] = @ + 1]
    /\ UNCHANGED <<runVars, callVars, approvalVars, ledgerVars, kind, tRun, tCall,
                   todo, pending, report, fresh, queueVars, bootVars>>

(* run_tool_round: after its last call the run is observed and planned     *)
(* again; over the tool budget, or repeating itself, it fails.             *)
RoundEnds(t) ==
    /\ pc[t] = "round"
    /\ \/ Write(t, "advance", <<"observing", "planning">>)
       \/ Write(t, "settle", <<"failed">>)
    /\ UNCHANGED <<runVars, callVars, approvalVars, ledgerVars, fresh, queueVars,
                   bootVars>>

-----------------------------------------------------------------------------
(* The tool pipeline.                                                      *)

(* The caller gets text back: a driver goes on with its round, a client's  *)
(* request is over.                                                        *)
ReturnText(t) ==
    \/ /\ kind[t] \in Drivers
       /\ pc' = [pc EXCEPT ![t] = "round"]
       /\ tCall' = [tCall EXCEPT ![t] = NoCall]
       /\ report' = [report EXCEPT ![t] = "none"]
       /\ UNCHANGED <<kind, tRun, todo, pending, turns>>
    \/ /\ kind[t] \notin Drivers
       /\ Finish(t)

(* An earlier request of this run for the same intent that still waits, or *)
(* that was refused, blocks a second one.  A withdrawn approval has no     *)
(* decision, so decode_approval reads it as waiting.                       *)
Repeated(c) ==
    \E d \in Calls \ {c} : /\ RunOf[d] = RunOf[c]
                           /\ Intent[d] = Intent[c]
                           /\ apState[d] \in {"pending", "expired", "denied"}

(* call_tool up to the admission: policy allows the call or holds it for a *)
(* person, tool_requested is appended (which a settled run refuses), and   *)
(* for a held call the run's earlier approvals are read.                   *)
RequestTool(t, c) ==
    /\ outcome[c] = "absent"
    /\ \A u \in Tasks : tCall[u] # c
    /\ Live(RunOf[c])
    /\ \E h \in BOOLEAN :
          /\ h => ~Repeated(c)
          /\ held' = [held EXCEPT ![c] = h]
    /\ pc' = [pc EXCEPT ![t] = "admit"]
    /\ tCall' = [tCall EXCEPT ![t] = c]
    /\ UNCHANGED <<runVars, outcome, linked, approvalVars, ledgerVars, todo,
                   pending, turns, report, fresh, queueVars, bootVars>>

(* run_tool_call: the model's next call.                                   *)
RunToolCall(t, c) ==
    /\ pc[t] = "round"
    /\ c \notin ByClient
    /\ RunOf[c] = tRun[t]
    /\ RequestTool(t, c)
    /\ UNCHANGED <<kind, tRun>>

(* POST /api/v1/tools/{tool}/calls: a client's own call, attributed to a   *)
(* run.  It may be held without anything parking the run.                  *)
CallToolByClient(t, c) ==
    /\ Serving
    /\ pc[t] = "idle"
    /\ c \in ByClient
    /\ kind' = [kind EXCEPT ![t] = "client"]
    /\ tRun' = [tRun EXCEPT ![t] = RunOf[c]]
    /\ RequestTool(t, c)

(* admit_tool_call: the row is inserted at requested.                      *)
AdmitToolCall(t) ==
    /\ pc[t] = "admit"
    /\ outcome' = [outcome EXCEPT ![tCall[t]] = "requested"]
    /\ Goto(t, IF held[tCall[t]] THEN "hold" ELSE "authorize")
    /\ UNCHANGED <<runVars, held, linked, approvalVars, ledgerVars, fresh,
                   queueVars, bootVars>>

(* record_hold: create_approval, then link_tool_call_approval, then        *)
(* attach_approval_arguments, which a decided row refuses and an oversized *)
(* payload skips.  The approval can be decided from the first write on.    *)
CreateApproval(t) ==
    /\ pc[t] = "hold"
    /\ apState' = [apState EXCEPT ![tCall[t]] = "pending"]
    /\ Goto(t, "link")
    /\ UNCHANGED <<runVars, callVars, apArgs, lapsed, ledgerVars, fresh,
                   queueVars, bootVars>>

LinkApproval(t) ==
    /\ pc[t] = "link"
    /\ linked' = [linked EXCEPT ![tCall[t]] = TRUE]
    /\ Goto(t, "attach")
    /\ UNCHANGED <<runVars, outcome, held, approvalVars, ledgerVars, fresh,
                   queueVars, bootVars>>

(* The last write of the hold announces it on the run's stream.  Refused   *)
(* there, the call is an error the model reads; otherwise a driver parks   *)
(* its run over three legal edges, and a client is answered.               *)
AttachArguments(t) ==
    LET c == tCall[t] IN
    /\ pc[t] = "attach"
    /\ \E fits \in BOOLEAN :
          apArgs' = [apArgs EXCEPT ![c] = fits /\ apState[c] = "pending"]
    /\ IF kind[t] \in Drivers /\ ~Settled(tRun[t])
         THEN Write(t, "advance", <<"observing", "planning", "awaiting_approval">>)
         ELSE ReturnText(t)
    /\ UNCHANGED <<runVars, callVars, apState, lapsed, ledgerVars, fresh,
                   queueVars, bootVars>>

(* record_tool_outcome's guard: the domain's table, and for the two        *)
(* outcomes that lead to an effect, a run nobody has stopped.              *)
MayRecord_NoTable(c, next) ==
    next \in {"authorized", "submitted"}
         => ~runCancel[RunOf[c]] /\ runState[RunOf[c]] # "cancelled"

MayRecord_NoStopGuard(c, next) == CanAdvanceTo(outcome[c], next)

MayRecord(c, next) ==
    /\ CanAdvanceTo(outcome[c], next)
    /\ next \in {"authorized", "submitted"}
         => ~runCancel[RunOf[c]] /\ runState[RunOf[c]] # "cancelled"

(* execute_and_record: authorized, submitted, the adapter, the report.     *)
AdvanceToolCall(t, from, next, to) ==
    LET c == tCall[t] IN
    /\ pc[t] = from
    /\ IF MayRecord(c, next)
         THEN /\ outcome' = [outcome EXCEPT ![c] = next]
              /\ Goto(t, to)
         ELSE /\ ReturnText(t)
              /\ UNCHANGED outcome
    /\ UNCHANGED <<runVars, held, linked, approvalVars, ledgerVars, fresh,
                   queueVars, bootVars>>

Authorize(t) == AdvanceToolCall(t, "authorize", "authorized", "submit")

Submit(t) == AdvanceToolCall(t, "submit", "submitted", "adapter")

(* The adapter performs the effect or not, and says what it knows: it      *)
(* confirms only what happened, fails only what did not, and may not know. *)
(* An adapter error leaves a model's or a client's call at submitted;      *)
(* settle_after_adapter_error turns that of an approved call into failed   *)
(* or unknown.                                                             *)
Adapter(t) ==
    LET c == tCall[t] IN
    /\ pc[t] = "adapter"
    /\ \E done \in {0, 1} :
          /\ effects' = [effects EXCEPT ![c] = @ + done]
          /\ \/ \E said \in ResolvedOutcomes :
                   /\ said = "confirmed" => done = 1
                   /\ said = "failed" => done = 0
                   /\ pc' = [pc EXCEPT ![t] = "record"]
                   /\ report' = [report EXCEPT ![t] = said]
                   /\ UNCHANGED <<kind, tRun, tCall, todo, pending, turns>>
             \/ /\ kind[t] # "release"
                /\ ReturnText(t)
    /\ UNCHANGED <<runVars, callVars, approvalVars, barred, fresh, queueVars,
                   bootVars>>

RecordOutcome(t) ==
    LET c == tCall[t] IN
    /\ pc[t] = "record"
    /\ IF MayRecord(c, report[t])
         THEN /\ outcome' = [outcome EXCEPT ![c] = report[t]]
              /\ IF kind[t] = "release" THEN Goto(t, "continue") ELSE ReturnText(t)
         ELSE /\ ReturnText(t)
              /\ UNCHANGED outcome
    /\ UNCHANGED <<runVars, held, linked, approvalVars, ledgerVars, fresh,
                   queueVars, bootVars>>

-----------------------------------------------------------------------------
(* Approvals: the decision, the release of the call, the continuation.     *)

(* record_decision: guarded by the stored state, refused once lapsed.      *)
Decidable_Unguarded(c) == Serving /\ apState[c] # "none" /\ ~lapsed[c]

Decidable(c) == Serving /\ apState[c] = "pending" /\ ~lapsed[c]

Approve(c) ==
    /\ Decidable(c)
    /\ apState' = [apState EXCEPT ![c] = "approved"]
    /\ \/ releases' = releases \cup {c}      \* the client asked for the release too
       \/ UNCHANGED releases                 \* it will resume the call itself
    /\ UNCHANGED <<runVars, callVars, apArgs, lapsed, ledgerVars, taskVars, fresh,
                   drives, denials, stopping, withdrawing, bootVars>>

Deny(c) ==
    /\ Decidable(c)
    /\ apState' = [apState EXCEPT ![c] = "denied"]
    /\ apArgs' = [apArgs EXCEPT ![c] = FALSE]
    /\ denials' = denials \cup {c}
    /\ UNCHANGED <<runVars, callVars, lapsed, ledgerVars, taskVars, fresh, drives,
                   releases, stopping, withdrawing, bootVars>>

(* continue_declined_run: only a run that is parked now is continued.      *)
ContinueDeclined(c) ==
    /\ c \in denials
    /\ denials' = denials \ {c}
    /\ drives' = IF Parked(RunOf[c])
                   THEN drives \cup {<<RunOf[c], c>>} ELSE drives
    /\ UNCHANGED <<runVars, callVars, approvalVars, ledgerVars, taskVars, fresh,
                   releases, stopping, withdrawing, bootVars>>

(* resume_admitted's checks, all of rows that only move one way.           *)
Resumable_NoDecision(c) == linked[c] /\ ~lapsed[c] /\ outcome[c] = "requested"

Resumable(c) ==
    linked[c] /\ apState[c] = "approved" /\ ~lapsed[c] /\ outcome[c] = "requested"

BeginResume(t, c) ==
    /\ pc[t] = "idle"
    /\ Resumable(c)
    /\ pc' = [pc EXCEPT ![t] = "authorize"]
    /\ kind' = [kind EXCEPT ![t] = "release"]
    /\ tRun' = [tRun EXCEPT ![t] = RunOf[c]]
    /\ tCall' = [tCall EXCEPT ![t] = c]
    /\ UNCHANGED <<runVars, callVars, approvalVars, ledgerVars, todo, pending,
                   turns, report, fresh, drives, denials, stopping, withdrawing,
                   bootVars>>

(* resume_call: a client resumes the call with the arguments it kept, or   *)
(* (resume_approval) with the ones the daemon holds.                       *)
ResumeByClient(t, c) ==
    /\ Serving
    /\ BeginResume(t, c)
    /\ UNCHANGED releases

(* release_approved_call: the daemon supplies the arguments it held.       *)
ReleaseApprovedCall(t, c) ==
    /\ c \in releases
    /\ apArgs[c]
    /\ BeginResume(t, c)
    /\ releases' = releases \ {c}

RefuseRelease(c) ==
    /\ c \in releases
    /\ ~(Resumable(c) /\ apArgs[c])
    /\ releases' = releases \ {c}
    /\ UNCHANGED <<runVars, callVars, approvalVars, ledgerVars, taskVars, fresh,
                   drives, denials, stopping, withdrawing, bootVars>>

(* continue_parked_run reads the run and spawns a driver for a parked one. *)
ContinueParked(t) ==
    LET r == tRun[t] IN
    /\ pc[t] = "continue"
    /\ drives' = IF Parked(r)
                   THEN drives \cup {<<r, tCall[t]>>} ELSE drives
    /\ Goto(t, "clear")
    /\ UNCHANGED <<runVars, callVars, approvalVars, ledgerVars, fresh, releases,
                   denials, stopping, withdrawing, bootVars>>

(* resume_core ends by clearing the arguments of the call that ran.        *)
ClearArguments(t) ==
    /\ pc[t] = "clear"
    /\ apArgs' = [apArgs EXCEPT ![tCall[t]] = FALSE]
    /\ Finish(t)
    /\ UNCHANGED <<runVars, callVars, apState, lapsed, ledgerVars, fresh,
                   queueVars, bootVars>>

(* Time passes the approval's expires_at.                                  *)
Lapse(c) ==
    /\ apState[c] \in {"pending", "approved"}
    /\ ~lapsed[c]
    /\ lapsed' = [lapsed EXCEPT ![c] = TRUE]
    /\ UNCHANGED <<runVars, callVars, apState, apArgs, ledgerVars, taskVars,
                   fresh, queueVars, bootVars>>

-----------------------------------------------------------------------------
(* Stop.                                                                   *)

(* request_run_cancellation, one immediate transaction over the family:    *)
(* intent on every unsettled run, pending approvals withdrawn, held        *)
(* arguments dropped.  A family with nothing unsettled refuses.            *)
Stop(r) ==
    LET targets == {q \in Family(r) : Live(q)} IN
    /\ Serving
    /\ runState[r] # "absent"
    /\ targets # {}
    /\ runCancel' = [q \in Runs |-> runCancel[q] \/ q \in targets]
    /\ apState' = [c \in Calls |->
          IF RunOf[c] \in Family(r) /\ apState[c] = "pending" THEN "expired" ELSE apState[c]]
    /\ apArgs' = [c \in Calls |->
          apArgs[c] /\ ~(RunOf[c] \in Family(r) /\ apState[c] \in {"pending", "approved"})]
    /\ barred' = barred \cup
          {c \in Calls : /\ RunOf[c] \in Family(r)
                         /\ ~Settled(RunOf[c])
                         /\ outcome[c] \in {"absent", "requested", "authorized"}}
    /\ stopping' = stopping \cup targets
    /\ UNCHANGED <<runState, callVars, lapsed, effects, taskVars, fresh,
                   drives, releases, denials, withdrawing, bootVars>>

(* A parked run has no driver to read the intent, so the request settles   *)
(* it (settle_parked_run_cancelled).  A run that has moved on is left to   *)
(* the driver that moved it.                                               *)
SettleParked_LeftToDriver(r) ==
    /\ r \in stopping
    /\ stopping' = stopping \ {r}
    /\ UNCHANGED <<runVars, callVars, approvalVars, ledgerVars, taskVars, fresh,
                   drives, releases, denials, withdrawing, bootVars>>

SettleParked_AnyState(r) ==
    /\ r \in stopping
    /\ stopping' = stopping \ {r}
    /\ runState' = [runState EXCEPT ![r] = "cancelled"]
    /\ BumpVersion(r)
    /\ withdrawing' = TRUE
    /\ UNCHANGED <<runCancel, callVars, approvalVars, ledgerVars, taskVars, drives,
                   releases, denials, bootVars>>

SettleParked(r) ==
    /\ r \in stopping
    /\ stopping' = stopping \ {r}
    /\ IF Parked(r)
         THEN /\ runState' = [runState EXCEPT ![r] = "cancelled"]
              /\ BumpVersion(r)
              /\ withdrawing' = TRUE
         ELSE UNCHANGED <<runState, fresh, withdrawing>>
    /\ UNCHANGED <<runCancel, callVars, approvalVars, ledgerVars,
                   taskVars, drives, releases, denials, bootVars>>

(* withdraw_cancelled_run_approvals: a sweep over every cancelled run.     *)
Withdraw ==
    LET swept(c) == runState[RunOf[c]] = "cancelled" IN
    /\ apState' = [c \in Calls |->
          IF swept(c) /\ apState[c] = "pending" THEN "expired" ELSE apState[c]]
    /\ apArgs' = [c \in Calls |->
          apArgs[c] /\ ~(swept(c) /\ apState[c] \in {"pending", "approved"})]
    /\ UNCHANGED lapsed

WithdrawCancelled ==
    /\ withdrawing
    /\ withdrawing' = FALSE
    /\ Withdraw
    /\ UNCHANGED <<runVars, callVars, ledgerVars, taskVars, fresh, drives,
                   releases, denials, stopping, bootVars>>

-----------------------------------------------------------------------------
(* The daemon dies: tasks and everything spawned are gone, rows stay.      *)
Crash ==
    /\ crashes < MaxCrashes
    /\ crashes' = crashes + 1
    /\ boot' = "calls"
    /\ pc' = [t \in Tasks |-> "idle"]
    /\ kind' = [t \in Tasks |-> "idle"]
    /\ tRun' = [t \in Tasks |-> NoRun]
    /\ tCall' = [t \in Tasks |-> NoCall]
    /\ todo' = [t \in Tasks |-> <<>>]
    /\ fresh' = [t \in Tasks |-> FALSE]
    /\ pending' = [t \in Tasks |-> NoCall]
    /\ turns' = [t \in Tasks |-> 0]
    /\ report' = [t \in Tasks |-> "none"]
    /\ drives' = {}
    /\ releases' = {}
    /\ denials' = {}
    /\ stopping' = {}
    /\ withdrawing' = FALSE
    /\ UNCHANGED <<runVars, callVars, approvalVars, ledgerVars>>

(* Startup, in the order of settle_interrupted_runs, before the listener   *)
(* binds.  settle_orphaned_calls: what was never handed over failed, what  *)
(* was handed over is unknown.                                             *)
OrphanOutcome_Failed(o) == "failed"

OrphanOutcome_Unknown(o) == "unknown"

OrphanOutcome(o) == IF o = "authorized" THEN "failed" ELSE "unknown"

SettleOrphanedCall(c) ==
    /\ boot = "calls"
    /\ outcome[c] \in {"authorized", "submitted"}
    /\ outcome' = [outcome EXCEPT ![c] = OrphanOutcome(@)]
    /\ UNCHANGED <<runVars, held, linked, approvalVars, ledgerVars, taskVars,
                   fresh, queueVars, bootVars>>

(* clear_arguments_of_started_calls.                                       *)
ClearStarted ==
    apArgs' = [c \in Calls |->
        apArgs[c] /\ ~(apState[c] = "approved" /\ linked[c] /\ outcome[c] # "requested")]

(* recover_interrupted_runs: every unsettled run is settled, except one    *)
(* that waits for a person and was not stopped.                            *)
Interrupted_NotParked(r) == Live(r) /\ ~Parked(r)

Interrupted(r) == Live(r) /\ ~(Parked(r) /\ ~runCancel[r])

RecoverInterruptedRun(r) ==
    /\ boot = "runs"
    /\ Interrupted(r)
    /\ runState' = [runState EXCEPT ![r] = IF runCancel[r] THEN "cancelled" ELSE "failed"]
    /\ UNCHANGED <<runCancel, callVars, approvalVars, ledgerVars,
                   taskVars, fresh, queueVars, bootVars>>

BootNext ==
    /\ \/ /\ boot = "calls"
          /\ \A c \in Calls : outcome[c] \notin {"authorized", "submitted"}
          /\ boot' = "arguments"
          /\ UNCHANGED approvalVars
       \/ /\ boot = "arguments"
          /\ ClearStarted
          /\ boot' = "runs"
          /\ UNCHANGED <<apState, lapsed>>
       \/ /\ boot = "runs"
          /\ \A r \in Runs : ~Interrupted(r)
          /\ boot' = "withdraw"
          /\ UNCHANGED approvalVars
       \/ /\ boot = "withdraw"
          /\ Withdraw
          /\ boot' = "serving"
    /\ UNCHANGED <<runVars, callVars, ledgerVars, taskVars, fresh, queueVars, crashes>>

-----------------------------------------------------------------------------
(* What the daemon does by itself, and what people and time do to it.      *)
TaskStep(t) ==
    \/ BeginDrive(t) \/ Enter(t) \/ Advance(t) \/ Transition(t)
    \/ CheckCancellation(t) \/ Settle(t) \/ SettleRun(t)
    \/ GenerateFails(t) \/ GenerateStopped(t) \/ GenerateAnswers(t)
    \/ GenerateRequestsTools(t) \/ RoundEnds(t)
    \/ AdmitToolCall(t) \/ CreateApproval(t) \/ LinkApproval(t)
    \/ AttachArguments(t) \/ Authorize(t) \/ Submit(t) \/ Adapter(t)
    \/ RecordOutcome(t) \/ ContinueParked(t) \/ ClearArguments(t)
    \/ \E c \in Calls : RunToolCall(t, c) \/ ReleaseApprovedCall(t, c)

RequestStep ==
    \/ \E c \in Calls : ContinueDeclined(c) \/ RefuseRelease(c)
    \/ \E r \in Runs : SettleParked(r)
    \/ WithdrawCancelled

BootStep ==
    \/ \E c \in Calls : SettleOrphanedCall(c)
    \/ \E r \in Runs : RecoverInterruptedRun(r)
    \/ BootNext

Environment ==
    \/ \E r \in Runs : StartRun(r) \/ Stop(r)
    \/ \E c \in Calls : Approve(c) \/ Deny(c) \/ Lapse(c)
    \/ \E t \in Tasks, c \in Calls : ResumeByClient(t, c) \/ CallToolByClient(t, c)
    \/ Crash

Next ==
    \/ \E t \in Tasks : TaskStep(t)
    \/ RequestStep
    \/ BootStep
    \/ Environment

Spec == Init /\ [][Next]_vars

(* tokio polls every runnable task, and every spawned one although other   *)
(* requests keep coming; a request handler runs to its end and startup     *)
(* proceeds.  Nobody is obliged to decide, resume, stop or crash.          *)
Fairness ==
    /\ \A t \in Tasks : WF_vars(TaskStep(t))
    /\ SF_vars(\E t \in Tasks : BeginDrive(t))
    /\ \A c \in Calls : WF_vars(ContinueDeclined(c) \/ RefuseRelease(c))
    /\ \A r \in Runs : WF_vars(SettleParked(r))
    /\ WF_vars(WithdrawCancelled)
    /\ WF_vars(BootStep)

FairSpec == Spec /\ Fairness

-----------------------------------------------------------------------------
(* Properties.                                                             *)

RunTypes ==
    /\ runState \in [Runs -> RunStates \cup {"absent"}]
    /\ runCancel \in [Runs -> BOOLEAN]

CallTypes ==
    /\ outcome \in [Calls -> ToolOutcomes \cup {"absent"}]
    /\ held \in [Calls -> BOOLEAN]
    /\ linked \in [Calls -> BOOLEAN]

ApprovalTypes ==
    /\ apState \in [Calls -> ApprovalStates]
    /\ apArgs \in [Calls -> BOOLEAN]
    /\ lapsed \in [Calls -> BOOLEAN]

LedgerTypes == effects \in [Calls -> Nat] /\ barred \subseteq Calls

TaskTypes ==
    /\ pc \in [Tasks -> Pcs]
    /\ kind \in [Tasks -> Kinds]
    /\ tRun \in [Tasks -> Runs \cup {NoRun}]
    /\ tCall \in [Tasks -> Calls \cup {NoCall}]
    /\ todo \in [Tasks -> Seq(RunStates)]
    /\ pending \in [Tasks -> Calls \cup {NoCall}]
    /\ turns \in [Tasks -> 0..MaxModelCalls]
    /\ report \in [Tasks -> ResolvedOutcomes \cup {"none"}]

FreshTypes == fresh \in [Tasks -> BOOLEAN]

QueueTypes ==
    /\ drives \subseteq Runs \X (Calls \cup {NoCall})
    /\ releases \subseteq Calls
    /\ denials \subseteq Calls
    /\ stopping \subseteq Runs
    /\ withdrawing \in BOOLEAN

BootTypes == boot \in BootStages /\ crashes \in 0..MaxCrashes

(* Every variable keeps its type; in particular no driver makes more model *)
(* calls than its budget (over_model_budget).                              *)
TypeOK ==
    /\ RunTypes /\ CallTypes /\ ApprovalTypes /\ LedgerTypes
    /\ TaskTypes /\ FreshTypes /\ QueueTypes /\ BootTypes

(* A task that is not idle has a run, one inside the tool pipeline has a   *)
(* call of that run, and one about to write has a state to write.          *)
TasksOK ==
    \A t \in Tasks :
        /\ pc[t] # "idle" => tRun[t] \in Runs
        /\ pc[t] \in ToolPcs => tCall[t] \in Calls /\ tRun[t] = RunOf[tCall[t]]
        /\ pc[t] \in {"advance", "transition", "settle", "settling"} => todo[t] # <<>>
        /\ pc[t] = "record" => report[t] # "none"

(* However decisions, resumes by two clients, drivers and restarts         *)
(* interleave, the adapter performs a call's effect at most once           *)
(* (resume_admitted's duplicate-delivery guard and record_tool_outcome).   *)
EffectAtMostOnce == \A c \in Calls : effects[c] <= 1

(* A call policy held for a person never has its effect without that       *)
(* person's approval on record, and the approval is never lost afterwards. *)
HeldEffectApproved ==
    \A c \in Calls : held[c] /\ effects[c] > 0 => apState[c] = "approved"

(* The stored outcome never lies about the effect, including after a death *)
(* between any two writes: confirmed means it happened, and failed, like   *)
(* everything before submitted, means it did not.                          *)
OutcomeTruthful ==
    \A c \in Calls :
        /\ outcome[c] = "confirmed" => effects[c] = 1
        /\ outcome[c] \in {"absent", "requested", "authorized", "failed"} => effects[c] = 0

(* Once Stop has committed, no call of the stopped family that had not     *)
(* been handed to its adapter ever has an effect, whatever was approved    *)
(* or in flight: record_tool_outcome serializes submission against Stop.   *)
BarredHaveNoEffect == \A c \in barred : effects[c] = 0

(* The inductive strengthening of the four invariants above, in parts:     *)
(* TasksOK and the following five.                                         *)
(* Admission: while a task inserts a call's row, or the approval it waits  *)
(* on, no other task works on that call; nothing precedes the row.         *)
AdmissionInv ==
    /\ \A t, u \in Tasks :
          t # u /\ pc[t] \in {"admit", "hold"} /\ pc[u] \in ToolPcs => tCall[t] # tCall[u]
    /\ \A t \in Tasks :
          /\ pc[t] = "admit" => outcome[tCall[t]] = "absent"
          /\ pc[t] = "hold" => apState[tCall[t]] = "none"
          /\ pc[t] \in ToolPcs \ {"admit"} => outcome[tCall[t]] # "absent"
          /\ pc[t] \in ToolPcs => runState[tRun[t]] # "absent"
    /\ \A c \in Calls :
          /\ outcome[c] = "absent" => apState[c] = "none"
          /\ outcome[c] # "absent" => runState[RunOf[c]] # "absent"

(* Consent: a held call is past requested, or about to be authorized, only *)
(* when its approval says approved.                                        *)
ConsentInv ==
    /\ \A t \in Tasks :
          pc[t] = "authorize" /\ held[tCall[t]] => apState[tCall[t]] = "approved"
    /\ \A c \in Calls :
          held[c] /\ outcome[c] \notin {"absent", "requested"} => apState[c] = "approved"

(* Execution: between authorized and its report a call is in the hands of  *)
(* at most one task, the row says how far that task is, and the count of   *)
(* effects agrees with the row.                                            *)
ExecutionInv ==
    /\ \A t, u \in Tasks :
          t # u /\ pc[t] \in {"submit", "adapter", "record"}
                /\ pc[u] \in {"submit", "adapter", "record"} => tCall[t] # tCall[u]
    /\ \A t \in Tasks :
          /\ pc[t] = "submit" => outcome[tCall[t]] = "authorized"
          /\ pc[t] \in {"adapter", "record"} => outcome[tCall[t]] = "submitted"
          /\ pc[t] = "adapter" => effects[tCall[t]] = 0
          /\ pc[t] = "record" /\ report[t] = "confirmed" => effects[tCall[t]] = 1
          /\ pc[t] = "record" /\ report[t] = "failed" => effects[tCall[t]] = 0
    /\ \A c \in Calls :
          /\ effects[c] \in {0, 1}
          /\ outcome[c] = "confirmed" => effects[c] = 1
          /\ outcome[c] \in {"absent", "requested", "authorized", "failed"} => effects[c] = 0

(* Revocation: a barred call was not handed over, and what keeps it so is  *)
(* durable: its run is marked, or will never be created because its parent *)
(* is marked or settled.                                                   *)
RevocationInv ==
    \A c \in barred :
        /\ outcome[c] \in {"absent", "requested", "authorized", "failed"}
        /\ \/ runCancel[RunOf[c]]
           \/ /\ runState[RunOf[c]] = "absent"
              /\ Parent[RunOf[c]] \in Runs
              /\ runCancel[Parent[RunOf[c]]] \/ Settled(Parent[RunOf[c]])

(* Recovery: while startup settles what a death left, no task, request or  *)
(* spawned work exists; the listener binds afterwards.                     *)
RecoveryInv ==
    ~Serving => /\ \A t \in Tasks : pc[t] = "idle"
                /\ drives = {} /\ releases = {} /\ denials = {} /\ stopping = {}
                /\ ~withdrawing

LedgerInv ==
    /\ TasksOK /\ AdmissionInv /\ ConsentInv /\ ExecutionInv /\ RevocationInv
    /\ RecoveryInv

(* A settled run never moves again and keeps its outcome, whichever of two *)
(* drivers, Stop and recovery come late.                                   *)
SettledForever ==
    [][\A r \in Runs : Settled(r) => runState'[r] = runState[r]]_vars

(* What a person or Stop decided about an approval, and what is known      *)
(* about a resolved call, is never rewritten (record_decision and          *)
(* record_tool_outcome are guarded updates).                               *)
RecordsFinal ==
    [][\A c \in Calls :
          /\ apState[c] \in {"approved", "denied", "expired"} => apState'[c] = apState[c]
          /\ outcome[c] \in ResolvedOutcomes => outcome'[c] = outcome[c]]_vars

(* When the daemon serves again after a death nothing is left half-way: no *)
(* call is between authorized and its report, no unsettled run is left     *)
(* except one that waits for a person, and no cancelled run still asks.    *)
RestartAccounts ==
    [][~Serving /\ boot' = "serving" =>
          /\ \A c \in Calls : outcome'[c] \notin {"authorized", "submitted"}
          /\ \A r \in Runs : Live(r)' => Parked(r)' /\ ~runCancel'[r]
          /\ \A c \in Calls : runState'[RunOf[c]] = "cancelled"
                                  => apState'[c] # "pending" /\ ~apArgs'[c]]_vars

(* A run that was asked to stop is settled eventually, whether it was      *)
(* running, being parked, parked, or being continued at that moment, and   *)
(* also when the daemon dies in between.                                   *)
StopSettles == \A r \in Runs : runCancel[r] ~> Settled(r)

-----------------------------------------------------------------------------
(* What the code says of a parked run, stated so that it can be refuted.   *)

(* A question of the run is still open, or answered yes and not yet run.   *)
Waiting(r) ==
    \E c \in Calls : /\ RunOf[c] = r
                     /\ \/ apState[c] = "pending"
                        \/ apState[c] = "approved" /\ outcome[c] = "requested"

(* Nothing the daemon does by itself is under way or spawned.              *)
Quiet ==
    /\ Serving
    /\ \A t \in Tasks : pc[t] = "idle"
    /\ drives = {} /\ releases = {} /\ denials = {} /\ stopping = {}
    /\ ~withdrawing

(* A run whose question was answered is carried on: while nothing is under *)
(* way, a parked run still has something for a person to do                *)
(* (continue_parked_run, continue_declined_run).                           *)
ParkedIsWaiting ==
    \A r \in Runs : Quiet /\ Parked(r) => Waiting(r)

(* When the daemon serves after a restart, every unsettled run has a       *)
(* question a person can still answer or release (settle_interrupted_runs).*)
RestartLeavesNoOrphan ==
    [][~Serving /\ boot' = "serving" => \A r \in Runs : Live(r)' => Waiting(r)']_vars

(* A run is driven by one task at a time: two drivers of the same run      *)
(* never have a model call in flight together (continue_parked_run).       *)
OneModelCall ==
    \A t, u \in Tasks : t # u /\ pc[t] = "generate" /\ pc[u] = "generate" => tRun[t] # tRun[u]

(* A parked run goes on executing only after the call its model made was   *)
(* decided, never on another call's decision (resume_held_call).           *)
ContinuesOnItsOwnCall ==
    [][\A r \in Runs :
          Parked(r) /\ runState'[r] = "executing"
             => \A c \in Calls \ ByClient : RunOf[c] = r => apState[c] # "pending"]_vars

-----------------------------------------------------------------------------
(* The ledger and the approvals implement the abstract gate.  Consent is   *)
(* asked of a call policy holds, from its admission on.                    *)
gateOf == [c \in Calls |->
    IF outcome[c] \in {"absent", "requested", "authorized"} THEN "open"
    ELSE IF outcome[c] = "submitted" THEN "handed" ELSE outcome[c]]

consentOf == [c \in Calls |->
    IF ~held[c] \/ outcome[c] = "absent" THEN "unasked"
    ELSE IF apState[c] \in {"none", "pending"} THEN "asked"
    ELSE IF apState[c] = "approved" THEN "yes" ELSE "no"]

Gate == INSTANCE EffectGate
    WITH gate <- gateOf, consent <- consentOf, effects <- effects, revoked <- barred

(* Every behaviour of runs, approvals, Stop and restarts is one the        *)
(* abstract gate allows: consent before the effect, at most one effect,    *)
(* none after revocation, one truthful verdict.                            *)
ImplementsGate == Gate!Spec
=============================================================================

------------------------ MODULE HeldCallsGateProofs ------------------------
(***************************************************************************)
(* What no step may ever undo, that the daemon implements EffectGate, what *)
(* a restart leaves behind, and that only a decision moves a parked run    *)
(* on: all from the inductive invariant of HeldCallsLedgerProofs.          *)
(***************************************************************************)
EXTENDS HeldCallsLedgerProofs

USE DEF runVars, callVars, approvalVars, ledgerVars, taskVars, queueVars, bootVars

(* Who writes a run's state: creation, or an edge out of an unsettled one. *)
LEMMA RunWriters ==
    ASSUME IInv, Next
    PROVE  \/ UNCHANGED runState
           \/ \E r \in Runs, to \in RunStates :
                 runState[r] \notin Terminal /\ runState' = [runState EXCEPT ![r] = to]
<1> DEFINE Moves == \E r \in Runs, to \in RunStates :
                 runState[r] \notin Terminal /\ runState' = [runState EXCEPT ![r] = to]
<1>0. Types
  BY DEF IInv
<1>1. ASSUME NEW t \in Tasks, Transition(t) \/ SettleRun(t) PROVE UNCHANGED runState \/ Moves
  <2>1. tRun[t] \in Runs /\ Head(todo[t]) \in RunStates
    BY <1>0, <1>1, Scripts DEF Transition, SettleRun, Types, TypeOK, TaskTypes, TasksOK
  <2>2. CASE CanTransitionTo(runState[tRun[t]], Head(todo[t]))
    <3>1. runState[tRun[t]] \notin Terminal
      BY <2>2, TableType DEF Unsettled, Terminal
    <3> QED BY <1>1, <2>1, <3>1 DEF Transition, SettleRun
  <2>3. CASE ~CanTransitionTo(runState[tRun[t]], Head(todo[t]))
    BY <1>1, <2>3 DEF Transition, SettleRun
  <2> QED BY <2>2, <2>3
<1>2. ASSUME NEW t \in Tasks, TaskStep(t) PROVE UNCHANGED runState \/ Moves
  BY <1>1, <1>2 DEF TaskStep, BeginDrive, Enter, Advance, CheckCancellation, Settle,
       GenerateFails, GenerateStopped, GenerateAnswers, GenerateRequestsTools,
       RoundEnds, AdmitToolCall, CreateApproval, LinkApproval, AttachArguments, Authorize,
       Submit, AdvanceToolCall, Adapter, RecordOutcome, ContinueParked, ClearArguments,
       RunToolCall, RequestTool, ReleaseApprovedCall, BeginResume
<1>3. ASSUME NEW r \in Runs, StartRun(r) \/ SettleParked(r) \/ RecoverInterruptedRun(r)
      PROVE  UNCHANGED runState \/ Moves
  BY <1>3, StateNames DEF StartRun, SettleParked, RecoverInterruptedRun, Interrupted, Parked,
       Live, Unsettled, Terminal
<1>4. CASE RequestStep
  BY <1>3, <1>4 DEF RequestStep, ContinueDeclined, RefuseRelease, WithdrawCancelled
<1>5. CASE BootStep
  BY <1>3, <1>5 DEF BootStep, SettleOrphanedCall, BootNext
<1>6. CASE Environment
  BY <1>3, <1>6 DEF Environment, Stop, Approve, Deny, Lapse, ResumeByClient, BeginResume,
       CallToolByClient, RequestTool, Crash
<1> QED BY <1>2, <1>4, <1>5, <1>6 DEF Next

(* A settled run keeps its outcome for ever: drivers, Stop, the settlement *)
(* of parked runs and recovery all consult the table (can_transition_to).  *)
THEOREM SettledRunsStay == Spec => SettledForever
<1> DEFINE Stays == \A r \in Runs : Settled(r) => runState'[r] = runState[r]
<1>1. ASSUME IInv, [Next]_vars PROVE [Stays]_vars
  <2>1. CASE Next
    BY <1>1, <2>1, RunWriters DEF IInv, Types, TypeOK, RunTypes, Settled
  <2>2. CASE UNCHANGED vars
    BY <2>2
  <2> QED BY <1>1, <2>1, <2>2
<1> QED BY <1>1, Inductive, PTL DEF Spec, SettledForever

(* What decides nothing and resolves nothing: the steps that leave the     *)
(* approvals' states, the outcomes, the effects and the barred calls.      *)
LEMMA QuietTasks ==
    ASSUME NEW t \in Tasks,
           \/ BeginDrive(t) \/ Enter(t) \/ Advance(t) \/ Transition(t)
           \/ CheckCancellation(t) \/ Settle(t) \/ SettleRun(t)
           \/ GenerateFails(t) \/ GenerateStopped(t) \/ GenerateAnswers(t)
           \/ GenerateRequestsTools(t) \/ RoundEnds(t) \/ LinkApproval(t)
           \/ AttachArguments(t) \/ ContinueParked(t) \/ ClearArguments(t)
           \/ \E c \in Calls : BeginResume(t, c)
    PROVE  UNCHANGED <<outcome, held, apState, effects, barred>>
BY DEF BeginDrive, Enter, Advance, Transition, CheckCancellation, Settle, SettleRun,
       GenerateFails, GenerateStopped, GenerateAnswers, GenerateRequestsTools,
       RoundEnds, LinkApproval, AttachArguments, ContinueParked, ClearArguments, BeginResume

LEMMA QuietRequests ==
    /\ \A c \in Calls : ContinueDeclined(c) \/ RefuseRelease(c) \/ Lapse(c)
           => UNCHANGED <<outcome, held, apState, effects, barred>>
    /\ \A r \in Runs : StartRun(r) \/ SettleParked(r) \/ RecoverInterruptedRun(r)
           => UNCHANGED <<outcome, held, apState, effects, barred>>
    /\ Crash => UNCHANGED <<outcome, held, apState, effects, barred>>
BY DEF ContinueDeclined, RefuseRelease, Lapse, StartRun, SettleParked, RecoverInterruptedRun,
       Crash

-----------------------------------------------------------------------------
(* The refinement.  Each step is one of the gate's, or leaves the gate     *)
(* alone.                                                                  *)
GateStep == Gate!Next \/ UNCHANGED <<gateOf, consentOf, effects, barred>>

LEMMA GateQuiet ==
    UNCHANGED <<outcome, held, apState, effects, barred>> => GateStep
BY DEF GateStep, gateOf, consentOf

(* Withdrawing open questions and revoking calls not yet handed over.      *)
LEMMA GateRevoke ==
    ASSUME IInv, UNCHANGED <<outcome, held, effects>>, barred' \subseteq Calls,
           barred \subseteq barred',
           \A c \in barred' \ barred : outcome[c] \in {"absent", "requested", "authorized"},
           \A c \in Calls : \/ apState'[c] = apState[c]
                            \/ apState[c] = "pending" /\ apState'[c] \in {"expired", "denied"}
    PROVE  GateStep
<1> DEFINE S == barred' \ barred
           W == {c \in Calls : consentOf[c] = "asked" /\ apState'[c] # apState[c]}
<1>1. \A c \in S : gateOf[c] = "open"
  BY DEF gateOf
<1>2. barred' = barred \cup S
  OBVIOUS
<1>3. gateOf' = gateOf
  BY DEF gateOf
<1>4. consentOf' = [c \in Calls |-> IF c \in W THEN "no" ELSE consentOf[c]]
  <2>1. \A c \in Calls : outcome[c] = "absent" => apState[c] = "none"
    BY DEF IInv, LedgerInv, AdmissionInv
  <2> QED BY <2>1 DEF consentOf
<1>5. Gate!Revoke(S, W)
  BY <1>1, <1>2, <1>3, <1>4 DEF Gate!Revoke
<1>6. S \in SUBSET Calls /\ W \in SUBSET Calls
  OBVIOUS
<1> QED BY <1>5, <1>6 DEF GateStep, Gate!Next

LEMMA GateAdmit ==
    ASSUME IInv, NEW t \in Tasks, AdmitToolCall(t)
    PROVE  GateStep
<1> DEFINE c == tCall[t]
<1>0. /\ c \in Calls /\ outcome[c] = "absent" /\ apState[c] = "none"
      /\ outcome' = [outcome EXCEPT ![c] = "requested"]
      /\ UNCHANGED <<held, apState, effects, barred>>
      /\ outcome \in [Calls -> ToolOutcomes \cup {"absent"}]
      /\ held \in [Calls -> BOOLEAN]
  BY DEF AdmitToolCall, IInv, LedgerInv, TasksOK, AdmissionInv, ToolPcs, Types, TypeOK, CallTypes
<1>1. gateOf' = gateOf /\ gateOf[c] = "open" /\ consentOf[c] = "unasked"
  BY <1>0 DEF gateOf, consentOf
<1>2. CASE held[c]
  <2>1. consentOf' = [consentOf EXCEPT ![c] = "asked"]
    BY <1>0, <1>2 DEF consentOf
  <2>2. Gate!Ask(c)
    BY <1>0, <1>1, <2>1 DEF Gate!Ask
  <2> QED BY <1>0, <2>2 DEF GateStep, Gate!Next
<1>3. CASE ~held[c]
  <2>1. consentOf' = consentOf
    BY <1>0, <1>3 DEF consentOf
  <2> QED BY <1>0, <1>1, <2>1 DEF GateStep
<1> QED BY <1>2, <1>3

LEMMA GateRequest ==
    ASSUME IInv, NEW t \in Tasks, NEW c \in Calls, RequestTool(t, c)
    PROVE  GateStep
<1>1. gateOf' = gateOf /\ consentOf' = consentOf
  BY DEF RequestTool, gateOf, consentOf, IInv, Types, TypeOK, CallTypes
<1> QED BY <1>1 DEF GateStep, RequestTool

LEMMA GateCreate ==
    ASSUME IInv, NEW t \in Tasks, CreateApproval(t)
    PROVE  GateStep
<1>0. tCall[t] \in Calls /\ apState[tCall[t]] = "none"
  BY DEF CreateApproval, IInv, LedgerInv, TasksOK, AdmissionInv, ToolPcs
<1>1. gateOf' = gateOf /\ consentOf' = consentOf
  BY <1>0 DEF CreateApproval, gateOf, consentOf, IInv, Types, TypeOK, ApprovalTypes
<1> QED BY <1>1 DEF GateStep, CreateApproval

LEMMA GateApprove ==
    ASSUME IInv, NEW c \in Calls, Approve(c)
    PROVE  GateStep
<1>0. /\ apState[c] = "pending" /\ apState' = [apState EXCEPT ![c] = "approved"]
      /\ UNCHANGED <<outcome, held, effects, barred>>
      /\ apState \in [Calls -> ApprovalStates]
      /\ outcome[c] # "absent"
  BY DEF Approve, Decidable, IInv, LedgerInv, AdmissionInv, Types, TypeOK, ApprovalTypes
<1>1. gateOf' = gateOf
  BY <1>0 DEF gateOf
<1>2. CASE held[c]
  <2>1. consentOf' = [consentOf EXCEPT ![c] = "yes"] /\ consentOf[c] = "asked"
    BY <1>0, <1>2 DEF consentOf
  <2>2. Gate!Answer(c, "yes")
    BY <1>0, <1>1, <2>1 DEF Gate!Answer
  <2> QED BY <2>2 DEF GateStep, Gate!Next
<1>3. CASE ~held[c]
  <2>1. consentOf' = consentOf
    BY <1>0, <1>3 DEF consentOf
  <2> QED BY <1>0, <1>1, <2>1 DEF GateStep
<1> QED BY <1>2, <1>3

LEMMA GateAdvance ==
    ASSUME IInv, NEW t \in Tasks, Authorize(t) \/ Submit(t)
    PROVE  GateStep
<1> DEFINE c == tCall[t]
<1>0. /\ c \in Calls /\ UNCHANGED <<held, apState, effects, barred>>
      /\ outcome \in [Calls -> ToolOutcomes \cup {"absent"}]
      /\ runState[RunOf[c]] # "absent"
  BY DEF Authorize, Submit, AdvanceToolCall, IInv, LedgerInv, AdmissionInv, TasksOK, ToolPcs,
         Types, TypeOK, CallTypes
<1>1. CASE UNCHANGED outcome
  BY <1>0, <1>1, GateQuiet
<1>2. CASE Authorize(t) /\ MayRecord(c, "authorized")
  <2>1. outcome[c] = "requested" /\ outcome' = [outcome EXCEPT ![c] = "authorized"]
    BY <1>2 DEF Authorize, AdvanceToolCall, MayRecord, CanAdvanceTo
  <2>2. gateOf' = gateOf /\ consentOf' = consentOf
    BY <1>0, <2>1 DEF gateOf, consentOf
  <2> QED BY <1>0, <2>2 DEF GateStep
<1>3. CASE Submit(t) /\ MayRecord(c, "submitted")
  <2>1. /\ outcome[c] = "authorized" /\ outcome' = [outcome EXCEPT ![c] = "submitted"]
        /\ ~runCancel[RunOf[c]]
    BY <1>3 DEF Submit, AdvanceToolCall, MayRecord, CanAdvanceTo
  <2>2. c \notin barred
    BY <1>0, <2>1 DEF IInv, LedgerInv, RevocationInv
  <2>3. held[c] => apState[c] = "approved"
    BY <1>0, <2>1 DEF IInv, LedgerInv, ConsentInv
  <2>4. /\ gateOf[c] = "open" /\ gateOf' = [gateOf EXCEPT ![c] = "handed"]
        /\ consentOf' = consentOf /\ consentOf[c] \in {"unasked", "yes"}
    BY <1>0, <2>1, <2>3 DEF gateOf, consentOf
  <2>5. Gate!Hand(c)
    BY <1>0, <2>2, <2>4 DEF Gate!Hand
  <2> QED BY <1>0, <2>5 DEF GateStep, Gate!Next
<1> QED BY <1>1, <1>2, <1>3 DEF Authorize, Submit, AdvanceToolCall

LEMMA GateAdapter ==
    ASSUME IInv, NEW t \in Tasks, Adapter(t)
    PROVE  GateStep
<1> DEFINE c == tCall[t]
<1>0. /\ c \in Calls /\ outcome[c] = "submitted" /\ effects[c] = 0
      /\ UNCHANGED <<outcome, held, apState, barred>>
      /\ effects \in [Calls -> Nat]
  BY DEF Adapter, IInv, LedgerInv, ExecutionInv, TasksOK, ToolPcs, Types, TypeOK, LedgerTypes
<1>1. gateOf' = gateOf /\ consentOf' = consentOf /\ gateOf[c] = "handed"
  BY <1>0 DEF gateOf, consentOf
<1>2. \/ effects' = [effects EXCEPT ![c] = 1]
      \/ effects' = effects
  <2>1. PICK done \in {0, 1} : effects' = [effects EXCEPT ![c] = @ + done]
    BY DEF Adapter
  <2>2. effects' = [effects EXCEPT ![c] = done]
    BY <1>0, <2>1
  <2>3. done = 0 => [effects EXCEPT ![c] = done] = effects
    BY <1>0
  <2> QED BY <2>2, <2>3
<1>3. CASE effects' = [effects EXCEPT ![c] = 1]
  <2>1. Gate!Perform(c)
    BY <1>0, <1>1, <1>3 DEF Gate!Perform
  <2> QED BY <1>0, <2>1 DEF GateStep, Gate!Next
<1>4. CASE effects' = effects
  BY <1>0, <1>1, <1>4 DEF GateStep
<1> QED BY <1>2, <1>3, <1>4

(* A verdict: what the adapter reported, or what a restart concludes.      *)
LEMMA GateConclude ==
    ASSUME IInv, NEW c \in Calls, NEW v \in ResolvedOutcomes,
           \/ outcome[c] = "submitted"
           \/ outcome[c] = "authorized" /\ v = "failed",
           v = "confirmed" => effects[c] = 1,
           v = "failed" => effects[c] = 0,
           outcome' = [outcome EXCEPT ![c] = v],
           UNCHANGED <<held, apState, effects, barred>>
    PROVE  GateStep
<1>0. outcome \in [Calls -> ToolOutcomes \cup {"absent"}] /\ v \in Gate!Verdicts
  BY DEF IInv, Types, TypeOK, CallTypes, ResolvedOutcomes, Gate!Verdicts
<1>1. consentOf' = consentOf
  BY <1>0 DEF consentOf, ResolvedOutcomes
<1>2. gateOf' = [gateOf EXCEPT ![c] = v]
  BY <1>0 DEF gateOf, ResolvedOutcomes
<1>3. \/ gateOf[c] = "handed"
      \/ gateOf[c] = "open" /\ v = "failed"
  BY DEF gateOf
<1>4. Gate!Conclude(c, v)
  BY <1>1, <1>2, <1>3 DEF Gate!Conclude
<1> QED BY <1>0, <1>4 DEF GateStep, Gate!Next

LEMMA GateRecord ==
    ASSUME IInv, NEW t \in Tasks, RecordOutcome(t)
    PROVE  GateStep
<1> DEFINE c == tCall[t]
<1>0. /\ c \in Calls /\ outcome[c] = "submitted" /\ report[t] \in ResolvedOutcomes
      /\ report[t] = "confirmed" => effects[c] = 1
      /\ report[t] = "failed" => effects[c] = 0
      /\ UNCHANGED <<held, apState, effects, barred>>
  BY DEF RecordOutcome, IInv, LedgerInv, ExecutionInv, TasksOK, ToolPcs, Types, TypeOK, TaskTypes
<1>1. outcome' = [outcome EXCEPT ![c] = report[t]]
  BY <1>0 DEF RecordOutcome, MayRecord, CanAdvanceTo, ResolvedOutcomes
<1> QED BY <1>0, <1>1, GateConclude

LEMMA GateOrphan ==
    ASSUME IInv, NEW c \in Calls, SettleOrphanedCall(c)
    PROVE  GateStep
<1> DEFINE v == OrphanOutcome(outcome[c])
<1>1. /\ v \in ResolvedOutcomes /\ v # "confirmed"
      /\ \/ outcome[c] = "submitted" /\ v = "unknown"
         \/ outcome[c] = "authorized" /\ v = "failed"
  BY DEF SettleOrphanedCall, OrphanOutcome, ResolvedOutcomes
<1>2. v = "failed" => effects[c] = 0
  BY <1>1 DEF IInv, LedgerInv, ExecutionInv
<1>3. outcome' = [outcome EXCEPT ![c] = v] /\ UNCHANGED <<held, apState, effects, barred>>
  BY DEF SettleOrphanedCall
<1> QED BY <1>1, <1>2, <1>3, GateConclude

(* Deny, Stop and the two sweeps.                                          *)
LEMMA GateWithdrawals ==
    ASSUME IInv
    PROVE  /\ \A c \in Calls : Deny(c) => GateStep
           /\ \A r \in Runs : Stop(r) => GateStep
           /\ WithdrawCancelled => GateStep
           /\ BootNext => GateStep
<1>0. apState \in [Calls -> ApprovalStates] /\ barred \subseteq Calls
  BY DEF IInv, Types, TypeOK, ApprovalTypes, LedgerTypes
<1>1. ASSUME NEW c \in Calls, Deny(c) PROVE GateStep
  <2>1. \A d \in Calls : \/ apState'[d] = apState[d]
                         \/ apState[d] = "pending" /\ apState'[d] \in {"expired", "denied"}
    BY <1>0, <1>1 DEF Deny, Decidable
  <2> QED BY <1>0, <1>1, <2>1, GateRevoke DEF Deny
<1>2. ASSUME NEW r \in Runs, Stop(r) PROVE GateStep
  <2>1. \A d \in Calls : \/ apState'[d] = apState[d]
                         \/ apState[d] = "pending" /\ apState'[d] \in {"expired", "denied"}
    BY <1>0, <1>2 DEF Stop
  <2>2. /\ barred' \subseteq Calls /\ barred \subseteq barred'
        /\ \A c \in barred' \ barred : outcome[c] \in {"absent", "requested", "authorized"}
        /\ UNCHANGED <<outcome, held, effects>>
    BY <1>0, <1>2 DEF Stop
  <2> QED BY <2>1, <2>2, GateRevoke
<1>3. ASSUME Withdraw, UNCHANGED <<outcome, held, effects, barred>> PROVE GateStep
  <2>1. \A d \in Calls : \/ apState'[d] = apState[d]
                         \/ apState[d] = "pending" /\ apState'[d] \in {"expired", "denied"}
    BY <1>0, <1>3 DEF Withdraw
  <2> QED BY <1>0, <1>3, <2>1, GateRevoke
<1>4. ASSUME WithdrawCancelled PROVE GateStep
  BY <1>3, <1>4 DEF WithdrawCancelled
<1>5. ASSUME BootNext PROVE GateStep
  BY <1>3, <1>5, GateQuiet DEF BootNext
<1> QED BY <1>1, <1>2, <1>4, <1>5

LEMMA NextGate ==
    ASSUME IInv, Next
    PROVE  GateStep
<1>1. ASSUME NEW t \in Tasks, TaskStep(t) PROVE GateStep
  <2>1. CASE \/ BeginDrive(t) \/ Enter(t) \/ Advance(t) \/ Transition(t)
             \/ CheckCancellation(t) \/ Settle(t) \/ SettleRun(t)
             \/ GenerateFails(t) \/ GenerateStopped(t) \/ GenerateAnswers(t)
             \/ GenerateRequestsTools(t) \/ RoundEnds(t) \/ LinkApproval(t)
             \/ AttachArguments(t) \/ ContinueParked(t) \/ ClearArguments(t)
             \/ \E c \in Calls : BeginResume(t, c)
    BY <2>1, QuietTasks, GateQuiet
  <2>2. CASE \/ AdmitToolCall(t) \/ CreateApproval(t) \/ Authorize(t) \/ Submit(t)
             \/ Adapter(t) \/ RecordOutcome(t)
    BY <2>2, GateAdmit, GateCreate, GateAdvance, GateAdapter, GateRecord
  <2>3. ASSUME NEW c \in Calls, RunToolCall(t, c) PROVE GateStep
    BY <2>3, GateRequest DEF RunToolCall
  <2>4. ASSUME NEW c \in Calls, ReleaseApprovedCall(t, c) PROVE GateStep
    BY <2>1, <2>4 DEF ReleaseApprovedCall
  <2> QED BY <1>1, <2>1, <2>2, <2>3, <2>4 DEF TaskStep
<1>2. ASSUME RequestStep PROVE GateStep
  BY <1>2, QuietRequests, GateQuiet, GateWithdrawals DEF RequestStep
<1>3. ASSUME BootStep PROVE GateStep
  BY <1>3, QuietRequests, GateQuiet, GateOrphan, GateWithdrawals DEF BootStep
<1>4. ASSUME NEW t \in Tasks, NEW c \in Calls, ResumeByClient(t, c) \/ CallToolByClient(t, c)
      PROVE  GateStep
  BY <1>4, QuietTasks, GateQuiet, GateRequest DEF ResumeByClient, CallToolByClient
<1>5. ASSUME Environment PROVE GateStep
  BY <1>4, <1>5, QuietRequests, GateQuiet, GateApprove, GateWithdrawals DEF Environment
<1> QED BY <1>1, <1>2, <1>3, <1>5 DEF Next

LEMMA InitGate == Init => Gate!Init
BY DEF Init, Gate!Init, gateOf, consentOf

(* The detailed daemon implements the abstract gate: consent before the    *)
(* effect, at most one effect and none after revocation, one truthful      *)
(* verdict, across every interleaving and restart.                         *)
THEOREM GateImplemented == Spec => ImplementsGate
<1>1. ASSUME IInv, [Next]_vars PROVE [Gate!Next]_(Gate!vars)
  <2>1. CASE Next
    BY <1>1, <2>1, NextGate DEF GateStep, Gate!vars
  <2>2. CASE UNCHANGED vars
    BY <2>2 DEF vars, Gate!vars, gateOf, consentOf
  <2> QED BY <1>1, <2>1, <2>2
<1> QED BY <1>1, InitGate, Inductive, PTL DEF Spec, ImplementsGate, Gate!Spec

(* A step rewrites no decision and no verdict.                             *)
RecordsKept ==
    \A c \in Calls :
        /\ apState[c] \in {"approved", "denied", "expired"} => apState'[c] = apState[c]
        /\ outcome[c] \in ResolvedOutcomes => outcome'[c] = outcome[c]

LEMMA RecordsStep ==
    ASSUME IInv, Next
    PROVE  RecordsKept
<1> USE DEF RecordsKept
<1>0. apState \in [Calls -> ApprovalStates] /\ outcome \in [Calls -> ToolOutcomes \cup {"absent"}]
  BY DEF IInv, Types, TypeOK, ApprovalTypes, CallTypes
<1>1. ASSUME NEW t \in Tasks, TaskStep(t) PROVE RecordsKept
  <2>1. CASE \/ BeginDrive(t) \/ Enter(t) \/ Advance(t) \/ Transition(t)
           \/ CheckCancellation(t) \/ Settle(t) \/ SettleRun(t)
           \/ GenerateFails(t) \/ GenerateStopped(t) \/ GenerateAnswers(t)
           \/ GenerateRequestsTools(t) \/ RoundEnds(t) \/ LinkApproval(t)
           \/ AttachArguments(t) \/ ContinueParked(t) \/ ClearArguments(t)
           \/ \E c \in Calls : BeginResume(t, c)
    BY <2>1, QuietTasks
  <2>2. CASE AdmitToolCall(t)
    BY <2>2, <1>0 DEF AdmitToolCall, IInv, LedgerInv, AdmissionInv, ResolvedOutcomes
  <2>3. CASE CreateApproval(t)
    BY <2>3, <1>0 DEF CreateApproval, IInv, LedgerInv, AdmissionInv
  <2>4. CASE Authorize(t) \/ Submit(t)
    BY <2>4, <1>0 DEF Authorize, Submit, AdvanceToolCall, MayRecord, CanAdvanceTo, ResolvedOutcomes
  <2>5. CASE Adapter(t)
    BY <2>5 DEF Adapter
  <2>6. CASE RecordOutcome(t)
    BY <2>6, <1>0 DEF RecordOutcome, MayRecord, CanAdvanceTo, ResolvedOutcomes
  <2>7. ASSUME NEW c \in Calls, RunToolCall(t, c) PROVE RecordsKept
    BY <2>7 DEF RunToolCall, RequestTool
  <2>8. ASSUME NEW c \in Calls, ReleaseApprovedCall(t, c) PROVE RecordsKept
    BY <2>1, <2>8 DEF ReleaseApprovedCall
  <2> QED BY <1>1, <2>1, <2>2, <2>3, <2>4, <2>5, <2>6, <2>7, <2>8 DEF TaskStep
<1>2. ASSUME RequestStep PROVE RecordsKept
  BY <1>0, <1>2, QuietRequests DEF RequestStep, WithdrawCancelled, Withdraw
<1>3. ASSUME NEW c \in Calls, SettleOrphanedCall(c) PROVE RecordsKept
  BY <1>0, <1>3 DEF SettleOrphanedCall, ResolvedOutcomes
<1>4. ASSUME BootNext PROVE RecordsKept
  BY <1>0, <1>4 DEF BootNext, Withdraw
<1>5. ASSUME BootStep PROVE RecordsKept
  BY <1>3, <1>4, <1>5, QuietRequests DEF BootStep
<1>6. ASSUME NEW c \in Calls, Approve(c) \/ Deny(c) PROVE RecordsKept
  BY <1>0, <1>6 DEF Approve, Deny, Decidable
<1>7. ASSUME NEW r \in Runs, Stop(r) PROVE RecordsKept
  BY <1>0, <1>7 DEF Stop
<1>8. ASSUME NEW t \in Tasks, NEW c \in Calls, ResumeByClient(t, c) \/ CallToolByClient(t, c)
      PROVE  RecordsKept
  BY <1>8 DEF ResumeByClient, BeginResume, CallToolByClient, RequestTool
<1>9. ASSUME Environment PROVE RecordsKept
  BY <1>6, <1>7, <1>8, <1>9, QuietRequests DEF Environment
<1> QED BY <1>1, <1>2, <1>5, <1>9 DEF Next

(* Decisions and verdicts are never rewritten: every writer of an approval *)
(* wants it pending, every writer of an outcome asks can_advance_to.       *)
THEOREM RecordsStay == Spec => RecordsFinal
<1>1. ASSUME IInv, [Next]_vars PROVE [RecordsKept]_vars
  BY <1>1, RecordsStep
<1> QED BY <1>1, Inductive, PTL DEF Spec, RecordsFinal, RecordsKept

-----------------------------------------------------------------------------
(* What startup has achieved by each stage, and who holds arguments.       *)

(* Arguments are held only for a question that is open or was answered     *)
(* yes: a denial, a Stop and a withdrawal drop them in the transaction     *)
(* that records the answer.                                                *)
HeldArguments == \A c \in Calls : apArgs[c] => apState[c] \in {"pending", "approved"}

(* settle_interrupted_runs in order: past its first stage no call is in    *)
(* flight, past the third no run is interrupted.                           *)
StartupInv ==
    /\ boot \in {"arguments", "runs", "withdraw"} =>
          \A c \in Calls : outcome[c] \notin {"authorized", "submitted"}
    /\ boot = "withdraw" => \A r \in Runs : ~Interrupted(r)

RestartInv == HeldArguments /\ StartupInv

(* Before the listener binds only startup, time and another death act.     *)
LEMMA NotServing ==
    ASSUME IInv, Next, ~Serving
    PROVE  BootStep \/ Crash \/ \E c \in Calls : Lapse(c)
<1> USE DEF IInv, LedgerInv
<1>1. ASSUME NEW t \in Tasks, TaskStep(t) PROVE FALSE
  <2>1. pc[t] # "idle" \/ drives # {} \/ releases # {}
    BY <1>1 DEF TaskStep, BeginDrive, Enter, Advance, Transition, CheckCancellation, Settle,
       SettleRun, GenerateFails, GenerateStopped, GenerateAnswers, GenerateRequestsTools,
       RoundEnds, AdmitToolCall, CreateApproval, LinkApproval, AttachArguments, Authorize,
       Submit, AdvanceToolCall, Adapter, RecordOutcome, ContinueParked, ClearArguments,
       RunToolCall, ReleaseApprovedCall
  <2> QED BY <2>1 DEF RecoveryInv
<1>2. ~RequestStep
  BY DEF RequestStep, ContinueDeclined, RefuseRelease, SettleParked, WithdrawCancelled, RecoveryInv
<1>3. CASE Environment
  BY <1>3 DEF Environment, StartRun, Stop, Approve, Deny, Decidable, ResumeByClient,
       CallToolByClient
<1> QED BY <1>1, <1>2, <1>3 DEF Next

(* A served daemon leaves that stage only by dying.                        *)
LEMMA ServingStays ==
    ASSUME IInv, Next, Serving, ~Crash
    PROVE  Serving'
<1>1. ASSUME NEW t \in Tasks, TaskStep(t) PROVE UNCHANGED boot
  BY <1>1 DEF TaskStep, BeginDrive, Enter, Advance, Transition, CheckCancellation, Settle,
       SettleRun, GenerateFails, GenerateStopped, GenerateAnswers, GenerateRequestsTools,
       RoundEnds, AdmitToolCall, CreateApproval, LinkApproval, AttachArguments, Authorize,
       Submit, AdvanceToolCall, Adapter, RecordOutcome, ContinueParked, ClearArguments,
       RunToolCall, RequestTool, ReleaseApprovedCall, BeginResume
<1>2. CASE RequestStep
  BY <1>2 DEF RequestStep, ContinueDeclined, RefuseRelease, SettleParked, WithdrawCancelled, Serving
<1>3. ~BootStep
  BY DEF BootStep, SettleOrphanedCall, RecoverInterruptedRun, BootNext, Serving
<1>4. CASE Environment
  BY <1>4 DEF Environment, StartRun, Stop, Approve, Deny, Lapse, ResumeByClient, BeginResume,
       CallToolByClient, RequestTool, Serving
<1> QED BY <1>1, <1>2, <1>3, <1>4 DEF Next, Serving

(* Steps that touch neither the arguments nor the approvals' states.       *)
LEMMA ArgumentsLeft ==
    ASSUME HeldArguments, UNCHANGED <<apState, apArgs>>
    PROVE  HeldArguments'
BY DEF HeldArguments

(* The arguments only ever shrink and open questions are closed with them. *)
LEMMA ArgumentsWithdrawn ==
    ASSUME IInv, HeldArguments, Withdraw
    PROVE  /\ HeldArguments'
           /\ \A c \in Calls : runState[RunOf[c]] = "cancelled"
                                 => apState'[c] # "pending" /\ ~apArgs'[c]
<1>0. apState \in [Calls -> ApprovalStates] /\ apArgs \in [Calls -> BOOLEAN]
  BY DEF IInv, Types, TypeOK, ApprovalTypes
<1>1. ASSUME NEW c \in Calls PROVE apArgs'[c] => apState'[c] \in {"pending", "approved"}
  BY <1>0, <1>1 DEF Withdraw, HeldArguments
<1>2. ASSUME NEW c \in Calls, runState[RunOf[c]] = "cancelled"
      PROVE  apState'[c] # "pending" /\ ~apArgs'[c]
  BY <1>0, <1>2 DEF Withdraw, HeldArguments
<1> QED BY <1>1, <1>2 DEF HeldArguments

LEMMA ArgumentsTasks ==
    ASSUME IInv, HeldArguments, NEW t \in Tasks, TaskStep(t)
    PROVE  HeldArguments'
<1>0. /\ apState \in [Calls -> ApprovalStates] /\ apArgs \in [Calls -> BOOLEAN]
      /\ pc[t] \in ToolPcs => tCall[t] \in Calls
  BY DEF IInv, Types, TypeOK, ApprovalTypes, LedgerInv, TasksOK
<1>1. CASE CreateApproval(t)
  BY <1>0, <1>1 DEF CreateApproval, HeldArguments, ToolPcs
<1>2. CASE AttachArguments(t)
  BY <1>0, <1>2 DEF AttachArguments, HeldArguments, ToolPcs
<1>3. CASE ClearArguments(t)
  BY <1>0, <1>3 DEF ClearArguments, HeldArguments, ToolPcs
<1>4. CASE ~(CreateApproval(t) \/ AttachArguments(t) \/ ClearArguments(t))
  <2>1. UNCHANGED <<apState, apArgs>>
    BY <1>4 DEF TaskStep, BeginDrive, Enter, Advance, Transition, CheckCancellation, Settle,
       SettleRun, GenerateFails, GenerateStopped, GenerateAnswers, GenerateRequestsTools,
       RoundEnds, AdmitToolCall, LinkApproval, Authorize, Submit, AdvanceToolCall, Adapter,
       RecordOutcome, ContinueParked, RunToolCall, RequestTool, ReleaseApprovedCall, BeginResume
  <2> QED BY <2>1, ArgumentsLeft
<1> QED BY <1>1, <1>2, <1>3, <1>4

LEMMA ArgumentsStep ==
    ASSUME IInv, HeldArguments, Next
    PROVE  HeldArguments'
<1>0. apState \in [Calls -> ApprovalStates] /\ apArgs \in [Calls -> BOOLEAN]
  BY DEF IInv, Types, TypeOK, ApprovalTypes
<1>1. CASE RequestStep
  BY <1>1, ArgumentsLeft, ArgumentsWithdrawn
     DEF RequestStep, ContinueDeclined, RefuseRelease, SettleParked, WithdrawCancelled
<1>2. CASE BootStep
  <2>1. CASE BootNext /\ boot = "arguments"
    BY <1>0, <2>1 DEF BootNext, ClearStarted, HeldArguments
  <2>2. CASE BootNext /\ boot # "arguments"
    BY <2>2, ArgumentsLeft, ArgumentsWithdrawn DEF BootNext
  <2>3. CASE ~BootNext
    BY <1>2, <2>3, ArgumentsLeft DEF BootStep, SettleOrphanedCall, RecoverInterruptedRun
  <2> QED BY <2>1, <2>2, <2>3
<1>3. ASSUME NEW c \in Calls, Approve(c) \/ Deny(c) PROVE HeldArguments'
  BY <1>0, <1>3 DEF Approve, Deny, Decidable, HeldArguments
<1>4. ASSUME NEW r \in Runs, Stop(r) PROVE HeldArguments'
  BY <1>0, <1>4 DEF Stop, HeldArguments
<1>5. CASE Environment
  BY <1>3, <1>4, <1>5, ArgumentsLeft DEF Environment, StartRun, Lapse, ResumeByClient,
       BeginResume, CallToolByClient, RequestTool, Crash
<1> QED BY <1>1, <1>2, <1>5, ArgumentsTasks DEF Next

LEMMA StartupStep ==
    ASSUME IInv, StartupInv, Next
    PROVE  StartupInv'
<1>0. /\ runState \in [Runs -> RunStates \cup {"absent"}] /\ runCancel \in [Runs -> BOOLEAN]
      /\ outcome \in [Calls -> ToolOutcomes \cup {"absent"}]
  BY DEF IInv, Types, TypeOK, RunTypes, CallTypes
<1>1. CASE Crash
  BY <1>1 DEF Crash, StartupInv
<1>2. CASE Serving /\ ~Crash
  BY <1>2, ServingStays DEF Serving, StartupInv
<1>3. CASE ~Serving /\ ~Crash
  <2>1. ASSUME NEW c \in Calls, Lapse(c) PROVE StartupInv'
    BY <2>1 DEF Lapse, StartupInv, Interrupted, Live, Parked
  <2>2. ASSUME NEW c \in Calls, SettleOrphanedCall(c) PROVE StartupInv'
    BY <2>2 DEF SettleOrphanedCall, StartupInv
  <2>3. ASSUME NEW r \in Runs, RecoverInterruptedRun(r) PROVE StartupInv'
    BY <2>3 DEF RecoverInterruptedRun, StartupInv
  <2>4. CASE BootNext
    BY <2>4 DEF BootNext, StartupInv, Interrupted, Live, Parked
  <2> QED BY <1>3, <2>1, <2>2, <2>3, <2>4, NotServing DEF BootStep
<1> QED BY <1>1, <1>2, <1>3

LEMMA RestartInductive == Spec => []RestartInv
<1>1. Init => RestartInv
  BY DEF Init, RestartInv, HeldArguments, StartupInv
<1>2. ASSUME IInv, RestartInv, [Next]_vars PROVE RestartInv'
  <2>1. CASE Next
    BY <1>2, <2>1, ArgumentsStep, StartupStep DEF RestartInv
  <2>2. CASE UNCHANGED vars
    BY <1>2, <2>2 DEF vars, RestartInv, HeldArguments, StartupInv, Interrupted, Live, Parked
  <2> QED BY <1>2, <2>1, <2>2
<1> QED BY <1>1, <1>2, Inductive, PTL DEF Spec

(* When clients are served again after any number of deaths, wherever they *)
(* struck, no call is left in flight, every run still open waits for a     *)
(* person nobody has stopped, and no question or argument of a cancelled   *)
(* run survives (settle_interrupted_runs).                                 *)
THEOREM RestartAccounted == Spec => RestartAccounts
<1> DEFINE Accounts ==
       ~Serving /\ boot' = "serving" =>
          /\ \A c \in Calls : outcome'[c] \notin {"authorized", "submitted"}
          /\ \A r \in Runs : Live(r)' => Parked(r)' /\ ~runCancel'[r]
          /\ \A c \in Calls : runState'[RunOf[c]] = "cancelled"
                                  => apState'[c] # "pending" /\ ~apArgs'[c]
<1>1. ASSUME IInv, RestartInv, Next PROVE Accounts
  <2> SUFFICES ASSUME ~Serving, boot' = "serving" PROVE Accounts
    OBVIOUS
  <2> USE DEF RestartInv
  <2>1. boot = "withdraw" /\ Withdraw /\ UNCHANGED <<runState, runCancel, outcome>>
    BY <1>1, NotServing DEF BootStep, SettleOrphanedCall, RecoverInterruptedRun, BootNext,
         Crash, Lapse, Serving
  <2>2. \A c \in Calls : outcome'[c] \notin {"authorized", "submitted"}
    BY <1>1, <2>1 DEF StartupInv
  <2>3. \A r \in Runs : Live(r)' => Parked(r)' /\ ~runCancel'[r]
    BY <1>1, <2>1 DEF StartupInv, Interrupted, Live, Parked
  <2>4. \A c \in Calls : runState'[RunOf[c]] = "cancelled" => apState'[c] # "pending" /\ ~apArgs'[c]
    BY <1>1, <2>1, ArgumentsWithdrawn
  <2> QED BY <2>2, <2>3, <2>4
<1>2. ASSUME IInv, RestartInv, [Next]_vars PROVE [Accounts]_vars
  BY <1>1, <1>2
<1> QED BY <1>2, Inductive, RestartInductive, PTL DEF Spec, RestartAccounts
-----------------------------------------------------------------------------
(* A parked run is only moved on by a decision.  The drivers that carry a  *)
(* parked run on are the ones a decision spawned; the one that parked it   *)
(* leaves.                                                                 *)

(* A person has answered one of the run's questions.                       *)
Decided(r) == \E c \in Calls : RunOf[c] = r /\ apState[c] \in {"approved", "denied"}

Starters == {"fresh", "abandon"}

(* The driver start_and_drive spawned for the run, or what is left of it.  *)
Starter(t, r) == kind[t] \in Starters /\ tRun[t] = r

Leaving == {"check", "settle", "settling"}

(* Parking is the last write a driver sets out to make.                    *)
ParksLast(q) == \A i \in 1..Len(q) : q[i] = "awaiting_approval" => i = Len(q)

(* What a task is doing fits what it is.                                   *)
TaskFits(t) ==
    /\ kind[t] = "idle" <=> pc[t] = "idle"
    /\ kind[t] = "abandon" => pc[t] \in {"settle", "settling"}
    /\ kind[t] \in {"client", "release"} => pc[t] \in ToolPcs
    /\ pc[t] = "continue" => kind[t] = "release"
    /\ kind[t] \in Starters => pending[t] = NoCall
    /\ pc[t] \in {"settle", "settling"} => Head(todo[t]) \in Terminal
    /\ ParksLast(todo[t])

(* Whatever continues a run descends from a decision about it.             *)
DecisionInv ==
    /\ \A c \in denials : apState[c] = "denied"
    /\ \A d \in drives : d[2] # NoCall => Decided(d[1])
    /\ \A t \in Tasks : /\ kind[t] = "resumed" => Decided(tRun[t])
                        /\ kind[t] = "release" => apState[tCall[t]] = "approved"

(* A run has one driver that no decision spawned, polled or not.           *)
OneStarter ==
    /\ \A r \in Runs : <<r, NoCall>> \in drives => runState[r] # "absent"
    /\ \A t \in Tasks, r \in Runs :
          Starter(t, r) => <<r, NoCall>> \notin drives /\ runState[r] # "absent"
    /\ \A t, u \in Tasks, r \in Runs : Starter(t, r) /\ Starter(u, r) => t = u

(* While no question of a parked run is answered, that driver is on its    *)
(* way out.                                                                *)
ParkedInv ==
    \A r \in Runs : Parked(r) /\ ~Decided(r) =>
        /\ <<r, NoCall>> \notin drives
        /\ \A t \in Tasks : Starter(t, r) => pc[t] \in Leaving

DriverInv == (\A t \in Tasks : TaskFits(t)) /\ DecisionInv /\ OneStarter /\ ParkedInv

(* A task goes on with what it was doing, or ends, or begins a tool call   *)
(* that no driver makes; the others are as they were.                      *)
CarriesOn(t) ==
    /\ \A u \in Tasks \ {t} :
          /\ pc'[u] = pc[u] /\ kind'[u] = kind[u] /\ tRun'[u] = tRun[u]
          /\ tCall'[u] = tCall[u] /\ todo'[u] = todo[u] /\ pending'[u] = pending[u]
    /\ \/ kind'[t] = "idle"
       \/ /\ tRun'[t] = tRun[t]
          /\ kind'[t] = kind[t] \/ (kind[t] = "fresh" /\ kind'[t] = "abandon")
          /\ kind[t] = "release" => tCall'[t] = tCall[t]
       \/ kind'[t] = "client"
       \/ kind'[t] = "release" /\ tCall'[t] \in Calls /\ apState[tCall'[t]] = "approved"
    /\ kind[t] \in Starters /\ pc[t] \in Leaving /\ Parked(tRun[t])
          => kind'[t] = "idle" \/ pc'[t] \in Leaving
    /\ TaskFits(t)'

LEMMA ShortErrands ==
    /\ ParksLast(<<>>)
    /\ \A s : ParksLast(<<s>>)
    /\ ParksLast(<<"observing", "planning">>)
    /\ ParksLast(<<"observing", "planning", "awaiting_approval">>)
<1>1. ParksLast(<<>>)
  BY DEF ParksLast
<1>2. \A s : ParksLast(<<s>>)
  BY DEF ParksLast
<1>3. ParksLast(<<"observing", "planning">>)
  BY DEF ParksLast
<1>4. ParksLast(<<"observing", "planning", "awaiting_approval">>)
  BY DEF ParksLast
<1> QED BY <1>1, <1>2, <1>3, <1>4

LEMMA ErrandRest ==
    ASSUME NEW q \in Seq(RunStates), q # <<>>, ParksLast(q)
    PROVE  ParksLast(Tail(q)) /\ (Head(q) = "awaiting_approval" => Tail(q) = <<>>)
<1>1. Len(q) \in Nat \ {0} /\ Len(Tail(q)) = Len(q) - 1
  OBVIOUS
<1>2. \A i \in 1..(Len(q) - 1) : Tail(q)[i] = q[i + 1]
  OBVIOUS
<1>3. ParksLast(Tail(q))
  <2> DEFINE n == Len(q)
  <2>1. n \in Nat \ {0} /\ \A i \in 1..n : q[i] = "awaiting_approval" => i = n
    BY <1>1 DEF ParksLast
  <2>2. \A i \in 1..(n - 1) : Tail(q)[i] = q[i + 1]
    BY <1>2
  <2> HIDE DEF n
  <2>3. \A i \in 1..(n - 1) : i + 1 \in 1..n /\ (i + 1 = n => i = n - 1)
    BY <2>1
  <2>4. \A i \in 1..(n - 1) : Tail(q)[i] = "awaiting_approval" => i = n - 1
    BY <2>1, <2>2, <2>3
  <2> QED BY <2>4, <1>1 DEF ParksLast, n
<1>4. Head(q) = "awaiting_approval" => Tail(q) = <<>>
  <2>1. Head(q) = q[1] /\ 1 \in 1..Len(q)
    BY <1>1
  <2>2. Head(q) = "awaiting_approval" => Len(q) = 1
    BY <2>1 DEF ParksLast
  <2> QED BY <1>1, <2>2
<1> QED BY <1>3, <1>4

(* What the helpers of drivers and of the pipeline do to a task.           *)
LEMMA FinishCarries ==
    ASSUME Types, NEW t \in Tasks, Finish(t)
    PROVE  CarriesOn(t)
BY ShortErrands DEF Types, TypeOK, TaskTypes, Finish, CarriesOn, TaskFits, Starters, ToolPcs

LEMMA WriteCarries ==
    ASSUME Types, NEW t \in Tasks, TaskFits(t), kind[t] \in Drivers,
           NEW p \in {"advance", "check", "settle"}, NEW q,
           Write(t, p, q), ParksLast(q), p = "settle" => Head(q) \in Terminal,
           kind[t] = "fresh" /\ pc[t] \in Leaving /\ Parked(tRun[t]) => p \in Leaving
    PROVE  CarriesOn(t)
<1>1. /\ pc'[t] = p /\ kind'[t] = kind[t] /\ tRun'[t] = tRun[t]
      /\ todo'[t] = q /\ pending'[t] = pending[t]
      /\ \A u \in Tasks \ {t} :
            /\ pc'[u] = pc[u] /\ kind'[u] = kind[u] /\ tRun'[u] = tRun[u]
            /\ tCall'[u] = tCall[u] /\ todo'[u] = todo[u] /\ pending'[u] = pending[u]
  BY DEF Types, TypeOK, TaskTypes, Write
<1>2. TaskFits(t)'
  BY <1>1 DEF TaskFits, Drivers, Starters
<1> QED BY <1>1, <1>2 DEF CarriesOn, Drivers, Starters

LEMMA GotoCarries ==
    ASSUME Types, NEW t \in Tasks, TaskFits(t), NEW p \in Pcs \ {"idle"}, Goto(t, p),
           kind[t] # "idle",
           kind[t] = "abandon" => p \in {"settle", "settling"},
           kind[t] \in {"client", "release"} => p \in ToolPcs,
           p = "continue" => kind[t] = "release",
           p \in {"settle", "settling"} => pc[t] \in {"settle", "settling"},
           kind[t] \in Starters /\ pc[t] \in Leaving /\ Parked(tRun[t]) => p \in Leaving
    PROVE  CarriesOn(t)
<1>1. /\ pc'[t] = p /\ kind'[t] = kind[t] /\ tRun'[t] = tRun[t] /\ tCall'[t] = tCall[t]
      /\ todo'[t] = todo[t] /\ pending'[t] = pending[t]
      /\ \A u \in Tasks \ {t} :
            /\ pc'[u] = pc[u] /\ kind'[u] = kind[u] /\ tRun'[u] = tRun[u]
            /\ tCall'[u] = tCall[u] /\ todo'[u] = todo[u] /\ pending'[u] = pending[u]
  BY DEF Types, TypeOK, TaskTypes, Goto
<1>2. TaskFits(t)'
  BY <1>1 DEF TaskFits
<1> QED BY <1>1, <1>2 DEF CarriesOn

LEMMA ErrorCarries ==
    ASSUME Types, NEW t \in Tasks, TaskFits(t), DriverError(t)
    PROVE  CarriesOn(t)
<1>1. CASE Finish(t)
  BY <1>1, FinishCarries
<1>2. CASE ~Finish(t)
  <2>1. <<"failed">> # <<>> /\ Head(<<"failed">>) = "failed" /\ "failed" \in Terminal
    BY DEF Terminal
  <2> QED BY <1>2, <2>1, ShortErrands
        DEF DriverError, Types, TypeOK, TaskTypes, CarriesOn, TaskFits, Starters, Leaving
<1> QED BY <1>1, <1>2

LEMMA TextCarries ==
    ASSUME Types, NEW t \in Tasks, TaskFits(t), pc[t] \in ToolPcs, ReturnText(t)
    PROVE  CarriesOn(t)
<1>1. CASE Finish(t)
  BY <1>1, FinishCarries
<1>2. CASE ~Finish(t)
  <2>1. /\ kind[t] \in Drivers /\ pc'[t] = "round" /\ kind'[t] = kind[t]
        /\ tRun'[t] = tRun[t] /\ todo'[t] = todo[t] /\ pending'[t] = pending[t]
        /\ \A u \in Tasks \ {t} :
              /\ pc'[u] = pc[u] /\ kind'[u] = kind[u] /\ tRun'[u] = tRun[u]
              /\ tCall'[u] = tCall[u] /\ todo'[u] = todo[u] /\ pending'[u] = pending[u]
    BY <1>2 DEF ReturnText, Types, TypeOK, TaskTypes
  <2>2. TaskFits(t)'
    BY <2>1 DEF TaskFits, Drivers, Starters
  <2> QED BY <2>1, <2>2 DEF CarriesOn, Drivers, Starters, Leaving, ToolPcs
<1> QED BY <1>1, <1>2

LEMMA IterateCarries ==
    ASSUME Types, NEW t \in Tasks, TaskFits(t), kind[t] \in Drivers, Iterate(t, runState[tRun[t]])
    PROVE  CarriesOn(t)
<1>1. CASE Finish(t)
  BY <1>1, FinishCarries
<1>2. CASE Goto(t, "generate") /\ runState[tRun[t]] = "executing"
  BY <1>2, GotoCarries DEF Pcs, Drivers, Starters, Parked
<1>3. CASE (\E s : Write(t, "advance", <<s>>)) /\ runState[tRun[t]] # "awaiting_approval"
  BY <1>3, WriteCarries, ShortErrands DEF Parked
<1>4. CASE Write(t, "settle", <<"completed">>)
  <2>1. Head(<<"completed">>) \in Terminal
    BY DEF Terminal
  <2> QED BY <1>4, <2>1, WriteCarries, ShortErrands DEF Leaving
<1>5. CASE /\ pending[t] # NoCall
           /\ pc' = [pc EXCEPT ![t] = "advance"]
           /\ todo' = [todo EXCEPT ![t] = <<"executing">>]
           /\ pending' = [pending EXCEPT ![t] = NoCall]
           /\ UNCHANGED <<kind, tRun, tCall, turns, report>>
  <2>1. /\ pc'[t] = "advance" /\ kind'[t] = kind[t] /\ tRun'[t] = tRun[t]
        /\ todo'[t] = <<"executing">> /\ pending'[t] = NoCall
        /\ \A u \in Tasks \ {t} :
              /\ pc'[u] = pc[u] /\ kind'[u] = kind[u] /\ tRun'[u] = tRun[u]
              /\ tCall'[u] = tCall[u] /\ todo'[u] = todo[u] /\ pending'[u] = pending[u]
    BY <1>5 DEF Types, TypeOK, TaskTypes
  <2>2. kind[t] = "resumed"
    BY <1>5 DEF TaskFits, Drivers, Starters
  <2>3. TaskFits(t)'
    BY <2>1, <2>2, ShortErrands DEF TaskFits, Starters
  <2> QED BY <2>1, <2>2, <2>3 DEF CarriesOn, Starters
<1> QED BY <1>1, <1>2, <1>3, <1>4, <1>5 DEF Iterate

(* The driver's steps.                                                     *)
LEMMA DriveCarries ==
    ASSUME IInv, NEW t \in Tasks, TaskFits(t),
           \/ Enter(t) \/ Advance(t) \/ Transition(t) \/ CheckCancellation(t) \/ Settle(t)
           \/ SettleRun(t) \/ GenerateFails(t) \/ GenerateStopped(t) \/ GenerateAnswers(t)
           \/ GenerateRequestsTools(t) \/ RoundEnds(t)
    PROVE  CarriesOn(t)
<1>0. Types /\ pc[t] \in Pcs /\ kind[t] \in Kinds /\ todo[t] \in Seq(RunStates)
  BY DEF IInv, Types, TypeOK, TaskTypes
<1>a. pc[t] \notin {"idle", "settle", "settling"} \cup ToolPcs => kind[t] \in Drivers
  BY <1>0 DEF TaskFits, Kinds
<1>b. pc[t] \in {"enter", "advance", "transition", "check", "generate", "round"}
         => kind[t] \in Drivers
  BY <1>a DEF ToolPcs
<1>c. Head(<<"cancelled">>) \in Terminal /\ Head(<<"failed">>) \in Terminal
  BY DEF Terminal
<1>1. CASE Enter(t)
  BY <1>0, <1>1, <1>b, IterateCarries DEF Enter
<1>2. CASE Advance(t)
  <2>1. pc[t] \notin Leaving /\ kind[t] \in Drivers
    BY <1>2, <1>b DEF Advance, Leaving
  <2>2. CASE Settled(tRun[t])
    BY <1>0, <1>2, <2>1, <2>2, WriteCarries, ShortErrands DEF Advance
  <2>3. CASE ~Settled(tRun[t])
    BY <1>0, <1>2, <2>1, <2>3, GotoCarries DEF Advance, Pcs, Drivers
  <2> QED BY <2>2, <2>3
<1>3. CASE Transition(t)
  <2>1. pc[t] \notin Leaving /\ kind[t] \in Drivers /\ todo[t] # <<>>
    BY <1>3, <1>b DEF Transition, Leaving, IInv, Types, TasksOK
  <2>2. ParksLast(Tail(todo[t]))
    BY <1>0, <2>1, ErrandRest DEF TaskFits
  <2>3. CASE fresh[t] /\ CanTransitionTo(runState[tRun[t]], Head(todo[t]))
    BY <1>0, <1>3, <2>1, <2>2, <2>3, WriteCarries DEF Transition
  <2>4. CASE ~(fresh[t] /\ CanTransitionTo(runState[tRun[t]], Head(todo[t])))
    BY <1>0, <1>3, <2>4, ErrorCarries DEF Transition
  <2> QED BY <2>3, <2>4
<1>4. CASE CheckCancellation(t)
  <2>1. kind[t] \in Drivers
    BY <1>4, <1>b DEF CheckCancellation
  <2>2. CASE runCancel[tRun[t]] /\ ~Settled(tRun[t])
    BY <1>0, <1>4, <1>c, <2>1, <2>2, WriteCarries, ShortErrands DEF CheckCancellation, Leaving
  <2>3. CASE ~(runCancel[tRun[t]] /\ ~Settled(tRun[t]))
    BY <1>0, <1>4, <2>1, <2>3, IterateCarries DEF CheckCancellation
  <2> QED BY <2>2, <2>3
<1>5. CASE Settle(t)
  <2>1. CASE Settled(tRun[t])
    BY <1>0, <1>5, <2>1, FinishCarries DEF Settle
  <2>2. CASE ~Settled(tRun[t])
    <3>1. kind[t] # "idle" /\ kind[t] \notin {"client", "release"}
      BY <1>5 DEF Settle, TaskFits, ToolPcs
    <3> QED BY <1>0, <1>5, <2>2, <3>1, GotoCarries DEF Settle, Pcs, Leaving
  <2> QED BY <2>1, <2>2
<1>6. CASE SettleRun(t)
  BY <1>0, <1>6, FinishCarries, ErrorCarries DEF SettleRun
<1>7. CASE GenerateFails(t)
  BY <1>0, <1>7, <1>b, <1>c, WriteCarries, ShortErrands DEF GenerateFails, Leaving
<1>8. CASE GenerateStopped(t) \/ GenerateRequestsTools(t)
  <2>1. /\ pc[t] = "generate" /\ kind[t] \in Drivers
        /\ pc'[t] \in {"check", "round"} /\ kind'[t] = kind[t]
        /\ tRun'[t] = tRun[t] /\ todo'[t] = todo[t] /\ pending'[t] = pending[t]
        /\ \A u \in Tasks \ {t} :
              /\ pc'[u] = pc[u] /\ kind'[u] = kind[u] /\ tRun'[u] = tRun[u]
              /\ tCall'[u] = tCall[u] /\ todo'[u] = todo[u] /\ pending'[u] = pending[u]
    BY <1>0, <1>8, <1>b DEF GenerateStopped, GenerateRequestsTools, Types, TypeOK, TaskTypes
  <2>2. TaskFits(t)'
    BY <2>1 DEF TaskFits, Drivers, Starters
  <2> QED BY <2>1, <2>2 DEF CarriesOn, Drivers, Starters, Leaving
<1>9. CASE GenerateAnswers(t)
  <2>1. CASE DriverError(t)
    BY <1>0, <2>1, ErrorCarries
  <2>2. CASE ~DriverError(t)
    <3>1. /\ pc[t] = "generate" /\ kind[t] \in Drivers
          /\ pc'[t] = "advance" /\ kind'[t] = kind[t]
          /\ tRun'[t] = tRun[t] /\ todo'[t] = <<"observing">> /\ pending'[t] = pending[t]
          /\ \A u \in Tasks \ {t} :
                /\ pc'[u] = pc[u] /\ kind'[u] = kind[u] /\ tRun'[u] = tRun[u]
                /\ tCall'[u] = tCall[u] /\ todo'[u] = todo[u] /\ pending'[u] = pending[u]
      BY <1>0, <1>9, <2>2, <1>b DEF GenerateAnswers, Types, TypeOK, TaskTypes
    <3>2. TaskFits(t)'
      BY <3>1, ShortErrands DEF TaskFits, Drivers, Starters
    <3> QED BY <3>1, <3>2 DEF CarriesOn, Drivers, Starters, Leaving
  <2> QED BY <2>1, <2>2
<1>10. CASE RoundEnds(t)
  <2>1. kind[t] \in Drivers /\ pc[t] \notin Leaving
    BY <1>10, <1>b DEF RoundEnds, Leaving
  <2> QED BY <1>0, <1>10, <1>c, <2>1, WriteCarries, ShortErrands DEF RoundEnds
<1> QED BY <1>1, <1>2, <1>3, <1>4, <1>5, <1>6, <1>7, <1>8, <1>9, <1>10

(* The steps of the tool pipeline.                                         *)
LEMMA PipelineCarries ==
    ASSUME IInv, NEW t \in Tasks, TaskFits(t),
           \/ AdmitToolCall(t) \/ CreateApproval(t) \/ LinkApproval(t) \/ AttachArguments(t)
           \/ Authorize(t) \/ Submit(t) \/ Adapter(t) \/ RecordOutcome(t)
           \/ ContinueParked(t) \/ ClearArguments(t)
    PROVE  CarriesOn(t)
<1>0. Types /\ pc[t] \in Pcs /\ kind[t] \in Kinds
  BY DEF IInv, Types, TypeOK, TaskTypes
<1>1. pc[t] \in ToolPcs
  BY DEF AdmitToolCall, CreateApproval, LinkApproval, AttachArguments, Authorize, Submit,
       AdvanceToolCall, Adapter, RecordOutcome, ContinueParked, ClearArguments, ToolPcs
<1>2. pc[t] \notin Leaving /\ kind[t] # "idle" /\ kind[t] # "abandon"
  BY <1>1 DEF TaskFits, ToolPcs, Leaving
<1>3. ASSUME NEW p \in ToolPcs, p = "continue" => kind[t] = "release", Goto(t, p)
      PROVE  CarriesOn(t)
  BY <1>0, <1>2, <1>3, GotoCarries DEF Pcs, ToolPcs
<1>4. ASSUME ReturnText(t) PROVE CarriesOn(t)
  BY <1>0, <1>1, <1>4, TextCarries
<1>5. CASE AdmitToolCall(t) \/ CreateApproval(t) \/ LinkApproval(t) \/ ContinueParked(t)
  BY <1>3, <1>5 DEF AdmitToolCall, CreateApproval, LinkApproval, ContinueParked, ToolPcs
<1>6. CASE AttachArguments(t)
  BY <1>0, <1>2, <1>4, <1>6, WriteCarries, ShortErrands DEF AttachArguments
<1>7. CASE Authorize(t) \/ Submit(t)
  BY <1>3, <1>4, <1>7 DEF Authorize, Submit, AdvanceToolCall, ToolPcs
<1>8. CASE Adapter(t)
  <2>1. CASE ~ReturnText(t)
    <3>1. /\ pc'[t] = "record" /\ kind'[t] = kind[t] /\ tRun'[t] = tRun[t]
          /\ tCall'[t] = tCall[t] /\ todo'[t] = todo[t] /\ pending'[t] = pending[t]
          /\ \A u \in Tasks \ {t} :
                /\ pc'[u] = pc[u] /\ kind'[u] = kind[u] /\ tRun'[u] = tRun[u]
                /\ tCall'[u] = tCall[u] /\ todo'[u] = todo[u] /\ pending'[u] = pending[u]
      BY <1>0, <1>8, <2>1 DEF Adapter, Types, TypeOK, TaskTypes
    <3>2. TaskFits(t)'
      BY <1>2, <3>1 DEF TaskFits, ToolPcs
    <3> QED BY <1>2, <3>1, <3>2 DEF CarriesOn
  <2> QED BY <1>4, <2>1
<1>9. CASE RecordOutcome(t)
  BY <1>3, <1>4, <1>9 DEF RecordOutcome, ToolPcs
<1>10. CASE ClearArguments(t)
  BY <1>0, <1>10, FinishCarries DEF ClearArguments
<1> QED BY <1>5, <1>6, <1>7, <1>8, <1>9, <1>10

(* A tool call begins: the model's, a client's, or an approved one.        *)
LEMMA CallCarries ==
    ASSUME IInv, NEW t \in Tasks, TaskFits(t), NEW c \in Calls,
           RunToolCall(t, c) \/ CallToolByClient(t, c) \/ BeginResume(t, c)
    PROVE  CarriesOn(t)
<1>0. Types /\ pc[t] \in Pcs /\ kind[t] \in Kinds
  BY DEF IInv, Types, TypeOK, TaskTypes
<1>1. /\ pc'[t] \in {"admit", "authorize"} /\ todo'[t] = todo[t] /\ pending'[t] = pending[t]
      /\ \A u \in Tasks \ {t} :
            /\ pc'[u] = pc[u] /\ kind'[u] = kind[u] /\ tRun'[u] = tRun[u]
            /\ tCall'[u] = tCall[u] /\ todo'[u] = todo[u] /\ pending'[u] = pending[u]
  BY <1>0 DEF RunToolCall, CallToolByClient, BeginResume, RequestTool, Types, TypeOK, TaskTypes
<1>2. CASE RunToolCall(t, c)
  <2>1. pc[t] = "round" /\ kind'[t] = kind[t] /\ tRun'[t] = tRun[t]
    BY <1>2 DEF RunToolCall
  <2>2. kind[t] \in Drivers
    BY <1>0, <2>1 DEF TaskFits, Kinds, ToolPcs
  <2>3. TaskFits(t)'
    BY <1>1, <2>1, <2>2 DEF TaskFits, ToolPcs, Drivers, Starters
  <2> QED BY <1>1, <2>1, <2>2, <2>3 DEF CarriesOn, Drivers, Leaving
<1>3. CASE CallToolByClient(t, c)
  <2>1. kind'[t] = "client" /\ pc[t] = "idle"
    BY <1>0, <1>3 DEF CallToolByClient, Types, TypeOK, TaskTypes
  <2>2. TaskFits(t)'
    BY <1>1, <2>1 DEF TaskFits, ToolPcs, Starters
  <2> QED BY <1>1, <2>1, <2>2 DEF CarriesOn, Leaving
<1>4. CASE BeginResume(t, c)
  <2>1. /\ kind'[t] = "release" /\ pc[t] = "idle"
        /\ tCall'[t] = c /\ apState[c] = "approved"
    BY <1>0, <1>4 DEF BeginResume, Resumable, Types, TypeOK, TaskTypes
  <2>2. TaskFits(t)'
    BY <1>1, <2>1 DEF TaskFits, ToolPcs, Starters
  <2> QED BY <1>1, <2>1, <2>2 DEF CarriesOn, Leaving
<1> QED BY <1>2, <1>3, <1>4

(* No task but the one that steps is concerned, and nothing but a write of *)
(* its own parks a run.                                                    *)
DriversFrame(t) ==
    /\ CarriesOn(t)
    /\ \A d \in drives' : d \in drives \/ (d[2] # NoCall /\ Decided(d[1])')
    /\ \A c \in denials' : c \in denials
    /\ \A r \in Runs : runState[r] # "absent" => runState'[r] # "absent"
    /\ \A r \in Runs : Parked(r)' => \/ Parked(r)
                                     \/ Decided(r)
                                     \/ Starter(t, r) /\ pc'[t] \in Leaving

(* A decision stays one.                                                   *)
LEMMA DecisionsStay ==
    ASSUME IInv, Next
    PROVE  /\ \A c \in Calls : apState[c] \in {"approved", "denied"} => apState'[c] = apState[c]
           /\ \A r : Decided(r) => Decided(r)'
<1>1. \A c \in Calls : apState[c] \in {"approved", "denied"} => apState'[c] = apState[c]
  BY RecordsStep DEF RecordsKept
<1> QED BY <1>1 DEF Decided

LEMMA DriversCarried ==
    ASSUME IInv, DriverInv, Next, NEW t \in Tasks, DriversFrame(t)
    PROVE  DriverInv'
<1> USE DEF DriverInv, DriversFrame
<1>0. /\ \A u \in Tasks : kind[u] = "release" => tCall[u] \in Calls
      /\ \A u \in Tasks : kind[u] \in Starters => tRun[u] \in Runs
      /\ drives \subseteq Runs \X (Calls \cup {NoCall})
      /\ denials \subseteq Calls
  BY DEF IInv, Types, TypeOK, QueueTypes, TasksOK, TaskFits, Starters
<1>1. \A u \in Tasks : TaskFits(u)'
  <2> SUFFICES ASSUME NEW u \in Tasks, u # t PROVE TaskFits(u)'
    BY DEF CarriesOn
  <2>1. /\ pc'[u] = pc[u] /\ kind'[u] = kind[u]
        /\ todo'[u] = todo[u] /\ pending'[u] = pending[u]
    BY DEF CarriesOn
  <2> QED BY <2>1 DEF TaskFits
<1>2. DecisionInv'
  <2>1. \A c \in denials' : apState'[c] = "denied"
    BY <1>0, DecisionsStay DEF DecisionInv
  <2>2. \A d \in drives' : d[2] # NoCall => Decided(d[1])'
    BY <1>0, DecisionsStay DEF DecisionInv
  <2>3. ASSUME NEW u \in Tasks
        PROVE  /\ kind'[u] = "resumed" => Decided(tRun[u])'
               /\ kind'[u] = "release" => apState'[tCall'[u]] = "approved"
    <3>1. CASE u = t
      <4>1. kind'[t] = "resumed" => kind[t] = "resumed" /\ tRun'[t] = tRun[t]
        BY DEF CarriesOn
      <4>2. kind'[t] = "release" => tCall'[t] \in Calls /\ apState[tCall'[t]] = "approved"
        BY <1>0 DEF CarriesOn, DecisionInv
      <4>3. kind'[t] = "resumed" => Decided(tRun[t])'
        BY <4>1, DecisionsStay DEF DecisionInv, Decided
      <4> QED BY <3>1, <4>2, <4>3, DecisionsStay
    <3>2. CASE u # t
      <4>1. kind'[u] = kind[u] /\ tRun'[u] = tRun[u] /\ tCall'[u] = tCall[u]
        BY <3>2 DEF CarriesOn
      <4>2. ASSUME kind'[u] = "resumed" PROVE Decided(tRun[u])'
        <5>0. Decided(tRun[u])
          BY <4>1, <4>2 DEF DecisionInv
        <5> HIDE DEF DriverInv, DriversFrame
        <5>1. PICK c \in Calls : RunOf[c] = tRun[u] /\ apState[c] \in {"approved", "denied"}
          BY <5>0 DEF Decided
        <5> QED BY <4>1, <5>1, DecisionsStay DEF Decided
      <4> QED BY <1>0, <4>1, <4>2, DecisionsStay DEF DecisionInv
    <3> QED BY <3>1, <3>2
  <2> QED BY <2>1, <2>2, <2>3 DEF DecisionInv
<1>3. \A u \in Tasks, r \in Runs : Starter(u, r)' => Starter(u, r)
  BY DEF CarriesOn, Starter, Starters
<1>4. \A r \in Runs : <<r, NoCall>> \in drives' => <<r, NoCall>> \in drives
  OBVIOUS
<1>5. OneStarter'
  BY <1>3, <1>4 DEF OneStarter
<1>6. ParkedInv'
  <2> SUFFICES ASSUME NEW r \in Runs, Parked(r)', ~Decided(r)'
               PROVE  /\ <<r, NoCall>> \notin drives'
                      /\ \A u \in Tasks : Starter(u, r)' => pc'[u] \in Leaving
    BY DEF ParkedInv
  <2>1. ~Decided(r)
    BY DecisionsStay
  <2>2. CASE Parked(r)
    <3>1. /\ <<r, NoCall>> \notin drives
          /\ \A u \in Tasks : Starter(u, r) => pc[u] \in Leaving
      BY <2>1, <2>2 DEF ParkedInv
    <3>2. \A u \in Tasks : Starter(u, r)' => pc'[u] \in Leaving
      BY <1>3, <2>2, <3>1 DEF CarriesOn, Starter, Starters
    <3> QED BY <1>4, <3>1, <3>2
  <2>3. CASE Starter(t, r) /\ pc'[t] \in Leaving
    BY <1>3, <1>4, <2>3 DEF OneStarter
  <2> QED BY <2>1, <2>2, <2>3
<1> QED BY <1>1, <1>2, <1>5, <1>6

(* The steps that touch no task.                                           *)
LEMMA DriversLeft ==
    ASSUME IInv, DriverInv, Next, UNCHANGED taskVars,
           \A d \in drives' : d \in drives \/ (d[2] # NoCall /\ Decided(d[1])'),
           \A c \in denials' : c \in denials \/ (c \in Calls /\ apState'[c] = "denied"),
           \A r \in Runs : runState[r] # "absent" => runState'[r] # "absent",
           \A r \in Runs : Parked(r)' => Parked(r)
    PROVE  DriverInv'
<1> USE DEF DriverInv
<1>0. /\ \A u \in Tasks : kind[u] = "release" => tCall[u] \in Calls
      /\ drives \subseteq Runs \X (Calls \cup {NoCall})
      /\ denials \subseteq Calls
  BY DEF IInv, Types, TypeOK, QueueTypes, TasksOK, TaskFits
<1>1. \A u \in Tasks : TaskFits(u)'
  BY DEF TaskFits
<1>2. DecisionInv'
  <2>1. \A c \in denials' : apState'[c] = "denied"
    BY <1>0, DecisionsStay DEF DecisionInv
  <2>2. \A d \in drives' : d[2] # NoCall => Decided(d[1])'
    BY <1>0, DecisionsStay DEF DecisionInv
  <2>3. ASSUME NEW u \in Tasks
        PROVE  /\ kind'[u] = "resumed" => Decided(tRun[u])'
               /\ kind'[u] = "release" => apState'[tCall'[u]] = "approved"
    <3>1. kind'[u] = "resumed" => Decided(tRun[u])'
      BY DecisionsStay DEF DecisionInv, Decided
    <3> QED BY <1>0, <3>1, DecisionsStay DEF DecisionInv
  <2> QED BY <2>1, <2>2, <2>3 DEF DecisionInv
<1>3. \A u \in Tasks, r \in Runs : Starter(u, r)' <=> Starter(u, r)
  BY DEF Starter
<1>4. \A r \in Runs : <<r, NoCall>> \in drives' => <<r, NoCall>> \in drives
  OBVIOUS
<1>5. OneStarter'
  BY <1>3, <1>4 DEF OneStarter
<1>6. ParkedInv'
  BY <1>3, <1>4, DecisionsStay DEF ParkedInv
<1> QED BY <1>1, <1>2, <1>5, <1>6

LEMMA NoRunLost ==
    ASSUME IInv, Next
    PROVE  \A r \in Runs : runState[r] # "absent" => runState'[r] # "absent"
BY RunWriters, StateNames DEF IInv, Types, TypeOK, RunTypes

LEMMA DriversStep == IInv /\ DriverInv /\ Next => DriverInv'
<1> SUFFICES ASSUME IInv, DriverInv, Next PROVE DriverInv'
  OBVIOUS
<1>0. /\ \A t \in Tasks : TaskFits(t)
      /\ DecisionInv /\ OneStarter /\ ParkedInv
      /\ runState \in [Runs -> RunStates \cup {"absent"}]
      /\ drives \subseteq Runs \X (Calls \cup {NoCall})
      /\ denials \subseteq Calls
  BY DEF DriverInv, IInv, Types, TypeOK, RunTypes, QueueTypes
(* A driver is polled.                                                     *)
<1>1. ASSUME NEW t \in Tasks, BeginDrive(t) PROVE DriverInv'
  <2>1. PICK d \in drives : /\ pc[t] = "idle"
                            /\ drives' = drives \ {d}
                            /\ pc' = [pc EXCEPT ![t] = "enter"]
                            /\ kind' = [kind EXCEPT ![t] = IF d[2] = NoCall THEN "fresh" ELSE "resumed"]
                            /\ tRun' = [tRun EXCEPT ![t] = d[1]]
                            /\ pending' = [pending EXCEPT ![t] = d[2]]
                            /\ UNCHANGED <<runState, apState, tCall, todo, denials>>
    BY <1>1 DEF BeginDrive
  <2>2. d \in Runs \X (Calls \cup {NoCall}) /\ d = <<d[1], d[2]>> /\ d[1] \in Runs
    BY <1>0
  <2>3. /\ pc'[t] = "enter" /\ tRun'[t] = d[1] /\ pending'[t] = d[2] /\ todo'[t] = todo[t]
        /\ kind'[t] = IF d[2] = NoCall THEN "fresh" ELSE "resumed"
        /\ \A u \in Tasks \ {t} :
              /\ pc'[u] = pc[u] /\ kind'[u] = kind[u] /\ tRun'[u] = tRun[u]
              /\ tCall'[u] = tCall[u] /\ todo'[u] = todo[u] /\ pending'[u] = pending[u]
    BY <2>1 DEF IInv, Types, TypeOK, TaskTypes
  <2>4. \A r : Decided(r)' <=> Decided(r)
    BY <2>1 DEF Decided
  <2>5. ASSUME NEW u \in Tasks PROVE TaskFits(u)'
    <3>1. CASE u = t
      BY <1>0, <2>3, <3>1 DEF TaskFits, Starters
    <3>2. CASE u # t
      <4>1. /\ pc'[u] = pc[u] /\ kind'[u] = kind[u]
            /\ todo'[u] = todo[u] /\ pending'[u] = pending[u]
        BY <2>3, <3>2
      <4> QED BY <1>0, <4>1 DEF TaskFits
    <3> QED BY <3>1, <3>2
  <2>6. DecisionInv'
    <3>1. ASSUME NEW u \in Tasks, kind'[u] = "resumed" PROVE Decided(tRun[u])'
      BY <1>0, <2>1, <2>3, <3>1 DEF DecisionInv, Decided
    <3>2. ASSUME NEW u \in Tasks, kind'[u] = "release" PROVE apState'[tCall'[u]] = "approved"
      BY <1>0, <2>1, <2>3, <3>2 DEF DecisionInv
    <3> QED BY <1>0, <2>1, <2>4, <3>1, <3>2 DEF DecisionInv
  <2>7. \A u \in Tasks, r \in Runs :
           Starter(u, r)' => Starter(u, r) \/ (u = t /\ d = <<r, NoCall>>)
    BY <2>2, <2>3 DEF Starter, Starters
  <2>8. OneStarter'
    BY <1>0, <2>1, <2>7 DEF OneStarter
  <2>9. ParkedInv'
    <3> SUFFICES ASSUME NEW r \in Runs, Parked(r), ~Decided(r)
                 PROVE  /\ <<r, NoCall>> \notin drives'
                        /\ \A u \in Tasks : Starter(u, r)' => pc'[u] \in Leaving
      BY <2>1, <2>4 DEF ParkedInv, Parked
    <3>1. /\ <<r, NoCall>> \notin drives
          /\ \A u \in Tasks : Starter(u, r) => pc[u] \in Leaving
      BY <1>0 DEF ParkedInv
    <3>2. \A u \in Tasks : Starter(u, r)' => Starter(u, r)
      BY <2>7, <3>1
    <3> QED BY <2>1, <2>3, <3>1, <3>2 DEF Leaving
  <2> QED BY <2>5, <2>6, <2>8, <2>9 DEF DriverInv
(* A driver writes its run's state.                                        *)
<1>2. ASSUME NEW t \in Tasks, Transition(t) \/ SettleRun(t) PROVE DriverInv'
  <2>1. CarriesOn(t)
    BY <1>0, <1>2, DriveCarries
  <2>2. UNCHANGED <<drives, denials>>
    BY <1>2 DEF Transition, SettleRun
  <2>3. ASSUME NEW r \in Runs, Parked(r)', ~Parked(r), ~Decided(r)
        PROVE  Starter(t, r) /\ pc'[t] \in Leaving
    <3>1. /\ r = tRun[t] /\ CanTransitionTo(runState[r], Head(todo[t]))
          /\ Head(todo[t]) = "awaiting_approval"
      BY <1>0, <1>2, <2>3 DEF Transition, SettleRun, Parked
    <3>2. Transition(t)
      BY <1>0, <1>2, <3>1 DEF SettleRun, TaskFits, Terminal
    <3>3. todo[t] \in Seq(RunStates) /\ todo[t] # <<>> /\ pc[t] = "transition" /\ pc[t] \notin ToolPcs
      BY <3>2 DEF Transition, IInv, Types, TypeOK, TaskTypes, TasksOK, ToolPcs
    <3>4. Tail(todo[t]) = <<>>
      BY <1>0, <3>1, <3>3, ErrandRest DEF TaskFits
    <3>5. kind[t] \in Drivers
      BY <1>0, <3>3 DEF TaskFits, IInv, Types, TypeOK, TaskTypes, Kinds
    <3>6. kind[t] = "fresh"
      BY <1>0, <2>3, <3>1, <3>5 DEF DecisionInv, Drivers
    <3>7. pc'[t] = "check"
      <4>1. fresh[t]
        BY <1>0, <2>3, <3>2 DEF Transition, Parked
      <4> QED BY <3>1, <3>2, <3>4, <4>1 DEF Transition, Write, IInv, Types, TypeOK, TaskTypes
    <3> QED BY <3>1, <3>6, <3>7 DEF Starter, Starters, Leaving
  <2>4. DriversFrame(t)
    BY <2>1, <2>2, <2>3, NoRunLost DEF DriversFrame
  <2> QED BY <2>4, DriversCarried
(* Every other step of a task.                                             *)
<1>3. ASSUME NEW t \in Tasks, CarriesOn(t), UNCHANGED <<runState, denials>>,
             \/ UNCHANGED drives
             \/ /\ pc[t] = "continue" /\ kind[t] = "release"
                /\ drives' \subseteq drives \cup {<<tRun[t], tCall[t]>>}
      PROVE  DriverInv'
  <2>1. ASSUME pc[t] = "continue", kind[t] = "release"
        PROVE  tCall[t] \in Calls /\ tCall[t] # NoCall /\ Decided(tRun[t])
    BY <1>0, <2>1, ModelAssumption DEF DecisionInv, Decided, IInv, Types, TasksOK, ToolPcs
  <2>2. \A d \in drives' : d \in drives \/ (d[2] # NoCall /\ Decided(d[1])')
    BY <1>3, <2>1, DecisionsStay
  <2>3. DriversFrame(t)
    BY <1>3, <2>2 DEF DriversFrame, Parked
  <2> QED BY <2>3, DriversCarried
<1>4. ASSUME NEW t \in Tasks, TaskStep(t) PROVE DriverInv'
  <2>1. CASE \/ Enter(t) \/ Advance(t) \/ CheckCancellation(t) \/ Settle(t) \/ GenerateFails(t)
             \/ GenerateStopped(t) \/ GenerateAnswers(t) \/ GenerateRequestsTools(t) \/ RoundEnds(t)
    <3>1. UNCHANGED <<runState, denials, drives>>
      BY <2>1 DEF Enter, Advance, CheckCancellation, Settle, GenerateFails, GenerateStopped,
           GenerateAnswers, GenerateRequestsTools, RoundEnds
    <3> QED BY <1>0, <1>3, <2>1, <3>1, DriveCarries
  <2>2. CASE \/ AdmitToolCall(t) \/ CreateApproval(t) \/ LinkApproval(t) \/ AttachArguments(t)
             \/ Authorize(t) \/ Submit(t) \/ Adapter(t) \/ RecordOutcome(t) \/ ClearArguments(t)
    <3>1. UNCHANGED <<runState, denials, drives>>
      BY <2>2 DEF AdmitToolCall, CreateApproval, LinkApproval, AttachArguments, Authorize, Submit,
           AdvanceToolCall, Adapter, RecordOutcome, ClearArguments
    <3> QED BY <1>0, <1>3, <2>2, <3>1, PipelineCarries
  <2>3. CASE ContinueParked(t)
    <3>1. /\ UNCHANGED <<runState, denials>>
          /\ pc[t] = "continue"
          /\ drives' \subseteq drives \cup {<<tRun[t], tCall[t]>>}
      BY <2>3 DEF ContinueParked
    <3>2. kind[t] = "release"
      BY <1>0, <3>1 DEF TaskFits
    <3> QED BY <1>0, <1>3, <2>3, <3>1, <3>2, PipelineCarries
  <2>4. ASSUME NEW c \in Calls, RunToolCall(t, c) \/ ReleaseApprovedCall(t, c) PROVE DriverInv'
    <3>1. UNCHANGED <<runState, denials, drives>> /\ (RunToolCall(t, c) \/ BeginResume(t, c))
      BY <2>4 DEF RunToolCall, RequestTool, ReleaseApprovedCall, BeginResume
    <3> QED BY <1>0, <1>3, <3>1, CallCarries
  <2> QED BY <1>1, <1>2, <1>4, <2>1, <2>2, <2>3, <2>4 DEF TaskStep
(* A run is started: its row was absent, so nothing drives it yet.         *)
<1>5. ASSUME NEW r \in Runs, StartRun(r) PROVE DriverInv'
  <2>1. /\ runState[r] = "absent"
        /\ runState' = [runState EXCEPT ![r] = "received"]
        /\ drives' = drives \cup {<<r, NoCall>>}
        /\ UNCHANGED <<taskVars, apState, denials>>
    BY <1>5 DEF StartRun
  <2>2. \A q : Decided(q)' <=> Decided(q)
    BY <2>1 DEF Decided
  <2>3. \A u \in Tasks, q \in Runs : Starter(u, q)' <=> Starter(u, q)
    BY <2>1 DEF Starter
  <2>4. \A u \in Tasks : TaskFits(u)'
    BY <1>0, <2>1 DEF TaskFits
  <2>5. DecisionInv'
    <3>1. ASSUME NEW u \in Tasks, kind'[u] = "resumed" PROVE Decided(tRun[u])'
      BY <1>0, <2>1, <3>1 DEF DecisionInv, Decided
    <3>2. \A d \in drives' : d[2] # NoCall => Decided(d[1])'
      BY <1>0, <2>1, <2>2 DEF DecisionInv
    <3> QED BY <1>0, <2>1, <3>1, <3>2 DEF DecisionInv
  <2>6. OneStarter'
    BY <1>0, <2>1, <2>3 DEF OneStarter
  <2>7. ParkedInv'
    BY <1>0, <2>1, <2>2, <2>3 DEF ParkedInv, Parked
  <2> QED BY <2>4, <2>5, <2>6, <2>7 DEF DriverInv
<1>6. CASE Crash
  <2>1. /\ pc' = [t \in Tasks |-> "idle"] /\ kind' = [t \in Tasks |-> "idle"]
        /\ todo' = [t \in Tasks |-> <<>>] /\ drives' = {} /\ denials' = {}
    BY <1>6 DEF Crash
  <2>2. \A t \in Tasks : TaskFits(t)'
    BY <2>1, ShortErrands DEF TaskFits, Starters
  <2>3. DecisionInv' /\ OneStarter' /\ ParkedInv'
    BY <2>1 DEF DecisionInv, OneStarter, ParkedInv, Starter, Starters
  <2> QED BY <2>2, <2>3 DEF DriverInv
(* Decisions, requests and startup touch no task.                          *)
<1>7. ASSUME NEW c \in Calls, ContinueDeclined(c) PROVE DriverInv'
  <2>1. Decided(RunOf[c])' /\ c # NoCall
    BY <1>0, <1>7, DecisionsStay, ModelAssumption DEF ContinueDeclined, DecisionInv, Decided
  <2>2. /\ UNCHANGED taskVars /\ UNCHANGED runState
        /\ denials' \subseteq denials
        /\ drives' \subseteq drives \cup {<<RunOf[c], c>>}
    BY <1>7 DEF ContinueDeclined
  <2> QED BY <2>1, <2>2, DriversLeft DEF Parked
<1>8. ASSUME NEW c \in Calls, Approve(c) \/ Deny(c) \/ Lapse(c) \/ RefuseRelease(c) PROVE DriverInv'
  <2>1. /\ UNCHANGED taskVars /\ UNCHANGED <<runState, drives>>
        /\ \A e \in denials' : e \in denials \/ (e \in Calls /\ apState'[e] = "denied")
    BY <1>8 DEF Approve, Deny, Lapse, RefuseRelease, IInv, Types, TypeOK, ApprovalTypes
  <2> QED BY <2>1, DriversLeft DEF Parked
<1>9. ASSUME NEW r \in Runs, SettleParked(r) \/ RecoverInterruptedRun(r) \/ Stop(r) PROVE DriverInv'
  <2>1. /\ UNCHANGED taskVars /\ UNCHANGED <<drives, denials>>
        /\ \A q \in Runs : Parked(q)' => Parked(q)
    BY <1>0, <1>9 DEF SettleParked, RecoverInterruptedRun, Stop, Parked
  <2> QED BY <2>1, NoRunLost, DriversLeft
<1>10. ASSUME WithdrawCancelled \/ BootNext \/ (\E c \in Calls : SettleOrphanedCall(c))
       PROVE  DriverInv'
  <2>1. UNCHANGED taskVars /\ UNCHANGED <<runState, drives, denials>>
    BY <1>10 DEF WithdrawCancelled, BootNext, SettleOrphanedCall
  <2> QED BY <2>1, DriversLeft DEF Parked
<1>11. ASSUME NEW t \in Tasks, NEW c \in Calls, ResumeByClient(t, c) \/ CallToolByClient(t, c)
       PROVE  DriverInv'
  <2>1. UNCHANGED <<runState, denials, drives>> /\ (CallToolByClient(t, c) \/ BeginResume(t, c))
    BY <1>11 DEF ResumeByClient, BeginResume, CallToolByClient, RequestTool
  <2> QED BY <1>0, <1>3, <2>1, CallCarries
<1> QED BY <1>4, <1>5, <1>6, <1>7, <1>8, <1>9, <1>10, <1>11
     DEF Next, RequestStep, BootStep, Environment

LEMMA DriversInductive == Spec => []DriverInv
<1>1. Init => DriverInv
  BY ShortErrands DEF Init, DriverInv, TaskFits, DecisionInv, OneStarter, ParkedInv, Starter,
     Starters
<1>2. DriverInv /\ UNCHANGED vars => DriverInv'
  BY DEF DriverInv, vars, TaskFits, DecisionInv, OneStarter, ParkedInv, Starter, Decided, Parked
<1> QED BY <1>1, <1>2, DriversStep, Inductive, PTL DEF Spec

(* Two tasks drive the same run at once only after a person answered a     *)
(* question about it: until then the driver start_and_drive spawned is     *)
(* alone (continue_parked_run and continue_declined_run spawn the others). *)
OneDriverUntilDecided ==
    \A t, u \in Tasks :
        /\ t # u /\ tRun[t] = tRun[u]
        /\ kind[t] \in Drivers \cup {"abandon"} /\ kind[u] \in Drivers \cup {"abandon"}
        => Decided(tRun[t])

THEOREM DrivenAlone == Spec => []OneDriverUntilDecided
<1>1. IInv /\ DriverInv => OneDriverUntilDecided
  <2> SUFFICES ASSUME IInv, DriverInv, NEW t \in Tasks, NEW u \in Tasks,
                      t # u, tRun[t] = tRun[u],
                      kind[t] \in Drivers \cup {"abandon"}, kind[u] \in Drivers \cup {"abandon"}
               PROVE  Decided(tRun[t])
    BY DEF OneDriverUntilDecided
  <2>1. tRun[t] \in Runs
    BY DEF DriverInv, TaskFits, IInv, Types, TasksOK, Drivers
  <2>2. CASE kind[t] = "resumed" \/ kind[u] = "resumed"
    BY <2>2 DEF DriverInv, DecisionInv
  <2>3. CASE kind[t] # "resumed" /\ kind[u] # "resumed"
    BY <2>1, <2>3 DEF DriverInv, OneStarter, Starter, Starters, Drivers
  <2> QED BY <2>2, <2>3
<1> QED BY <1>1, Inductive, DriversInductive, PTL

(* A parked run leaves its state only by Stop or after a person answered a *)
(* question about it, whichever driver, release, denial or restart comes   *)
(* next (drive_run, settle_parked_run_cancelled, recover_interrupted_runs).*)
DecidedBeforeResumed ==
    [][\A r \in Runs : Parked(r) /\ runState'[r] # runState[r]
          => runState'[r] = "cancelled" \/ Decided(r)]_vars

THEOREM ResumedByDecision == Spec => DecidedBeforeResumed
<1> DEFINE Waits == \A r \in Runs : Parked(r) /\ runState'[r] # runState[r]
                       => runState'[r] = "cancelled" \/ Decided(r)
<1>1. ASSUME IInv, DriverInv, Next PROVE Waits
  <2> SUFFICES ASSUME NEW r \in Runs, Parked(r), runState'[r] # runState[r]
               PROVE  runState'[r] = "cancelled" \/ Decided(r)
    OBVIOUS
  <2>0. runState \in [Runs -> RunStates \cup {"absent"}]
    BY <1>1 DEF IInv, Types, TypeOK, RunTypes
  <2>1. ASSUME NEW t \in Tasks, Transition(t) PROVE Decided(r)
    <3>1. tRun[t] = r /\ pc[t] = "transition" /\ pc[t] \notin ToolPcs
      BY <2>0, <2>1 DEF Transition, ToolPcs
    <3>2. kind[t] \in Drivers
      BY <1>1, <3>1 DEF DriverInv, TaskFits, IInv, Types, TypeOK, TaskTypes, Kinds
    <3>3. CASE kind[t] = "resumed"
      BY <1>1, <3>1, <3>3 DEF DriverInv, DecisionInv
    <3>4. CASE kind[t] = "fresh"
      BY <1>1, <3>1, <3>4 DEF DriverInv, ParkedInv, Starter, Starters, Leaving
    <3> QED BY <3>2, <3>3, <3>4 DEF Drivers
  <2>2. ASSUME NEW t \in Tasks, SettleRun(t) PROVE runState'[r] = "cancelled"
    <3>1. /\ CanTransitionTo(runState[r], Head(todo[t])) /\ runState'[r] = Head(todo[t])
          /\ pc[t] = "settling"
      BY <2>0, <2>2 DEF SettleRun
    <3>2. Head(todo[t]) \in Terminal
      BY <1>1, <3>1 DEF DriverInv, TaskFits
    <3> QED BY <3>1, <3>2 DEF CanTransitionTo, Terminal, Parked
  <2>3. ASSUME NEW t \in Tasks, TaskStep(t) PROVE runState'[r] = "cancelled" \/ Decided(r)
    BY <2>1, <2>2, <2>3 DEF TaskStep, BeginDrive, Enter, Advance, CheckCancellation, Settle,
         GenerateFails, GenerateStopped, GenerateAnswers, GenerateRequestsTools,
         RoundEnds, AdmitToolCall, CreateApproval, LinkApproval, AttachArguments, Authorize,
         Submit, AdvanceToolCall, Adapter, RecordOutcome, ContinueParked, ClearArguments,
         RunToolCall, RequestTool, ReleaseApprovedCall, BeginResume
  <2>4. ASSUME NEW q \in Runs, StartRun(q) \/ SettleParked(q) \/ RecoverInterruptedRun(q)
        PROVE  runState'[r] = "cancelled"
    BY <2>0, <2>4 DEF StartRun, SettleParked, RecoverInterruptedRun, Interrupted, Parked
  <2>5. CASE RequestStep
    BY <2>4, <2>5 DEF RequestStep, ContinueDeclined, RefuseRelease, WithdrawCancelled
  <2>6. CASE BootStep
    BY <2>4, <2>6 DEF BootStep, SettleOrphanedCall, BootNext
  <2>7. CASE Environment
    BY <2>4, <2>7 DEF Environment, Stop, Approve, Deny, Lapse, ResumeByClient, BeginResume,
         CallToolByClient, RequestTool, Crash
  <2> QED BY <1>1, <2>3, <2>5, <2>6, <2>7 DEF Next
<1>2. ASSUME IInv, DriverInv, [Next]_vars PROVE [Waits]_vars
  BY <1>1, <1>2
<1> QED BY <1>2, Inductive, DriversInductive, PTL DEF Spec, DecidedBeforeResumed
=============================================================================

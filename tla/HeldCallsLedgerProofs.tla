----------------------- MODULE HeldCallsLedgerProofs -----------------------
(***************************************************************************)
(* The ledger of tool calls: at most one effect, only with consent, never  *)
(* after a Stop, and never misreported, for any number of runs, calls,     *)
(* tasks and daemon deaths.  LedgerInv is inductive relative to Types.     *)
(***************************************************************************)
EXTENDS HeldCallsProofs

USE DEF runVars, callVars, approvalVars, ledgerVars, taskVars, queueVars, bootVars

IInv == Types /\ LedgerInv

(* Runs only move forward: a created run stays created, a settled one      *)
(* settled, a stopped one stopped.                                         *)
RunsForward ==
    \A r \in Runs : /\ runCancel[r] => runCancel'[r]
                    /\ runState[r] # "absent" => runState'[r] # "absent"
                    /\ Settled(r) => Settled(r)'

(* A task is outside the tool pipeline afterwards, or it is as it was.     *)
TasksFrame ==
    \A u \in Tasks : \/ pc'[u] \notin ToolPcs
                     \/ /\ pc'[u] = pc[u] /\ tRun'[u] = tRun[u]
                        /\ tCall'[u] = tCall[u] /\ report'[u] = report[u]

(* No row of the ledger changes, no run is created.                        *)
LeavesLedger ==
    /\ UNCHANGED <<outcome, held, apState, effects, barred>>
    /\ TasksFrame
    /\ RunsForward
    /\ \A r \in Runs : runState[r] = "absent" => runState'[r] = "absent"

Ledger == AdmissionInv /\ ConsentInv /\ ExecutionInv /\ RevocationInv

LEMMA LedgerFrame ==
    ASSUME IInv, LeavesLedger
    PROVE  Ledger'
<1> USE ModelAssumption DEF IInv, LedgerInv, LeavesLedger, RunsForward, TasksFrame
<1>0. \A u \in Tasks : pc[u] \in ToolPcs => tRun[u] \in Runs /\ tCall[u] \in Calls
  BY DEF TasksOK, ToolPcs
<1>1. AdmissionInv'
  BY <1>0 DEF AdmissionInv, ToolPcs
<1>2. ConsentInv'
  BY DEF ConsentInv, ToolPcs
<1>3. ExecutionInv'
  BY DEF ExecutionInv, ToolPcs
<1>4. RevocationInv'
  BY DEF RevocationInv, Types, TypeOK, LedgerTypes
<1> QED BY <1>1, <1>2, <1>3, <1>4 DEF Ledger

(* What the helpers do to the tasks.                                       *)
LEMMA HelperFrame ==
    ASSUME Types, NEW t \in Tasks,
           \/ Finish(t)
           \/ \E p \in Pcs \ ToolPcs : Goto(t, p)
           \/ \E p \in Pcs \ ToolPcs : \E q : Write(t, p, q)
           \/ DriverError(t)
           \/ \E s : Iterate(t, s)
           \/ ReturnText(t)
    PROVE  TasksFrame
<1> USE DEF Types, TypeOK, TaskTypes, TasksFrame
<1>1. CASE Finish(t)
  BY <1>1 DEF Finish, ToolPcs
<1>2. CASE \E p \in Pcs \ ToolPcs : Goto(t, p)
  BY <1>2 DEF Goto
<1>3. CASE \E p \in Pcs \ ToolPcs : \E q : Write(t, p, q)
  BY <1>3 DEF Write
<1>a. {"advance", "settle", "generate", "round"} \subseteq Pcs \ ToolPcs
  BY DEF Pcs, ToolPcs
<1>4. CASE DriverError(t)
  BY <1>1, <1>4, <1>a DEF DriverError
<1>5. CASE \E s : Iterate(t, s)
  BY <1>1, <1>2, <1>3, <1>5, <1>a DEF Iterate
<1>6. CASE ReturnText(t)
  BY <1>1, <1>6, <1>a DEF ReturnText
<1> QED BY <1>1, <1>2, <1>3, <1>4, <1>5, <1>6

(* A write accepted by the run table moves the run forward.                *)
LEMMA TableForward ==
    ASSUME Types, NEW r \in Runs, NEW to \in RunStates,
           CanTransitionTo(runState[r], to) \/ Live(r),
           runState' = [runState EXCEPT ![r] = to],
           \A q \in Runs : runCancel[q] => runCancel'[q]
    PROVE  /\ RunsForward
           /\ \A q \in Runs : runState[q] = "absent" => runState'[q] = "absent"
<1>1. runState[r] \in Unsettled
  BY TableType DEF Live
<1>2. runState[r] \notin Terminal /\ runState[r] # "absent"
  BY <1>1 DEF Unsettled, Terminal
<1> QED BY <1>2, StateNames DEF Types, TypeOK, RunTypes, RunsForward, Settled

LEMMA RunsUnchanged ==
    UNCHANGED runVars => /\ RunsForward
                         /\ \A q \in Runs : runState[q] = "absent" => runState'[q] = "absent"
BY DEF RunsForward, Settled

(* The steps of drivers leave the ledger alone.                            *)
LEMMA DriveLedger ==
    ASSUME IInv, NEW t \in Tasks,
           \/ BeginDrive(t) \/ Enter(t) \/ Advance(t) \/ Transition(t)
           \/ CheckCancellation(t) \/ Settle(t) \/ SettleRun(t)
           \/ GenerateFails(t) \/ GenerateStopped(t) \/ GenerateAnswers(t)
           \/ GenerateRequestsTools(t) \/ RoundEnds(t)
           \/ AttachArguments(t) \/ ClearArguments(t)
    PROVE  Ledger'
<1> USE LedgerFrame, RunsUnchanged DEF LeavesLedger
<1>0. Types
  BY DEF IInv
<1>a. {"advance", "settle", "check", "round", "transition", "settling", "enter"}
         \subseteq Pcs \ ToolPcs
  BY DEF Pcs, ToolPcs
<1>1. CASE BeginDrive(t)
  <2>1. TasksFrame
    BY <1>1, <1>0, <1>a DEF BeginDrive, Types, TypeOK, TaskTypes, TasksFrame
  <2> QED BY <1>1, <2>1 DEF BeginDrive
<1>2. CASE Enter(t)
  BY <1>2, <1>0, HelperFrame DEF Enter
<1>3. CASE Advance(t)
  BY <1>3, <1>0, <1>a, HelperFrame DEF Advance
<1>4. CASE Transition(t)
  <2>0. tRun[t] \in Runs /\ Head(todo[t]) \in RunStates
    BY <1>4, <1>0, Scripts DEF Transition, Types, TypeOK, TaskTypes, TasksOK
  <2>1. TasksFrame
    BY <1>4, <1>0, <1>a, HelperFrame DEF Transition
  <2>2. /\ RunsForward
        /\ \A q \in Runs : runState[q] = "absent" => runState'[q] = "absent"
    BY <1>4, <1>0, <2>0, TableForward DEF Transition
  <2> QED BY <1>4, <2>1, <2>2 DEF Transition
<1>5. CASE CheckCancellation(t)
  BY <1>5, <1>0, <1>a, HelperFrame DEF CheckCancellation
<1>6. CASE Settle(t)
  BY <1>6, <1>0, <1>a, HelperFrame DEF Settle
<1>7. CASE SettleRun(t)
  <2>0. tRun[t] \in Runs /\ Head(todo[t]) \in RunStates
    BY <1>7, <1>0, Scripts DEF SettleRun, Types, TypeOK, TaskTypes, TasksOK
  <2>1. TasksFrame
    BY <1>7, <1>0, HelperFrame DEF SettleRun
  <2>2. \A q \in Runs : runCancel[q] => runCancel'[q]
    BY <1>7, <1>0, <2>0 DEF SettleRun, Types, TypeOK, RunTypes
  <2>3. /\ RunsForward
        /\ \A q \in Runs : runState[q] = "absent" => runState'[q] = "absent"
    BY <1>7, <1>0, <2>0, <2>2, TableForward DEF SettleRun
  <2> QED BY <1>7, <2>1, <2>3 DEF SettleRun
<1>8. CASE GenerateFails(t)
  BY <1>8, <1>0, <1>a, HelperFrame DEF GenerateFails
<1>9. CASE GenerateStopped(t)
  <2>1. TasksFrame
    BY <1>9, <1>0, <1>a DEF GenerateStopped, Types, TypeOK, TaskTypes, TasksFrame
  <2> QED BY <1>9, <2>1 DEF GenerateStopped
<1>10. CASE GenerateAnswers(t)
  <2>1. TasksFrame
    <3>1. CASE DriverError(t)
      BY <3>1, <1>0, HelperFrame
    <3>2. CASE pc' = [pc EXCEPT ![t] = "advance"] /\ UNCHANGED <<tRun, tCall, report>>
      BY <3>2, <1>0, <1>a DEF Types, TypeOK, TaskTypes, TasksFrame
    <3> QED BY <1>10, <3>1, <3>2 DEF GenerateAnswers
  <2> QED BY <1>10, <2>1 DEF GenerateAnswers
<1>11. CASE GenerateRequestsTools(t)
  <2>1. TasksFrame
    BY <1>11, <1>0, <1>a DEF GenerateRequestsTools, Types, TypeOK, TaskTypes, TasksFrame
  <2> QED BY <1>11, <2>1 DEF GenerateRequestsTools
<1>12. CASE RoundEnds(t)
  BY <1>12, <1>0, <1>a, HelperFrame DEF RoundEnds
<1>13. CASE AttachArguments(t)
  BY <1>13, <1>0, <1>a, HelperFrame DEF AttachArguments
<1>14. CASE ClearArguments(t)
  BY <1>14, <1>0, HelperFrame DEF ClearArguments
<1> QED BY <1>1, <1>2, <1>3, <1>4, <1>5, <1>6, <1>7, <1>8, <1>9, <1>10, <1>11, <1>12,
           <1>13, <1>14

(* Steps that move one task inside the pipeline without writing a row of   *)
(* the ledger.                                                             *)
LEMMA PipelineLedger ==
    ASSUME IInv, NEW t \in Tasks, LinkApproval(t) \/ ContinueParked(t)
    PROVE  Ledger'
<1> USE DEF IInv, LedgerInv
<1>0. /\ tCall[t] \in Calls /\ pc[t] \in {"link", "continue"}
      /\ pc' = [pc EXCEPT ![t] = IF pc[t] = "link" THEN "attach" ELSE "clear"]
      /\ UNCHANGED <<runState, runCancel, outcome, held, apState, effects, barred,
                     tRun, tCall, report>>
      /\ pc \in [Tasks -> Pcs]
  BY DEF LinkApproval, ContinueParked, Goto, TasksOK, ToolPcs, Types, TypeOK, TaskTypes
<1>1. AdmissionInv'
  BY <1>0 DEF AdmissionInv, ToolPcs
<1>2. ConsentInv'
  BY <1>0 DEF ConsentInv
<1>3. ExecutionInv'
  BY <1>0 DEF ExecutionInv
<1>4. RevocationInv'
  BY <1>0 DEF RevocationInv, Settled
<1> QED BY <1>1, <1>2, <1>3, <1>4 DEF Ledger

(* The request for a call whose row does not exist yet.                    *)
LEMMA RequestLedger ==
    ASSUME IInv, NEW t \in Tasks, NEW c \in Calls,
           RunToolCall(t, c) \/ CallToolByClient(t, c)
    PROVE  Ledger'
<1> USE ModelAssumption DEF IInv, LedgerInv
<1>0. /\ pc' = [pc EXCEPT ![t] = "admit"]
      /\ tCall' = [tCall EXCEPT ![t] = c]
      /\ tRun' = [tRun EXCEPT ![t] = RunOf[c]]
      /\ \E h \in BOOLEAN : held' = [held EXCEPT ![c] = h]
      /\ outcome[c] = "absent"
      /\ \A u \in Tasks : tCall[u] # c
      /\ runState[RunOf[c]] # "absent"
      /\ UNCHANGED <<runState, runCancel, outcome, apState, effects, barred, report>>
  BY DEF RunToolCall, CallToolByClient, RequestTool, Types, TypeOK, TaskTypes, Live, Unsettled
<1>a. /\ pc \in [Tasks -> Pcs] /\ tCall \in [Tasks -> Calls \cup {NoCall}]
      /\ tRun \in [Tasks -> Runs \cup {NoRun}] /\ held \in [Calls -> BOOLEAN]
  BY DEF Types, TypeOK, TaskTypes, CallTypes
<1>1. AdmissionInv'
  BY <1>0, <1>a DEF AdmissionInv, ToolPcs
<1>2. ConsentInv'
  BY <1>0, <1>a DEF ConsentInv, AdmissionInv, ToolPcs
<1>3. ExecutionInv'
  BY <1>0, <1>a DEF ExecutionInv
<1>4. RevocationInv'
  BY <1>0 DEF RevocationInv, Settled
<1> QED BY <1>1, <1>2, <1>3, <1>4 DEF Ledger

(* The row, then the question.                                             *)
LEMMA AdmitLedger ==
    ASSUME IInv, NEW t \in Tasks, AdmitToolCall(t)
    PROVE  Ledger'
<1> USE DEF IInv, LedgerInv
<1>0. /\ tCall[t] \in Calls /\ tRun[t] = RunOf[tCall[t]] /\ pc[t] = "admit"
      /\ pc' = [pc EXCEPT ![t] = IF held[tCall[t]] THEN "hold" ELSE "authorize"]
      /\ outcome' = [outcome EXCEPT ![tCall[t]] = "requested"]
      /\ UNCHANGED <<runState, runCancel, held, apState, effects, barred, tRun, tCall, report>>
  BY DEF AdmitToolCall, Goto, TasksOK, ToolPcs
<1>a. pc \in [Tasks -> Pcs] /\ outcome \in [Calls -> ToolOutcomes \cup {"absent"}]
  BY DEF Types, TypeOK, TaskTypes, CallTypes
<1>b. outcome[tCall[t]] = "absent" /\ apState[tCall[t]] = "none" /\ runState[RunOf[tCall[t]]] # "absent"
  BY <1>0 DEF AdmissionInv, ToolPcs
<1>c. \A u \in Tasks : pc[u] \in ToolPcs => tCall[u] \in Calls
  BY DEF TasksOK
<1>1. AdmissionInv'
  BY <1>0, <1>a, <1>b, <1>c DEF AdmissionInv, ToolPcs
<1>2. ConsentInv'
  BY <1>0, <1>a, <1>b DEF ConsentInv
<1>3. ExecutionInv'
  BY <1>0, <1>a, <1>b, <1>c DEF ExecutionInv, ToolPcs
<1>4. RevocationInv'
  BY <1>0, <1>a, <1>b DEF RevocationInv, Settled, Types, TypeOK, LedgerTypes
<1> QED BY <1>1, <1>2, <1>3, <1>4 DEF Ledger

LEMMA CreateLedger ==
    ASSUME IInv, NEW t \in Tasks, CreateApproval(t)
    PROVE  Ledger'
<1> USE DEF IInv, LedgerInv
<1>0. /\ tCall[t] \in Calls /\ pc[t] = "hold"
      /\ pc' = [pc EXCEPT ![t] = "link"]
      /\ apState' = [apState EXCEPT ![tCall[t]] = "pending"]
      /\ UNCHANGED <<runState, runCancel, held, outcome, effects, barred, tRun, tCall, report>>
  BY DEF CreateApproval, Goto, TasksOK, ToolPcs
<1>a. pc \in [Tasks -> Pcs] /\ apState \in [Calls -> ApprovalStates]
  BY DEF Types, TypeOK, TaskTypes, ApprovalTypes
<1>b. outcome[tCall[t]] # "absent" /\ apState[tCall[t]] = "none"
  BY <1>0 DEF AdmissionInv, ToolPcs
<1>c. \A u \in Tasks : pc[u] \in ToolPcs => tCall[u] \in Calls
  BY DEF TasksOK
<1>1. AdmissionInv'
  BY <1>0, <1>a, <1>b, <1>c DEF AdmissionInv, ToolPcs
<1>2. ConsentInv'
  BY <1>0, <1>a, <1>b, <1>c DEF ConsentInv, ToolPcs
<1>3. ExecutionInv'
  BY <1>0, <1>a, <1>b DEF ExecutionInv
<1>4. RevocationInv'
  BY <1>0 DEF RevocationInv, Settled
<1> QED BY <1>1, <1>2, <1>3, <1>4 DEF Ledger

(* The two writes before the adapter, each refused for a stopped run.      *)
LEMMA AdvanceLedger ==
    ASSUME IInv, NEW t \in Tasks, Authorize(t) \/ Submit(t)
    PROVE  Ledger'
<1> USE DEF IInv, LedgerInv
<1> DEFINE c == tCall[t]
           next == IF pc[t] = "authorize" THEN "authorized" ELSE "submitted"
<1>0. /\ c \in Calls /\ tRun[t] = RunOf[c] /\ pc[t] \in {"authorize", "submit"}
      /\ UNCHANGED <<runState, runCancel, held, apState, effects, barred>>
  BY DEF Authorize, Submit, AdvanceToolCall, TasksOK, ToolPcs
<1>a. pc \in [Tasks -> Pcs] /\ outcome \in [Calls -> ToolOutcomes \cup {"absent"}]
  BY DEF Types, TypeOK, TaskTypes, CallTypes
<1>b. \A u \in Tasks : pc[u] \in ToolPcs => tCall[u] \in Calls /\ tRun[u] \in Runs
  BY DEF TasksOK, ToolPcs
<1>1. CASE MayRecord(c, next)
  <2>0. /\ outcome' = [outcome EXCEPT ![c] = next]
        /\ pc' = [pc EXCEPT ![t] = IF pc[t] = "authorize" THEN "submit" ELSE "adapter"]
        /\ UNCHANGED <<tRun, tCall, report>>
    BY <1>0, <1>1 DEF Authorize, Submit, AdvanceToolCall, Goto
  <2>1. /\ pc[t] = "authorize" => outcome[c] = "requested" /\ next = "authorized"
        /\ pc[t] = "submit" => outcome[c] = "authorized" /\ next = "submitted"
        /\ ~runCancel[RunOf[c]]
    BY <1>0, <1>1 DEF MayRecord, CanAdvanceTo
  <2>2. AdmissionInv'
    BY <1>0, <1>a, <1>b, <2>0, <2>1 DEF AdmissionInv, ToolPcs
  <2>3. ConsentInv'
    BY <1>0, <1>a, <1>b, <2>0, <2>1 DEF ConsentInv, ToolPcs
  <2>4. ExecutionInv'
    BY <1>0, <1>a, <1>b, <2>0, <2>1 DEF ExecutionInv, ToolPcs
  <2>5. c \notin barred
    BY <1>0, <2>1 DEF RevocationInv, AdmissionInv, ToolPcs
  <2>6. RevocationInv'
    BY <1>0, <1>a, <2>0, <2>5 DEF RevocationInv, Settled, Types, TypeOK, LedgerTypes
  <2> QED BY <2>2, <2>3, <2>4, <2>6 DEF Ledger
<1>2. CASE ~MayRecord(c, next)
  <2>1. ReturnText(t) /\ UNCHANGED outcome
    BY <1>0, <1>2 DEF Authorize, Submit, AdvanceToolCall
  <2>2. TasksFrame
    BY <2>1, HelperFrame
  <2> QED BY <1>0, <2>1, <2>2, LedgerFrame, RunsUnchanged DEF LeavesLedger
<1> QED BY <1>1, <1>2

(* The adapter.                                                            *)
LEMMA AdapterLedger ==
    ASSUME IInv, NEW t \in Tasks, Adapter(t)
    PROVE  Ledger'
<1> USE DEF IInv, LedgerInv
<1> DEFINE c == tCall[t]
<1>0. /\ c \in Calls /\ pc[t] = "adapter" /\ outcome[c] = "submitted" /\ effects[c] = 0
      /\ UNCHANGED <<runState, runCancel, outcome, held, apState, barred>>
  BY DEF Adapter, TasksOK, ToolPcs, ExecutionInv
<1>a. /\ pc \in [Tasks -> Pcs] /\ effects \in [Calls -> Nat]
      /\ report \in [Tasks -> ResolvedOutcomes \cup {"none"}]
  BY DEF Types, TypeOK, TaskTypes, LedgerTypes
<1>b. \A u \in Tasks : pc[u] \in ToolPcs => tCall[u] \in Calls /\ tRun[u] \in Runs
  BY DEF TasksOK, ToolPcs
<1>c. PICK done \in {0, 1} :
          /\ effects' = [effects EXCEPT ![c] = @ + done]
          /\ \/ \E said \in ResolvedOutcomes :
                   /\ said = "confirmed" => done = 1
                   /\ said = "failed" => done = 0
                   /\ pc' = [pc EXCEPT ![t] = "record"]
                   /\ report' = [report EXCEPT ![t] = said]
                   /\ UNCHANGED <<kind, tRun, tCall, todo, pending, turns>>
             \/ ReturnText(t)
  BY DEF Adapter
<1>d. effects'[c] = done /\ \A d \in Calls \ {c} : effects'[d] = effects[d]
  BY <1>0, <1>a, <1>c
<1>e. RevocationInv'
  BY <1>0 DEF RevocationInv, Settled
<1>1. CASE ReturnText(t)
  <2>1. TasksFrame
    BY <1>1, HelperFrame
  <2>2. AdmissionInv'
    BY <1>0, <1>b, <2>1 DEF AdmissionInv, ToolPcs, TasksFrame
  <2>3. ConsentInv'
    BY <1>0, <2>1 DEF ConsentInv, ToolPcs, TasksFrame
  <2>4. \A u \in Tasks : pc'[u] = "adapter" \/ pc'[u] = "record" => u # t /\ pc[u] = pc'[u] /\ tCall'[u] = tCall[u]
                            /\ report'[u] = report[u] /\ tCall[u] \in Calls \ {c}
    <3>1. pc'[t] \notin ToolPcs
      BY <1>1 DEF ReturnText, Finish, ToolPcs, Types, TypeOK, TaskTypes
    <3> QED BY <3>1, <1>0, <1>b, <2>1 DEF TasksFrame, ToolPcs, ExecutionInv
  <2>5. ExecutionInv'
    BY <1>0, <1>d, <2>1, <2>4 DEF ExecutionInv, TasksFrame, ToolPcs
  <2> QED BY <1>e, <2>2, <2>3, <2>5 DEF Ledger
<1>2. CASE \E said \in ResolvedOutcomes :
                   /\ said = "confirmed" => done = 1
                   /\ said = "failed" => done = 0
                   /\ pc' = [pc EXCEPT ![t] = "record"]
                   /\ report' = [report EXCEPT ![t] = said]
                   /\ UNCHANGED <<tRun, tCall>>
  <2>2. AdmissionInv'
    BY <1>0, <1>a, <1>2 DEF AdmissionInv, ToolPcs
  <2>3. ConsentInv'
    BY <1>0, <1>a, <1>2 DEF ConsentInv
  <2>4. \A u \in Tasks \ {t} : pc[u] = "adapter" \/ pc[u] = "record" => tCall[u] \in Calls \ {c}
    BY <1>0, <1>b DEF ExecutionInv, ToolPcs
  <2>5. ExecutionInv'
    BY <1>0, <1>a, <1>2, <1>d, <2>4 DEF ExecutionInv
  <2> QED BY <1>e, <2>2, <2>3, <2>5 DEF Ledger
<1> QED BY <1>c, <1>1, <1>2

(* The report is written over submitted, and says what happened.           *)
LEMMA RecordLedger ==
    ASSUME IInv, NEW t \in Tasks, RecordOutcome(t)
    PROVE  Ledger'
<1> USE DEF IInv, LedgerInv
<1> DEFINE c == tCall[t]
<1>0. /\ c \in Calls /\ pc[t] = "record" /\ outcome[c] = "submitted"
      /\ report[t] \in ResolvedOutcomes
      /\ UNCHANGED <<runState, runCancel, effects, held, apState, barred>>
  BY DEF RecordOutcome, TasksOK, ToolPcs, ExecutionInv, Types, TypeOK, TaskTypes
<1>a. /\ pc \in [Tasks -> Pcs] /\ outcome \in [Calls -> ToolOutcomes \cup {"absent"}]
  BY DEF Types, TypeOK, TaskTypes, CallTypes
<1>b. \A u \in Tasks : pc[u] \in ToolPcs => tCall[u] \in Calls /\ tRun[u] \in Runs
  BY DEF TasksOK, ToolPcs
<1>c. MayRecord(c, report[t])
  BY <1>0 DEF MayRecord, CanAdvanceTo, ResolvedOutcomes
<1>d. /\ outcome' = [outcome EXCEPT ![c] = report[t]]
      /\ Goto(t, "continue") \/ ReturnText(t)
  BY <1>c DEF RecordOutcome
<1>e. /\ \A u \in Tasks \ {t} : /\ pc'[u] = pc[u] /\ tRun'[u] = tRun[u]
                                /\ tCall'[u] = tCall[u] /\ report'[u] = report[u]
      /\ pc'[t] \in {"continue", "round", "idle"}
      /\ pc'[t] = "continue" => tRun'[t] = tRun[t] /\ tCall'[t] = tCall[t]
  BY <1>d DEF Goto, ReturnText, Finish, Types, TypeOK, TaskTypes
<1>f. \A u \in Tasks \ {t} : pc[u] \in {"submit", "adapter", "record"} => tCall[u] \in Calls \ {c}
  BY <1>0, <1>b DEF ExecutionInv, ToolPcs
<1>1. AdmissionInv'
  BY <1>0, <1>a, <1>b, <1>d, <1>e DEF AdmissionInv, ToolPcs, ResolvedOutcomes
<1>2. ConsentInv'
  BY <1>0, <1>a, <1>d, <1>e DEF ConsentInv
<1>3. ExecutionInv'
  BY <1>0, <1>a, <1>d, <1>e, <1>f DEF ExecutionInv, ResolvedOutcomes
<1>4. RevocationInv'
  BY <1>0, <1>a, <1>d DEF RevocationInv, Settled, Types, TypeOK, LedgerTypes
<1> QED BY <1>1, <1>2, <1>3, <1>4 DEF Ledger

(* Resuming an approved call: any number of tasks may do so at once.       *)
LEMMA ResumeLedger ==
    ASSUME IInv, NEW t \in Tasks, NEW c \in Calls, BeginResume(t, c)
    PROVE  Ledger'
<1> USE ModelAssumption DEF IInv, LedgerInv
<1>0. /\ pc' = [pc EXCEPT ![t] = "authorize"]
      /\ tCall' = [tCall EXCEPT ![t] = c]
      /\ tRun' = [tRun EXCEPT ![t] = RunOf[c]]
      /\ apState[c] = "approved" /\ outcome[c] = "requested"
      /\ UNCHANGED <<runState, runCancel, outcome, held, apState, effects, barred, report>>
  BY DEF BeginResume, Resumable
<1>a. /\ pc \in [Tasks -> Pcs] /\ tCall \in [Tasks -> Calls \cup {NoCall}]
      /\ tRun \in [Tasks -> Runs \cup {NoRun}]
  BY DEF Types, TypeOK, TaskTypes
<1>1. AdmissionInv'
  BY <1>0, <1>a DEF AdmissionInv, ToolPcs
<1>2. ConsentInv'
  BY <1>0, <1>a DEF ConsentInv
<1>3. ExecutionInv'
  BY <1>0, <1>a DEF ExecutionInv
<1>4. RevocationInv'
  BY <1>0 DEF RevocationInv, Settled
<1> QED BY <1>1, <1>2, <1>3, <1>4 DEF Ledger

(* Decisions and withdrawals touch only questions that are still open.     *)
LEMMA DecisionLedger ==
    ASSUME IInv,
           UNCHANGED <<runVars, callVars, ledgerVars, taskVars>>,
           \A c \in Calls : apState[c] # "pending" => apState'[c] = apState[c]
    PROVE  Ledger'
<1> USE DEF IInv, LedgerInv
<1>b. \A u \in Tasks : pc[u] \in ToolPcs => tCall[u] \in Calls
  BY DEF TasksOK
<1>1. AdmissionInv'
  BY <1>b DEF AdmissionInv, ToolPcs
<1>2. ConsentInv'
  BY <1>b DEF ConsentInv, ToolPcs
<1>3. ExecutionInv'
  BY DEF ExecutionInv
<1>4. RevocationInv'
  BY DEF RevocationInv, Settled
<1> QED BY <1>1, <1>2, <1>3, <1>4 DEF Ledger

LEMMA PersonLedger ==
    ASSUME IInv, NEW c \in Calls,
           \/ Approve(c) \/ Deny(c) \/ ContinueDeclined(c) \/ RefuseRelease(c) \/ Lapse(c)
    PROVE  Ledger'
<1>1. apState \in [Calls -> ApprovalStates]
  BY DEF IInv, Types, TypeOK, ApprovalTypes
<1>2. \A d \in Calls : apState[d] # "pending" => apState'[d] = apState[d]
  BY <1>1 DEF Approve, Deny, Decidable, ContinueDeclined, RefuseRelease, Lapse
<1> QED BY <1>2, DecisionLedger DEF Approve, Deny, ContinueDeclined, RefuseRelease, Lapse

(* A new run: a child whose parent was stopped or has settled is refused.  *)
LEMMA StartLedger ==
    ASSUME IInv, NEW r \in Runs, StartRun(r)
    PROVE  Ledger'
<1> USE ModelAssumption DEF IInv, LedgerInv
<1>0. /\ runState' = [runState EXCEPT ![r] = "received"] /\ runState[r] = "absent"
      /\ UNCHANGED <<runCancel, outcome, held, apState, effects, barred, pc, tRun, tCall, report>>
      /\ runState \in [Runs -> RunStates \cup {"absent"}]
  BY DEF StartRun, Types, TypeOK, RunTypes
<1>1. AdmissionInv'
  BY <1>0 DEF AdmissionInv, TasksOK, ToolPcs
<1>2. ConsentInv'
  BY <1>0 DEF ConsentInv
<1>3. ExecutionInv'
  BY <1>0 DEF ExecutionInv
<1>4. \A c \in barred : RunOf[c] = r => runCancel[r]
  <2> SUFFICES ASSUME NEW c \in barred, RunOf[c] = r, ~runCancel[r] PROVE FALSE
    OBVIOUS
  <2>1. /\ Parent[r] \in Runs
        /\ runCancel[Parent[r]] \/ Settled(Parent[r])
    BY DEF RevocationInv
  <2>2. Live(Parent[r]) /\ ~runCancel[Parent[r]]
    BY <2>1 DEF StartRun, Admissible
  <2> QED BY <2>1, <2>2 DEF Live, Settled, Unsettled, Terminal
<1>5. \A q \in Runs : Settled(q) => Settled(q)'
  BY <1>0 DEF Settled, Terminal
<1>6. RevocationInv'
  BY <1>0, <1>4, <1>5 DEF RevocationInv, Types, TypeOK, LedgerTypes
<1> QED BY <1>1, <1>2, <1>3, <1>6 DEF Ledger

(* Stop: the barred calls are exactly those its durable mark can still     *)
(* keep from being handed over.                                            *)
LEMMA StopLedger ==
    ASSUME IInv, NEW r \in Runs, Stop(r)
    PROVE  Ledger'
<1> USE ModelAssumption DEF IInv, LedgerInv
<1>0. /\ UNCHANGED <<runState, outcome, held, effects, pc, tRun, tCall, report>>
      /\ \A c \in Calls : apState[c] # "pending" => apState'[c] = apState[c]
      /\ \A q \in Runs : runCancel[q] => runCancel'[q]
      /\ \A q \in Family(r) : Live(q) => runCancel'[q]
  BY DEF Stop, Family
<1>b. \A u \in Tasks : pc[u] \in ToolPcs => tCall[u] \in Calls
  BY DEF TasksOK
<1>1. AdmissionInv'
  BY <1>0, <1>b DEF AdmissionInv, ToolPcs
<1>2. ConsentInv'
  BY <1>0, <1>b DEF ConsentInv, ToolPcs
<1>3. ExecutionInv'
  BY <1>0 DEF ExecutionInv
<1>4. ASSUME NEW c \in Calls, RunOf[c] \in Family(r), ~Settled(RunOf[c])
      PROVE  \/ runCancel'[RunOf[c]]
             \/ /\ runState[RunOf[c]] = "absent"
                /\ Parent[RunOf[c]] \in Runs
                /\ runCancel'[Parent[RunOf[c]]] \/ Settled(Parent[RunOf[c]])
  <2>1. CASE Live(RunOf[c])
    BY <1>0, <1>4, <2>1
  <2>2. CASE ~Live(RunOf[c])
    <3>1. runState[RunOf[c]] = "absent"
      BY <1>4, <2>2 DEF Live, Settled, Types, TypeOK, RunTypes, RunStates
    <3>2. Parent[RunOf[c]] = r
      BY <1>4, <3>1 DEF Stop, Family
    <3>3. runState[r] \in RunStates
      BY DEF Stop, Types, TypeOK, RunTypes
    <3>4. runCancel'[r] \/ Settled(r)
      BY <1>0, <3>3 DEF Family, Live, Settled, RunStates
    <3> QED BY <3>1, <3>2, <3>4
  <2> QED BY <2>1, <2>2
<1>5. RevocationInv'
  <2> SUFFICES ASSUME NEW c \in barred'
               PROVE  /\ outcome[c] \in {"absent", "requested", "authorized", "failed"}
                      /\ \/ runCancel'[RunOf[c]]
                         \/ /\ runState[RunOf[c]] = "absent"
                            /\ Parent[RunOf[c]] \in Runs
                            /\ runCancel'[Parent[RunOf[c]]] \/ Settled(Parent[RunOf[c]])
    BY <1>0 DEF RevocationInv, Settled
  <2>1. CASE c \in barred
    BY <1>0, <2>1 DEF RevocationInv, Types, TypeOK, LedgerTypes
  <2>2. CASE c \notin barred
    <3>1. /\ c \in Calls /\ RunOf[c] \in Family(r) /\ ~Settled(RunOf[c])
          /\ outcome[c] \in {"absent", "requested", "authorized"}
      BY <2>2 DEF Stop
    <3> QED BY <3>1, <1>4
  <2> QED BY <2>1, <2>2
<1> QED BY <1>1, <1>2, <1>3, <1>5 DEF Ledger

(* The steps that settle runs outside their drivers, and the restart.      *)
LEMMA RestartLedger ==
    ASSUME IInv
    PROVE  /\ \A r \in Runs : SettleParked(r) => Ledger'
           /\ \A r \in Runs : RecoverInterruptedRun(r) => Ledger'
           /\ WithdrawCancelled => Ledger'
           /\ BootNext => Ledger'
           /\ Crash => Ledger'
           /\ \A c \in Calls : SettleOrphanedCall(c) => Ledger'
<1> USE DEF IInv
<1>0. Types /\ apState \in [Calls -> ApprovalStates] /\ outcome \in [Calls -> ToolOutcomes \cup {"absent"}]
  BY DEF Types, TypeOK, ApprovalTypes, CallTypes
<1>1. ASSUME NEW r \in Runs, SettleParked(r) PROVE Ledger'
  <2>1. TasksFrame
    BY <1>1 DEF SettleParked, TasksFrame
  <2>2. /\ RunsForward
        /\ \A q \in Runs : runState[q] = "absent" => runState'[q] = "absent"
    BY <1>1, <1>0, TableForward, StateNames DEF SettleParked, Parked, Live, Unsettled, RunsForward, Settled
  <2> QED BY <1>1, <2>1, <2>2, LedgerFrame DEF SettleParked, LeavesLedger
<1>2. ASSUME NEW r \in Runs, RecoverInterruptedRun(r) PROVE Ledger'
  <2>1. TasksFrame
    BY <1>2 DEF RecoverInterruptedRun, TasksFrame
  <2>2. /\ RunsForward
        /\ \A q \in Runs : runState[q] = "absent" => runState'[q] = "absent"
    BY <1>2, <1>0, TableForward, StateNames DEF RecoverInterruptedRun, Interrupted
  <2> QED BY <1>2, <2>1, <2>2, LedgerFrame DEF RecoverInterruptedRun, LeavesLedger
<1>3. ASSUME WithdrawCancelled PROVE Ledger'
  BY <1>3, <1>0, DecisionLedger DEF WithdrawCancelled, Withdraw
<1>4. ASSUME BootNext PROVE Ledger'
  <2>1. \A c \in Calls : apState[c] # "pending" => apState'[c] = apState[c]
    BY <1>4, <1>0 DEF BootNext, Withdraw
  <2> QED BY <1>4, <2>1, DecisionLedger DEF BootNext
<1>5. ASSUME Crash PROVE Ledger'
  <2>1. TasksFrame
    BY <1>5 DEF Crash, TasksFrame, ToolPcs
  <2> QED BY <1>5, <2>1, LedgerFrame, RunsUnchanged DEF Crash, LeavesLedger
<1>6. ASSUME NEW c \in Calls, SettleOrphanedCall(c) PROVE Ledger'
  <2> USE DEF LedgerInv
  <2>0. /\ \A t \in Tasks : pc[t] = "idle" /\ pc'[t] = "idle"
        /\ outcome[c] \in {"authorized", "submitted"}
        /\ outcome' = [outcome EXCEPT ![c] = IF outcome[c] = "authorized" THEN "failed" ELSE "unknown"]
        /\ UNCHANGED <<runState, runCancel, held, apState, effects, barred>>
    BY <1>6 DEF SettleOrphanedCall, OrphanOutcome, RecoveryInv, Serving
  <2>1. AdmissionInv'
    BY <2>0, <1>0 DEF AdmissionInv, ToolPcs
  <2>2. ConsentInv'
    BY <2>0, <1>0 DEF ConsentInv
  <2>3. ExecutionInv'
    BY <2>0, <1>0 DEF ExecutionInv
  <2>4. RevocationInv'
    BY <2>0, <1>0 DEF RevocationInv, Settled, Types, TypeOK, LedgerTypes
  <2> QED BY <2>1, <2>2, <2>3, <2>4 DEF Ledger
<1> QED BY <1>1, <1>2, <1>3, <1>4, <1>5, <1>6

(* Nothing runs during recovery: only the boot steps are enabled then, and *)
(* they spawn nothing.                                                     *)
LEMMA RecoveryStep ==
    ASSUME IInv, Next
    PROVE  RecoveryInv'
<1> USE DEF IInv, LedgerInv
<1>1. ASSUME NEW t \in Tasks, TaskStep(t) PROVE boot = "serving" /\ boot' = boot
  <2>1. pc[t] # "idle" \/ drives # {} \/ releases # {}
    BY <1>1 DEF TaskStep, BeginDrive, Enter, Advance, Transition, CheckCancellation, Settle,
       SettleRun, GenerateFails, GenerateStopped, GenerateAnswers, GenerateRequestsTools,
       RoundEnds, AdmitToolCall, CreateApproval, LinkApproval, AttachArguments, Authorize,
       Submit, AdvanceToolCall, Adapter, RecordOutcome, ContinueParked, ClearArguments,
       RunToolCall, ReleaseApprovedCall
  <2>2. boot' = boot
    BY <1>1 DEF TaskStep, BeginDrive, Enter, Advance, Transition, CheckCancellation, Settle,
       SettleRun, GenerateFails, GenerateStopped, GenerateAnswers, GenerateRequestsTools,
       RoundEnds, AdmitToolCall, CreateApproval, LinkApproval, AttachArguments, Authorize,
       Submit, AdvanceToolCall, Adapter, RecordOutcome, ContinueParked, ClearArguments,
       RunToolCall, RequestTool, ReleaseApprovedCall, BeginResume
  <2> QED BY <2>1, <2>2 DEF RecoveryInv, Serving
<1>2. ASSUME RequestStep PROVE boot = "serving" /\ boot' = boot
  BY <1>2 DEF RequestStep, ContinueDeclined, RefuseRelease, SettleParked, WithdrawCancelled,
              RecoveryInv, Serving
<1>3. ASSUME BootStep PROVE RecoveryInv'
  <2>1. boot # "serving" /\ UNCHANGED <<taskVars, queueVars>>
    BY <1>3 DEF BootStep, SettleOrphanedCall, RecoverInterruptedRun, BootNext
  <2> QED BY <2>1 DEF RecoveryInv, Serving
<1>4. ASSUME Crash PROVE RecoveryInv'
  BY <1>4 DEF Crash, RecoveryInv
<1>5. ASSUME Environment, ~Crash PROVE (boot = "serving" /\ boot' = boot) \/ RecoveryInv'
  <2>1. ASSUME NEW r \in Runs, StartRun(r) \/ Stop(r) PROVE boot = "serving" /\ boot' = boot
    BY <2>1 DEF StartRun, Stop, Serving
  <2>2. ASSUME NEW c \in Calls, Approve(c) \/ Deny(c) PROVE boot = "serving" /\ boot' = boot
    BY <2>2 DEF Approve, Deny, Decidable, Serving
  <2>3. ASSUME NEW c \in Calls, Lapse(c) PROVE RecoveryInv'
    BY <2>3 DEF Lapse, RecoveryInv, Serving
  <2>4. ASSUME NEW t \in Tasks, NEW c \in Calls, ResumeByClient(t, c) \/ CallToolByClient(t, c)
        PROVE  boot = "serving" /\ boot' = boot
    BY <2>4 DEF ResumeByClient, BeginResume, CallToolByClient, RequestTool, Serving
  <2> QED BY <1>5, <2>1, <2>2, <2>3, <2>4 DEF Environment
<1>6. boot = "serving" /\ boot' = boot => RecoveryInv'
  BY DEF RecoveryInv, Serving
<1> QED BY <1>1, <1>2, <1>3, <1>4, <1>5, <1>6 DEF Next

LEMMA LedgerStep == IInv /\ [Next]_vars => IInv'
<1> SUFFICES ASSUME IInv, [Next]_vars PROVE IInv'
  OBVIOUS
<1>1. Types'
  BY NextTypes DEF IInv
<1>2. CASE UNCHANGED vars
  <2>1. Ledger'
    BY <1>2, LedgerFrame, RunsUnchanged DEF vars, LeavesLedger, TasksFrame
  <2>2. RecoveryInv'
    BY <1>2 DEF vars, RecoveryInv, Serving, IInv, LedgerInv
  <2> QED BY <1>1, <2>1, <2>2 DEF IInv, LedgerInv, Ledger, Types
<1>3. CASE Next
  <2>1. ASSUME NEW t \in Tasks, TaskStep(t) PROVE Ledger'
    BY <2>1, DriveLedger, PipelineLedger, RequestLedger, AdmitLedger, CreateLedger,
       AdvanceLedger, AdapterLedger, RecordLedger, ResumeLedger
       DEF TaskStep, ReleaseApprovedCall
  <2>2. ASSUME RequestStep PROVE Ledger'
    BY <2>2, PersonLedger, RestartLedger DEF RequestStep
  <2>3. ASSUME BootStep PROVE Ledger'
    BY <2>3, RestartLedger DEF BootStep
  <2>4. ASSUME Environment PROVE Ledger'
    BY <2>4, StartLedger, StopLedger, PersonLedger, ResumeLedger, RequestLedger, RestartLedger
       DEF Environment, ResumeByClient
  <2>5. Ledger'
    BY <1>3, <2>1, <2>2, <2>3, <2>4 DEF Next
  <2>6. RecoveryInv'
    BY <1>3, RecoveryStep
  <2> QED BY <1>1, <2>5, <2>6 DEF IInv, LedgerInv, Ledger, Types
<1> QED BY <1>2, <1>3

LEMMA InitLedger == Init => IInv
<1> SUFFICES ASSUME Init PROVE IInv
  OBVIOUS
<1>1. Types
  BY InitTypes
<1>2. AdmissionInv /\ ConsentInv
  BY DEF Init, AdmissionInv, ConsentInv, ToolPcs
<1>3. ExecutionInv /\ RevocationInv
  BY DEF Init, ExecutionInv, RevocationInv
<1>4. RecoveryInv
  BY DEF Init, RecoveryInv, Serving
<1> QED BY <1>1, <1>2, <1>3, <1>4 DEF IInv, LedgerInv, Types

LEMMA Inductive == Spec => []IInv
BY InitLedger, LedgerStep, PTL DEF Spec

(* The strengthened invariant the other results follow from: while a call  *)
(* is between authorized and its report one task has it, the row says how  *)
(* far it is, and what Stop revoked stays revoked (record_tool_outcome).   *)
THEOREM LedgerCorrect == Spec => []LedgerInv
<1>1. IInv => LedgerInv
  BY DEF IInv
<1> QED BY <1>1, Inductive, PTL

(* No number of clients resuming the same approved call, of drivers, or of *)
(* daemon deaths makes the adapter perform it twice (resume_admitted).     *)
THEOREM AtMostOneEffect == Spec => []EffectAtMostOnce
<1>1. IInv => EffectAtMostOnce
  BY DEF IInv, LedgerInv, ExecutionInv, EffectAtMostOnce
<1> QED BY <1>1, Inductive, PTL

(* A call policy held for a person has no effect unless that person        *)
(* approved it (authorize_and_admit, resume_admitted).                     *)
THEOREM ConsentBeforeEffect == Spec => []HeldEffectApproved
<1>1. IInv => HeldEffectApproved
  <2> SUFFICES ASSUME IInv, NEW c \in Calls, held[c], effects[c] > 0 PROVE apState[c] = "approved"
    BY DEF HeldEffectApproved
  <2>1. outcome[c] \notin {"absent", "requested"}
    BY DEF IInv, LedgerInv, ExecutionInv
  <2> QED BY <2>1 DEF IInv, LedgerInv, ConsentInv
<1> QED BY <1>1, Inductive, PTL

(* The stored outcome tells the truth about the effect at every moment, so *)
(* also at every moment the daemon can die (settle_orphaned_calls).        *)
THEOREM TruthfulOutcomes == Spec => []OutcomeTruthful
<1>1. IInv => OutcomeTruthful
  BY DEF IInv, LedgerInv, ExecutionInv, OutcomeTruthful
<1> QED BY <1>1, Inductive, PTL

(* What Stop found before its handover never has an effect, for any family *)
(* of runs (request_run_cancellation, record_tool_outcome).                *)
THEOREM StopBarsEffects == Spec => []BarredHaveNoEffect
<1>1. IInv => BarredHaveNoEffect
  BY DEF IInv, LedgerInv, ExecutionInv, RevocationInv, BarredHaveNoEffect, Types, TypeOK, LedgerTypes
<1> QED BY <1>1, Inductive, PTL
=============================================================================

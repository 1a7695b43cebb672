-------------------------- MODULE HeldCallsProofs --------------------------
(***************************************************************************)
(* Proofs about HeldCalls, for any number of runs, calls, tasks, model     *)
(* calls and daemon deaths.                                                *)
(***************************************************************************)
EXTENDS HeldCalls, TLAPS

(* An edge of can_transition_to leaves an unsettled state.                 *)
LEMMA TableType ==
    ASSUME NEW s, NEW next, CanTransitionTo(s, next)
    PROVE  next \in RunStates /\ s \in Unsettled
BY DEF CanTransitionTo, RunStates, Unsettled, Terminal

(* An edge of can_advance_to leaves an unresolved outcome.                 *)
LEMMA OutcomeTableType ==
    ASSUME NEW o, NEW next, CanAdvanceTo(o, next)
    PROVE  next \in ToolOutcomes /\ o \in {"requested", "authorized", "submitted"}
BY DEF CanAdvanceTo, ToolOutcomes, ResolvedOutcomes

(* The states drivers set out to write are sequences of run states.        *)
LEMMA Scripts ==
    /\ <<>> \in Seq(RunStates)
    /\ \A s \in RunStates : <<s>> \in Seq(RunStates) /\ <<s>> # <<>>
    /\ \A s, r \in RunStates : <<s, r>> \in Seq(RunStates) /\ <<s, r>> # <<>>
    /\ \A s, r, q \in RunStates : <<s, r, q>> \in Seq(RunStates) /\ <<s, r, q>> # <<>>
    /\ \A q \in Seq(RunStates) : q # <<>> => Head(q) \in RunStates /\ Tail(q) \in Seq(RunStates)
<1>1. <<>> \in Seq(RunStates)
  OBVIOUS
<1>2. \A s \in RunStates : <<s>> \in Seq(RunStates) /\ <<s>> # <<>>
  OBVIOUS
<1>3. \A s, r \in RunStates : <<s, r>> \in Seq(RunStates) /\ <<s, r>> # <<>>
  OBVIOUS
<1>4. \A s, r, q \in RunStates : <<s, r, q>> \in Seq(RunStates) /\ <<s, r, q>> # <<>>
  OBVIOUS
<1>5. \A q \in Seq(RunStates) : q # <<>> => Head(q) \in RunStates /\ Tail(q) \in Seq(RunStates)
  OBVIOUS
<1> QED BY <1>1, <1>2, <1>3, <1>4, <1>5

(* The names that appear in the code are members of the enumerations.      *)
LEMMA StateNames ==
    /\ {"received", "context_building", "planning", "executing", "observing",
        "awaiting_approval", "responding", "completed", "cancelled", "failed"} \subseteq RunStates
    /\ "absent" \notin RunStates
BY DEF RunStates, Unsettled, Terminal

(* What the types say of tasks, which every action of a task depends on.   *)
TaskInv == TaskTypes /\ TasksOK

USE DEF runVars, callVars, approvalVars, ledgerVars, taskVars, queueVars, bootVars

(* Variables an action leaves alone keep their types.                      *)
LEMMA Unchanged ==
    ASSUME TypeOK
    PROVE  /\ UNCHANGED runVars => RunTypes'
           /\ UNCHANGED callVars => CallTypes'
           /\ UNCHANGED approvalVars => ApprovalTypes'
           /\ UNCHANGED ledgerVars => LedgerTypes'
           /\ UNCHANGED fresh => FreshTypes'
           /\ UNCHANGED queueVars => QueueTypes'
           /\ UNCHANGED bootVars => BootTypes'
<1>1. UNCHANGED runVars => RunTypes'
  BY DEF TypeOK, RunTypes
<1>2. UNCHANGED callVars => CallTypes'
  BY DEF TypeOK, CallTypes
<1>3. UNCHANGED approvalVars => ApprovalTypes'
  BY DEF TypeOK, ApprovalTypes
<1>4. UNCHANGED ledgerVars => LedgerTypes'
  BY DEF TypeOK, LedgerTypes
<1>5. UNCHANGED fresh => FreshTypes'
  BY DEF TypeOK, FreshTypes
<1>6. UNCHANGED queueVars => QueueTypes'
  BY DEF TypeOK, QueueTypes
<1>7. UNCHANGED bootVars => BootTypes'
  BY DEF TypeOK, BootTypes
<1> QED BY <1>1, <1>2, <1>3, <1>4, <1>5, <1>6, <1>7

LEMMA UnchangedTasks == TaskInv /\ UNCHANGED taskVars => TaskInv'
BY DEF TaskInv, TaskTypes, TasksOK

LEMMA FinishTypes ==
    ASSUME TaskInv, NEW t \in Tasks, Finish(t)
    PROVE  TaskInv'
<1>1. TaskTypes'
  BY ModelAssumption, Scripts DEF Finish, TaskInv, TaskTypes, Pcs, Kinds
<1>2. TasksOK'
  BY DEF Finish, TaskInv, TaskTypes, TasksOK, Pcs, ToolPcs
<1> QED BY <1>1, <1>2 DEF TaskInv

LEMMA GotoTypes ==
    ASSUME TaskInv, NEW t \in Tasks, NEW p \in Pcs, Goto(t, p), pc[t] # "idle",
           p \in ToolPcs => pc[t] \in ToolPcs,
           p \in {"advance", "transition", "settle", "settling"} => todo[t] # <<>>,
           p = "record" => report[t] # "none"
    PROVE  TaskInv'
<1>1. TaskTypes'
  BY DEF Goto, TaskInv, TaskTypes
<1>2. TasksOK'
  BY DEF Goto, TaskInv, TaskTypes, TasksOK
<1> QED BY <1>1, <1>2 DEF TaskInv

LEMMA WriteTypes ==
    ASSUME TaskInv, NEW t \in Tasks, NEW p \in Pcs \ ToolPcs, NEW q \in Seq(RunStates),
           Write(t, p, q), pc[t] # "idle",
           p \in {"advance", "transition", "settle", "settling"} => q # <<>>
    PROVE  TaskInv'
<1>1. TaskTypes'
  BY DEF Write, TaskInv, TaskTypes
<1>2. TasksOK'
  BY DEF Write, TaskInv, TaskTypes, TasksOK, ToolPcs
<1> QED BY <1>1, <1>2 DEF TaskInv

LEMMA DriverErrorTypes ==
    ASSUME TaskInv, NEW t \in Tasks, DriverError(t), pc[t] # "idle"
    PROVE  TaskInv'
<1>1. CASE Finish(t)
  BY <1>1, FinishTypes
<1>2. CASE /\ kind' = [kind EXCEPT ![t] = "abandon"]
           /\ pc' = [pc EXCEPT ![t] = "settle"]
           /\ todo' = [todo EXCEPT ![t] = <<"failed">>]
           /\ tCall' = [tCall EXCEPT ![t] = NoCall]
           /\ UNCHANGED <<tRun, pending, turns, report>>
  <2>1. <<"failed">> \in Seq(RunStates) /\ <<"failed">> # <<>>
    BY Scripts, StateNames
  <2>2. TaskTypes'
    BY <1>2, <2>1 DEF TaskInv, TaskTypes, Pcs, Kinds
  <2>3. TasksOK'
    BY <1>2, <2>1 DEF TaskInv, TaskTypes, TasksOK, ToolPcs
  <2> QED BY <2>2, <2>3 DEF TaskInv
<1> QED BY <1>1, <1>2 DEF DriverError

LEMMA IterateTypes ==
    ASSUME TaskInv, NEW t \in Tasks, NEW s, Iterate(t, s), pc[t] # "idle"
    PROVE  TaskInv'
<1>0. /\ {"advance", "settle", "generate"} \subseteq Pcs \ ToolPcs
  BY DEF Pcs, ToolPcs
<1>1. CASE Finish(t)
  BY <1>1, FinishTypes
<1>2. CASE Goto(t, "generate")
  BY <1>2, <1>0, GotoTypes DEF ToolPcs
<1>3. CASE \E n \in RunStates : Write(t, "advance", <<n>>)
  BY <1>3, <1>0, WriteTypes, Scripts
<1>4. CASE Write(t, "settle", <<"completed">>)
  BY <1>4, <1>0, WriteTypes, Scripts, StateNames
<1>5. CASE /\ pc' = [pc EXCEPT ![t] = "advance"]
           /\ todo' = [todo EXCEPT ![t] = <<"executing">>]
           /\ pending' = [pending EXCEPT ![t] = NoCall]
           /\ UNCHANGED <<kind, tRun, tCall, turns, report>>
  <2>1. TaskTypes'
    BY <1>5, <1>0, Scripts, StateNames DEF TaskInv, TaskTypes
  <2>2. TasksOK'
    BY <1>5, <1>0, Scripts, StateNames DEF TaskInv, TaskTypes, TasksOK, ToolPcs
  <2> QED BY <2>1, <2>2 DEF TaskInv
<1> QED BY <1>1, <1>2, <1>3, <1>4, <1>5, StateNames DEF Iterate

(* ReturnText leaves the pipeline.                                         *)
LEMMA ReturnTextTypes ==
    ASSUME TaskInv, NEW t \in Tasks, ReturnText(t), pc[t] # "idle"
    PROVE  TaskInv'
<1>1. CASE Finish(t)
  BY <1>1, FinishTypes
<1>2. CASE /\ pc' = [pc EXCEPT ![t] = "round"]
           /\ tCall' = [tCall EXCEPT ![t] = NoCall]
           /\ report' = [report EXCEPT ![t] = "none"]
           /\ UNCHANGED <<kind, tRun, todo, pending, turns>>
  <2>1. TaskTypes'
    BY <1>2 DEF TaskInv, TaskTypes, Pcs
  <2>2. TasksOK'
    BY <1>2 DEF TaskInv, TaskTypes, TasksOK, ToolPcs
  <2> QED BY <2>1, <2>2 DEF TaskInv
<1> QED BY <1>1, <1>2 DEF ReturnText

Types == TypeOK /\ TasksOK

LEMMA TypesParts ==
    /\ Types <=> /\ RunTypes /\ CallTypes /\ ApprovalTypes /\ LedgerTypes
                 /\ TaskInv /\ FreshTypes /\ QueueTypes /\ BootTypes
    /\ Types' <=> /\ RunTypes' /\ CallTypes' /\ ApprovalTypes' /\ LedgerTypes'
                  /\ TaskInv' /\ FreshTypes' /\ QueueTypes' /\ BootTypes'
BY DEF Types, TypeOK, TaskInv

(* BumpVersion forgets expectations.                                       *)
LEMMA BumpTypes == \A r : FreshTypes /\ BumpVersion(r) => FreshTypes'
BY DEF FreshTypes, BumpVersion

LEMMA InitTypes == Init => Types
<1> SUFFICES ASSUME Init PROVE Types
  OBVIOUS
<1>1. RunTypes
  BY DEF Init, RunTypes
<1>2. CallTypes
  BY DEF Init, CallTypes
<1>3. ApprovalTypes
  BY DEF Init, ApprovalTypes, ApprovalStates
<1>4. LedgerTypes
  BY DEF Init, LedgerTypes
<1>5. TaskTypes
  BY ModelAssumption, Scripts DEF Init, TaskTypes, Pcs, Kinds
<1>6. TasksOK
  BY DEF Init, TasksOK, ToolPcs
<1>7. FreshTypes
  BY DEF Init, FreshTypes
<1>8. QueueTypes
  BY DEF Init, QueueTypes
<1>9. BootTypes
  BY ModelAssumption DEF Init, BootTypes, BootStages
<1> QED BY <1>1, <1>2, <1>3, <1>4, <1>5, <1>6, <1>7, <1>8, <1>9 DEF Types, TypeOK

(* The driver's own steps.                                                 *)
LEMMA DriveTypes ==
    ASSUME Types, NEW t \in Tasks
    PROVE  /\ BeginDrive(t) => Types'
           /\ Enter(t) => Types'
           /\ Advance(t) => Types'
           /\ Transition(t) => Types'
           /\ CheckCancellation(t) => Types'
           /\ Settle(t) => Types'
           /\ SettleRun(t) => Types'
<1> USE TypesParts, Unchanged
<1>0. TypeOK /\ TaskInv
  BY DEF Types, TaskInv
<1>a. /\ {"advance", "settle", "check"} \subseteq Pcs \ ToolPcs
      /\ {"transition", "settling"} \subseteq Pcs \ ToolPcs
  BY DEF Pcs, ToolPcs
<1>1. ASSUME BeginDrive(t) PROVE Types'
  <2>1. PICK d \in drives : /\ pc[t] = "idle"
                            /\ drives' = drives \ {d}
                            /\ pc' = [pc EXCEPT ![t] = "enter"]
                            /\ kind' = [kind EXCEPT ![t] = IF d[2] = NoCall THEN "fresh" ELSE "resumed"]
                            /\ tRun' = [tRun EXCEPT ![t] = d[1]]
                            /\ pending' = [pending EXCEPT ![t] = d[2]]
                            /\ UNCHANGED <<tCall, todo, turns, report>>
    BY <1>1 DEF BeginDrive
  <2>2. d[1] \in Runs /\ d[2] \in Calls \cup {NoCall}
    BY <1>0 DEF TypeOK, QueueTypes
  <2>3. TaskTypes'
    BY <2>1, <2>2, <1>0 DEF TaskInv, TaskTypes, Pcs, Kinds, Drivers
  <2>4. TasksOK'
    BY <2>1, <2>2, <1>0 DEF TaskInv, TaskTypes, TasksOK, ToolPcs
  <2>5. QueueTypes'
    BY <1>1, <1>0 DEF BeginDrive, TypeOK, QueueTypes
  <2> QED BY <1>1, <1>0, <2>3, <2>4, <2>5 DEF BeginDrive, TaskInv
<1>2. ASSUME Enter(t) PROVE Types'
  <2>1. TaskInv'
    BY <1>2, <1>0, IterateTypes DEF Enter
  <2> QED BY <1>2, <1>0, <2>1 DEF Enter
<1>3. ASSUME Advance(t) PROVE Types'
  <2>1. TaskInv'
    BY <1>3, <1>0, <1>a, WriteTypes, GotoTypes, Scripts DEF Advance, TaskInv, TasksOK
  <2>2. FreshTypes'
    BY <1>3, <1>0 DEF Advance, TypeOK, FreshTypes
  <2> QED BY <1>3, <1>0, <2>1, <2>2 DEF Advance
<1>4. ASSUME Transition(t) PROVE Types'
  <2>0. tRun[t] \in Runs /\ todo[t] \in Seq(RunStates) /\ todo[t] # <<>>
    BY <1>4, <1>0 DEF Transition, TaskInv, TaskTypes, TasksOK
  <2>1. CASE fresh[t] /\ CanTransitionTo(runState[tRun[t]], Head(todo[t]))
    <3>1. TaskInv'
      BY <1>4, <2>0, <2>1, <1>0, <1>a, WriteTypes, Scripts DEF Transition
    <3>2. RunTypes'
      BY <1>4, <2>0, <2>1, <1>0, Scripts DEF Transition, TypeOK, RunTypes
    <3>3. FreshTypes'
      BY <1>4, <2>1, <1>0, BumpTypes DEF Transition, TypeOK
    <3> QED BY <1>4, <1>0, <3>1, <3>2, <3>3 DEF Transition
  <2>2. CASE ~(fresh[t] /\ CanTransitionTo(runState[tRun[t]], Head(todo[t])))
    <3>1. TaskInv'
      BY <1>4, <2>2, <1>0, DriverErrorTypes DEF Transition
    <3>2. FreshTypes'
      BY <1>4, <2>2, <1>0 DEF Transition, TypeOK, FreshTypes
    <3> QED BY <1>4, <2>2, <1>0, <3>1, <3>2 DEF Transition
  <2> QED BY <2>1, <2>2
<1>5. ASSUME CheckCancellation(t) PROVE Types'
  <2>1. TaskInv'
    BY <1>5, <1>0, <1>a, IterateTypes, WriteTypes, Scripts, StateNames DEF CheckCancellation
  <2> QED BY <1>5, <1>0, <2>1 DEF CheckCancellation
<1>6. ASSUME Settle(t) PROVE Types'
  <2>1. TaskInv'
    BY <1>6, <1>0, <1>a, FinishTypes, GotoTypes DEF Settle, TaskInv, TasksOK
  <2>2. FreshTypes'
    BY <1>6, <1>0 DEF Settle, TypeOK, FreshTypes
  <2> QED BY <1>6, <1>0, <2>1, <2>2 DEF Settle
<1>7. ASSUME SettleRun(t) PROVE Types'
  <2>0. tRun[t] \in Runs /\ todo[t] \in Seq(RunStates) /\ todo[t] # <<>>
    BY <1>7, <1>0 DEF SettleRun, TaskInv, TaskTypes, TasksOK
  <2>1. CASE fresh[t] /\ CanTransitionTo(runState[tRun[t]], Head(todo[t]))
    <3>1. TaskInv'
      BY <1>7, <2>1, <1>0, FinishTypes DEF SettleRun
    <3>2. RunTypes'
      BY <1>7, <2>0, <2>1, <1>0, Scripts DEF SettleRun, TypeOK, RunTypes
    <3>3. FreshTypes'
      BY <1>7, <2>1, <1>0, BumpTypes DEF SettleRun, TypeOK
    <3> QED BY <1>7, <1>0, <3>1, <3>2, <3>3 DEF SettleRun
  <2>2. CASE ~(fresh[t] /\ CanTransitionTo(runState[tRun[t]], Head(todo[t])))
    <3>1. TaskInv'
      BY <1>7, <2>2, <1>0, DriverErrorTypes DEF SettleRun
    <3>2. FreshTypes'
      BY <1>7, <2>2, <1>0 DEF SettleRun, TypeOK, FreshTypes
    <3> QED BY <1>7, <2>2, <1>0, <3>1, <3>2 DEF SettleRun
  <2> QED BY <2>1, <2>2
<1> QED BY <1>1, <1>2, <1>3, <1>4, <1>5, <1>6, <1>7

(* The model turn and the end of its round of tool calls.                  *)
LEMMA TurnTypes ==
    ASSUME Types, NEW t \in Tasks
    PROVE  /\ GenerateFails(t) => Types'
           /\ GenerateStopped(t) => Types'
           /\ GenerateAnswers(t) => Types'
           /\ GenerateRequestsTools(t) => Types'
           /\ RoundEnds(t) => Types'
<1> USE TypesParts, Unchanged
<1>0. TypeOK /\ TaskInv
  BY DEF Types, TaskInv
<1>a. {"advance", "settle", "check", "round"} \subseteq Pcs \ ToolPcs
  BY DEF Pcs, ToolPcs
<1>b. ASSUME ~OverModelBudget(t) PROVE turns[t] + 1 \in 0..MaxModelCalls
  BY <1>b, <1>0, ModelAssumption DEF OverModelBudget, TaskInv, TaskTypes
<1>1. ASSUME GenerateFails(t) PROVE Types'
  <2>1. TaskInv'
    BY <1>1, <1>0, <1>a, WriteTypes, Scripts, StateNames DEF GenerateFails
  <2> QED BY <1>1, <1>0, <2>1 DEF GenerateFails
<1>2. ASSUME GenerateStopped(t) PROVE Types'
  <2>1. TaskTypes'
    BY <1>2, <1>0, <1>a, <1>b DEF GenerateStopped, TaskInv, TaskTypes
  <2>2. TasksOK'
    BY <1>2, <1>0, <1>a DEF GenerateStopped, TaskInv, TaskTypes, TasksOK, ToolPcs
  <2> QED BY <1>2, <1>0, <2>1, <2>2 DEF GenerateStopped, TaskInv
<1>3. ASSUME GenerateAnswers(t) PROVE Types'
  <2>1. CASE DriverError(t)
    <3>1. TaskInv'
      BY <1>3, <2>1, <1>0, DriverErrorTypes DEF GenerateAnswers
    <3> QED BY <1>3, <1>0, <3>1 DEF GenerateAnswers
  <2>2. CASE /\ pc' = [pc EXCEPT ![t] = "advance"]
             /\ todo' = [todo EXCEPT ![t] = <<"observing">>]
             /\ turns' = [turns EXCEPT ![t] = @ + 1]
             /\ UNCHANGED <<kind, tRun, tCall, pending, report>>
    <3>1. <<"observing">> \in Seq(RunStates) /\ <<"observing">> # <<>>
      BY Scripts, StateNames
    <3>2. turns[t] + 1 \in 0..MaxModelCalls /\ pc[t] = "generate"
      BY <1>3, <1>b DEF GenerateAnswers
    <3>3. TaskTypes'
      BY <2>2, <1>0, <1>a, <3>1, <3>2 DEF TaskInv, TaskTypes
    <3>4. TasksOK'
      BY <2>2, <1>0, <3>1, <3>2 DEF TaskInv, TaskTypes, TasksOK, ToolPcs
    <3> QED BY <1>3, <1>0, <3>3, <3>4 DEF GenerateAnswers, TaskInv
  <2> QED BY <1>3, <2>1, <2>2 DEF GenerateAnswers
<1>4. ASSUME GenerateRequestsTools(t) PROVE Types'
  <2>1. TaskTypes'
    BY <1>4, <1>0, <1>a, <1>b DEF GenerateRequestsTools, TaskInv, TaskTypes
  <2>2. TasksOK'
    BY <1>4, <1>0, <1>a DEF GenerateRequestsTools, TaskInv, TaskTypes, TasksOK, ToolPcs
  <2> QED BY <1>4, <1>0, <2>1, <2>2 DEF GenerateRequestsTools, TaskInv
<1>5. ASSUME RoundEnds(t) PROVE Types'
  <2>1. TaskInv'
    BY <1>5, <1>0, <1>a, WriteTypes, Scripts, StateNames DEF RoundEnds
  <2> QED BY <1>5, <1>0, <2>1 DEF RoundEnds
<1> QED BY <1>1, <1>2, <1>3, <1>4, <1>5

(* The pipeline up to the recorded hold.                                   *)
LEMMA HoldTypes ==
    ASSUME Types, NEW t \in Tasks
    PROVE  /\ \A c \in Calls : RunToolCall(t, c) => Types'
           /\ \A c \in Calls : CallToolByClient(t, c) => Types'
           /\ AdmitToolCall(t) => Types'
           /\ CreateApproval(t) => Types'
           /\ LinkApproval(t) => Types'
           /\ AttachArguments(t) => Types'
<1> USE TypesParts, Unchanged
<1>0. TypeOK /\ TaskInv
  BY DEF Types, TaskInv
<1>a. {"admit", "hold", "authorize", "link", "attach"} \subseteq Pcs \cap ToolPcs
  BY DEF Pcs, ToolPcs
<1>1. ASSUME NEW c \in Calls, RunToolCall(t, c) PROVE Types'
  <2>1. TaskTypes'
    BY <1>1, <1>0, <1>a DEF RunToolCall, RequestTool, TaskInv, TaskTypes
  <2>2. TasksOK'
    BY <1>1, <1>0, ModelAssumption DEF RunToolCall, RequestTool, TaskInv, TaskTypes, TasksOK, ToolPcs
  <2>3. CallTypes'
    BY <1>1, <1>0 DEF RunToolCall, RequestTool, TypeOK, CallTypes
  <2> QED BY <1>1, <1>0, <2>1, <2>2, <2>3 DEF RunToolCall, RequestTool, TaskInv
<1>2. ASSUME NEW c \in Calls, CallToolByClient(t, c) PROVE Types'
  <2>1. TaskTypes'
    BY <1>2, <1>0, <1>a, ModelAssumption DEF CallToolByClient, RequestTool, TaskInv, TaskTypes, Kinds
  <2>2. TasksOK'
    BY <1>2, <1>0, ModelAssumption DEF CallToolByClient, RequestTool, TaskInv, TaskTypes, TasksOK, ToolPcs
  <2>3. CallTypes'
    BY <1>2, <1>0 DEF CallToolByClient, RequestTool, TypeOK, CallTypes
  <2> QED BY <1>2, <1>0, <2>1, <2>2, <2>3 DEF CallToolByClient, RequestTool, TaskInv
<1>3. ASSUME AdmitToolCall(t) PROVE Types'
  <2>1. TaskInv'
    BY <1>3, <1>0, <1>a, GotoTypes DEF AdmitToolCall
  <2>2. CallTypes'
    BY <1>3, <1>0 DEF AdmitToolCall, TypeOK, CallTypes, ToolOutcomes
  <2> QED BY <1>3, <1>0, <2>1, <2>2 DEF AdmitToolCall
<1>4. ASSUME CreateApproval(t) PROVE Types'
  <2>1. TaskInv'
    BY <1>4, <1>0, <1>a, GotoTypes DEF CreateApproval
  <2>2. ApprovalTypes'
    BY <1>4, <1>0 DEF CreateApproval, TypeOK, ApprovalTypes, ApprovalStates
  <2> QED BY <1>4, <1>0, <2>1, <2>2 DEF CreateApproval
<1>5. ASSUME LinkApproval(t) PROVE Types'
  <2>1. TaskInv'
    BY <1>5, <1>0, <1>a, GotoTypes DEF LinkApproval
  <2>2. CallTypes'
    BY <1>5, <1>0 DEF LinkApproval, TypeOK, CallTypes
  <2> QED BY <1>5, <1>0, <2>1, <2>2 DEF LinkApproval
<1>6. ASSUME AttachArguments(t) PROVE Types'
  <2>0. "advance" \in Pcs \ ToolPcs
    BY DEF Pcs, ToolPcs
  <2>1. TaskInv'
    BY <1>6, <1>0, <2>0, WriteTypes, ReturnTextTypes, Scripts, StateNames DEF AttachArguments
  <2>2. ApprovalTypes'
    BY <1>6, <1>0 DEF AttachArguments, TypeOK, ApprovalTypes
  <2> QED BY <1>6, <1>0, <2>1, <2>2 DEF AttachArguments
<1> QED BY <1>1, <1>2, <1>3, <1>4, <1>5, <1>6

(* Execution, its report, and what follows it.                             *)
LEMMA ExecuteTypes ==
    ASSUME Types, NEW t \in Tasks
    PROVE  /\ Authorize(t) => Types'
           /\ Submit(t) => Types'
           /\ Adapter(t) => Types'
           /\ RecordOutcome(t) => Types'
           /\ ContinueParked(t) => Types'
           /\ ClearArguments(t) => Types'
<1> USE TypesParts, Unchanged
<1>0. TypeOK /\ TaskInv
  BY DEF Types, TaskInv
<1>a. {"submit", "adapter", "authorize", "record", "continue", "clear"} \subseteq Pcs \cap ToolPcs
  BY DEF Pcs, ToolPcs
<1>1. ASSUME NEW from \in ToolPcs, NEW next, NEW to \in {"submit", "adapter"},
             AdvanceToolCall(t, from, next, to)
      PROVE Types'
  <2>1. pc[t] # "idle" /\ to \in Pcs
    BY <1>1, <1>a DEF AdvanceToolCall, ToolPcs
  <2>2. TaskInv'
    BY <1>1, <2>1, <1>0, GotoTypes, ReturnTextTypes DEF AdvanceToolCall
  <2>3. CallTypes'
    BY <1>1, <1>0, OutcomeTableType DEF AdvanceToolCall, MayRecord, TypeOK, CallTypes
  <2> QED BY <1>1, <1>0, <2>2, <2>3 DEF AdvanceToolCall
<1>2. ASSUME Authorize(t) PROVE Types'
  BY <1>1, <1>2, <1>a DEF Authorize
<1>3. ASSUME Submit(t) PROVE Types'
  BY <1>1, <1>3, <1>a DEF Submit
<1>4. ASSUME Adapter(t) PROVE Types'
  <2>1. TaskInv'
    <3>1. CASE ReturnText(t)
      BY <1>4, <3>1, <1>0, ReturnTextTypes DEF Adapter
    <3>2. CASE \E said \in ResolvedOutcomes :
                 /\ pc' = [pc EXCEPT ![t] = "record"]
                 /\ report' = [report EXCEPT ![t] = said]
                 /\ UNCHANGED <<kind, tRun, tCall, todo, pending, turns>>
      <4>1. TaskTypes'
        BY <3>2, <1>0, <1>a DEF TaskInv, TaskTypes
      <4>2. TasksOK'
        BY <1>4, <3>2, <1>0 DEF Adapter, TaskInv, TaskTypes, TasksOK, ToolPcs, ResolvedOutcomes
      <4> QED BY <4>1, <4>2 DEF TaskInv
    <3> QED BY <1>4, <3>1, <3>2 DEF Adapter
  <2>2. LedgerTypes'
    BY <1>4, <1>0 DEF Adapter, TypeOK, LedgerTypes
  <2> QED BY <1>4, <1>0, <2>1, <2>2 DEF Adapter
<1>5. ASSUME RecordOutcome(t) PROVE Types'
  <2>1. TaskInv'
    BY <1>5, <1>0, <1>a, GotoTypes, ReturnTextTypes DEF RecordOutcome
  <2>2. CallTypes'
    BY <1>5, <1>0, OutcomeTableType DEF RecordOutcome, MayRecord, TypeOK, CallTypes
  <2> QED BY <1>5, <1>0, <2>1, <2>2 DEF RecordOutcome
<1>6. ASSUME ContinueParked(t) PROVE Types'
  <2>1. TaskInv'
    BY <1>6, <1>0, <1>a, GotoTypes DEF ContinueParked
  <2>2. tRun[t] \in Runs /\ tCall[t] \in Calls
    BY <1>6, <1>0 DEF ContinueParked, TaskInv, TasksOK, ToolPcs
  <2>3. QueueTypes'
    BY <1>6, <1>0, <2>2 DEF ContinueParked, TypeOK, QueueTypes
  <2> QED BY <1>6, <1>0, <2>1, <2>3 DEF ContinueParked
<1>7. ASSUME ClearArguments(t) PROVE Types'
  <2>1. TaskInv'
    BY <1>7, <1>0, FinishTypes DEF ClearArguments
  <2>2. ApprovalTypes'
    BY <1>7, <1>0 DEF ClearArguments, TypeOK, ApprovalTypes
  <2> QED BY <1>7, <1>0, <2>1, <2>2 DEF ClearArguments
<1> QED BY <1>2, <1>3, <1>4, <1>5, <1>6, <1>7

(* Decisions, resumes, releases and the lapse of an approval.              *)
LEMMA ApprovalStepTypes ==
    ASSUME Types, NEW c \in Calls
    PROVE  /\ Approve(c) => Types'
           /\ Deny(c) => Types'
           /\ ContinueDeclined(c) => Types'
           /\ RefuseRelease(c) => Types'
           /\ Lapse(c) => Types'
           /\ \A t \in Tasks : ResumeByClient(t, c) => Types'
           /\ \A t \in Tasks : ReleaseApprovedCall(t, c) => Types'
<1> USE TypesParts, Unchanged, UnchangedTasks
<1>0. TypeOK /\ TaskInv
  BY DEF Types, TaskInv
<1>1. ASSUME Approve(c) PROVE Types'
  <2>1. ApprovalTypes' /\ QueueTypes'
    BY <1>1, <1>0 DEF Approve, TypeOK, ApprovalTypes, QueueTypes, ApprovalStates
  <2> QED BY <1>1, <1>0, <2>1 DEF Approve
<1>2. ASSUME Deny(c) PROVE Types'
  <2>1. ApprovalTypes' /\ QueueTypes'
    BY <1>2, <1>0 DEF Deny, TypeOK, ApprovalTypes, QueueTypes, ApprovalStates
  <2> QED BY <1>2, <1>0, <2>1 DEF Deny
<1>3. ASSUME ContinueDeclined(c) PROVE Types'
  <2>1. QueueTypes'
    BY <1>3, <1>0, ModelAssumption DEF ContinueDeclined, TypeOK, QueueTypes
  <2> QED BY <1>3, <1>0, <2>1 DEF ContinueDeclined
<1>4. ASSUME RefuseRelease(c) PROVE Types'
  <2>1. QueueTypes'
    BY <1>4, <1>0 DEF RefuseRelease, TypeOK, QueueTypes
  <2> QED BY <1>4, <1>0, <2>1 DEF RefuseRelease
<1>5. ASSUME Lapse(c) PROVE Types'
  <2>1. ApprovalTypes'
    BY <1>5, <1>0 DEF Lapse, TypeOK, ApprovalTypes
  <2> QED BY <1>5, <1>0, <2>1 DEF Lapse
<1>6. ASSUME NEW t \in Tasks, BeginResume(t, c), QueueTypes' PROVE Types'
  <2>1. TaskTypes'
    BY <1>6, <1>0, ModelAssumption DEF BeginResume, TaskInv, TaskTypes, Pcs, ToolPcs, Kinds
  <2>2. TasksOK'
    BY <1>6, <1>0, ModelAssumption DEF BeginResume, TaskInv, TaskTypes, TasksOK, ToolPcs
  <2> QED BY <1>6, <1>0, <2>1, <2>2 DEF BeginResume, TaskInv
<1>7. ASSUME NEW t \in Tasks, ResumeByClient(t, c) PROVE Types'
  <2>1. QueueTypes'
    BY <1>7, <1>0 DEF ResumeByClient, BeginResume, TypeOK, QueueTypes
  <2> QED BY <1>6, <1>7, <2>1 DEF ResumeByClient
<1>8. ASSUME NEW t \in Tasks, ReleaseApprovedCall(t, c) PROVE Types'
  <2>1. QueueTypes'
    BY <1>8, <1>0 DEF ReleaseApprovedCall, BeginResume, TypeOK, QueueTypes
  <2> QED BY <1>6, <1>8, <2>1 DEF ReleaseApprovedCall
<1> QED BY <1>1, <1>2, <1>3, <1>4, <1>5, <1>7, <1>8

(* Starting and stopping runs.                                             *)
LEMMA RunStepTypes ==
    ASSUME Types, NEW r \in Runs
    PROVE  /\ StartRun(r) => Types'
           /\ Stop(r) => Types'
           /\ SettleParked(r) => Types'
<1> USE TypesParts, Unchanged, UnchangedTasks
<1>0. TypeOK /\ TaskInv
  BY DEF Types, TaskInv
<1>1. ASSUME StartRun(r) PROVE Types'
  <2>1. RunTypes' /\ QueueTypes'
    BY <1>1, <1>0, StateNames DEF StartRun, TypeOK, RunTypes, QueueTypes
  <2> QED BY <1>1, <1>0, <2>1 DEF StartRun
<1>2. ASSUME Stop(r) PROVE Types'
  <2>1. RunTypes'
    BY <1>2, <1>0 DEF Stop, TypeOK, RunTypes
  <2>2. ApprovalTypes'
    BY <1>2, <1>0 DEF Stop, TypeOK, ApprovalTypes, ApprovalStates
  <2>3. LedgerTypes'
    BY <1>2, <1>0 DEF Stop, TypeOK, LedgerTypes
  <2>4. QueueTypes'
    BY <1>2, <1>0 DEF Stop, TypeOK, QueueTypes, Family
  <2> QED BY <1>2, <1>0, <2>1, <2>2, <2>3, <2>4 DEF Stop
<1>3. ASSUME SettleParked(r) PROVE Types'
  <2>1. RunTypes'
    BY <1>3, <1>0, StateNames DEF SettleParked, TypeOK, RunTypes
  <2>2. FreshTypes'
    BY <1>3, <1>0, BumpTypes DEF SettleParked, TypeOK
  <2>3. QueueTypes'
    BY <1>3, <1>0 DEF SettleParked, TypeOK, QueueTypes
  <2> QED BY <1>3, <1>0, <2>1, <2>2, <2>3 DEF SettleParked
<1> QED BY <1>1, <1>2, <1>3

(* The withdrawal sweep, the death of the daemon and its startup.          *)
LEMMA RestartTypes ==
    ASSUME Types
    PROVE  /\ Crash => Types'
           /\ \A c \in Calls : SettleOrphanedCall(c) => Types'
           /\ \A r \in Runs : RecoverInterruptedRun(r) => Types'
           /\ BootNext => Types'
           /\ WithdrawCancelled => Types'
<1> USE TypesParts, Unchanged, UnchangedTasks
<1>0. TypeOK /\ TaskInv
  BY DEF Types, TaskInv
<1>1. ASSUME Crash PROVE Types'
  <2>1. TaskTypes'
    BY <1>1, ModelAssumption, Scripts DEF Crash, TaskTypes, Pcs, Kinds
  <2>2. TasksOK'
    BY <1>1 DEF Crash, TasksOK, ToolPcs
  <2>3. FreshTypes' /\ QueueTypes'
    BY <1>1 DEF Crash, FreshTypes, QueueTypes
  <2>4. BootTypes'
    BY <1>1, <1>0, ModelAssumption DEF Crash, TypeOK, BootTypes, BootStages
  <2> QED BY <1>1, <1>0, <2>1, <2>2, <2>3, <2>4 DEF Crash, TaskInv
<1>2. ASSUME NEW c \in Calls, SettleOrphanedCall(c) PROVE Types'
  <2>1. CallTypes'
    BY <1>2, <1>0 DEF SettleOrphanedCall, OrphanOutcome, TypeOK, CallTypes, ToolOutcomes, ResolvedOutcomes
  <2> QED BY <1>2, <1>0, <2>1 DEF SettleOrphanedCall
<1>3. ASSUME NEW r \in Runs, RecoverInterruptedRun(r) PROVE Types'
  <2>1. RunTypes'
    BY <1>3, <1>0, StateNames DEF RecoverInterruptedRun, TypeOK, RunTypes
  <2> QED BY <1>3, <1>0, <2>1 DEF RecoverInterruptedRun
<1>4. ASSUME BootNext PROVE Types'
  <2>1. ApprovalTypes'
    BY <1>4, <1>0 DEF BootNext, Withdraw, ClearStarted, TypeOK, ApprovalTypes, ApprovalStates
  <2>2. BootTypes'
    BY <1>4, <1>0 DEF BootNext, TypeOK, BootTypes, BootStages
  <2> QED BY <1>4, <1>0, <2>1, <2>2 DEF BootNext
<1>5. ASSUME WithdrawCancelled PROVE Types'
  <2>1. ApprovalTypes'
    BY <1>5, <1>0 DEF WithdrawCancelled, Withdraw, TypeOK, ApprovalTypes, ApprovalStates
  <2>2. QueueTypes'
    BY <1>5, <1>0 DEF WithdrawCancelled, TypeOK, QueueTypes
  <2> QED BY <1>5, <1>0, <2>1, <2>2 DEF WithdrawCancelled
<1> QED BY <1>1, <1>2, <1>3, <1>4, <1>5

LEMMA NextTypes == Types /\ [Next]_vars => Types'
<1> SUFFICES ASSUME Types, [Next]_vars PROVE Types'
  OBVIOUS
<1>1. CASE UNCHANGED vars
  BY <1>1, TypesParts, Unchanged, UnchangedTasks DEF vars, Types
<1>2. ASSUME NEW t \in Tasks, TaskStep(t) PROVE Types'
  BY <1>2, DriveTypes, TurnTypes, HoldTypes, ExecuteTypes, ApprovalStepTypes DEF TaskStep
<1>3. CASE RequestStep
  BY <1>3, ApprovalStepTypes, RunStepTypes, RestartTypes DEF RequestStep
<1>4. CASE BootStep
  BY <1>4, RestartTypes DEF BootStep
<1>5. CASE Environment
  BY <1>5, HoldTypes, ApprovalStepTypes, RunStepTypes, RestartTypes DEF Environment
<1> QED BY <1>1, <1>2, <1>3, <1>4, <1>5 DEF Next

(* Type correctness of every reachable state: whatever the interleaving,   *)
(* restarts included, rows and tasks keep their types, and no driver makes *)
(* more than MaxModelCalls model calls (executor.rs over_model_budget).    *)
THEOREM TypeCorrect == Spec => []TypeOK
<1>1. Spec => []Types
  BY InitTypes, NextTypes, PTL DEF Spec
<1>2. Types => TypeOK
  BY DEF Types
<1> QED BY <1>1, <1>2, PTL
=============================================================================

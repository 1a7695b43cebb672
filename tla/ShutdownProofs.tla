--------------------------- MODULE ShutdownProofs ---------------------------
(***************************************************************************)
(* Proofs about Shutdown for any set of jobs and of stop requests: what a  *)
(* reader of the gate, of the rows and of the registry may conclude.       *)
(***************************************************************************)
EXTENDS Shutdown, TLAPS

JobStep(j) ==
    \/ Admit(j) \/ Answer(j) \/ OwnerCancels(j)
    \/ AgentEnds(j) \/ ProcessEnds(j) \/ WorkerStep(j)

ControlStep ==
    \/ \E s \in Stops : Reserve(s) \/ Abandon(s) \/ RequestStep(s)
    \/ HelperStops
    \/ BeginDrain
    \/ DrainStep
    \/ DrainGivesUp

(* A coding worker that is about to write its result has one.              *)
VerdictGiven ==
    \A j \in Jobs : Kind[j] = "coding" /\ stage[j] = "finishing" => verdict[j] # "none"

Types == TypeOK /\ VerdictGiven

(* The two kinds of steps: those of jobs, and those of requests and of the *)
(* drain.                                                                  *)
LEMMA StepKinds == Next <=> (\E j \in Jobs : JobStep(j)) \/ ControlStep
  BY DEF Next, JobStep, ControlStep

(* What a returning coding worker leaves behind.                           *)
LEMMA ReturnTypes ==
    ASSUME TypeOK, NEW j \in Jobs, NEW from \in Stages, NEW v \in Verdicts, Return(j, from, v)
    PROVE  /\ stage' \in [Jobs -> Stages]
           /\ verdict' \in [Jobs -> Verdicts]
           /\ late' \in [Jobs -> BOOLEAN]
  <1>1. (drain # "off") \in BOOLEAN OBVIOUS
  <1>2. late' \in [Jobs -> BOOLEAN] BY <1>1, Zenon DEF Return, TypeOK
  <1> QED BY <1>2 DEF Return, Move, TypeOK, Stages, Verdicts

(* A step of a job keeps the types and leaves the control state alone.     *)
LEMMA JobTypes ==
    ASSUME Types, NEW j \in Jobs, JobStep(j)
    PROVE  TypeOK' /\ UNCHANGED controlVars
  <1> USE DEF controlVars, readings, Phases, Rows, Stages, Verdicts, DrainStages,
              Move, SetRow, Terminal
  <1>0. TypeOK BY DEF Types
  <1>1. CASE Admit(j) BY <1>0, <1>1 DEF Admit, TypeOK
  <1>2. CASE Answer(j) BY <1>0, <1>2 DEF Answer, TypeOK
  <1>3. CASE OwnerCancels(j) BY <1>0, <1>3 DEF OwnerCancels, TypeOK
  <1>4. CASE ProcessEnds(j) BY <1>0, <1>4 DEF ProcessEnds, TypeOK
  <1>5. CASE Publish(j) BY <1>0, <1>5 DEF Publish, InsertRow, RegisterProcess, TypeOK
  <1>6. CASE ReleasePublisher(j) BY <1>0, <1>6 DEF ReleasePublisher, TypeOK
  <1>7. CASE Poll(j) BY <1>0, <1>7 DEF Poll, TypeOK
  <1>8. CASE AdmitDriver(j) BY <1>0, <1>8 DEF AdmitDriver, TypeOK
  <1>9. CASE FailUnfinished(j) BY <1>0, <1>9 DEF FailUnfinished, TypeOK
  <1>10. CASE DriverAdvances(j) BY <1>0, <1>10 DEF DriverAdvances, TypeOK
  <1>11. CASE DriverParks(j) BY <1>0, <1>11 DEF DriverParks, TypeOK
  <1>12. CASE DriverSettles(j) BY <1>0, <1>12 DEF DriverSettles, TypeOK
  <1>13. CASE ReleaseDriver(j) BY <1>0, <1>13 DEF ReleaseDriver, TypeOK
  <1>14. CASE Dispatch(j) BY <1>0, <1>14, ReturnTypes DEF Dispatch, TypeOK
  <1>15. CASE MarkRunning(j) BY <1>0, <1>15, ReturnTypes DEF MarkRunning, TypeOK
  <1>16. CASE AgentEnds(j)
    <2>1. PICK v \in Verdicts : Return(j, "admitted", v)
      BY <1>0, <1>16 DEF AgentEnds
    <2>2. stage' \in [Jobs -> Stages] /\ verdict' \in [Jobs -> Verdicts] /\ late' \in [Jobs -> BOOLEAN]
      BY <1>0, <2>1, ReturnTypes
    <2>3. UNCHANGED <<row, cancel, turned, cleanupFailed, controlVars>>
      BY <1>0, <1>16 DEF AgentEnds
    <2> QED BY <1>0, <2>2, <2>3 DEF TypeOK
  <1>17. CASE FinishTask(j) BY <1>0, <1>17 DEF FinishTask, FinishedAs, TypeOK, Types, VerdictGiven
  <1>18. CASE ProcessCleaned(j) BY <1>0, <1>18 DEF ProcessCleaned, TypeOK
  <1>19. CASE Unregister(j) BY <1>0, <1>19 DEF Unregister, TypeOK
  <1> QED BY <1>1, <1>2, <1>3, <1>4, <1>5, <1>6, <1>7, <1>8, <1>9, <1>10, <1>11,
             <1>12, <1>13, <1>14, <1>15, <1>16, <1>17, <1>18, <1>19
          DEF JobStep, WorkerStep

(* No step leaves a coding worker at its last write without a result.      *)
LEMMA JobVerdicts ==
    ASSUME Types, NEW j \in Jobs, JobStep(j)
    PROVE  VerdictGiven'
  <1> USE DEF Types, TypeOK, VerdictGiven, Move, SetRow, Return
  <1>1. CASE Admit(j) BY <1>1 DEF Admit
  <1>2. CASE Answer(j) BY <1>2 DEF Answer
  <1>3. CASE OwnerCancels(j) BY <1>3 DEF OwnerCancels
  <1>4. CASE ProcessEnds(j) BY <1>4 DEF ProcessEnds
  <1>5. CASE Publish(j) \/ ReleasePublisher(j) BY <1>5 DEF Publish, InsertRow, RegisterProcess, ReleasePublisher
  <1>6. CASE Poll(j) \/ AdmitDriver(j) \/ FailUnfinished(j) BY <1>6 DEF Poll, AdmitDriver, FailUnfinished
  <1>7. CASE DriverAdvances(j) \/ DriverParks(j) \/ DriverSettles(j) \/ ReleaseDriver(j)
    BY <1>7 DEF DriverAdvances, DriverParks, DriverSettles, ReleaseDriver
  <1>8. CASE Dispatch(j) BY <1>8 DEF Dispatch
  <1>9. CASE MarkRunning(j) BY <1>9 DEF MarkRunning
  <1>10. CASE AgentEnds(j) BY <1>10 DEF AgentEnds
  <1>11. CASE FinishTask(j) BY <1>11 DEF FinishTask
  <1>12. CASE ProcessCleaned(j) BY <1>12 DEF ProcessCleaned
  <1>13. CASE Unregister(j) BY <1>13 DEF Unregister
  <1> QED BY <1>1, <1>2, <1>3, <1>4, <1>5, <1>6, <1>7, <1>8, <1>9, <1>10, <1>11, <1>12, <1>13
          DEF JobStep, WorkerStep

(* A step of a request or of the drain keeps the types.                    *)
LEMMA ControlTypes ==
    ASSUME TypeOK, ControlStep
    PROVE  TypeOK'
  <1> USE DEF jobVars, readings, Phases, Rows, DrainStages
  <1>1. ASSUME NEW s \in Stops, Reserve(s) \/ Abandon(s) \/ RequestStep(s) PROVE TypeOK'
    <2>1. CASE Reserve(s)
      <3>1. phase' \in Phases /\ request' \in [Stops -> {"idle", "check", "decide", "answered", "accepted"}]
        BY <2>1 DEF Reserve, TypeOK
      <3>2. wake' \in BOOLEAN
        BY <2>1, Zenon DEF Reserve, TypeOK
      <3> QED BY <2>1, <3>1, <3>2 DEF Reserve, TypeOK
    <2>2. CASE Abandon(s) BY <2>2 DEF Abandon, Reopen, TypeOK
    <2>3. CASE CheckWork(s) BY <2>3 DEF CheckWork, Reopen, TypeOK
    <2>4. CASE Decide(s)
      <3>1. helper' \in BOOLEAN /\ wake' \in BOOLEAN
        BY <2>4, Zenon DEF Decide, RefuseManaged, CommitStop, CommitRestart, TypeOK
      <3>2. phase' \in Phases /\ request' \in [Stops -> {"idle", "check", "decide", "answered", "accepted"}]
        BY <2>4 DEF Decide, RefuseManaged, CommitStop, CommitRestart, Reopen, TypeOK
      <3> QED BY <2>4, <3>1, <3>2 DEF Decide, RefuseManaged, CommitStop, CommitRestart, TypeOK
    <2> QED BY <1>1, <2>1, <2>2, <2>3, <2>4 DEF RequestStep
  <1>2. CASE HelperStops
    <2>1. helper' \in BOOLEAN BY <1>2, Zenon DEF HelperStops
    <2>2. wake' \in BOOLEAN BY <1>2, Zenon DEF HelperStops, TypeOK
    <2> QED BY <1>2, <2>1, <2>2 DEF HelperStops, TypeOK
  <1>3. CASE BeginDrain BY <1>3 DEF BeginDrain, TypeOK
  <1>4. CASE DrainGivesUp BY <1>4 DEF DrainGivesUp, TypeOK
  <1>5. CASE SignalProcesses BY <1>5 DEF SignalProcesses, Following, TypeOK
  <1>6. CASE RequestCancellation
    <2>1. cancel' \in [Jobs -> BOOLEAN]
      BY <1>6, Zenon DEF RequestCancellation, TypeOK
    <2> QED BY <1>6, <2>1 DEF RequestCancellation, Following, TypeOK
  <1>7. CASE ReadActive
    <2>1. sawActive' \in BOOLEAN BY <1>7, Zenon DEF ReadActive
    <2> QED BY <1>7, <2>1 DEF ReadActive, Following, TypeOK
  <1>8. CASE SettleUnstarted
    <2>1. row' \in [Jobs -> Rows] BY <1>8 DEF SettleUnstarted, TypeOK
    <2> QED BY <1>8, <2>1 DEF SettleUnstarted, Following, TypeOK
  <1>9. CASE ReadDurable
    <2>1. sawWork' \in BOOLEAN BY <1>9, Zenon DEF ReadDurable
    <2> QED BY <1>9, <2>1 DEF ReadDurable, Following, TypeOK
  <1>10. CASE ReadManaged BY <1>10 DEF ReadManaged, TypeOK
  <1>11. CASE Certify BY <1>11 DEF Certify, TypeOK
  <1> QED BY <1>1, <1>2, <1>3, <1>4, <1>5, <1>6, <1>7, <1>8, <1>9, <1>10, <1>11
          DEF ControlStep, DrainStep

(* The types and the verdicts hold initially and are kept by every step.   *)
LEMMA TypesInit ==
    ASSUME Init PROVE Types
  <1>1. row \in [Jobs -> Rows] /\ stage \in [Jobs -> Stages] /\ verdict \in [Jobs -> Verdicts]
    BY DEF Init, Rows, Stages, Verdicts
  <1>2. cancel \in [Jobs -> BOOLEAN] /\ late \in [Jobs -> BOOLEAN]
    BY DEF Init
  <1>3. /\ cleanupFailed \in BOOLEAN /\ helper \in BOOLEAN /\ wake \in BOOLEAN
        /\ sawActive \in BOOLEAN /\ sawWork \in BOOLEAN /\ sawError \in BOOLEAN
    BY Zenon DEF Init
  <1>4. VerdictGiven
    BY DEF Init, VerdictGiven
  <1> QED BY <1>1, <1>2, <1>3, <1>4 DEF Init, Types, TypeOK, Phases, DrainStages

LEMMA TypesStep ==
    ASSUME Types, [Next]_vars PROVE Types'
  <1>1. CASE \E j \in Jobs : JobStep(j)
    BY <1>1, JobTypes, JobVerdicts DEF Types
  <1>2. CASE ControlStep
    <2>1. TypeOK' BY <1>2, ControlTypes DEF Types
    <2>2. UNCHANGED <<stage, verdict>>
      BY <1>2 DEF ControlStep, DrainStep, RequestStep, Reserve, Abandon, CheckWork, Decide,
         RefuseManaged, CommitStop, CommitRestart,
           HelperStops, BeginDrain, DrainGivesUp, SignalProcesses, RequestCancellation,
           ReadActive, SettleUnstarted, ReadDurable, ReadManaged, Certify, jobVars
    <2> QED BY <2>1, <2>2 DEF Types, VerdictGiven
  <1>3. CASE UNCHANGED vars
    BY <1>3 DEF vars, jobVars, readings, TypeOK, Types, VerdictGiven
  <1> QED BY <1>1, <1>2, <1>3, StepKinds

(* Every variable of the gate, of the jobs, of the requests and of the     *)
(* drain keeps its type.                                                   *)
THEOREM ShutdownTypes == Spec => []TypeOK
  <1>1. Types => TypeOK BY DEF Types
  <1> QED BY <1>1, TypesInit, TypesStep, PTL DEF Spec

-----------------------------------------------------------------------------
(* The heart of it.  While the gate is not open, a step of a job adds no   *)
(* permit; and while no permit is held, it adds no unfinished row and no   *)
(* process.                                                                *)
LEMMA JobsOnlyShrink ==
    ASSUME TypeOK, NEW j \in Jobs, JobStep(j), phase # "open"
    PROVE  /\ Holders' \subseteq Holders
           /\ Holders = {} => Unfinished' \subseteq Unfinished /\ Managed' \subseteq Managed
  <1> USE DEF Holders, Unfinished, Managed, Durable, Move, SetRow, Return, Admits, TypeOK
  <1>1. CASE Admit(j) BY <1>1 DEF Admit
  <1>2. CASE Answer(j) BY <1>2 DEF Answer
  <1>3. CASE OwnerCancels(j) BY <1>3 DEF OwnerCancels
  <1>4. CASE ProcessEnds(j) BY <1>4 DEF ProcessEnds
  <1>5. CASE Publish(j) BY <1>5 DEF Publish, InsertRow, RegisterProcess
  <1>6. CASE ReleasePublisher(j) BY <1>6 DEF ReleasePublisher
  <1>7. CASE Poll(j) BY <1>7 DEF Poll
  <1>8. CASE AdmitDriver(j) BY <1>8 DEF AdmitDriver
  <1>9. CASE FailUnfinished(j) BY <1>9 DEF FailUnfinished, Terminal
  <1>10. CASE DriverAdvances(j) BY <1>10 DEF DriverAdvances
  <1>11. CASE DriverParks(j) BY <1>11 DEF DriverParks
  <1>12. CASE DriverSettles(j) BY <1>12 DEF DriverSettles
  <1>13. CASE ReleaseDriver(j) BY <1>13 DEF ReleaseDriver
  <1>14. CASE Dispatch(j) BY <1>14 DEF Dispatch
  <1>15. CASE MarkRunning(j) BY <1>15 DEF MarkRunning
  <1>16. CASE AgentEnds(j) BY <1>16 DEF AgentEnds
  <1>17. CASE FinishTask(j) BY <1>17 DEF FinishTask, FinishedAs, Verdicts
  <1>18. CASE ProcessCleaned(j) BY <1>18 DEF ProcessCleaned
  <1>19. CASE Unregister(j) BY <1>19 DEF Unregister
  <1> QED BY <1>1, <1>2, <1>3, <1>4, <1>5, <1>6, <1>7, <1>8, <1>9, <1>10, <1>11,
             <1>12, <1>13, <1>14, <1>15, <1>16, <1>17, <1>18, <1>19
          DEF JobStep, WorkerStep

(* A step of a job keeps what the drain and the requests rely on.          *)
LEMMA QuiescenceJobs ==
    ASSUME Types, QuiescenceInv, NEW j \in Jobs, JobStep(j)
    PROVE  QuiescenceInv'
  <1>1. UNCHANGED controlVars BY JobTypes
  <1>2. CASE phase = "open"
    <2>1. drain = "off" /\ result # "ok" /\ \A s \in Stops : request[s] \notin {"check", "decide"}
      BY <1>2 DEF QuiescenceInv, DrainInv, RequestInv
    <2> QED BY <1>1, <1>2, <2>1 DEF controlVars, readings, QuiescenceInv, DrainInv, RequestInv
  <1>3. CASE phase # "open"
    <2>1. /\ Holders' \subseteq Holders
          /\ Holders = {} => Unfinished' \subseteq Unfinished /\ Managed' \subseteq Managed
      BY <1>3, JobsOnlyShrink DEF Types
    <2>2. DrainInv'
      BY <1>1, <2>1 DEF controlVars, readings, QuiescenceInv, DrainInv, Idle
    <2>3. RequestInv'
      BY <1>1, <2>1 DEF controlVars, readings, QuiescenceInv, RequestInv
    <2> QED BY <2>2, <2>3 DEF QuiescenceInv
  <1> QED BY <1>2, <1>3

(* So does a step of a request: only one holds the reservation, so giving  *)
(* it up cannot take it from another.                                      *)
LEMMA QuiescenceRequests ==
    ASSUME Types, QuiescenceInv, NEW s \in Stops,
           Reserve(s) \/ Abandon(s) \/ RequestStep(s) \/ HelperStops
    PROVE  QuiescenceInv'
  <1>1. request \in [Stops -> {"idle", "check", "decide", "answered", "accepted"}] /\ phase \in Phases
    BY DEF Types, TypeOK
  <1>2. /\ Holders' = Holders /\ Unfinished' = Unfinished /\ Managed' = Managed
        /\ UNCHANGED <<drain, readings, result>>
    BY DEF Reserve, Abandon, RequestStep, CheckWork, Decide,
       RefuseManaged, CommitStop, CommitRestart, HelperStops, jobVars,
           Holders, Unfinished, Managed, Durable
  <1>3. drain # "off" => phase' = "closed"
    BY DEF Reserve, Abandon, RequestStep, CheckWork, Decide,
       RefuseManaged, CommitStop, CommitRestart, HelperStops, Reopen, MayReserve,
           QuiescenceInv, DrainInv
  <1>4. DrainInv'
    BY <1>2, <1>3 DEF readings, QuiescenceInv, DrainInv, Idle
  <1>5. RequestInv'
    <2> USE <1>1, <1>2 DEF QuiescenceInv, RequestInv
    <2>1. CASE Reserve(s) BY <2>1 DEF Reserve, MayReserve
    <2>2. CASE Abandon(s) BY <2>2 DEF Abandon, Reopen, Phases
    <2>3. CASE CheckWork(s) BY <2>3 DEF CheckWork, Reopen, Phases
    <2>4. CASE Decide(s) BY <2>4 DEF Decide,
       RefuseManaged, CommitStop, CommitRestart, Reopen, Phases
    <2>5. CASE HelperStops BY <2>5 DEF HelperStops
    <2> QED BY <2>1, <2>2, <2>3, <2>4, <2>5 DEF RequestStep
  <1> QED BY <1>4, <1>5 DEF QuiescenceInv

(* And a step of the drain.                                                *)
LEMMA QuiescenceDrain ==
    ASSUME Types, QuiescenceInv, BeginDrain \/ DrainStep \/ DrainGivesUp
    PROVE  QuiescenceInv'
  <1>1. Holders' = Holders /\ Unfinished' \subseteq Unfinished /\ Managed' = Managed
    <2>1. CASE SettleUnstarted
      BY <2>1 DEF SettleUnstarted, Unstarted, Holders, Unfinished, Managed, Durable, Types, TypeOK
    <2>2. CASE ~SettleUnstarted
      BY <2>2 DEF BeginDrain, DrainStep, DrainGivesUp, SignalProcesses, RequestCancellation,
           ReadActive, ReadDurable, ReadManaged, Certify, jobVars,
           Holders, Unfinished, Managed, Durable
    <2> QED BY <2>1, <2>2
  <1>2. RequestInv'
    <2>1. UNCHANGED request /\ (phase' = phase \/ phase' = "closed")
      BY DEF BeginDrain, DrainStep, DrainGivesUp, SignalProcesses, RequestCancellation,
           ReadActive, SettleUnstarted, ReadDurable, ReadManaged, Certify
    <2> QED BY <1>1, <2>1 DEF QuiescenceInv, RequestInv
  <1>3. DrainInv'
    <2> USE <1>1 DEF QuiescenceInv, DrainInv, Following, Idle
    <2>1. CASE BeginDrain BY <2>1 DEF BeginDrain, readings
    <2>2. CASE SignalProcesses BY <2>2 DEF SignalProcesses
    <2>3. CASE RequestCancellation BY <2>3 DEF RequestCancellation
    <2>4. CASE ReadActive BY <2>4 DEF ReadActive
    <2>5. CASE SettleUnstarted BY <2>5 DEF SettleUnstarted, readings
    <2>6. CASE ReadDurable BY <2>6 DEF ReadDurable
    <2>7. CASE ReadManaged BY <2>7 DEF ReadManaged, readings
    <2>8. CASE Certify BY <2>8 DEF Certify, readings
    <2>9. CASE DrainGivesUp BY <2>9 DEF DrainGivesUp, readings
    <2> QED BY <2>1, <2>2, <2>3, <2>4, <2>5, <2>6, <2>7, <2>8, <2>9 DEF DrainStep
  <1> QED BY <1>2, <1>3 DEF QuiescenceInv

LEMMA QuiescenceInit ==
    ASSUME Init PROVE QuiescenceInv
  BY DEF Init, QuiescenceInv, DrainInv, RequestInv

LEMMA QuiescenceStep ==
    ASSUME Types, QuiescenceInv, [Next]_vars PROVE QuiescenceInv'
  <1>1. CASE \E j \in Jobs : JobStep(j) BY <1>1, QuiescenceJobs
  <1>2. CASE \E s \in Stops : Reserve(s) \/ Abandon(s) \/ RequestStep(s)
    BY <1>2, QuiescenceRequests
  <1>3. CASE HelperStops
    BY <1>3 DEF HelperStops, QuiescenceInv, DrainInv, RequestInv, Idle, Holders, Unfinished,
         Managed, Durable, jobVars, readings
  <1>4. CASE BeginDrain \/ DrainStep \/ DrainGivesUp BY <1>4, QuiescenceDrain
  <1>5. CASE UNCHANGED vars
    BY <1>5 DEF vars, jobVars, readings, QuiescenceInv, DrainInv, RequestInv, Idle, Holders,
         Unfinished, Managed, Durable
  <1> QED BY <1>1, <1>2, <1>3, <1>4, <1>5, StepKinds DEF ControlStep

(* What the drain and an unforced request have concluded from their        *)
(* readings stays true, for any number of jobs and requests                *)
(* (work_admission.rs, drain_work, prepare_shutdown).                      *)
THEOREM ReadingsStayTrue == Spec => []QuiescenceInv
  BY TypesInit, TypesStep, QuiescenceInit, QuiescenceStep, PTL DEF Spec

(* A drain that reports success left nothing unfinished, and nothing       *)
(* starts after it (drain_work).                                           *)
THEOREM DrainSound == Spec => []DrainCertifiesQuiescence
  <1>1. QuiescenceInv => DrainCertifiesQuiescence
    BY DEF QuiescenceInv, DrainInv, DrainCertifiesQuiescence
  <1> QED BY <1>1, ReadingsStayTrue, PTL

(* A reservation is never lost to another request's refusal and never left *)
(* behind by one (ShutdownPermit).                                         *)
THEOREM ReservationSound == Spec => []ReservationStands
  <1>1. QuiescenceInv => ReservationStands
    BY DEF QuiescenceInv, RequestInv, ReservationStands
  <1> QED BY <1>1, ReadingsStayTrue, PTL

(* A stop or restart that was not forced is accepted only while nothing is *)
(* under way (stop.rs).                                                    *)
THEOREM AcceptanceSound == Spec => AcceptedInterruptsNothing
  <1> DEFINE Accepts == \A s \in Stops \ Forced :
                 request[s] # "accepted" /\ request'[s] = "accepted" => Idle
  <1>1. ASSUME Types, QuiescenceInv, [Next]_vars PROVE [Accepts]_vars
    <2>1. SUFFICES ASSUME NEW s \in Stops \ Forced, request[s] # "accepted",
                          request'[s] = "accepted"
                   PROVE  Idle
      OBVIOUS
    <2>2. request \in [Stops -> {"idle", "check", "decide", "answered", "accepted"}]
      BY <1>1 DEF Types, TypeOK
    <2>3. Decide(s)
      <3>1. CASE \E j \in Jobs : JobStep(j)
        BY <1>1, <2>1, <3>1, JobTypes DEF controlVars
      <3>2. ASSUME NEW q \in Stops, Reserve(q) \/ Abandon(q) \/ CheckWork(q) PROVE FALSE
        BY <2>1, <2>2, <3>2 DEF Reserve, Abandon, CheckWork
      <3>3. ASSUME NEW q \in Stops, Decide(q) PROVE q = s
        BY <2>1, <2>2, <3>3 DEF Decide, RefuseManaged, CommitStop, CommitRestart
      <3>4. CASE HelperStops \/ BeginDrain \/ DrainStep \/ DrainGivesUp
        BY <2>1, <3>4 DEF HelperStops, BeginDrain, DrainStep, DrainGivesUp,
             SignalProcesses, RequestCancellation, ReadActive, SettleUnstarted, ReadDurable,
             ReadManaged, Certify
      <3>5. CASE UNCHANGED vars BY <2>1, <3>5 DEF vars
      <3> QED BY <1>1, <3>1, <3>2, <3>3, <3>4, <3>5, StepKinds DEF ControlStep, RequestStep
    <2>4. Managed = {}
      BY <2>1, <2>2, <2>3 DEF Decide, RefuseManaged, CommitStop, CommitRestart
    <2>5. Holders = {} /\ Unfinished = {}
      BY <1>1, <2>1, <2>3 DEF Decide,
         RefuseManaged, CommitStop, CommitRestart, QuiescenceInv, RequestInv
    <2> QED BY <2>4, <2>5 DEF Idle
  <1> QED BY <1>1, TypesInit, TypesStep, QuiescenceInit, QuiescenceStep, PTL
          DEF Spec, AcceptedInterruptsNothing
-----------------------------------------------------------------------------
(* A failed cleanup.  The worker that met it still holds its row open when *)
(* it returns, and the process that met it is still registered, so a drain *)
(* that found rows finished and the registry empty comes after the report. *)
ReportedLater ==
    \A j \in Jobs :
        /\ verdict[j] = "error" =>
              /\ Kind[j] = "coding"
              /\ \/ stage[j] = "finishing" /\ row[j] = "working"
                 \/ stage[j] = "ended" /\ row[j] = "failed"
        /\ Kind[j] = "process" /\ stage[j] \in {"inserted", "supervised", "cleaning", "finishing"} =>
              row[j] = "working"

(* What the coordinator knows once it may certify.                         *)
NothingHidden ==
    /\ drain = "certify" \/ result = "ok" => ~cleanupFailed
    /\ result = "ok" => \A j \in Jobs : ~(verdict[j] = "error" /\ cancel[j] /\ late[j])

CleanupInv == ReportedLater /\ NothingHidden

LEMMA ReportedJobs ==
    ASSUME Types, ReportedLater, NEW j \in Jobs, JobStep(j)
    PROVE  ReportedLater'
  <1> USE DEF Types, TypeOK, ReportedLater, Move, SetRow, Return
  <1>1. CASE Admit(j) BY <1>1 DEF Admit
  <1>2. CASE Answer(j) BY <1>2 DEF Answer
  <1>3. CASE OwnerCancels(j) BY <1>3 DEF OwnerCancels
  <1>4. CASE ProcessEnds(j) BY <1>4 DEF ProcessEnds
  <1>5. CASE Publish(j) BY <1>5 DEF Publish, InsertRow, RegisterProcess, Durable
  <1>6. CASE ReleasePublisher(j) BY <1>6 DEF ReleasePublisher
  <1>7. CASE Poll(j) \/ AdmitDriver(j) \/ FailUnfinished(j)
    BY <1>7 DEF Poll, AdmitDriver, FailUnfinished, Driver
  <1>8. CASE DriverAdvances(j) \/ DriverParks(j) BY <1>8 DEF DriverAdvances, DriverParks, Driver
  <1>9. CASE DriverSettles(j) \/ ReleaseDriver(j) BY <1>9 DEF DriverSettles, ReleaseDriver, Driver
  <1>10. CASE Dispatch(j) BY <1>10 DEF Dispatch
  <1>11. CASE MarkRunning(j) BY <1>11 DEF MarkRunning
  <1>12. CASE AgentEnds(j) BY <1>12 DEF AgentEnds
  <1>13. CASE FinishTask(j) BY <1>13 DEF FinishTask, FinishedAs
  <1>14. CASE ProcessCleaned(j) BY <1>14 DEF ProcessCleaned
  <1>15. CASE Unregister(j) BY <1>15 DEF Unregister
  <1> QED BY <1>1, <1>2, <1>3, <1>4, <1>5, <1>6, <1>7, <1>8, <1>9, <1>10, <1>11, <1>12,
             <1>13, <1>14, <1>15
          DEF JobStep, WorkerStep

(* Once nothing is unfinished and nothing registered, no job meets a       *)
(* failed cleanup, and none is cancelled.                                  *)
LEMMA QuietJobs ==
    ASSUME Types, ReportedLater, NEW j \in Jobs, JobStep(j), Managed = {}
    PROVE  /\ cleanupFailed' = cleanupFailed
           /\ Unfinished = {} =>
                 \A i \in Jobs : verdict'[i] = "error" /\ cancel'[i] /\ late'[i] =>
                                    verdict[i] = "error" /\ cancel[i] /\ late[i]
  <1> USE DEF Types, TypeOK, Move, SetRow, Return
  <1>1. CASE ProcessCleaned(j)
    BY <1>1 DEF ProcessCleaned, ReportedLater, Managed, Durable
  <1>2. CASE AgentEnds(j) BY <1>2 DEF AgentEnds, Unfinished, Durable
  <1>3. CASE Dispatch(j) BY <1>3 DEF Dispatch
  <1>4. CASE MarkRunning(j) BY <1>4 DEF MarkRunning
  <1>5. CASE OwnerCancels(j) BY <1>5 DEF OwnerCancels
  <1>6. CASE UNCHANGED <<verdict, late, cancel, cleanupFailed>> BY <1>6
  <1>7. ProcessCleaned(j) \/ AgentEnds(j) \/ Dispatch(j) \/ MarkRunning(j) \/ OwnerCancels(j)
          \/ UNCHANGED <<verdict, late, cancel, cleanupFailed>>
    BY DEF JobStep, WorkerStep, Admit, Answer, ProcessEnds, Publish, ReleasePublisher, Poll,
           AdmitDriver, FailUnfinished, DriverAdvances, DriverParks, DriverSettles,
           ReleaseDriver, FinishTask, Unregister
  <1> QED BY <1>1, <1>2, <1>3, <1>4, <1>5, <1>6, <1>7

LEMMA CleanupJobs ==
    ASSUME Types, QuiescenceInv, CleanupInv, NEW j \in Jobs, JobStep(j)
    PROVE  CleanupInv'
  <1>1. UNCHANGED <<drain, result>> BY JobTypes DEF controlVars
  <1>2. ReportedLater' BY ReportedJobs DEF CleanupInv
  <1>3. drain = "certify" \/ result = "ok" => Managed = {} /\ Unfinished = {}
    BY DEF QuiescenceInv, DrainInv, Idle
  <1>4. NothingHidden' BY <1>1, <1>3, QuietJobs DEF CleanupInv, NothingHidden
  <1> QED BY <1>2, <1>4 DEF CleanupInv

LEMMA CleanupControl ==
    ASSUME Types, QuiescenceInv, CleanupInv, ControlStep
    PROVE  CleanupInv'
  <1>1. CASE SettleUnstarted
    <2>1. ReportedLater' BY <1>1 DEF SettleUnstarted, Unstarted, CleanupInv, ReportedLater, Types, TypeOK
    <2>2. NothingHidden' BY <1>1 DEF SettleUnstarted, Following, CleanupInv, NothingHidden
    <2> QED BY <2>1, <2>2 DEF CleanupInv
  <1>2. CASE RequestCancellation
    <2>1. result # "ok" BY <1>2 DEF RequestCancellation, QuiescenceInv, DrainInv
    <2> QED BY <1>2, <2>1 DEF RequestCancellation, Following, CleanupInv, ReportedLater, NothingHidden
  <1>3. CASE Certify
    <2>1. Unfinished = {} BY <1>3 DEF Certify, QuiescenceInv, DrainInv
    <2>2. UNCHANGED <<row, cancel, stage, verdict, late, cleanupFailed>> /\ ~cleanupFailed
      BY <1>3 DEF Certify, jobVars, CleanupInv, NothingHidden
    <2>3. ASSUME result' = "ok", NEW j \in Jobs, verdict[j] = "error", cancel[j], late[j]
          PROVE  FALSE
      <3>1. Kind[j] = "coding" /\ row[j] \in {"working", "failed"}
        BY <2>3 DEF CleanupInv, ReportedLater
      <3>2. row[j] # "working" BY <2>1, <3>1 DEF Unfinished, Durable
      <3>3. CodingFailures = {} BY <1>3, <2>3 DEF Certify
      <3> QED BY <2>3, <3>1, <3>2, <3>3 DEF CodingFailures
    <2> QED BY <2>2, <2>3, <1>3 DEF Certify, CleanupInv, ReportedLater, NothingHidden
  <1>4. CASE ReadManaged
    BY <1>4 DEF ReadManaged, jobVars, CleanupInv, ReportedLater, NothingHidden, QuiescenceInv, DrainInv
  <1>5. CASE UNCHANGED <<jobVars, result>> /\ drain' # "certify"
    BY <1>5 DEF jobVars, CleanupInv, ReportedLater, NothingHidden
  <1>6. CASE UNCHANGED <<jobVars, result, drain>>
    BY <1>6 DEF jobVars, CleanupInv, ReportedLater, NothingHidden
  <1>7. CASE DrainGivesUp
    BY <1>7 DEF DrainGivesUp, jobVars, CleanupInv, ReportedLater, NothingHidden
  <1>8. CASE \E s \in Stops : Reserve(s) \/ Abandon(s) \/ RequestStep(s)
    BY <1>6, <1>8 DEF Reserve, Abandon, RequestStep, CheckWork, Decide
  <1>9. CASE BeginDrain \/ SignalProcesses \/ ReadActive \/ ReadDurable
    BY <1>5, <1>9 DEF BeginDrain, SignalProcesses, ReadActive, ReadDurable, Following
  <1> QED BY <1>1, <1>2, <1>3, <1>4, <1>6, <1>7, <1>8, <1>9
          DEF ControlStep, DrainStep, HelperStops

(* A drain that reports success hides no failed cleanup: no process's, and *)
(* no cancelled coding task's that ended while it drained, for any number  *)
(* of jobs and requests (supervise, finish_delegated_task,                 *)
(* shutdown_coding_failures).                                              *)
THEOREM CleanupReported == Spec => []CleanupFailureReported
  <1>1. Init => CleanupInv
    BY DEF Init, CleanupInv, ReportedLater, NothingHidden
  <1>2. ASSUME Types, QuiescenceInv, CleanupInv, [Next]_vars PROVE CleanupInv'
    <2>1. CASE UNCHANGED vars
      BY <1>2, <2>1 DEF vars, jobVars, CleanupInv, ReportedLater, NothingHidden
    <2> QED BY <1>2, <2>1, StepKinds, CleanupJobs, CleanupControl
  <1>3. CleanupInv => CleanupFailureReported
    BY DEF CleanupInv, NothingHidden, CleanupFailureReported
  <1> QED BY <1>1, <1>2, <1>3, TypesInit, TypesStep, QuiescenceInit, QuiescenceStep, PTL DEF Spec
=============================================================================

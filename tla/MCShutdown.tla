---------------------------- MODULE MCShutdown ----------------------------
(* Instances of Shutdown for TLC.  A behaviour explores one scene: two     *)
(* jobs beside a stop and a restart request, neither forced, for what a    *)
(* request has to notice; or a run nobody drives, a coding job and a       *)
(* process beside a forced stop, for what a drain has to wait for.         *)
EXTENDS Shutdown, TLC

CONSTANTS run, bare, waits, code, proc, stop, force, restart

AllJobs  == {run, bare, waits, code, proc}
AllKinds == (run :> "run") @@ (bare :> "undriven") @@ (waits :> "continuation")
              @@ (code :> "coding") @@ (proc :> "process")

VARIABLE cast  \* who takes part in this behaviour

RequestScenes == {pair \cup {stop, restart} : pair \in {{run, waits}, {run, proc}, {waits, proc}}}
DrainScene    == {bare, code, proc, force}

SceneInit == Init /\ cast \in RequestScenes \cup {DrainScene}

(* Everybody else stays idle; and the drain is explored without its grace  *)
(* period, whose end would end it anywhere.                                *)
InScene ==
    /\ \A j \in Jobs \ cast : stage'[j] = "idle"
    /\ \A s \in Stops \ cast : request'[s] = "idle"
    /\ cast = DrainScene => result' # "deadline"
    /\ UNCHANGED cast

SceneNext == Next /\ InScene

(* What makes a drain end: in its own scene the fairness of Shutdown, and  *)
(* beside the requests the grace period.                                   *)
Drained == cast = DrainScene

SceneFairness ==
    /\ \A j \in Jobs \cap DrainScene :
          /\ WF_vars(Drained /\ WorkerStep(j))
          /\ WF_vars(Drained /\ SignalledProcessEnds(j))
          /\ WF_vars(Drained /\ CancelledAgentEnds(j))
    /\ \A s \in Stops \cap DrainScene : WF_vars(Drained /\ RequestStep(s))
    /\ WF_vars(Drained /\ wake /\ BeginDrain)
    /\ WF_vars(Drained /\ DrainStep)
    /\ WF_vars(~Drained /\ DrainGivesUp /\ result' = "deadline")

SceneSpec == SceneInit /\ [][SceneNext]_<<vars, cast>> /\ SceneFairness

(* The smallest scene: one run and one stop.                               *)
SmallSpec == Init /\ cast = {run, stop} /\ [][SceneNext]_<<vars, cast>>
=============================================================================

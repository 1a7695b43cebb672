---------------------------- MODULE Announcements ----------------------------
(***************************************************************************)
(* What the owner is told while away: the ResultWatcher of                 *)
(* schedule_service.rs, which looks at the tasks' rows, the recent runs    *)
(* and the pending approvals before every scheduler pass, announces what   *)
(* finished or waits, and holds announcements during quiet hours.          *)
(*                                                                         *)
(* The watcher lives in memory.  What it must not do is announce a thing   *)
(* twice, across restarts and quiet hours, or forget one it has noticed.   *)
(***************************************************************************)
EXTENDS Naturals, FiniteSets

CONSTANTS WatchedTasks,  \* scheduled tasks
          WatchedRuns,   \* bound: the runs that may be started, 1 .. n in id order
          RecentLimit,   \* the recent runs one look reads
          MaxReboots,    \* bound: deaths of the daemon
          MaxBlindLooks  \* bound: looks some of whose reads fail

ASSUME AnnouncementAssumption ==
    /\ IsFiniteSet(WatchedRuns) /\ WatchedRuns = 1 .. Cardinality(WatchedRuns)
    /\ {"none", "trigger"} \intersect WatchedTasks = {}
    /\ RecentLimit \in Nat \ {0}
    /\ MaxReboots \in Nat
    /\ MaxBlindLooks \in Nat

VARIABLES
    serving,   \* the daemon is running
    reboots,   \* how often it died
    lastRun,   \* the last_run_id of each task; Removed when the task is deleted
    made,      \* the runs: who started each, and its state
    watch,     \* the ResultWatcher
    window,    \* the owner's quiet hours: one window is explored
    blind,     \* looks some of whose reads failed
    told,      \* how often each run's result was announced
    asked      \* how often each run's approval was announced

announceVars == <<serving, reboots, lastRun, made, watch, window, blind, told, asked>>

NoneYet == 0
Removed == Cardinality(WatchedRuns) + 1
GoingOn == {"working", "parked"}

(* ResultWatcher::default: nothing seen, and a first look still to come for *)
(* the tasks (first) and for the triggered runs (firstRecent).             *)
FreshWatcher ==
    [first |-> TRUE, firstRecent |-> TRUE, seen |-> [t \in WatchedTasks |-> NoneYet],
     triggered |-> {}, pending |-> {}, approvals |-> {}]

AnnounceTypeOK ==
    /\ serving \in BOOLEAN /\ reboots \in 0 .. MaxReboots
    /\ lastRun \in [WatchedTasks -> 0 .. Removed]
    /\ made \in [WatchedRuns -> [by : WatchedTasks \union {"none", "trigger"},
                                 state : GoingOn \union {"none", "settled"}]]
    /\ watch \in [first : BOOLEAN, firstRecent : BOOLEAN,
                  seen : [WatchedTasks -> {NoneYet} \union WatchedRuns],
                  triggered : SUBSET WatchedRuns, pending : SUBSET WatchedRuns,
                  approvals : SUBSET WatchedRuns]
    /\ window \in {"before", "on", "after"} /\ blind \in 0 .. MaxBlindLooks
    /\ told \in [WatchedRuns -> Nat] /\ asked \in [WatchedRuns -> Nat]

AnnounceInit ==
    /\ serving = TRUE /\ reboots = 0
    /\ lastRun = [t \in WatchedTasks |-> NoneYet]
    /\ made = [r \in WatchedRuns |-> [by |-> "none", state |-> "none"]]
    /\ watch = FreshWatcher
    /\ window = "before" /\ blind = 0
    /\ told = [r \in WatchedRuns |-> 0] /\ asked = [r \in WatchedRuns |-> 0]

Made == {r \in WatchedRuns : made[r].state # "none"}
Over(r) == made[r].state = "settled"

-----------------------------------------------------------------------------
(* The runs.                                                               *)

(* Tasks whose row names a run the watcher has not seen there.             *)
ChangedTasks ==
    {t \in WatchedTasks : lastRun[t] \in WatchedRuns /\ watch.seen[t] # lastRun[t]}

(* A scheduled run and its record against the task's row, or a run of a    *)
(* trigger.  A look comes before every pass, and a pass fires a task once. *)
RunStarts(by) ==
    /\ serving /\ Made # WatchedRuns
    /\ by \in WatchedTasks => lastRun[by] # Removed /\ ~watch.first /\ by \notin ChangedTasks
    /\ LET r == Cardinality(Made) + 1
       IN  /\ made' = [made EXCEPT ![r] = [by |-> by, state |-> "working"]]
           /\ lastRun' = IF by \in WatchedTasks THEN [lastRun EXCEPT ![by] = r] ELSE lastRun
    /\ UNCHANGED <<serving, reboots, watch, window, blind, told, asked>>

(* A run parks on at most one approval, and settles; what an answered run  *)
(* still does before it settles is not told apart.                         *)
RunTurns(r, to) ==
    /\ serving /\ made[r].state \in GoingOn
    /\ to = "parked" => made[r].state = "working"
    /\ made' = [made EXCEPT ![r].state = to]
    /\ UNCHANGED <<serving, reboots, lastRun, watch, window, blind, told, asked>>

RemoveTask(t) ==
    /\ serving /\ lastRun[t] # Removed
    /\ lastRun' = [lastRun EXCEPT ![t] = Removed]
    /\ UNCHANGED <<serving, reboots, made, watch, window, blind, told, asked>>

-----------------------------------------------------------------------------
(* The watcher.                                                            *)

NoticedRuns_FirstToo == {lastRun[t] : t \in ChangedTasks}

NoticedRuns == IF watch.first THEN {} ELSE {lastRun[t] : t \in ChangedTasks}

(* read_recent_runs: the newest runs, whoever started them.                *)
Recent == {r \in Made : Cardinality({s \in Made : s > r}) < RecentLimit}
RecentTriggered == {r \in Recent : made[r].by = "trigger"}

(* note_triggered remembers only what is still in the recent list.         *)
NewlyTriggered ==
    IF watch.firstRecent THEN {} ELSE RecentTriggered \ watch.triggered

Quiet_PastItsEnd == window # "before"

Quiet == window = "on"

(* A finished run stays pending while it is quiet.                         *)
Finished(pending) == {r \in pending : Over(r) /\ ~Quiet}

Waiting == {r \in Made : made[r].state = "parked"}

(* announce_approvals: while it is quiet, nothing new is recorded as       *)
(* announced, except by the first look.                                    *)
HeldBack == Quiet /\ ~watch.first
Asking_OneAtATime ==
    IF HeldBack \/ watch.first \/ watch.approvals \intersect Waiting # {}
      THEN {} ELSE Waiting \ watch.approvals

Asking   == IF HeldBack \/ watch.first THEN {} ELSE Waiting \ watch.approvals

(* pass_with: one look.  A look some of whose reads fail leaves the        *)
(* triggered runs and the approvals to a later one, and drops the pending  *)
(* runs it cannot read.                                                    *)
Look ==
    /\ serving
    /\ \E recent, waiting \in BOOLEAN, unread \in SUBSET WatchedRuns :
          LET clear   == recent /\ waiting /\ unread = {}
              pending == (watch.pending \union NoticedRuns
                             \union (IF recent THEN NewlyTriggered ELSE {})) \ unread
          IN  /\ ~clear => blind < MaxBlindLooks
              /\ blind' = IF clear THEN blind ELSE blind + 1
              /\ watch' = [first |-> FALSE,
                           firstRecent |-> watch.firstRecent /\ ~recent,
                           seen |-> [t \in WatchedTasks |->
                               IF t \in ChangedTasks THEN lastRun[t] ELSE watch.seen[t]],
                           triggered |-> IF recent THEN RecentTriggered ELSE watch.triggered,
                           pending |-> pending \ Finished(pending),
                           approvals |-> IF ~waiting THEN watch.approvals
                                         ELSE IF HeldBack THEN watch.approvals \intersect Waiting
                                         ELSE Waiting]
              /\ told' = [r \in WatchedRuns |->
                             told[r] + IF r \in Finished(pending) THEN 1 ELSE 0]
              /\ asked' = [r \in WatchedRuns |->
                             asked[r] + IF waiting /\ r \in Asking THEN 1 ELSE 0]
    /\ UNCHANGED <<serving, reboots, lastRun, made, window>>

-----------------------------------------------------------------------------
(* Quiet hours, and the daemon.                                            *)

QuietBegins ==
    /\ window = "before" /\ window' = "on"
    /\ UNCHANGED <<serving, reboots, lastRun, made, watch, blind, told, asked>>

QuietEnds ==
    /\ window = "on" /\ window' = "after"
    /\ UNCHANGED <<serving, reboots, lastRun, made, watch, blind, told, asked>>

(* Death forgets the watcher; recovery settles the runs that were going on *)
(* and not parked before the next look.                                    *)
Reboot ==
    /\ serving /\ reboots < MaxReboots
    /\ serving' = FALSE /\ reboots' = reboots + 1
    /\ watch' = FreshWatcher
    /\ UNCHANGED <<lastRun, made, window, blind, told, asked>>

Served ==
    /\ ~serving /\ serving' = TRUE
    /\ made' = [r \in WatchedRuns |->
          IF made[r].state = "working"
            THEN [made[r] EXCEPT !.state = "settled"] ELSE made[r]]
    /\ UNCHANGED <<reboots, lastRun, watch, window, blind, told, asked>>

AnnounceNext ==
    \/ \E by \in WatchedTasks \union {"trigger"} : RunStarts(by)
    \/ \E r \in WatchedRuns, to \in {"parked", "settled"} : RunTurns(r, to)
    \/ \E t \in WatchedTasks : RemoveTask(t)
    \/ Look
    \/ QuietBegins
    \/ QuietEnds
    \/ Reboot
    \/ Served

(* The scheduler's loop never stops, and quiet hours end; no run has to    *)
(* settle.                                                                 *)
AnnounceFairness == WF_announceVars(Look) /\ WF_announceVars(QuietEnds)

AnnounceSpec == AnnounceInit /\ [][AnnounceNext]_announceVars /\ AnnounceFairness

-----------------------------------------------------------------------------
(* Properties.                                                             *)

(* Nothing is announced twice: not by a watcher that starts afresh after a *)
(* restart, not when quiet hours end, and not by the first look that can   *)
(* read the recent runs.  Only an approval the first look could not read   *)
(* is announced again.                                                     *)
ToldOnce == \A r \in WatchedRuns : told[r] <= 1 /\ asked[r] <= 1 + blind

(* A run the watcher knows of, or will with its next look.                 *)
Expected(r) ==
    r \in watch.pending \/ (serving /\ r \in NoticedRuns)

(* The result of a run the watcher knows of is announced once the run      *)
(* settled, after quiet hours if need be: only a death of the daemon, a    *)
(* failed read of the run, or the deletion of the task before the next     *)
(* look loses it.                                                          *)
ResultAnnounced ==
    \A r \in WatchedRuns :
        (reboots = MaxReboots /\ blind = MaxBlindLooks /\ Expected(r) /\ Over(r))
            ~> (told[r] = 1 \/ \E t \in WatchedTasks : made[r].by = t /\ lastRun[t] = Removed)

(* An approval that appeared while the watcher was looking and is still    *)
(* waiting is announced, after quiet hours if need be: a parked run waits  *)
(* for the owner and nobody else.                                          *)
ApprovalAnnounced ==
    \A r \in WatchedRuns :
        (/\ reboots = MaxReboots /\ serving /\ ~watch.first
         /\ r \in Waiting /\ r \notin watch.approvals) ~> (asked[r] = 1 \/ r \notin Waiting)
=============================================================================

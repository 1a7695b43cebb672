---------------------------- MODULE MCFollowing ----------------------------
(* What goes on beside a run, in one instance for TLC: the log its drivers *)
(* write, a console that follows it, the announcements while the owner is  *)
(* away, and the coding jobs its calls launched.  Each behaviour explores  *)
(* one of them.  The console reads the log and nothing else of the run, so *)
(* it is explored beside one driver and a shorter log, and the drivers     *)
(* among themselves without a console.                                     *)
EXTENDS RunStream, Announcements, CodingJobs

CONSTANTS Followed,  \* bound: the longest log a console follows here
          Absent     \* the held position of a client that never connects

ASSUME FollowedAssumption == Followed \in 2 .. MaxEvents

VARIABLE focus  \* the service this behaviour explores

allVars == <<focus, streamVars, announceVars, codingVars>>

(* Which run makes the one call is a matter of names.                      *)
ThisRun  == CHOOSE p \in CodingRoots : TRUE
ThisCall == CHOOSE c \in CodingCalls : TRUE

Init ==
    /\ focus \in {"log", "stream", "announcements", "coding"}
    /\ StreamInit /\ AnnounceInit /\ CodingInit
    /\ client.held = Absent <=> focus # "stream"
    /\ focus # "coding" => caller \in [CodingCalls -> {ThisRun}]
    /\ caller[ThisCall] = ThisRun

(* The log's writers with no console; and a console beside one driver, whom *)
(* storage does not fail.  An answer fragment is to a console an event like *)
(* any other, so it is left to the other behaviours.                       *)
LogOnly      == focus = "log" /\ UNCHANGED <<focus, clientVars, announceVars, codingVars>>
OneDriver    == \A d, e \in Drivers : d # e => "off" \in {drivers'[d].at, drivers'[e].at}
ShortLog     == /\ failures' = 0 /\ ~AppendOutput
                /\ Len(log') = Followed => row' = "settled"
StreamOnly   == focus = "stream" /\ UNCHANGED <<focus, announceVars, codingVars>>
AnnounceOnly == focus = "announcements" /\ UNCHANGED <<focus, streamVars, codingVars>>
CodingOnly   == focus = "coding" /\ UNCHANGED <<focus, streamVars, announceVars>>

Next ==
    \/ LogOnly /\ LogNext
    \/ StreamOnly /\ StreamNext /\ OneDriver /\ ShortLog
    \/ AnnounceOnly /\ AnnounceNext
    \/ CodingOnly /\ CodingNext

(* The fairness of each service, for the behaviours that explore it.       *)
Fairness ==
    /\ WF_allVars(StreamOnly /\ StreamStep)
    /\ WF_allVars(StreamOnly /\ Connect)
    /\ WF_allVars(StreamOnly /\ Recover)
    /\ WF_allVars(AnnounceOnly /\ Look)
    /\ WF_allVars(AnnounceOnly /\ QuietEnds)
    /\ \A c \in CodingCalls : /\ WF_allVars(CodingOnly /\ WorkerStep(c))
                              /\ WF_allVars(CodingOnly /\ Poll(c))

Spec == Init /\ [][Next]_allVars /\ Fairness

(* The types of the log, the stream, the client, the watcher and the jobs: *)
(* no job starts a second agent.                                           *)
FollowingTypeOK == StreamTypeOK /\ AnnounceTypeOK /\ CodingTypeOK
=============================================================================

------------------------------ MODULE RunStream ------------------------------
(***************************************************************************)
(* One console that follows a run's event log (RunLog): sse.rs (the        *)
(* stream, a poll over the log) and hud.js (the client's loop of at most   *)
(* four connections).                                                      *)
(*                                                                         *)
(* A client connection is a sequence cursor over the log; the server keeps *)
(* nothing else.  What is hard is that every read of the stream is its own *)
(* statement: the log grows, the run settles and the daemon dies between   *)
(* the page, the highest sequence and the last event.                      *)
(***************************************************************************)
EXTENDS RunLog

CONSTANTS Page,          \* DEFAULT_PAGE, the events of one read
          MaxAttempts,   \* the connections hud.js makes before it gives up
          MaxFaults,     \* bound: lost connections and failed reads
          HeldPositions  \* the positions a client may already hold

ASSUME StreamAssumption ==
    /\ Page \in Nat \ {0}
    /\ MaxAttempts \in Nat \ {0}
    /\ MaxFaults \in Nat
    /\ HeldPositions \subseteq Nat

VARIABLES
    conn,      \* the stream: where it is, its cursor, its buffer
    client,    \* hud.js: last, attempts, phase
    shown,     \* the sequences the client was shown, in order
    faults     \* lost connections and failed reads so far

clientVars == <<conn, client, shown, faults>>
streamVars == <<logVars, clientVars>>

Positions == 0 .. MaxEvents

NoConn == [at |-> "idle", next |-> 1, buffered |-> {}, top |-> 0, finished |-> FALSE]

StreamTypeOK ==
    /\ LogTypeOK
    /\ conn \in [at : {"idle", "page", "highest", "last"}, next : Nat,
                 buffered : SUBSET Nat, top : Positions, finished : BOOLEAN]
    /\ client \in [held : HeldPositions, last : Nat, attempts : 0 .. MaxAttempts,
                   phase : {"following", "done", "gaveup"}]
    /\ shown \in Seq(Nat)
    /\ faults \in 0 .. MaxFaults

StreamInit ==
    /\ LogInit
    /\ conn = NoConn
    /\ \E held \in HeldPositions :
          client = [held |-> held, last |-> held, attempts |-> 0,
                    phase |-> "following"]
    /\ shown = <<>> /\ faults = 0

-----------------------------------------------------------------------------
(* The client: hud.js counts every connection that ended without a         *)
(* terminal event, however it ended.                                       *)

LoseAttempt_NeverGivesUp == client' = [client EXCEPT !.attempts = @ + 1]

LoseAttempt ==
    client' = [client EXCEPT !.attempts = @ + 1,
                  !.phase = IF client.attempts + 1 = MaxAttempts THEN "gaveup" ELSE @]

(* resume_cursor: no header is the first sequence, and a header names the  *)
(* sequence the stream starts at.                                          *)
ResumeCursor == IF client.last = 0 THEN 1 ELSE client.last

BeyondEnd_AtTheEnd == ResumeCursor >= Len(log)

BeyondEnd == ResumeCursor > Len(log)

(* stream_events: a cursor past the end of the log is a 409.               *)
Connect ==
    /\ up /\ client.phase = "following" /\ conn.at = "idle"
    /\ IF BeyondEnd
         THEN LoseAttempt /\ conn' = conn
         ELSE conn' = [NoConn EXCEPT !.at = "page", !.next = ResumeCursor] /\ client' = client
    /\ UNCHANGED <<logVars, shown, faults>>

(* A connection to a daemon that is not there.                             *)
ConnectFails ==
    /\ ~up /\ client.phase = "following" /\ faults < MaxFaults
    /\ LoseAttempt
    /\ faults' = faults + 1
    /\ UNCHANGED <<logVars, conn, shown>>

(* event_stream pops its buffer one frame at a time; the frame's id is the *)
(* position the client resumes from, and a terminal event ends its loop.   *)
Deliver ==
    /\ up /\ conn.at # "idle" /\ conn.buffered # {}
    /\ LET seq == CHOOSE n \in conn.buffered : \A m \in conn.buffered : n <= m
           over == log[seq] = "terminal"
       IN  /\ shown' = Append(shown, seq)
           /\ client' = [client EXCEPT !.last = seq,
                            !.phase = IF over THEN "done" ELSE @]
           /\ conn' = IF over THEN NoConn
                      ELSE [conn EXCEPT !.buffered = @ \ {seq}]
    /\ UNCHANGED <<logVars, faults>>

-----------------------------------------------------------------------------
(* The stream: one read a step.                                            *)

ReadingAt(step) == up /\ conn.at = step /\ conn.buffered = {} /\ ~conn.finished

(* read_run_events: the sequences from the cursor on, at most a page.      *)
PageFrom(next) == {n \in next .. Len(log) : n < next + Page}

(* A page moves the cursor past its last event, and one that ends in a     *)
(* terminal event is the last.  An empty page asks whether the run settled. *)
ReadPage_FullPage ==
    /\ ReadingAt("page")
    /\ LET page == PageFrom(conn.next)
           last == conn.next + Cardinality(page) - 1
       IN  conn' = IF page = {} THEN [conn EXCEPT !.at = "highest"]
                   ELSE [conn EXCEPT !.buffered = page, !.next = @ + Page,
                                     !.finished = (log[last] = "terminal")]
    /\ UNCHANGED <<logVars, client, shown, faults>>

ReadPage ==
    /\ ReadingAt("page")
    /\ LET page == PageFrom(conn.next)
           last == conn.next + Cardinality(page) - 1
       IN  conn' = IF page = {} THEN [conn EXCEPT !.at = "highest"]
                   ELSE [conn EXCEPT !.buffered = page, !.next = last + 1,
                                     !.finished = (log[last] = "terminal")]
    /\ UNCHANGED <<logVars, client, shown, faults>>

(* run_has_settled, first read: the highest sequence.                      *)
ReadHighest ==
    /\ ReadingAt("highest")
    /\ conn' = [conn EXCEPT !.at = "last", !.top = Len(log)]
    /\ UNCHANGED <<logVars, client, shown, faults>>

(* run_has_settled, second read: a terminal event closes the stream, even  *)
(* one that came after the empty page and was not delivered; any other     *)
(* event polls again.                                                      *)
ReadLast ==
    /\ ReadingAt("last")
    /\ IF log[conn.top] = "terminal"
         THEN LoseAttempt /\ conn' = NoConn
         ELSE conn' = [conn EXCEPT !.at = "page", !.top = 0] /\ client' = client
    /\ UNCHANGED <<logVars, shown, faults>>

(* A failed page read is an error frame and the end of the stream; a       *)
(* failed read of run_has_settled ends it without one.                     *)
ReadFails ==
    /\ up /\ conn.at # "idle" /\ conn.buffered = {} /\ faults < MaxFaults
    /\ LoseAttempt
    /\ conn' = NoConn
    /\ faults' = faults + 1
    /\ UNCHANGED <<logVars, shown>>

(* The connection breaks, with whatever was still buffered.                *)
Lost ==
    /\ conn.at # "idle" /\ faults < MaxFaults
    /\ LoseAttempt
    /\ conn' = NoConn
    /\ faults' = faults + 1
    /\ UNCHANGED <<logVars, shown>>

-----------------------------------------------------------------------------
(* The daemon dies with its streams.                                       *)
Die ==
    /\ LogDies
    /\ IF conn.at = "idle" THEN client' = client ELSE LoseAttempt
    /\ conn' = NoConn
    /\ UNCHANGED <<shown, faults>>

Recover == LogRecovers /\ UNCHANGED clientVars

(* One read of the stream, or one frame of it.                             *)
StreamStep == Deliver \/ ReadPage \/ ReadHighest \/ ReadLast

StreamNext ==
    \/ WriterStep /\ UNCHANGED clientVars
    \/ Connect
    \/ ConnectFails
    \/ StreamStep
    \/ ReadFails
    \/ Lost
    \/ Die
    \/ Recover

(* The server polls and the client reconnects; no run has to settle, no    *)
(* connection has to hold.                                                 *)
StreamFairness == WF_streamVars(StreamStep) /\ WF_streamVars(Connect) /\ WF_streamVars(Recover)

StreamSpec == StreamInit /\ [][StreamNext]_streamVars /\ StreamFairness

-----------------------------------------------------------------------------
(* Properties.                                                             *)

(* Whatever was lost or closed early, the client is shown the log in order *)
(* from the position it held and skips nothing, and nothing is replayed    *)
(* but the event it held, once for each connection it had to open again:   *)
(* next, the buffer and Last-Event-ID agree across pages and connections.  *)
ShownWithoutGap ==
    /\ shown # <<>> => shown[1] \in {client.held, client.held + 1}
    /\ \A i \in 2 .. Len(shown) : shown[i] \in {shown[i - 1], shown[i - 1] + 1}
    /\ Cardinality({i \in 2 .. Len(shown) : shown[i] = shown[i - 1]}) <= client.attempts

(* "A reconnecting client sends `Last-Event-ID` naming the last sequence it *)
(* received, and the stream continues from the next one" (sse.rs): no      *)
(* event the client holds is delivered to it again.                        *)
ContinuesFromTheNext ==
    /\ shown # <<>> => shown[1] # client.held
    /\ \A i \in 2 .. Len(shown) : shown[i] # shown[i - 1]

(* A console that stops because it saw a terminal event has seen the last  *)
(* event of a settled run: nothing can follow it in the log, whichever     *)
(* writers raced the settlement.                                           *)
DoneSawTheEnd ==
    client.phase = "done" => row = "settled" /\ client.last = Len(log)

(* What can still cost the client a connection: faults, deaths, and one    *)
(* early close when its stream already asked whether the run settled.      *)
LossesLeft ==
    (MaxFaults - faults) + (MaxDeaths - deaths)
      + (IF conn.at \in {"highest", "last"} THEN 1 ELSE 0)

(* A client that still has more connections than can be lost sees the run  *)
(* that settled through to its terminal event: an early close costs one    *)
(* connection, never the end of the stream.                                *)
FollowsToTheEnd ==
    (/\ row = "settled" /\ client.phase = "following"
     /\ client.last <= Len(log)
     /\ client.attempts + LossesLeft < MaxAttempts) ~> client.phase = "done"
=============================================================================

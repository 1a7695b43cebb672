------------------------------ MODULE Triggers ------------------------------
(***************************************************************************)
(* One mail or file trigger: the poller that looks at a mailbox or folder, *)
(* records what exists as a baseline, and claims each new event before it  *)
(* starts a run for it (trigger_service.rs, trigger_repository.rs).        *)
(*                                                                         *)
(* The poll works on the row as it was claimed; the owner pauses, resumes  *)
(* and removes the trigger, and the daemon dies, between its statements.   *)
(* Times are left out: a poll is due at any instant, and the day of the    *)
(* daily budget does not end.                                              *)
(***************************************************************************)
EXTENDS Naturals, FiniteSets

CONSTANTS Messages,      \* bound: the messages or files, 1 .. n as they arrive
          Existing,      \* how many exist when the trigger is made
          ListLimit,     \* LIST_LIMIT or LIST_FILES, the newest a look lists
          StartsPerPoll, \* MAX_STARTS_PER_POLL
          RunsPerDay,    \* MAX_RUNS_PER_DAY
          MaxOwnerActs,  \* bound: the owner's requests
          MaxMisses      \* bound: starts and recordings that fail

ASSUME TriggerAssumption ==
    /\ IsFiniteSet(Messages) /\ Messages = 1 .. Cardinality(Messages)
    /\ Existing \in 0 .. Cardinality(Messages)
    /\ ListLimit \in Nat \ {0} /\ StartsPerPoll \in Nat /\ RunsPerDay \in Nat
    /\ MaxOwnerActs \in Nat /\ MaxMisses \in Nat

VARIABLES
    arrived,   \* how many messages have arrived
    matching,  \* those the search or the folder still shows
    trigger,   \* the trigger's row
    removal,   \* how far a DELETE of the trigger is
    claims,    \* the keys in trigger_events
    fired,     \* those of them that carry a run
    poll,      \* the poll in hand, with the row's baselined as it was claimed
    starts,    \* how many runs each message started
    backlog,   \* what existed when the trigger was made, or resumed while no poll was in hand
    acts,      \* requests of the owner so far
    misses     \* starts and recordings that failed or were cut off

triggerVars ==
    <<arrived, matching, trigger, removal, claims, fired, poll, starts, backlog, acts, misses>>
tableVars == <<trigger, removal, claims, fired>>
mailVars  == <<arrived, matching>>

NoMessage == 0
NoPoll == [at |-> "idle", baselined |-> FALSE, events |-> {}, allowed |-> 0,
           started |-> 0, event |-> NoMessage]

TriggerTypeOK ==
    /\ arrived \in 0 .. Cardinality(Messages) /\ matching \subseteq 1 .. arrived
    /\ trigger \in [present : BOOLEAN, enabled : BOOLEAN, baselined : BOOLEAN]
    /\ removal \in {"none", "events", "done"}
    /\ claims \subseteq Messages /\ fired \subseteq claims
    /\ poll \in [at : {"idle", "look", "decide", "baseline", "claim", "start", "record"},
                 baselined : BOOLEAN, events : SUBSET Messages, allowed : 0 .. StartsPerPoll,
                 started : 0 .. StartsPerPoll, event : {NoMessage} \union Messages]
    /\ starts \in [Messages -> Nat]
    /\ backlog \subseteq Messages
    /\ acts \in 0 .. MaxOwnerActs /\ misses \in 0 .. MaxMisses

TriggerInit ==
    /\ arrived = Existing /\ matching = 1 .. Existing
    /\ trigger = [present |-> TRUE, enabled |-> TRUE, baselined |-> FALSE]
    /\ removal = "none" /\ claims = {} /\ fired = {}
    /\ poll = NoPoll /\ starts = [m \in Messages |-> 0]
    /\ backlog = 1 .. Existing
    /\ acts = 0 /\ misses = 0

-----------------------------------------------------------------------------
(* The mailbox or folder.                                                  *)

Arrive ==
    /\ arrived < Cardinality(Messages)
    /\ arrived' = arrived + 1 /\ matching' = matching \union {arrived + 1}
    /\ UNCHANGED <<tableVars, poll, starts, backlog, acts, misses>>

(* A message is read, moved or deleted and the search shows it no more.    *)
Vanish(m) ==
    /\ m \in matching
    /\ matching' = matching \ {m}
    /\ UNCHANGED <<arrived, tableVars, poll, starts, backlog, acts, misses>>

(* mail_ids and list_folder: the newest that match.                        *)
Listed == {m \in matching : Cardinality({n \in matching : n > m}) < ListLimit}

-----------------------------------------------------------------------------
(* The poller.                                                             *)

(* claim_due_triggers: the compare-and-set on the next poll and enabled    *)
(* succeeds only on the row as it was read.                                *)
ClaimPoll ==
    /\ poll.at = "idle" /\ trigger.present /\ trigger.enabled
    /\ poll' = [NoPoll EXCEPT !.at = "look", !.baselined = trigger.baselined]
    /\ UNCHANGED <<mailVars, tableVars, starts, backlog, acts, misses>>

(* The look at the mailbox answers, or fails and the poll is over.         *)
LookAround ==
    /\ poll.at = "look"
    /\ \/ poll' = [poll EXCEPT !.at = "decide", !.events = Listed]
       \/ poll' = NoPoll
    /\ UNCHANGED <<mailVars, tableVars, starts, backlog, acts, misses>>

Allowed_EachPoll == StartsPerPoll

Allowed ==
    LET left == IF Cardinality(fired) < RunsPerDay THEN RunsPerDay - Cardinality(fired) ELSE 0
    IN  IF left < StartsPerPoll THEN left ELSE StartsPerPoll

(* A poll without a baseline records one; a held project or a spent daily  *)
(* budget ends it.                                                         *)
Decide ==
    /\ poll.at = "decide"
    /\ \/ ~poll.baselined /\ poll' = [poll EXCEPT !.at = "baseline"]
       \/ poll.baselined /\ Allowed > 0
            /\ poll' = [poll EXCEPT !.at = "claim", !.allowed = Allowed]
       \/ poll.baselined /\ poll' = NoPoll
    /\ UNCHANGED <<mailVars, tableVars, starts, backlog, acts, misses>>

(* The row of claim_trigger_event; a key of a removed trigger breaks its   *)
(* foreign key and is an error.                                            *)
FirstToClaim_NotFired(m) == m \notin fired

FirstToClaim(m) == m \notin claims

(* record_baseline claims every listed event, then marks the row.          *)
BaselineOne ==
    /\ poll.at = "baseline" /\ poll.events # {}
    /\ \E m \in poll.events :
          /\ claims' = IF trigger.present THEN claims \union {m} ELSE claims
          /\ poll' = IF trigger.present THEN [poll EXCEPT !.events = @ \ {m}] ELSE NoPoll
    /\ UNCHANGED <<mailVars, trigger, removal, fired, starts, backlog, acts, misses>>

MarkBaselined ==
    /\ poll.at = "baseline" /\ poll.events = {}
    /\ trigger' = [trigger EXCEPT !.baselined = TRUE]
    /\ poll' = NoPoll
    /\ UNCHANGED <<mailVars, removal, claims, fired, starts, backlog, acts, misses>>

(* start_runs: the oldest listed event is claimed, and only its first      *)
(* claim goes on to a start.                                               *)
ClaimEvent ==
    /\ poll.at = "claim"
    /\ IF poll.events = {} \/ poll.started = poll.allowed
         THEN poll' = NoPoll /\ claims' = claims
         ELSE LET m    == CHOOSE m \in poll.events : \A n \in poll.events : m <= n
                  rest == [poll EXCEPT !.events = @ \ {m}]
              IN  IF ~trigger.present THEN poll' = NoPoll /\ claims' = claims
                  ELSE /\ claims' = claims \union {m}
                       /\ poll' = IF FirstToClaim(m)
                                    THEN [rest EXCEPT !.at = "start", !.event = m] ELSE rest
    /\ UNCHANGED <<mailVars, trigger, removal, fired, starts, backlog, acts, misses>>

(* A start that fails loses the event: it stays claimed.                   *)
StartTriggered ==
    /\ poll.at = "start"
    /\ \/ /\ starts' = [starts EXCEPT ![poll.event] = @ + 1]
          /\ poll' = [poll EXCEPT !.at = "record"]
          /\ misses' = misses
       \/ /\ misses < MaxMisses /\ misses' = misses + 1
          /\ poll' = [poll EXCEPT !.at = "claim", !.event = NoMessage]
          /\ starts' = starts
    /\ UNCHANGED <<mailVars, tableVars, backlog, acts>>

(* record_trigger_run updates the event's row if it is still there.        *)
RecordTriggered_Inserts ==
    /\ poll.at = "record"
    /\ fired' = fired \union {poll.event}
    /\ poll' = [poll EXCEPT !.at = "claim", !.event = NoMessage, !.started = @ + 1]
    /\ UNCHANGED <<mailVars, trigger, removal, claims, starts, backlog, acts, misses>>

RecordTriggered ==
    /\ poll.at = "record"
    /\ \/ /\ fired' = fired \union ({poll.event} \intersect claims)
          /\ misses' = misses
       \/ misses < MaxMisses /\ misses' = misses + 1 /\ fired' = fired
    /\ poll' = [poll EXCEPT !.at = "claim", !.event = NoMessage, !.started = @ + 1]
    /\ UNCHANGED <<mailVars, trigger, removal, claims, starts, backlog, acts>>

(* The daemon dies and comes back: the poll in hand is gone.               *)
PollDies ==
    /\ poll.at # "idle" /\ misses < MaxMisses
    /\ misses' = misses + 1 /\ poll' = NoPoll
    /\ UNCHANGED <<mailVars, tableVars, starts, backlog, acts>>

-----------------------------------------------------------------------------
(* The owner.                                                              *)

OwnerActs ==
    /\ trigger.present /\ removal = "none" /\ acts < MaxOwnerActs
    /\ acts' = acts + 1
    /\ UNCHANGED <<mailVars, poll, starts, misses>>

PauseTrigger ==
    /\ OwnerActs
    /\ trigger' = [trigger EXCEPT !.enabled = FALSE]
    /\ UNCHANGED <<removal, claims, fired, backlog>>

(* set_trigger_enabled: what arrived in the meantime is to be baselined    *)
(* again.                                                                  *)
ResumeTrigger_KeepsBaseline ==
    /\ OwnerActs
    /\ trigger' = [trigger EXCEPT !.enabled = TRUE]
    /\ backlog' = IF poll.at = "idle"
                    THEN backlog \union {m \in 1 .. arrived : starts[m] = 0} ELSE backlog
    /\ UNCHANGED <<removal, claims, fired>>

ResumeTrigger ==
    /\ OwnerActs
    /\ trigger' = [trigger EXCEPT !.enabled = TRUE, !.baselined = FALSE]
    /\ backlog' = IF poll.at = "idle"
                    THEN backlog \union {m \in 1 .. arrived : starts[m] = 0} ELSE backlog
    /\ UNCHANGED <<removal, claims, fired>>

(* delete_trigger: the events, then the trigger, in two statements.        *)
DeleteEvents ==
    /\ OwnerActs
    /\ removal' = "events" /\ claims' = {} /\ fired' = {}
    /\ UNCHANGED <<trigger, backlog>>

DeleteTrigger ==
    /\ removal = "events" /\ removal' = "done"
    /\ trigger' = [trigger EXCEPT !.present = FALSE]
    /\ claims' = {} /\ fired' = {}
    /\ UNCHANGED <<mailVars, poll, starts, backlog, acts, misses>>

TriggerNext ==
    \/ Arrive
    \/ \E m \in Messages : Vanish(m)
    \/ ClaimPoll \/ LookAround \/ Decide
    \/ BaselineOne \/ MarkBaselined
    \/ ClaimEvent \/ StartTriggered \/ RecordTriggered
    \/ PollDies
    \/ PauseTrigger \/ ResumeTrigger
    \/ DeleteEvents \/ DeleteTrigger

TriggerSpec == TriggerInit /\ [][TriggerNext]_triggerVars

-----------------------------------------------------------------------------
(* Properties.                                                             *)

(* One event starts at most one run, however often it is listed, whatever  *)
(* fails or dies after its claim, and whatever the owner does short of     *)
(* removing the trigger.  Between the two statements of a removal the      *)
(* dedupe record is already gone and a poll in hand may start one again.   *)
EventStartsOnce == removal = "none" => \A m \in Messages : starts[m] <= 1

(* "a trigger does not answer your backlog" (docs/user/triggers.md): what   *)
(* existed when the trigger was made, or arrived before a resume, starts   *)
(* nothing.  A poll that was in hand at the resume is left out of it.      *)
BacklogStartsNothing ==
    removal = "none" => \A m \in backlog : starts[m] = 0

(* The daily budget holds although it is read once a poll and counts only  *)
(* recorded runs: a run escapes it only if its recording failed.           *)
DailyBudgetKept ==
    removal = "none" => Cardinality({m \in Messages : starts[m] > 0}) <= RunsPerDay + misses
=============================================================================

--------------------------- MODULE TriggersProofs ---------------------------
(***************************************************************************)
(* Proofs about what starts a run from outside: Triggers for any number of *)
(* messages, owner's acts and failures, and any limits (one run an event,  *)
(* the daily budget, and the condition under which a trigger leaves its    *)
(* backlog alone), and Webhooks for any number of requests, delivery ids   *)
(* and owner's acts, and for any window and budget.                        *)
(***************************************************************************)
EXTENDS Triggers, Webhooks, FiniteSetTheorems, WellFoundedInduction, TLAPS

Polls == [at : {"idle", "look", "decide", "baseline", "claim", "start", "record"},
          baselined : BOOLEAN, events : SUBSET Messages, allowed : 0 .. StartsPerPoll,
          started : 0 .. StartsPerPoll, event : {NoMessage} \union Messages]

(* A poll that has not come to its claims has started nothing, one at a    *)
(* claim is within its budget, and one at a start or at its recording is   *)
(* below it and has an event in hand.                                      *)
PollInHand ==
    /\ poll.at \in {"idle", "look", "decide", "baseline"} => poll.started = 0
    /\ poll.at = "claim" => poll.started <= poll.allowed
    /\ poll.at \in {"start", "record"} => poll.event \in Messages /\ poll.started < poll.allowed

TriggerTypes == TriggerTypeOK /\ PollInHand

LEMMA MessageNumbers == /\ IsFiniteSet(Messages) /\ Cardinality(Messages) \in Nat
                 /\ Messages = 1 .. Cardinality(Messages) /\ Messages \subseteq Nat
  <1>1. Cardinality(Messages) \in Nat BY TriggerAssumption, FS_CardinalityType
  <1> QED BY <1>1, TriggerAssumption

(* One element more.                                                       *)
LEMMA OneMore ==
    ASSUME NEW S, IsFiniteSet(S), NEW x
    PROVE  /\ IsFiniteSet(S \union {x})
           /\ Cardinality(S \union {x}) <= Cardinality(S) + 1
  <1>1. Cardinality(S) \in Nat BY FS_CardinalityType
  <1>2. Cardinality(S \union {x}) = IF x \in S THEN Cardinality(S) ELSE Cardinality(S) + 1
    BY FS_AddElement
  <1> QED BY <1>1, <1>2, FS_AddElement

LEMMA LeastMessage ==
    ASSUME NEW S \in SUBSET Messages, S # {}
    PROVE  (CHOOSE m \in S : \A n \in S : m <= n) \in S
  <1> DEFINE Less == OpToRel(<, Nat)
  <1>1. IsWellFoundedOn(Less, Nat) BY NatLessThanWellFounded
  <1>2. \A m, n \in Nat : n < m => <<n, m>> \in Less BY DEF OpToRel
  <1>3. S \subseteq Nat BY MessageNumbers
  <1> HIDE DEF Less
  <1>4. PICK m \in S : \A n \in S : ~(<<n, m>> \in Less) BY <1>1, <1>3, WFMin
  <1>5. \A n \in S : n \in Nat /\ m \in Nat /\ ~(n < m) BY <1>2, <1>3, <1>4
  <1>6. \A n \in S : m <= n BY <1>5
  <1> QED BY <1>6

LEMMA AllowedFits == TriggerTypeOK => Allowed \in 0 .. StartsPerPoll
  <1> SUFFICES ASSUME TriggerTypeOK PROVE Allowed \in 0 .. StartsPerPoll OBVIOUS
  <1>1. fired \subseteq Messages BY DEF TriggerTypeOK
  <1>2. Cardinality(fired) \in Nat BY <1>1, MessageNumbers, FS_Subset, FS_CardinalityType
  <1> QED BY <1>2, TriggerAssumption DEF Allowed

LEMMA TriggerInitTypes == TriggerInit => TriggerTypes
  <1> SUFFICES ASSUME TriggerInit PROVE TriggerTypes OBVIOUS
  <1>1. NoPoll \in Polls BY TriggerAssumption DEF NoPoll, Polls, NoMessage
  <1>2. 1 .. Existing \subseteq Messages BY MessageNumbers, TriggerAssumption
  <1> QED BY <1>1, <1>2, MessageNumbers, TriggerAssumption
          DEF TriggerInit, TriggerTypes, TriggerTypeOK, PollInHand, NoPoll, Polls

(* The poll of each step of the poller.                                    *)
LEMMA PollTypes ==
    ASSUME TriggerTypes,
           \/ ClaimPoll \/ LookAround \/ Decide \/ BaselineOne \/ MarkBaselined
           \/ ClaimEvent \/ StartTriggered \/ RecordTriggered \/ PollDies
    PROVE  poll' \in Polls /\ PollInHand'
  <1> USE DEF PollInHand, NoMessage
  <1>0. /\ TriggerTypeOK /\ PollInHand /\ poll \in Polls
        /\ StartsPerPoll \in Nat /\ Existing \in Nat
    BY TriggerAssumption, MessageNumbers DEF TriggerTypes, TriggerTypeOK, Polls
  <1>1. NoPoll \in Polls /\ NoPoll.at = "idle" /\ NoPoll.started = 0
    BY <1>0 DEF NoPoll, Polls
  <1>2. CASE poll' = NoPoll BY <1>1, <1>2
  <1>3. CASE ClaimPoll
    <2>1. trigger.baselined \in BOOLEAN BY <1>0 DEF TriggerTypeOK
    <2>2. poll' = [NoPoll EXCEPT !.at = "look", !.baselined = trigger.baselined]
      BY <1>3 DEF ClaimPoll
    <2> QED BY <1>1, <2>1, <2>2 DEF Polls
  <1>4. CASE LookAround
    <2>0. matching \subseteq Messages
      <3>1. arrived \in 0 .. Cardinality(Messages) /\ matching \subseteq 1 .. arrived
        BY <1>0 DEF TriggerTypeOK
      <3> QED BY <3>1, MessageNumbers
    <2>1. Listed \subseteq Messages BY <2>0 DEF Listed
    <2>2. CASE poll' = [poll EXCEPT !.at = "decide", !.events = Listed]
      BY <1>0, <1>4, <2>1, <2>2 DEF LookAround, Polls
    <2> QED BY <1>2, <1>4, <2>2 DEF LookAround
  <1>5. CASE Decide
    <2>1. Allowed \in 0 .. StartsPerPoll BY <1>0, AllowedFits
    <2>2. poll.at = "decide" BY <1>5 DEF Decide
    <2>3. CASE poll' = [poll EXCEPT !.at = "baseline"] BY <1>0, <2>2, <2>3 DEF Polls
    <2>4. CASE poll' = [poll EXCEPT !.at = "claim", !.allowed = Allowed]
      <3>1. poll' \in Polls BY <1>0, <2>1, <2>4 DEF Polls
      <3>2. poll'.at = "claim" /\ poll'.started = 0 /\ poll'.allowed = Allowed
        BY <1>0, <2>2, <2>4 DEF Polls
      <3> QED BY <1>0, <2>1, <3>1, <3>2
    <2> QED BY <1>2, <1>5, <2>3, <2>4 DEF Decide
  <1>6. CASE BaselineOne
    <2>1. PICK m \in poll.events : poll' = [poll EXCEPT !.events = @ \ {m}] \/ poll' = NoPoll
      BY <1>6 DEF BaselineOne
    <2>2. CASE poll' = [poll EXCEPT !.events = @ \ {m}]
      BY <1>0, <1>6, <2>2 DEF BaselineOne, Polls
    <2> QED BY <1>2, <2>1, <2>2
  <1>7. CASE ClaimEvent
    <2>1. CASE poll' # NoPoll
      <3> DEFINE m == CHOOSE m \in poll.events : \A n \in poll.events : m <= n
      <3>1. poll.events # {} /\ poll.events \subseteq Messages /\ poll.started < poll.allowed
        BY <1>0, <1>7, <2>1 DEF ClaimEvent, Polls
      <3>2. m \in Messages BY <3>1, LeastMessage
      <3>3. \/ poll' = [poll EXCEPT !.events = @ \ {m}]
            \/ poll' = [poll EXCEPT !.events = @ \ {m}, !.at = "start", !.event = m]
        BY <1>0, <1>7, <2>1 DEF ClaimEvent, Polls
      <3> HIDE DEF m
      <3>4. poll.at = "claim" BY <1>7 DEF ClaimEvent
      <3>5. poll' \in Polls BY <1>0, <3>2, <3>3 DEF Polls
      <3>6. /\ poll'.started = poll.started /\ poll'.allowed = poll.allowed
            /\ poll'.at = "claim" \/ (poll'.at = "start" /\ poll'.event = m)
        <4>1. CASE poll' = [poll EXCEPT !.events = @ \ {m}] BY <1>0, <3>4, <4>1 DEF Polls
        <4>2. CASE poll' = [poll EXCEPT !.events = @ \ {m}, !.at = "start", !.event = m]
          BY <1>0, <4>2 DEF Polls
        <4> QED BY <3>3, <4>1, <4>2
      <3>7. poll'.started < poll'.allowed /\ poll'.started <= poll'.allowed
        <4>1. poll.started \in Nat /\ poll.allowed \in Nat BY <1>0 DEF Polls
        <4> QED BY <3>1, <3>6, <4>1
      <3> QED BY <3>2, <3>5, <3>6, <3>7
    <2> QED BY <1>2, <2>1
  <1>8. CASE StartTriggered
    <2>1. \/ poll' = [poll EXCEPT !.at = "record"]
          \/ poll' = [poll EXCEPT !.at = "claim", !.event = NoMessage]
      BY <1>8 DEF StartTriggered
    <2>2. poll.at = "start" BY <1>8 DEF StartTriggered
    <2>3. poll' \in Polls BY <1>0, <2>1 DEF Polls
    <2>4. /\ poll'.started = poll.started /\ poll'.allowed = poll.allowed
          /\ poll'.at = "claim" \/ (poll'.at = "record" /\ poll'.event = poll.event)
      <3>1. CASE poll' = [poll EXCEPT !.at = "record"] BY <1>0, <3>1 DEF Polls
      <3>2. CASE poll' = [poll EXCEPT !.at = "claim", !.event = NoMessage]
        BY <1>0, <3>2 DEF Polls
      <3> QED BY <2>1, <3>1, <3>2
    <2>5. poll'.started < poll'.allowed /\ poll'.started <= poll'.allowed
      <3>1. poll.started \in Nat /\ poll.allowed \in Nat BY <1>0 DEF Polls
      <3>2. poll.started < poll.allowed BY <1>0, <2>2
      <3> QED BY <2>4, <3>1, <3>2
    <2> QED BY <1>0, <2>2, <2>3, <2>4, <2>5
  <1>9. CASE RecordTriggered
    <2>1. poll' = [poll EXCEPT !.at = "claim", !.event = NoMessage, !.started = @ + 1]
      BY <1>9 DEF RecordTriggered
    <2>2. poll.at = "record" BY <1>9 DEF RecordTriggered
    <2>3. /\ poll.started \in Nat /\ poll.allowed \in Nat
          /\ poll.started < poll.allowed /\ poll.allowed <= StartsPerPoll
      BY <1>0, <2>2 DEF Polls
    <2>4. poll.started + 1 \in 0 .. StartsPerPoll /\ poll.started + 1 <= poll.allowed
      BY <1>0, <2>3
    <2>5. poll' \in Polls BY <1>0, <2>1, <2>4 DEF Polls
    <2>6. poll'.at = "claim" /\ poll'.started = poll.started + 1 /\ poll'.allowed = poll.allowed
      BY <1>0, <2>1 DEF Polls
    <2> QED BY <2>4, <2>5, <2>6
  <1> QED BY <1>2, <1>3, <1>4, <1>5, <1>6, <1>7, <1>8, <1>9 DEF MarkBaselined, PollDies

LEMMA TriggerNextTypes == TriggerTypes /\ [TriggerNext]_triggerVars => TriggerTypes'
  <1> SUFFICES ASSUME TriggerTypes, [TriggerNext]_triggerVars PROVE TriggerTypes' OBVIOUS
  <1>0. TriggerTypeOK /\ PollInHand BY DEF TriggerTypes
  <1> USE TriggerAssumption, MessageNumbers DEF tableVars, mailVars
  <1>1. CASE Arrive BY <1>0, <1>1 DEF Arrive, TriggerTypes, TriggerTypeOK, PollInHand
  <1>2. CASE \E m \in Messages : Vanish(m)
    BY <1>0, <1>2 DEF Vanish, TriggerTypes, TriggerTypeOK, PollInHand
  <1>3. ASSUME \/ ClaimPoll \/ LookAround \/ Decide \/ BaselineOne \/ MarkBaselined
               \/ ClaimEvent \/ StartTriggered \/ RecordTriggered \/ PollDies
        PROVE  TriggerTypes'
    <2>1. poll' \in Polls /\ PollInHand' BY <1>3, PollTypes
    <2>2. UNCHANGED <<mailVars, removal, backlog, acts>>
      BY <1>3 DEF ClaimPoll, LookAround, Decide, BaselineOne, MarkBaselined, ClaimEvent,
                  StartTriggered, RecordTriggered, PollDies
    <2>3. trigger' \in [present : BOOLEAN, enabled : BOOLEAN, baselined : BOOLEAN]
      BY <1>0, <1>3, Zenon
         DEF ClaimPoll, LookAround, Decide, BaselineOne, MarkBaselined, ClaimEvent,
             StartTriggered, RecordTriggered, PollDies, TriggerTypeOK
    <2>4. claims' \subseteq Messages /\ claims \subseteq claims'
      <3>1. CASE BaselineOne
        <4>1. poll.events \subseteq Messages BY <1>0 DEF TriggerTypeOK
        <4> QED BY <1>0, <3>1, <4>1 DEF BaselineOne, TriggerTypeOK
      <3>2. CASE ClaimEvent
        <4>1. poll.events \subseteq Messages BY <1>0 DEF TriggerTypeOK
        <4>2. claims' = claims \/ (poll.events # {} /\ claims' = claims \union
                 {CHOOSE m \in poll.events : \A n \in poll.events : m <= n})
          BY <3>2 DEF ClaimEvent
        <4> QED BY <1>0, <4>1, <4>2, LeastMessage DEF TriggerTypeOK
      <3> QED BY <1>0, <1>3, <3>1, <3>2
              DEF ClaimPoll, LookAround, Decide, MarkBaselined, StartTriggered,
                  RecordTriggered, PollDies, TriggerTypeOK
    <2>5. fired' \subseteq claims'
      BY <1>0, <1>3, <2>4
         DEF ClaimPoll, LookAround, Decide, BaselineOne, MarkBaselined, ClaimEvent,
             StartTriggered, RecordTriggered, PollDies, TriggerTypeOK
    <2>6. starts' \in [Messages -> Nat] /\ misses' \in 0 .. MaxMisses
      <3>1. starts \in [Messages -> Nat] /\ misses \in 0 .. MaxMisses /\ MaxMisses \in Nat
        BY <1>0 DEF TriggerTypeOK
      <3>2. CASE StartTriggered
        <4>1. poll.event \in Messages BY <1>0, <3>2 DEF StartTriggered, PollInHand
        <4>2. \/ starts' = [starts EXCEPT ![poll.event] = @ + 1] /\ misses' = misses
              \/ starts' = starts /\ misses < MaxMisses /\ misses' = misses + 1
          BY <3>2 DEF StartTriggered
        <4> QED BY <3>1, <4>1, <4>2
      <3>3. CASE RecordTriggered BY <3>1, <3>3 DEF RecordTriggered
      <3>4. CASE PollDies BY <3>1, <3>4 DEF PollDies
      <3> QED BY <1>3, <3>1, <3>2, <3>3, <3>4
              DEF ClaimPoll, LookAround, Decide, BaselineOne, MarkBaselined, ClaimEvent
    <2> QED BY <1>0, <2>1, <2>2, <2>3, <2>4, <2>5, <2>6
            DEF TriggerTypes, TriggerTypeOK, Polls
  <1>4. CASE PauseTrigger
    <2>1. trigger' \in [present : BOOLEAN, enabled : BOOLEAN, baselined : BOOLEAN]
      BY <1>0, <1>4, Zenon DEF PauseTrigger, TriggerTypeOK
    <2>2. UNCHANGED <<removal, claims, fired, mailVars, poll, starts, misses, backlog>>
          /\ acts' \in 0 .. MaxOwnerActs
      BY <1>0, <1>4 DEF PauseTrigger, OwnerActs, TriggerTypeOK
    <2> QED BY <1>0, <2>1, <2>2 DEF TriggerTypes, TriggerTypeOK, PollInHand
  <1>5. CASE ResumeTrigger
    <2>1. backlog' \subseteq Messages BY <1>0, <1>5 DEF ResumeTrigger, TriggerTypeOK
    <2>2. trigger' = [trigger EXCEPT !.enabled = TRUE, !.baselined = FALSE]
          /\ UNCHANGED <<removal, claims, fired, mailVars, poll, starts, misses>>
          /\ acts' \in 0 .. MaxOwnerActs
      BY <1>0, <1>5 DEF ResumeTrigger, OwnerActs, TriggerTypeOK
    <2> QED BY <1>0, <2>1, <2>2 DEF TriggerTypes, TriggerTypeOK, PollInHand
  <1>6. CASE DeleteEvents
    BY <1>0, <1>6 DEF DeleteEvents, OwnerActs, TriggerTypes, TriggerTypeOK, PollInHand
  <1>7. CASE DeleteTrigger
    BY <1>0, <1>7 DEF DeleteTrigger, TriggerTypes, TriggerTypeOK, PollInHand
  <1>8. CASE UNCHANGED triggerVars
    BY <1>0, <1>8 DEF triggerVars, TriggerTypes, TriggerTypeOK, PollInHand
  <1> QED BY <1>1, <1>2, <1>3, <1>4, <1>5, <1>6, <1>7, <1>8 DEF TriggerNext

(* The trigger's tables and the poll in hand keep their types, for any     *)
(* number of messages.                                                     *)
THEOREM TriggerTypesKept == TriggerSpec => []TriggerTypes
  BY TriggerInitTypes, TriggerNextTypes, PTL DEF TriggerSpec

-----------------------------------------------------------------------------
(* One run an event.  While the trigger is not being removed, what started *)
(* a run is claimed, what carries a run started it, and the poll at a      *)
(* start holds a claim nobody else acts on.                                *)

OnceInv ==
    removal = "none" =>
        /\ trigger.present
        /\ \A m \in Messages : starts[m] <= 1 /\ (starts[m] > 0 => m \in claims)
        /\ \A m \in fired : starts[m] > 0
        /\ poll.at \in {"start", "record"} => poll.event \in claims /\ poll.event \notin fired
        /\ poll.at = "start" => starts[poll.event] = 0
        /\ poll.at = "record" => starts[poll.event] = 1

(* Where the steps before the claims lead.                                 *)
LEMMA BeforeClaims ==
    ASSUME TriggerTypes,
           ClaimPoll \/ LookAround \/ Decide \/ BaselineOne \/ MarkBaselined \/ PollDies
    PROVE  /\ poll'.at \notin {"start", "record"}
           /\ poll'.at = "claim" => Decide
  <1>0. poll \in Polls BY DEF TriggerTypes, TriggerTypeOK, Polls
  <1>1. CASE poll' = NoPoll BY <1>1 DEF NoPoll
  <1>2. CASE ClaimPoll BY <1>2 DEF ClaimPoll, NoPoll
  <1>3. CASE LookAround BY <1>0, <1>1, <1>3 DEF LookAround, Polls
  <1>4. CASE Decide
    <2>1. CASE poll' = [poll EXCEPT !.at = "baseline"] BY <1>0, <2>1 DEF Polls
    <2>2. CASE poll' = [poll EXCEPT !.at = "claim", !.allowed = Allowed]
      BY <1>0, <1>4, <2>2 DEF Polls
    <2> QED BY <1>1, <1>4, <2>1, <2>2 DEF Decide
  <1>5. CASE BaselineOne
    <2>1. PICK m \in poll.events : poll' = [poll EXCEPT !.events = @ \ {m}] \/ poll' = NoPoll
      BY <1>5 DEF BaselineOne
    <2>2. poll.at = "baseline" BY <1>5 DEF BaselineOne
    <2>3. CASE poll' = [poll EXCEPT !.events = @ \ {m}] BY <1>0, <2>2, <2>3 DEF Polls
    <2> QED BY <1>1, <2>1, <2>3
  <1> QED BY <1>1, <1>2, <1>3, <1>4, <1>5 DEF MarkBaselined, PollDies

(* The claim of an event: it was free, or the poll goes on without it.     *)
LEMMA ClaimOfEvent ==
    ASSUME TriggerTypes, ClaimEvent
    PROVE  /\ UNCHANGED <<trigger, removal, fired, starts>>
           /\ \/ poll' = NoPoll /\ claims' = claims
              \/ \E m \in poll.events :
                    /\ claims' = claims \union {m}
                    /\ \/ m \in claims /\ poll' = [poll EXCEPT !.events = @ \ {m}]
                       \/ /\ m \notin claims
                          /\ poll' = [poll EXCEPT !.events = @ \ {m}, !.at = "start", !.event = m]
  <1>1. UNCHANGED <<trigger, removal, fired, starts>> BY DEF ClaimEvent
  <1>2. CASE poll' = NoPoll /\ claims' = claims BY <1>1, <1>2
  <1>3. CASE ~(poll' = NoPoll /\ claims' = claims)
    <2> DEFINE m == CHOOSE m \in poll.events : \A n \in poll.events : m <= n
    <2>1. poll.events # {} BY <1>3 DEF ClaimEvent
    <2>2. poll.events \subseteq Messages /\ poll \in Polls
      BY DEF TriggerTypes, TriggerTypeOK, Polls
    <2>3. m \in poll.events BY <2>1, <2>2, LeastMessage
    <2>4. claims' = claims \union {m} BY <1>3 DEF ClaimEvent
    <2>5. IF m \notin claims
            THEN poll' = [[poll EXCEPT !.events = @ \ {m}] EXCEPT !.at = "start", !.event = m]
            ELSE poll' = [poll EXCEPT !.events = @ \ {m}]
      BY <1>3 DEF ClaimEvent, FirstToClaim
    <2> HIDE DEF m
    <2>6. [[poll EXCEPT !.events = @ \ {m}] EXCEPT !.at = "start", !.event = m]
             = [poll EXCEPT !.events = @ \ {m}, !.at = "start", !.event = m]
      BY <2>2 DEF Polls
    <2> QED BY <1>1, <2>3, <2>4, <2>5, <2>6
  <1> QED BY <1>2, <1>3

LEMMA OnceStep ==
    ASSUME TriggerTypes, OnceInv, [TriggerNext]_triggerVars
    PROVE  OnceInv'
  <1>0. /\ poll \in Polls /\ PollInHand /\ starts \in [Messages -> Nat]
        /\ claims \subseteq Messages /\ fired \subseteq claims
    BY DEF TriggerTypes, TriggerTypeOK, Polls
  <1>1. CASE ClaimPoll \/ LookAround \/ Decide \/ PollDies
    <2>1. UNCHANGED <<trigger, removal, claims, fired, starts>>
      BY <1>1 DEF ClaimPoll, LookAround, Decide, PollDies, tableVars
    <2>2. poll'.at \notin {"start", "record"} BY <1>1, BeforeClaims
    <2> QED BY <2>1, <2>2 DEF OnceInv
  <1>2. CASE BaselineOne
    <2>1. UNCHANGED <<trigger, removal, fired, starts>> /\ claims \subseteq claims'
      BY <1>2 DEF BaselineOne
    <2>2. poll'.at \notin {"start", "record"} BY <1>0, <1>2 DEF BaselineOne, NoPoll, Polls
    <2> QED BY <1>0, <2>1, <2>2 DEF OnceInv
  <1>3. CASE MarkBaselined
    <2>1. UNCHANGED <<removal, claims, fired, starts>> /\ poll'.at = "idle"
      BY <1>3 DEF MarkBaselined, NoPoll
    <2>2. trigger'.present = trigger.present
      BY <1>3 DEF MarkBaselined, TriggerTypes, TriggerTypeOK
    <2> QED BY <2>1, <2>2 DEF OnceInv
  <1>4. CASE ClaimEvent
    <2>1. UNCHANGED <<trigger, removal, fired, starts>> BY <1>4, ClaimOfEvent
    <2>2. CASE poll' = NoPoll /\ claims' = claims BY <2>1, <2>2 DEF OnceInv, NoPoll
    <2>3. CASE \E m \in poll.events :
                  claims' = claims \union {m} /\ poll' = [poll EXCEPT !.events = @ \ {m}]
      <3>1. claims \subseteq claims' /\ poll'.at = "claim"
        BY <1>0, <1>4, <2>3 DEF ClaimEvent, Polls
      <3> QED BY <1>0, <2>1, <3>1 DEF OnceInv
    <2>4. ASSUME NEW m \in poll.events, m \notin claims, claims' = claims \union {m},
                 poll' = [poll EXCEPT !.events = @ \ {m}, !.at = "start", !.event = m]
          PROVE  OnceInv'
      <3>1. poll'.at = "start" /\ poll'.event = m /\ m \in Messages
        BY <1>0, <2>4 DEF Polls
      <3>2. removal = "none" => starts[m] = 0 /\ m \notin fired BY <1>0, <2>4, <3>1 DEF OnceInv
      <3> QED BY <1>0, <2>1, <2>4, <3>1, <3>2 DEF OnceInv
    <2> QED BY <1>4, <2>2, <2>3, <2>4, ClaimOfEvent
  <1>5. CASE StartTriggered
    <2>1. UNCHANGED <<trigger, removal, claims, fired>> /\ poll.at = "start"
      BY <1>5 DEF StartTriggered, tableVars
    <2>2. poll.event \in Messages BY <1>0, <2>1 DEF PollInHand
    <2>3. CASE /\ starts' = [starts EXCEPT ![poll.event] = @ + 1]
               /\ poll' = [poll EXCEPT !.at = "record"]
      <3>1. poll'.at = "record" /\ poll'.event = poll.event BY <1>0, <2>3 DEF Polls
      <3> QED BY <1>0, <2>1, <2>2, <2>3, <3>1 DEF OnceInv
    <2>4. CASE starts' = starts /\ poll' = [poll EXCEPT !.at = "claim", !.event = NoMessage]
      <3>1. poll'.at = "claim" BY <1>0, <2>4 DEF Polls
      <3> QED BY <2>1, <2>4, <3>1 DEF OnceInv
    <2> QED BY <1>5, <2>3, <2>4 DEF StartTriggered
  <1>6. CASE RecordTriggered
    <2>1. UNCHANGED <<trigger, removal, claims, starts>> /\ poll.at = "record"
      BY <1>6 DEF RecordTriggered
    <2>2. fired' \subseteq fired \union {poll.event} BY <1>6 DEF RecordTriggered
    <2>3. poll'.at = "claim" BY <1>0, <1>6 DEF RecordTriggered, Polls
    <2> QED BY <1>0, <2>1, <2>2, <2>3 DEF OnceInv
  <1>7. CASE PauseTrigger \/ ResumeTrigger
    <2>1. trigger'.present = trigger.present
      <3>1. trigger \in [present : BOOLEAN, enabled : BOOLEAN, baselined : BOOLEAN]
        BY DEF TriggerTypes, TriggerTypeOK
      <3>2. CASE trigger' = [trigger EXCEPT !.enabled = FALSE] BY <3>1, <3>2
      <3>3. CASE trigger' = [trigger EXCEPT !.enabled = TRUE, !.baselined = FALSE] BY <3>1, <3>3
      <3> QED BY <1>7, <3>2, <3>3 DEF PauseTrigger, ResumeTrigger
    <2>2. UNCHANGED <<removal, claims, fired, starts, poll>>
      BY <1>7 DEF PauseTrigger, ResumeTrigger, OwnerActs
    <2> QED BY <2>1, <2>2 DEF OnceInv
  <1>8. CASE DeleteEvents \/ DeleteTrigger
    BY <1>8 DEF DeleteEvents, DeleteTrigger, OnceInv
  <1>9. CASE Arrive \/ (\E m \in Messages : Vanish(m)) \/ UNCHANGED triggerVars
    <2>1. UNCHANGED <<trigger, removal, claims, fired, starts, poll>>
      BY <1>9 DEF Arrive, Vanish, triggerVars, tableVars
    <2> QED BY <2>1 DEF OnceInv
  <1> QED BY <1>1, <1>2, <1>3, <1>4, <1>5, <1>6, <1>7, <1>8, <1>9 DEF TriggerNext

LEMMA OnceHolds == TriggerSpec => []OnceInv
  <1>1. TriggerInit => OnceInv BY DEF TriggerInit, OnceInv, NoPoll
  <1> QED BY <1>1, TriggerTypesKept, OnceStep, PTL DEF TriggerSpec

(* An event starts at most one run for as long as its trigger stands:      *)
(* start_runs claims before it starts, and the claim survives whatever     *)
(* fails or dies after it.                                                 *)
THEOREM EventsStartOnce == TriggerSpec => []EventStartsOnce
  <1>1. OnceInv => EventStartsOnce BY DEF OnceInv, EventStartsOnce
  <1> QED BY <1>1, OnceHolds, PTL

-----------------------------------------------------------------------------
(* The daily budget.  What started a run without carrying it is a miss, or *)
(* in hand; a poll's allowance is what was left when it was read, and      *)
(* nothing but this poll uses it up.                                       *)

StartedOnes == {m \in Messages : starts[m] > 0}
InHand == IF poll.at = "record" THEN 1 ELSE 0

BudgetInv ==
    removal = "none" =>
        /\ Cardinality(fired) <= RunsPerDay
        /\ poll.at \in {"claim", "start", "record"} =>
              Cardinality(fired) + poll.allowed <= RunsPerDay + poll.started
        /\ Cardinality(StartedOnes) <= Cardinality(fired) + misses + InHand

LEMMA BudgetCounts ==
    ASSUME TriggerTypes
    PROVE  /\ IsFiniteSet(fired) /\ Cardinality(fired) \in Nat
           /\ IsFiniteSet(StartedOnes) /\ Cardinality(StartedOnes) \in Nat
           /\ misses \in Nat /\ RunsPerDay \in Nat /\ StartsPerPoll \in Nat
           /\ poll.started \in Nat /\ poll.allowed \in Nat
           /\ poll \in Polls
  <1>1. fired \subseteq Messages /\ StartedOnes \subseteq Messages
    BY DEF TriggerTypes, TriggerTypeOK, StartedOnes
  <1>2. IsFiniteSet(fired) /\ IsFiniteSet(StartedOnes) BY <1>1, MessageNumbers, FS_Subset
  <1>3. poll \in Polls BY DEF TriggerTypes, TriggerTypeOK, Polls
  <1>4. misses \in 0 .. MaxMisses BY DEF TriggerTypes, TriggerTypeOK
  <1> QED BY <1>2, <1>3, <1>4, FS_CardinalityType, TriggerAssumption DEF Polls

LEMMA BudgetStepKept ==
    ASSUME TriggerTypes, OnceInv, BudgetInv, [TriggerNext]_triggerVars
    PROVE  BudgetInv'
  <1>0. /\ IsFiniteSet(fired) /\ Cardinality(fired) \in Nat
        /\ IsFiniteSet(StartedOnes) /\ Cardinality(StartedOnes) \in Nat
        /\ misses \in Nat /\ RunsPerDay \in Nat /\ StartsPerPoll \in Nat
        /\ poll.started \in Nat /\ poll.allowed \in Nat /\ poll \in Polls
    BY BudgetCounts
  <1>1. CASE Decide
    <2>1. UNCHANGED <<removal, fired, starts, misses>> /\ poll.at = "decide"
      BY <1>1 DEF Decide, tableVars
    <2>2. StartedOnes' = StartedOnes BY <2>1 DEF StartedOnes
    <2>3. CASE poll' = [poll EXCEPT !.at = "claim", !.allowed = Allowed]
      <3>1. /\ poll'.at = "claim" /\ poll'.allowed = Allowed
            /\ poll'.started = poll.started /\ poll.started = 0
        BY <1>0, <2>1, <2>3 DEF Polls, TriggerTypes, PollInHand
      <3>2. Cardinality(fired) <= RunsPerDay =>
               Allowed \in Nat /\ Cardinality(fired) + Allowed <= RunsPerDay
        BY <1>0 DEF Allowed
      <3> QED BY <1>0, <2>1, <2>2, <3>1, <3>2 DEF BudgetInv, InHand
    <2>4. CASE poll'.at \in {"idle", "baseline"} BY <2>1, <2>2, <2>4 DEF BudgetInv, InHand
    <2>5. poll' = NoPoll => poll'.at = "idle" BY DEF NoPoll
    <2>6. poll' = [poll EXCEPT !.at = "baseline"] => poll'.at = "baseline" BY <1>0 DEF Polls
    <2> QED BY <1>1, <2>3, <2>4, <2>5, <2>6 DEF Decide
  <1>2. CASE ClaimPoll \/ LookAround \/ BaselineOne \/ MarkBaselined
    <2>1. UNCHANGED <<removal, fired, starts, misses>> /\ poll.at # "record"
      BY <1>2 DEF ClaimPoll, LookAround, BaselineOne, MarkBaselined, tableVars
    <2>2. StartedOnes' = StartedOnes BY <2>1 DEF StartedOnes
    <2>3. poll'.at \notin {"claim", "start", "record"}
      <3>1. ~Decide
        BY <1>2 DEF ClaimPoll, LookAround, BaselineOne, MarkBaselined, Decide
      <3> QED BY <1>2, <3>1, BeforeClaims
    <2> QED BY <2>1, <2>2, <2>3 DEF BudgetInv, InHand
  <1>3. CASE ClaimEvent
    <2>1. UNCHANGED <<removal, fired, starts>> BY <1>3, ClaimOfEvent
    <2>2. UNCHANGED misses /\ poll.at = "claim" BY <1>3 DEF ClaimEvent
    <2>3. StartedOnes' = StartedOnes BY <2>1 DEF StartedOnes
    <2>4. CASE poll' = NoPoll BY <2>1, <2>2, <2>3, <2>4 DEF BudgetInv, InHand, NoPoll
    <2>5. ASSUME NEW m \in poll.events,
                 \/ poll' = [poll EXCEPT !.events = @ \ {m}]
                 \/ poll' = [poll EXCEPT !.events = @ \ {m}, !.at = "start", !.event = m]
          PROVE  BudgetInv'
      <3>1. /\ poll'.at \in {"claim", "start"}
            /\ poll'.allowed = poll.allowed /\ poll'.started = poll.started
        BY <1>0, <2>2, <2>5 DEF Polls
      <3> QED BY <2>1, <2>2, <2>3, <3>1 DEF BudgetInv, InHand
    <2> QED BY <1>3, <2>4, <2>5, ClaimOfEvent
  <1>4. CASE StartTriggered
    <2>1. UNCHANGED <<removal, fired>> /\ poll.at = "start" BY <1>4 DEF StartTriggered, tableVars
    <2>2. poll.event \in Messages /\ starts \in [Messages -> Nat]
      BY <2>1 DEF TriggerTypes, PollInHand, TriggerTypeOK
    <2>3. CASE /\ starts' = [starts EXCEPT ![poll.event] = @ + 1] /\ misses' = misses
               /\ poll' = [poll EXCEPT !.at = "record"]
      <3>1. /\ poll'.at = "record" /\ poll'.allowed = poll.allowed
            /\ poll'.started = poll.started
        BY <1>0, <2>3 DEF Polls
      <3>2. StartedOnes' = StartedOnes \union {poll.event} BY <2>2, <2>3 DEF StartedOnes
      <3>3. Cardinality(StartedOnes') <= Cardinality(StartedOnes) + 1
            /\ Cardinality(StartedOnes') \in Nat
        <4>1. IsFiniteSet(StartedOnes) BY <1>0
        <4>2. /\ IsFiniteSet(StartedOnes \union {poll.event})
              /\ Cardinality(StartedOnes \union {poll.event}) <= Cardinality(StartedOnes) + 1
          BY <4>1, OneMore
        <4>3. Cardinality(StartedOnes \union {poll.event}) \in Nat BY <4>2, FS_CardinalityType
        <4> QED BY <3>2, <4>2, <4>3
      <3> QED BY <1>0, <2>1, <2>3, <3>1, <3>3 DEF BudgetInv, InHand
    <2>4. CASE /\ starts' = starts /\ misses' = misses + 1
               /\ poll' = [poll EXCEPT !.at = "claim", !.event = NoMessage]
      <3>1. /\ poll'.at = "claim" /\ poll'.allowed = poll.allowed
            /\ poll'.started = poll.started
        BY <1>0, <2>4 DEF Polls
      <3>2. StartedOnes' = StartedOnes BY <2>4 DEF StartedOnes
      <3> QED BY <1>0, <2>1, <2>4, <3>1, <3>2 DEF BudgetInv, InHand
    <2> QED BY <1>4, <2>3, <2>4 DEF StartTriggered
  <1>5. CASE RecordTriggered
    <2>1. UNCHANGED <<removal, claims, starts>> /\ poll.at = "record" BY <1>5 DEF RecordTriggered
    <2>2. StartedOnes' = StartedOnes BY <2>1 DEF StartedOnes
    <2>3. /\ poll'.at = "claim" /\ poll'.allowed = poll.allowed
          /\ poll'.started = poll.started + 1
      BY <1>0, <1>5 DEF RecordTriggered, Polls
    <2>4. poll.started < poll.allowed BY <2>1 DEF TriggerTypes, PollInHand
    <2>5. CASE fired' = fired \union ({poll.event} \intersect claims) /\ misses' = misses
      <3> SUFFICES ASSUME removal = "none" PROVE BudgetInv' BY <2>1 DEF BudgetInv
      <3>1. poll.event \in claims /\ poll.event \notin fired BY <2>1 DEF OnceInv
      <3>2. fired' = fired \union {poll.event} BY <2>5, <3>1
      <3>3. Cardinality(fired') = Cardinality(fired) + 1 BY <1>0, <3>1, <3>2, FS_AddElement
      <3> QED BY <1>0, <2>1, <2>2, <2>3, <2>4, <2>5, <3>3 DEF BudgetInv, InHand
    <2>6. CASE fired' = fired /\ misses' = misses + 1
      BY <1>0, <2>1, <2>2, <2>3, <2>6 DEF BudgetInv, InHand
    <2> QED BY <1>5, <2>5, <2>6 DEF RecordTriggered
  <1>6. CASE PollDies
    <2>1. UNCHANGED <<removal, fired, starts>> /\ misses' = misses + 1 /\ poll'.at = "idle"
      BY <1>6 DEF PollDies, tableVars, NoPoll
    <2>2. StartedOnes' = StartedOnes BY <2>1 DEF StartedOnes
    <2> QED BY <1>0, <2>1, <2>2 DEF BudgetInv, InHand
  <1>7. CASE DeleteEvents \/ DeleteTrigger BY <1>7 DEF DeleteEvents, DeleteTrigger, BudgetInv
  <1>8. CASE \/ Arrive \/ (\E m \in Messages : Vanish(m)) \/ PauseTrigger \/ ResumeTrigger
             \/ UNCHANGED triggerVars
    <2>1. UNCHANGED <<removal, fired, starts, poll, misses>>
      BY <1>8 DEF Arrive, Vanish, PauseTrigger, ResumeTrigger, OwnerActs, triggerVars, tableVars
    <2>2. StartedOnes' = StartedOnes BY <2>1 DEF StartedOnes
    <2> QED BY <2>1, <2>2 DEF BudgetInv, InHand
  <1> QED BY <1>1, <1>2, <1>3, <1>4, <1>5, <1>6, <1>7, <1>8 DEF TriggerNext

(* A trigger starts at most RunsPerDay runs, and one more for each miss,   *)
(* although poll reads the budget once and start_runs records after it     *)
(* starts.                                                                 *)
THEOREM BudgetKept == TriggerSpec => []DailyBudgetKept
  <1>1. TriggerInit => BudgetInv
    <2> SUFFICES ASSUME TriggerInit PROVE BudgetInv OBVIOUS
    <2>1. StartedOnes = {} /\ fired = {} BY DEF TriggerInit, StartedOnes
    <2>2. Cardinality(StartedOnes) = 0 /\ Cardinality(fired) = 0 BY <2>1, FS_EmptySet
    <2> QED BY <2>2, TriggerAssumption DEF TriggerInit, BudgetInv, InHand, NoPoll
  <1>2. TriggerTypes /\ BudgetInv => DailyBudgetKept
    <2> SUFFICES ASSUME TriggerTypes, BudgetInv, removal = "none"
                 PROVE  Cardinality(StartedOnes) <= RunsPerDay + misses
      BY DEF DailyBudgetKept, StartedOnes
    <2>1. /\ Cardinality(fired) \in Nat /\ Cardinality(StartedOnes) \in Nat
          /\ misses \in Nat /\ RunsPerDay \in Nat /\ poll.started \in Nat /\ poll.allowed \in Nat
      BY BudgetCounts
    <2>2. poll.at = "record" => poll.started < poll.allowed BY DEF TriggerTypes, PollInHand
    <2> QED BY <2>1, <2>2 DEF BudgetInv, InHand
  <1> QED BY <1>1, <1>2, TriggerTypesKept, OnceHolds, BudgetStepKept, PTL DEF TriggerSpec

-----------------------------------------------------------------------------
(* The backlog.  When a look lists everything that matches, every matching *)
(* message of the backlog is claimed once a baseline is marked, and is     *)
(* claimed or about to be while one is recorded.                           *)

LEMMA LooksAtAll ==
    ASSUME TriggerTypes, ListLimit >= Cardinality(Messages)
    PROVE  Listed = matching
  <1>1. matching \subseteq Messages
    <2>1. arrived \in 0 .. Cardinality(Messages) /\ matching \subseteq 1 .. arrived
      BY DEF TriggerTypes, TriggerTypeOK
    <2> QED BY <2>1, MessageNumbers
  <1>2. IsFiniteSet(matching) /\ Cardinality(matching) <= Cardinality(Messages)
        /\ Cardinality(matching) \in Nat
    BY <1>1, MessageNumbers, FS_Subset, FS_CardinalityType
  <1>3. ASSUME NEW m \in matching
        PROVE  Cardinality({n \in matching : n > m}) < ListLimit
    <2> DEFINE Newer == {n \in matching : n > m}
    <2>1. m \in Nat BY <1>1, MessageNumbers
    <2>2. Newer \subseteq matching /\ m \notin Newer BY <2>1
    <2> HIDE DEF Newer
    <2>3. Newer # matching BY <2>2
    <2>4. IsFiniteSet(Newer) /\ Cardinality(Newer) <= Cardinality(matching)
          /\ Cardinality(Newer) # Cardinality(matching)
      BY <1>2, <2>2, <2>3, FS_Subset
    <2>5. Cardinality(Newer) \in Nat BY <2>4, FS_CardinalityType
    <2>6. Cardinality(Newer) < ListLimit
      BY <1>2, <2>4, <2>5, MessageNumbers, TriggerAssumption
    <2> QED BY <2>6 DEF Newer
  <1> QED BY <1>3 DEF Listed

Unstarted == backlog \subseteq 1 .. arrived /\ \A m \in backlog : starts[m] = 0
OldClaimed == backlog \intersect matching \subseteq claims

BacklogInv ==
    removal = "none" =>
        /\ trigger.present
        /\ Unstarted
        /\ trigger.baselined => OldClaimed
        /\ poll.at # "idle" /\ poll.baselined => OldClaimed
        /\ poll.at \in {"decide", "claim", "start", "record"} /\ poll.baselined =>
              backlog \intersect poll.events \subseteq claims
        /\ poll.at \in {"decide", "baseline"} /\ ~poll.baselined =>
              backlog \intersect matching \subseteq claims \union poll.events
        /\ poll.at \in {"claim", "start", "record"} => poll.baselined
        /\ poll.at = "baseline" => ~poll.baselined
        /\ poll.at = "start" => poll.event \notin backlog

LEMMA BacklogStep ==
    ASSUME ListLimit >= Cardinality(Messages),
           TriggerTypes, BacklogInv, [TriggerNext]_triggerVars
    PROVE  BacklogInv'
  <1>0. /\ poll \in Polls /\ arrived \in Nat /\ starts \in [Messages -> Nat] /\ PollInHand
        /\ trigger \in [present : BOOLEAN, enabled : BOOLEAN, baselined : BOOLEAN]
    BY MessageNumbers DEF TriggerTypes, TriggerTypeOK, Polls
  <1> SUFFICES ASSUME removal' = "none" PROVE BacklogInv' BY DEF BacklogInv
  <1>r. removal = "none" /\ ~DeleteEvents /\ ~DeleteTrigger
    BY DEF TriggerNext, Arrive, Vanish, ClaimPoll, LookAround, Decide, BaselineOne,
           MarkBaselined, ClaimEvent, StartTriggered, RecordTriggered, PollDies,
           PauseTrigger, ResumeTrigger, DeleteEvents, DeleteTrigger, tableVars, triggerVars
  <1>1. CASE Arrive
    <2>1. /\ UNCHANGED <<trigger, removal, claims, poll, starts, backlog>>
          /\ arrived' = arrived + 1 /\ matching' = matching \union {arrived + 1}
      BY <1>1 DEF Arrive, tableVars
    <2>2. backlog \subseteq 1 .. arrived BY <1>r DEF BacklogInv, Unstarted
    <2>3. backlog \intersect matching' = backlog \intersect matching
      BY <1>0, <2>1, <2>2
    <2>4. Unstarted' BY <1>0, <1>r, <2>1, <2>2 DEF BacklogInv, Unstarted
    <2> QED BY <1>r, <2>1, <2>3, <2>4 DEF BacklogInv, OldClaimed
  <1>2. CASE \E m \in Messages : Vanish(m)
    <2>1. /\ UNCHANGED <<trigger, removal, claims, poll, starts, backlog, arrived>>
          /\ matching' \subseteq matching
      BY <1>2 DEF Vanish, tableVars
    <2> QED BY <1>r, <2>1 DEF BacklogInv, OldClaimed, Unstarted
  <1>4. CASE ClaimPoll
    <2>1. /\ UNCHANGED <<mailVars, trigger, removal, claims, starts, backlog>>
          /\ poll'.at = "look" /\ poll'.baselined = trigger.baselined
      BY <1>4 DEF ClaimPoll, tableVars, NoPoll
    <2> QED BY <1>r, <2>1 DEF BacklogInv, OldClaimed, Unstarted, mailVars
  <1>5. CASE LookAround /\ poll' # NoPoll
    <2>1. /\ UNCHANGED <<mailVars, trigger, removal, claims, starts, backlog>>
          /\ poll.at = "look" /\ poll' = [poll EXCEPT !.at = "decide", !.events = Listed]
      BY <1>5 DEF LookAround, tableVars
    <2>2. poll'.at = "decide" /\ poll'.events = Listed /\ poll'.baselined = poll.baselined
      BY <1>0, <2>1 DEF Polls
    <2>3. Listed = matching BY LooksAtAll
    <2> QED BY <1>r, <2>1, <2>2, <2>3 DEF BacklogInv, OldClaimed, Unstarted, mailVars
  <1>6. CASE Decide /\ poll' # NoPoll
    <2>1. /\ UNCHANGED <<mailVars, trigger, removal, claims, starts, backlog>>
          /\ poll.at = "decide"
          /\ \/ ~poll.baselined /\ poll' = [poll EXCEPT !.at = "baseline"]
             \/ poll.baselined /\ poll' = [poll EXCEPT !.at = "claim", !.allowed = Allowed]
      BY <1>6 DEF Decide, tableVars
    <2>2. CASE ~poll.baselined /\ poll' = [poll EXCEPT !.at = "baseline"]
      <3>1. /\ poll'.at = "baseline" /\ poll'.events = poll.events
            /\ poll'.baselined = poll.baselined
        BY <1>0, <2>2 DEF Polls
      <3> QED BY <1>r, <2>1, <2>2, <3>1 DEF BacklogInv, OldClaimed, Unstarted, mailVars
    <2>3. CASE poll.baselined /\ poll' = [poll EXCEPT !.at = "claim", !.allowed = Allowed]
      <3>1. /\ poll'.at = "claim" /\ poll'.events = poll.events
            /\ poll'.baselined = poll.baselined
        BY <1>0, <2>3 DEF Polls
      <3> QED BY <1>r, <2>1, <2>3, <3>1 DEF BacklogInv, OldClaimed, Unstarted, mailVars
    <2> QED BY <2>1, <2>2, <2>3
  <1>7. CASE BaselineOne
    <2>1. /\ UNCHANGED <<mailVars, trigger, removal, starts, backlog>>
          /\ trigger.present /\ poll.at = "baseline"
      BY <1>7, <1>r DEF BaselineOne, BacklogInv
    <2>2. PICK m \in poll.events : /\ claims' = claims \union {m}
                                   /\ poll' = [poll EXCEPT !.events = @ \ {m}]
      BY <1>7, <2>1 DEF BaselineOne
    <2>3. /\ poll'.at = "baseline" /\ poll'.events = poll.events \ {m}
          /\ poll'.baselined = poll.baselined
      BY <1>0, <2>1, <2>2 DEF Polls
    <2> QED BY <1>r, <2>1, <2>2, <2>3 DEF BacklogInv, OldClaimed, Unstarted, mailVars
  <1>8. CASE MarkBaselined
    <2>1. /\ UNCHANGED <<mailVars, removal, claims, starts, backlog>>
          /\ poll.at = "baseline" /\ poll.events = {} /\ poll'.at = "idle"
      BY <1>8 DEF MarkBaselined, NoPoll
    <2>2. OldClaimed BY <1>r, <2>1 DEF BacklogInv, OldClaimed
    <2>3. trigger'.present = trigger.present BY <1>0, <1>8 DEF MarkBaselined
    <2> QED BY <1>r, <2>1, <2>2, <2>3 DEF BacklogInv, OldClaimed, Unstarted, mailVars
  <1>9. CASE ClaimEvent /\ poll' # NoPoll
    <2>1. UNCHANGED <<mailVars, trigger, removal, starts, backlog>> /\ poll.at = "claim"
      BY <1>9 DEF ClaimEvent
    <2>2. PICK m \in poll.events :
             /\ claims' = claims \union {m}
             /\ \/ poll' = [poll EXCEPT !.events = @ \ {m}]
                \/ /\ m \notin claims
                   /\ poll' = [poll EXCEPT !.events = @ \ {m}, !.at = "start", !.event = m]
      BY <1>9, ClaimOfEvent
    <2>3. poll.baselined /\ (m \in backlog => m \in claims) BY <1>r, <2>1 DEF BacklogInv
    <2>4. /\ poll'.events = poll.events \ {m} /\ poll'.baselined = poll.baselined
          /\ poll'.at = "claim" \/ (poll'.at = "start" /\ poll'.event = m /\ m \notin claims)
      <3>1. CASE poll' = [poll EXCEPT !.events = @ \ {m}] BY <1>0, <2>1, <3>1 DEF Polls
      <3>2. CASE /\ m \notin claims
                 /\ poll' = [poll EXCEPT !.events = @ \ {m}, !.at = "start", !.event = m]
        BY <1>0, <3>2 DEF Polls
      <3> QED BY <2>2, <3>1, <3>2
    <2> QED BY <1>r, <2>1, <2>2, <2>3, <2>4 DEF BacklogInv, OldClaimed, Unstarted, mailVars
  <1>10. CASE StartTriggered
    <2>1. UNCHANGED <<mailVars, trigger, removal, claims, backlog>> /\ poll.at = "start"
      BY <1>10 DEF StartTriggered, tableVars
    <2>2. poll.event \in Messages /\ poll.event \notin backlog
      BY <1>0, <1>r, <2>1 DEF PollInHand, BacklogInv
    <2>3. \A m \in backlog : starts'[m] = starts[m]
      <3>1. backlog \subseteq Messages BY DEF TriggerTypes, TriggerTypeOK
      <3> QED BY <1>0, <1>10, <2>2, <3>1 DEF StartTriggered
    <2>4. /\ poll'.events = poll.events /\ poll'.baselined = poll.baselined
          /\ poll'.at \in {"claim", "record"}
      <3>1. CASE poll' = [poll EXCEPT !.at = "record"] BY <1>0, <3>1 DEF Polls
      <3>2. CASE poll' = [poll EXCEPT !.at = "claim", !.event = NoMessage]
        BY <1>0, <3>2 DEF Polls
      <3> QED BY <1>10, <3>1, <3>2 DEF StartTriggered
    <2> QED BY <1>r, <2>1, <2>3, <2>4 DEF BacklogInv, OldClaimed, Unstarted, mailVars
  <1>11. CASE RecordTriggered
    <2>1. UNCHANGED <<mailVars, trigger, removal, claims, starts, backlog>> /\ poll.at = "record"
      BY <1>11 DEF RecordTriggered
    <2>2. /\ poll'.events = poll.events /\ poll'.baselined = poll.baselined
          /\ poll'.at = "claim"
      BY <1>0, <1>11 DEF RecordTriggered, Polls
    <2> QED BY <1>r, <2>1, <2>2 DEF BacklogInv, OldClaimed, Unstarted, mailVars
  <1>12. CASE PauseTrigger
    <2>1. UNCHANGED <<mailVars, removal, claims, starts, backlog, poll>>
      BY <1>12 DEF PauseTrigger, OwnerActs
    <2>2. trigger'.present = trigger.present /\ trigger'.baselined = trigger.baselined
      BY <1>0, <1>12 DEF PauseTrigger
    <2> QED BY <1>r, <2>1, <2>2 DEF BacklogInv, OldClaimed, Unstarted, mailVars
  <1>13. CASE ResumeTrigger
    <2>1. /\ UNCHANGED <<mailVars, removal, claims, starts, poll>>
          /\ backlog' = IF poll.at = "idle"
                          THEN backlog \union {m \in 1 .. arrived : starts[m] = 0} ELSE backlog
      BY <1>13 DEF ResumeTrigger, OwnerActs
    <2>2. trigger'.present = trigger.present /\ ~trigger'.baselined
      BY <1>0, <1>13 DEF ResumeTrigger
    <2>3. Unstarted' BY <1>r, <2>1 DEF BacklogInv, Unstarted, mailVars
    <2>4. CASE poll.at = "idle" BY <1>r, <2>1, <2>2, <2>3, <2>4 DEF BacklogInv
    <2>5. CASE poll.at # "idle"
      BY <1>r, <2>1, <2>2, <2>3, <2>5 DEF BacklogInv, OldClaimed, mailVars
    <2> QED BY <2>4, <2>5
  <1>14. CASE UNCHANGED triggerVars
    BY <1>14 DEF triggerVars, BacklogInv, OldClaimed, Unstarted
  <1>15. CASE poll' = NoPoll /\ (LookAround \/ Decide \/ ClaimEvent \/ PollDies)
    <2>1. UNCHANGED <<mailVars, trigger, removal, starts, backlog>>
      BY <1>15 DEF LookAround, Decide, ClaimEvent, PollDies, tableVars
    <2>2. claims \subseteq claims'
      BY <1>15 DEF LookAround, Decide, ClaimEvent, PollDies, tableVars
    <2> QED BY <1>r, <1>15, <2>1, <2>2 DEF BacklogInv, OldClaimed, Unstarted, NoPoll, mailVars
  <1>16. PollDies => poll' = NoPoll BY DEF PollDies
  <1> QED BY <1>r, <1>1, <1>2, <1>4, <1>5, <1>6, <1>7, <1>8, <1>9, <1>10, <1>11,
             <1>12, <1>13, <1>14, <1>15, <1>16 DEF TriggerNext

(* A trigger starts nothing for what existed when it was made or resumed,  *)
(* provided a look lists everything that matches.  LIST_LIMIT does not     *)
(* promise that, and without it the statement fails (trigger_backlog).     *)
THEOREM BacklogLeftAlone ==
    ASSUME ListLimit >= Cardinality(Messages)
    PROVE  TriggerSpec => []BacklogStartsNothing
  <1>1. TriggerInit => BacklogInv
    <2> SUFFICES ASSUME TriggerInit PROVE BacklogInv OBVIOUS
    <2>1. 1 .. Existing \subseteq Messages BY MessageNumbers, TriggerAssumption
    <2> QED BY <2>1 DEF TriggerInit, BacklogInv, Unstarted, NoPoll
  <1>2. TriggerTypes /\ BacklogInv /\ [TriggerNext]_triggerVars => BacklogInv'
    BY BacklogStep
  <1>3. BacklogInv => BacklogStartsNothing BY DEF BacklogInv, Unstarted, BacklogStartsNothing
  <1> QED BY <1>1, <1>2, <1>3, TriggerTypesKept, PTL DEF TriggerSpec

-----------------------------------------------------------------------------
(* Webhooks.                                                               *)

(* A request past its first step carries an id.                            *)
IdsGiven == \A d \in Deliveries : delivery[d].at # "unsent" => delivery[d].id \in DeliveryIds

HookTypes == WebhookTypeOK /\ IdsGiven

(* A step of one request.                                                  *)
DeliveryStep(d) ==
    \/ \E id \in DeliveryIds : Receive(d, id)
    \/ CheckHold(d) \/ HoldDelivery(d)
    \/ ClaimDelivery(d)
    \/ StartDelivery(d)

LEMMA HookStepKinds ==
    WebhookNext <=> \/ \E d \in Deliveries : DeliveryStep(d)
                    \/ InstantPasses \/ PauseHook \/ ClearHook \/ RemoveHook
                    \/ HookDaemonDies
  BY DEF WebhookNext, DeliveryStep

LEMMA HookInitTypes == WebhookInit => HookTypes
  BY WebhookAssumption
     DEF WebhookInit, HookTypes, WebhookTypeOK, IdsGiven, Unsent, Never

Steps == {"unsent", "read", "claim", "start"} \union Answers
Requests == [at : Steps, id : DeliveryIds \union {"none"}, now : 0 .. LastInstant]

(* What moving one request to its next step changes.                       *)
LEMMA StepMoves ==
    ASSUME HookTypes, NEW d \in Deliveries, NEW to \in Steps, Step(d, to),
           delivery[d].at # "unsent"
    PROVE  /\ delivery' \in [Deliveries -> Requests]
           /\ IdsGiven'
           /\ delivery'[d].at = to
           /\ \A e \in Deliveries : /\ delivery'[e].id = delivery[e].id
                                    /\ e # d => delivery'[e] = delivery[e]
  <1>1. delivery \in [Deliveries -> Requests] BY DEF HookTypes, WebhookTypeOK, Requests, Steps
  <1>2. delivery' = [delivery EXCEPT ![d].at = to] BY DEF Step
  <1>3. delivery' \in [Deliveries -> Requests] BY <1>1, <1>2 DEF Requests
  <1>4. delivery'[d].at = to /\ delivery'[d].id = delivery[d].id BY <1>1, <1>2 DEF Requests
  <1>5. \A e \in Deliveries : e # d => delivery'[e] = delivery[e] BY <1>1, <1>2
  <1> QED BY <1>3, <1>4, <1>5 DEF HookTypes, IdsGiven

LEMMA DeliveryStepTypes ==
    ASSUME HookTypes, NEW d \in Deliveries, DeliveryStep(d)
    PROVE  HookTypes'
  <1>0. delivery \in [Deliveries -> Requests] BY DEF HookTypes, WebhookTypeOK, Requests, Steps
  <1> USE WebhookAssumption DEF HookTypes, WebhookTypeOK, IdsGiven, Never, Answers, Step
  <1>1. CASE \E id \in DeliveryIds : Receive(d, id)
    <2>1. PICK id \in DeliveryIds : Receive(d, id) BY <1>1
    <2>2. PICK to \in {"read", "unknown"} :
            delivery' = [delivery EXCEPT ![d].id = id, ![d].at = to]
      BY <2>1 DEF Receive
    <2>3. delivery' \in [Deliveries -> Requests]
      <3> DEFINE new == [delivery[d] EXCEPT !.id = id, !.at = to]
      <3>1. delivery[d] \in Requests /\ to \in Steps BY <1>0, <2>2 DEF Steps
      <3>2. new \in Requests BY <3>1 DEF Requests
      <3>3. delivery' = [delivery EXCEPT ![d] = new] BY <1>0, <2>2 DEF Requests
      <3> HIDE DEF new
      <3> QED BY <1>0, <3>2, <3>3
    <2>4. \A e \in Deliveries : delivery'[e].at # "unsent" => delivery'[e].id \in DeliveryIds
      BY <1>0, <2>2 DEF Requests
    <2>5. UNCHANGED <<instant, hook, reserved, hookRuns, hookActs, hookFaults>>
      BY <2>1 DEF Receive
    <2> QED BY <2>3, <2>4, <2>5 DEF Requests, Steps
  <1>2. CASE CheckHold(d) BY <1>2 DEF CheckHold
  <1>3. CASE HoldDelivery(d) BY <1>3 DEF HoldDelivery
  <1>4. CASE ClaimDelivery(d)
    <2>1. PICK to \in Steps : Step(d, to) BY <1>4 DEF ClaimDelivery, Steps
    <2>2. delivery' \in [Deliveries -> Requests] /\ IdsGiven'
      BY <1>4, <2>1, StepMoves DEF ClaimDelivery
    <2>3. delivery[d].id \in DeliveryIds /\ delivery[d].now \in 0 .. LastInstant
      BY <1>4 DEF ClaimDelivery
    <2>4. reserved' \in [DeliveryIds -> 0 .. Never] BY <1>4, <2>3 DEF ClaimDelivery
    <2>5. UNCHANGED <<instant, hook, hookRuns, hookActs, hookFaults>>
      BY <1>4 DEF ClaimDelivery
    <2> QED BY <2>2, <2>4, <2>5 DEF Requests, Steps
  <1>5. CASE StartDelivery(d)
    <2>1. PICK to \in Steps : Step(d, to) BY <1>5 DEF StartDelivery, Steps
    <2>2. delivery' \in [Deliveries -> Requests] /\ IdsGiven'
      BY <1>5, <2>1, StepMoves DEF StartDelivery
    <2>3. delivery[d].id \in DeliveryIds BY <1>5 DEF StartDelivery
    <2>4. hookRuns' \in [DeliveryIds -> Nat] /\ hookFaults' \in 0 .. MaxHookFaults
      <3>1. /\ hookRuns \in [DeliveryIds -> Nat] /\ hookFaults \in 0 .. MaxHookFaults
            /\ MaxHookFaults \in Nat
        OBVIOUS
      <3>2. \/ hookRuns' = [hookRuns EXCEPT ![delivery[d].id] = @ + 1] /\ hookFaults' = hookFaults
            \/ /\ hookFaults < MaxHookFaults /\ hookFaults' = hookFaults + 1
               /\ hookRuns' = hookRuns
        BY <1>5 DEF StartDelivery
      <3>3. hookRuns' \in [DeliveryIds -> Nat] BY <2>3, <3>1, <3>2
      <3>4. hookFaults' \in 0 .. MaxHookFaults BY <3>1, <3>2
      <3> QED BY <3>3, <3>4
    <2>5. UNCHANGED <<instant, hook, reserved, hookActs>> BY <1>5 DEF StartDelivery
    <2> QED BY <2>2, <2>4, <2>5 DEF Requests, Steps
  <1> QED BY <1>1, <1>2, <1>3, <1>4, <1>5 DEF DeliveryStep

LEMMA HookNextTypes == HookTypes /\ [WebhookNext]_webhookVars => HookTypes'
  <1> SUFFICES ASSUME HookTypes, [WebhookNext]_webhookVars PROVE HookTypes' OBVIOUS
  <1>1. CASE \E d \in Deliveries : DeliveryStep(d) BY <1>1, DeliveryStepTypes
  <1> USE WebhookAssumption DEF HookTypes, WebhookTypeOK, IdsGiven, Never, Answers
  <1>2. CASE InstantPasses BY <1>2 DEF InstantPasses
  <1>3. CASE PauseHook BY <1>3 DEF PauseHook
  <1>4. CASE ClearHook BY <1>4 DEF ClearHook
  <1>5. CASE RemoveHook BY <1>5 DEF RemoveHook
  <1>6. CASE HookDaemonDies
    <2>1. delivery \in [Deliveries -> Requests] BY DEF Requests, Steps
    <2>2. ASSUME NEW d \in Deliveries
          PROVE  delivery'[d] = IF delivery[d].at \in {"read", "claim", "start"}
                                 THEN [delivery[d] EXCEPT !.at = "cut"] ELSE delivery[d]
      BY <1>6, Zenon DEF HookDaemonDies
    <2>3. ASSUME NEW d \in Deliveries
          PROVE  /\ delivery'[d] \in Requests /\ delivery'[d].id = delivery[d].id
                 /\ delivery'[d].at # "unsent" => delivery[d].at # "unsent"
      <3>1. delivery[d] \in Requests BY <2>1
      <3>2. CASE delivery[d].at \in {"read", "claim", "start"}
        <4>1. delivery'[d] = [delivery[d] EXCEPT !.at = "cut"] BY <2>2, <3>2
        <4> QED BY <3>1, <3>2, <4>1 DEF Requests, Steps
      <3>3. CASE delivery[d].at \notin {"read", "claim", "start"} BY <2>2, <3>1, <3>3
      <3> QED BY <3>2, <3>3
    <2>4. delivery' \in [Deliveries -> Requests] BY <1>6, <2>3 DEF HookDaemonDies
    <2> QED BY <1>6, <2>3, <2>4 DEF HookDaemonDies, Requests, Steps
  <1>7. CASE UNCHANGED webhookVars BY <1>7 DEF webhookVars
  <1> QED BY <1>1, <1>2, <1>3, <1>4, <1>5, <1>6, <1>7, HookStepKinds

(* The tables and the requests under way keep their types (hook and        *)
(* claim_webhook_event), for any number of deliveries.                     *)
THEOREM HookTypesKept == WebhookSpec => []HookTypes
  BY HookInitTypes, HookNextTypes, PTL DEF WebhookSpec

-----------------------------------------------------------------------------
(* Deduplication.  While the webhook stands, a run was started only under  *)
(* a reservation, and a request that is about to start one holds its id    *)
(* alone: claim_webhook_event inserted the row it will start for.          *)

Standing == hook \in {"enabled", "paused"}
Starting(d) == delivery[d].at = "start"

StartedIsReserved ==
    \A i \in DeliveryIds : hookRuns[i] <= 1 /\ (hookRuns[i] > 0 => reserved[i] # Never)

StarterIsAlone ==
    \A d \in Deliveries : Starting(d) =>
        /\ reserved[delivery[d].id] # Never
        /\ hookRuns[delivery[d].id] = 0
        /\ \A e \in Deliveries : Starting(e) /\ delivery[e].id = delivery[d].id => e = d

DedupeInv == Standing => StartedIsReserved /\ StarterIsAlone

LEMMA DedupeStep ==
    ASSUME HookTypes, DedupeInv, [WebhookNext]_webhookVars
    PROVE  DedupeInv'
  <1> USE WebhookAssumption DEF HookTypes, WebhookTypeOK, IdsGiven, Never,
          DedupeInv, Standing, Starting, StartedIsReserved, StarterIsAlone, Step
  <1>1. ASSUME NEW d \in Deliveries, DeliveryStep(d) PROVE DedupeInv'
    <2>1. CASE \E id \in DeliveryIds : Receive(d, id) BY <2>1 DEF Receive
    <2>2. CASE CheckHold(d) BY <2>2 DEF CheckHold
    <2>3. CASE HoldDelivery(d) BY <2>3 DEF HoldDelivery
    <2>4. CASE ClaimDelivery(d)
      <3>1. CASE UNCHANGED reserved
        <4>1. PICK to \in Steps : Step(d, to) /\ (to = "start" => ~Standing)
          BY <2>4, <3>1 DEF ClaimDelivery, Answering, Steps, Answers
        <4>2. /\ delivery'[d].at = to
              /\ \A e \in Deliveries : /\ delivery'[e].id = delivery[e].id
                                       /\ e # d => delivery'[e] = delivery[e]
          BY <2>4, <4>1, StepMoves DEF ClaimDelivery
        <4> QED BY <2>4, <3>1, <4>1, <4>2 DEF ClaimDelivery
      <3>2. CASE /\ reserved[delivery[d].id] = Never /\ Step(d, "start")
                 /\ reserved' = [reserved EXCEPT ![delivery[d].id] = delivery[d].now]
        <4>1. /\ delivery'[d].at = "start"
              /\ \A e \in Deliveries : /\ delivery'[e].id = delivery[e].id
                                       /\ e # d => delivery'[e] = delivery[e]
          BY <2>4, <3>2, StepMoves DEF ClaimDelivery, Steps
        <4>2. delivery[d].id \in DeliveryIds /\ delivery[d].now # Never
          BY <2>4 DEF ClaimDelivery
        <4>3. \A i \in DeliveryIds : reserved[i] # Never => reserved'[i] # Never
          BY <3>2, <4>2
        <4>4. reserved'[delivery[d].id] # Never BY <3>2, <4>2
        <4>5. UNCHANGED <<hook, hookRuns>> BY <2>4 DEF ClaimDelivery
        <4>6. Standing => hookRuns[delivery[d].id] = 0 BY <3>2, <4>2
        <4>7. Standing => \A e \in Deliveries : Starting(e) => delivery[e].id # delivery[d].id
          BY <3>2
        <4>8. Standing => StartedIsReserved' BY <4>3, <4>5
        <4>9. ASSUME Standing, NEW e \in Deliveries, Starting(e)'
              PROVE  /\ reserved'[delivery'[e].id] # Never /\ hookRuns'[delivery'[e].id] = 0
                     /\ \A f \in Deliveries :
                           Starting(f)' /\ delivery'[f].id = delivery'[e].id => f = e
          <5>1. CASE e = d BY <5>1, <4>1, <4>4, <4>5, <4>6, <4>7, <4>9
          <5>2. CASE e # d
            <6>1. Starting(e) /\ delivery'[e] = delivery[e] BY <4>1, <4>9, <5>2
            <6>2. delivery[e].id \in DeliveryIds /\ reserved[delivery[e].id] # Never
                  /\ hookRuns[delivery[e].id] = 0
              BY <4>9, <6>1
            <6>3. delivery[e].id # delivery[d].id BY <4>7, <4>9, <6>1
            <6> QED BY <4>1, <4>3, <4>5, <4>9, <6>1, <6>2, <6>3
          <5> QED BY <5>1, <5>2
        <4>10. Standing => StarterIsAlone' BY <4>9
        <4> QED BY <4>5, <4>8, <4>10
      <3> QED BY <2>4, <3>1, <3>2 DEF ClaimDelivery
    <2>5. CASE StartDelivery(d)
      <3>1. PICK to \in Steps : Step(d, to) /\ to # "start"
        BY <2>5 DEF StartDelivery, Steps, Answers
      <3>2. /\ delivery'[d].at = to
            /\ \A e \in Deliveries : /\ delivery'[e].id = delivery[e].id
                                     /\ e # d => delivery'[e] = delivery[e]
        BY <2>5, <3>1, StepMoves DEF StartDelivery
      <3>3. delivery[d].id \in DeliveryIds BY <2>5 DEF StartDelivery
      <3>4. \A i \in DeliveryIds : i # delivery[d].id => hookRuns'[i] = hookRuns[i]
        BY <2>5 DEF StartDelivery
      <3>5. hookRuns'[delivery[d].id] <= hookRuns[delivery[d].id] + 1
            /\ hookRuns'[delivery[d].id] \in Nat
        BY <2>5, <3>3 DEF StartDelivery
      <3>6. UNCHANGED <<hook, reserved>> BY <2>5 DEF StartDelivery
      <3>7. Standing => StartedIsReserved'
        BY <2>5, <3>3, <3>4, <3>5, <3>6 DEF StartDelivery
      <3>8. Standing => StarterIsAlone'
        BY <2>5, <3>1, <3>2, <3>3, <3>4, <3>6 DEF StartDelivery
      <3> QED BY <3>6, <3>7, <3>8
    <2> QED BY <1>1, <2>1, <2>2, <2>3, <2>4, <2>5 DEF DeliveryStep
  <1>2. CASE InstantPasses BY <1>2 DEF InstantPasses
  <1>3. CASE PauseHook BY <1>3 DEF PauseHook
  <1>4. CASE ClearHook BY <1>4 DEF ClearHook
  <1>5. CASE RemoveHook BY <1>5 DEF RemoveHook
  <1>6. CASE HookDaemonDies BY <1>6 DEF HookDaemonDies
  <1>7. CASE UNCHANGED webhookVars BY <1>7 DEF webhookVars
  <1> QED BY <1>1, <1>2, <1>3, <1>4, <1>5, <1>6, <1>7, HookStepKinds

(* A delivery id starts at most one run, over any number of retries and    *)
(* concurrent copies, failed starts and deaths of the daemon: the unique   *)
(* row claim_webhook_event inserts outlives them all.                      *)
THEOREM DeliveriesStartOnce == WebhookSpec => []DeliveryStartsOnce
  <1>1. WebhookInit => DedupeInv
    BY DEF WebhookInit, DedupeInv, StartedIsReserved, StarterIsAlone, Starting, Unsent
  <1>2. DedupeInv => DeliveryStartsOnce
    BY DEF DedupeInv, Standing, StartedIsReserved, DeliveryStartsOnce
  <1> QED BY <1>1, <1>2, HookTypesKept, DedupeStep, PTL DEF WebhookSpec

-----------------------------------------------------------------------------
(* The rolling budget.  A reservation counts every other one it shares a   *)
(* window with, earlier or later than its own stale instant: all of them   *)
(* lie in the window that ends at it, or after it.                         *)

Window(from) ==
    {i \in DeliveryIds : reserved[i] # Never /\ reserved[i] \in from .. (from + Minute)}

LEMMA ReservationFits ==
    ASSUME HookTypes, RollingBudgetKept, NEW d \in Deliveries, ClaimDelivery(d)
    PROVE  RollingBudgetKept'
  <1> USE WebhookAssumption DEF HookTypes, WebhookTypeOK, IdsGiven, Never
  <1> DEFINE id == delivery[d].id
             now == delivery[d].now
  <1>1. id \in DeliveryIds /\ now \in 0 .. LastInstant BY DEF ClaimDelivery
  <1>2. CASE reserved' = reserved BY <1>2 DEF RollingBudgetKept
  <1>3. CASE /\ Cardinality(InWindow(now)) < PerMinute
             /\ reserved' = [reserved EXCEPT ![id] = now]
    <2> SUFFICES ASSUME NEW from \in 0 .. LastInstant
                 PROVE  Cardinality(Window(from)') <= PerMinute
      BY DEF RollingBudgetKept, Window
    <2>1. CASE now \in from .. (from + Minute)
      <3>1. Window(from)' \subseteq InWindow(now) \union {id}
        <4> SUFFICES ASSUME NEW i \in Window(from)', i # id PROVE i \in InWindow(now) OBVIOUS
        <4>1. i \in DeliveryIds /\ reserved[i] # Never /\ reserved[i] \in from .. (from + Minute)
          BY <1>1, <1>3 DEF Window
        <4>2. reserved[i] \in Nat /\ reserved[i] + Minute >= now BY <1>1, <2>1, <4>1
        <4> QED BY <4>1, <4>2 DEF InWindow
      <3>2. InWindow(now) \subseteq DeliveryIds BY DEF InWindow
      <3>3. IsFiniteSet(InWindow(now)) BY <3>2, FS_Subset
      <3>4. /\ IsFiniteSet(InWindow(now) \union {id})
            /\ Cardinality(InWindow(now) \union {id}) <= Cardinality(InWindow(now)) + 1
        BY <3>3, OneMore
      <3>5. Cardinality(Window(from)') <= Cardinality(InWindow(now) \union {id})
        BY <3>1, <3>4, FS_Subset
      <3>6. /\ Cardinality(InWindow(now)) \in Nat
            /\ Cardinality(InWindow(now) \union {id}) \in Nat
            /\ Cardinality(Window(from)') \in Nat
        BY <3>1, <3>3, <3>4, FS_Subset, FS_CardinalityType
      <3> QED BY <1>3, <3>4, <3>5, <3>6
    <2>2. CASE now \notin from .. (from + Minute)
      <3>1. Window(from)' \subseteq Window(from) BY <1>1, <1>3, <2>2 DEF Window
      <3>2. Window(from) \subseteq DeliveryIds BY DEF Window
      <3>3. IsFiniteSet(Window(from)) BY <3>2, FS_Subset
      <3>4. Cardinality(Window(from)') <= Cardinality(Window(from)) BY <3>1, <3>3, FS_Subset
      <3>5. Cardinality(Window(from)') \in Nat /\ Cardinality(Window(from)) \in Nat
        BY <3>1, <3>3, FS_Subset, FS_CardinalityType
      <3>6. Cardinality(Window(from)) <= PerMinute BY DEF RollingBudgetKept, Window
      <3> QED BY <3>4, <3>5, <3>6
    <2> QED BY <2>1, <2>2
  <1> QED BY <1>2, <1>3 DEF ClaimDelivery

LEMMA NothingReserved ==
    ASSUME reserved = [i \in DeliveryIds |-> Never]
    PROVE  RollingBudgetKept
  <1>1. \A from \in 0 .. LastInstant : Window(from) = {} BY DEF Window
  <1>2. \A from \in 0 .. LastInstant : Cardinality(Window(from)) = 0 BY <1>1, FS_EmptySet
  <1> QED BY <1>2, WebhookAssumption DEF RollingBudgetKept, Window

LEMMA BudgetStep ==
    ASSUME HookTypes, RollingBudgetKept, [WebhookNext]_webhookVars
    PROVE  RollingBudgetKept'
  <1>1. CASE UNCHANGED reserved BY <1>1 DEF RollingBudgetKept
  <1>2. ASSUME NEW d \in Deliveries, DeliveryStep(d) PROVE RollingBudgetKept'
    <2>1. CASE ClaimDelivery(d) BY <2>1, ReservationFits
    <2> QED BY <1>1, <1>2, <2>1 DEF DeliveryStep, Receive, CheckHold, HoldDelivery, StartDelivery
  <1>3. CASE ClearHook \/ RemoveHook
    <2>1. (reserved = [i \in DeliveryIds |-> Never])' BY <1>3 DEF ClearHook, RemoveHook, Never
    <2> QED BY <2>1, NothingReserved, PTL
  <1>4. CASE InstantPasses \/ PauseHook \/ HookDaemonDies \/ UNCHANGED webhookVars
    BY <1>1, <1>4 DEF InstantPasses, PauseHook, HookDaemonDies, webhookVars
  <1> QED BY <1>2, <1>3, <1>4, HookStepKinds

(* No window of a minute holds more reservations than the budget, for any  *)
(* window, budget and number of requests, in whatever order they commit.   *)
THEOREM RollingBudgetSound == WebhookSpec => []RollingBudgetKept
  <1>1. WebhookInit => RollingBudgetKept BY NothingReserved DEF WebhookInit
  <1> QED BY <1>1, HookTypesKept, BudgetStep, PTL DEF WebhookSpec
=============================================================================

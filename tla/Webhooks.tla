------------------------------ MODULE Webhooks ------------------------------
(***************************************************************************)
(* Concurrent deliveries to one webhook: the handler hook of               *)
(* trigger_service.rs and the transaction claim_webhook_event of           *)
(* trigger_repository.rs, which reserves a delivery's identity and its     *)
(* place in the rolling budget before any run is started.                  *)
(*                                                                         *)
(* Every request reads the trigger and the clock before its transaction,   *)
(* so both may be stale in it; senders retry with the same delivery id.    *)
(***************************************************************************)
EXTENDS Naturals, FiniteSets

CONSTANTS Deliveries,   \* bound: the requests, 1 .. n as they come in
          DeliveryIds,  \* delivery ids senders use
          Minute,       \* the length of the rolling window
          PerMinute,    \* MAX_STARTS_PER_POLL: deliveries a window admits
          LastInstant,  \* bound: the last instant explored
          MaxHookActs,  \* bound: the owner's requests
          MaxHookFaults \* bound: failed starts and deaths of the daemon

ASSUME WebhookAssumption ==
    /\ IsFiniteSet(Deliveries) /\ Deliveries = 1 .. Cardinality(Deliveries)
    /\ IsFiniteSet(DeliveryIds)
    /\ Minute \in Nat /\ PerMinute \in Nat /\ LastInstant \in Nat
    /\ MaxHookActs \in Nat /\ MaxHookFaults \in Nat

VARIABLES
    instant,   \* the clock
    hook,      \* the webhook's row: enabled, paused, clearing (its events are gone) or gone
    delivery,  \* each request: its step, its id, the instant it read
    reserved,  \* trigger_events: the instant under which an id was reserved, or Never
    hookRuns,  \* how many runs each id started
    hookActs,  \* requests of the owner so far
    hookFaults \* failed starts and deaths so far

webhookVars == <<instant, hook, delivery, reserved, hookRuns, hookActs, hookFaults>>

Never == LastInstant + 1
Unsent == [at |-> "unsent", id |-> "none", now |-> 0]
Answers == {"accepted", "duplicate", "limited", "unknown", "unavailable", "cut"}

WebhookTypeOK ==
    /\ instant \in 0 .. LastInstant
    /\ hook \in {"enabled", "paused", "clearing", "gone"}
    /\ delivery \in [Deliveries ->
          [at : {"unsent", "read", "claim", "start"} \union Answers,
           id : DeliveryIds \union {"none"}, now : 0 .. LastInstant]]
    /\ reserved \in [DeliveryIds -> 0 .. Never]
    /\ hookRuns \in [DeliveryIds -> Nat]
    /\ hookActs \in 0 .. MaxHookActs /\ hookFaults \in 0 .. MaxHookFaults

WebhookInit ==
    /\ instant = 0 /\ hook = "enabled"
    /\ delivery = [d \in Deliveries |-> Unsent]
    /\ reserved = [i \in DeliveryIds |-> Never]
    /\ hookRuns = [i \in DeliveryIds |-> 0]
    /\ hookActs = 0 /\ hookFaults = 0

(* The row says enabled, while its events are being deleted too.           *)
Answering == hook \in {"enabled", "clearing"}

Step(d, to) == delivery' = [delivery EXCEPT ![d].at = to]

-----------------------------------------------------------------------------
(* The handler.                                                            *)

(* find_webhook_by_secret_hash: a paused or removed webhook is a 404.      *)
Receive(d, id) ==
    /\ delivery[d].at = "unsent" /\ \A e \in Deliveries : e < d => delivery[e].at # "unsent"
    /\ delivery' = [delivery EXCEPT ![d].id = id,
                       ![d].at = IF Answering THEN "read" ELSE "unknown"]
    /\ UNCHANGED <<instant, hook, reserved, hookRuns, hookActs, hookFaults>>

(* The clock is read, then the project's hold and the admission gate: a    *)
(* held delivery is a 503 and reserves nothing.                            *)
CheckHold(d) ==
    /\ delivery[d].at = "read"
    /\ delivery' = [delivery EXCEPT ![d].now = instant, ![d].at = "claim"]
    /\ UNCHANGED <<instant, hook, reserved, hookRuns, hookActs, hookFaults>>

HoldDelivery(d) ==
    /\ delivery[d].at = "read"
    /\ Step(d, "unavailable")
    /\ UNCHANGED <<instant, hook, reserved, hookRuns, hookActs, hookFaults>>

(* The reservations of the window that ends at now.                        *)
InWindow_OpenStart(now) == {i \in DeliveryIds : reserved[i] # Never /\ reserved[i] + Minute > now}

InWindow(now) == {i \in DeliveryIds : reserved[i] # Never /\ reserved[i] + Minute >= now}

(* claim_webhook_event, one transaction: the enabled webhook, the          *)
(* duplicate, the budget, the reservation.  The day's budget is the same   *)
(* with a longer window.                                                   *)
ClaimDelivery_OldDuplicate(d) ==
    /\ delivery[d].at = "claim"
    /\ LET id  == delivery[d].id
           now == delivery[d].now
       IN  \/ /\ ~Answering \/ id \in InWindow(now) \/ Cardinality(InWindow(now)) >= PerMinute
              /\ Step(d, "limited") /\ reserved' = reserved
           \/ /\ Answering /\ id \notin InWindow(now)
              /\ Cardinality(InWindow(now)) < PerMinute
              /\ Step(d, "start") /\ reserved' = [reserved EXCEPT ![id] = now]
    /\ UNCHANGED <<instant, hook, hookRuns, hookActs, hookFaults>>

ClaimDelivery(d) ==
    /\ delivery[d].at = "claim"
    /\ LET id  == delivery[d].id
           now == delivery[d].now
       IN  \/ /\ ~Answering
              /\ Step(d, "unknown") /\ reserved' = reserved
           \/ /\ Answering /\ reserved[id] # Never
              /\ Step(d, "duplicate") /\ reserved' = reserved
           \/ /\ Answering /\ reserved[id] = Never
              /\ Cardinality(InWindow(now)) >= PerMinute
              /\ Step(d, "limited") /\ reserved' = reserved
           \/ /\ Answering /\ reserved[id] = Never
              /\ Cardinality(InWindow(now)) < PerMinute
              /\ Step(d, "start") /\ reserved' = [reserved EXCEPT ![id] = now]
    /\ UNCHANGED <<instant, hook, hookRuns, hookActs, hookFaults>>

(* A start that fails answers 503 and keeps the reservation.  That         *)
(* record_trigger_run then names the run changes no later answer.          *)
StartDelivery(d) ==
    /\ delivery[d].at = "start"
    /\ \/ /\ hookRuns' = [hookRuns EXCEPT ![delivery[d].id] = @ + 1]
          /\ Step(d, "accepted")
          /\ hookFaults' = hookFaults
       \/ /\ hookFaults < MaxHookFaults /\ hookFaults' = hookFaults + 1
          /\ Step(d, "unavailable")
          /\ hookRuns' = hookRuns
    /\ UNCHANGED <<instant, hook, reserved, hookActs>>

-----------------------------------------------------------------------------
(* Time, the owner and the daemon.                                         *)

InstantPasses ==
    /\ instant < LastInstant /\ instant' = instant + 1
    /\ UNCHANGED <<hook, delivery, reserved, hookRuns, hookActs, hookFaults>>

PauseHook ==
    /\ hook \in {"enabled", "paused"} /\ hookActs < MaxHookActs
    /\ hook' = (IF hook = "enabled" THEN "paused" ELSE "enabled")
    /\ hookActs' = hookActs + 1
    /\ UNCHANGED <<instant, delivery, reserved, hookRuns, hookFaults>>

(* delete_trigger: the events and then the webhook, in two statements (of  *)
(* a paused webhook too, which then refuses either way).                   *)
ClearHook ==
    /\ hook = "enabled" /\ hookActs < MaxHookActs
    /\ hook' = "clearing" /\ reserved' = [i \in DeliveryIds |-> Never]
    /\ hookActs' = hookActs + 1
    /\ UNCHANGED <<instant, delivery, hookRuns, hookFaults>>

RemoveHook ==
    /\ hook = "clearing"
    /\ hook' = "gone" /\ reserved' = [i \in DeliveryIds |-> Never]
    /\ UNCHANGED <<instant, delivery, hookRuns, hookActs, hookFaults>>

(* Requests under way end without an answer; the sender may send again.    *)
HookDaemonDies ==
    /\ hookFaults < MaxHookFaults
    /\ \E d \in Deliveries : delivery[d].at \in {"read", "claim", "start"}
    /\ hookFaults' = hookFaults + 1
    /\ delivery' = [d \in Deliveries |->
          IF delivery[d].at \in {"read", "claim", "start"}
            THEN [delivery[d] EXCEPT !.at = "cut"] ELSE delivery[d]]
    /\ UNCHANGED <<instant, hook, reserved, hookRuns, hookActs>>

WebhookNext ==
    \/ \E d \in Deliveries :
          \/ \E id \in DeliveryIds : Receive(d, id)
          \/ CheckHold(d) \/ HoldDelivery(d)
          \/ ClaimDelivery(d)
          \/ StartDelivery(d)
    \/ InstantPasses
    \/ PauseHook
    \/ ClearHook
    \/ RemoveHook
    \/ HookDaemonDies

WebhookSpec == WebhookInit /\ [][WebhookNext]_webhookVars

-----------------------------------------------------------------------------
(* Properties.                                                             *)

(* A delivery id starts at most one run, over retries, concurrent copies,  *)
(* failed starts and deaths of the daemon; a removal's two statements are  *)
(* left out.                                                               *)
DeliveryStartsOnce ==
    hook \in {"enabled", "paused"} => \A i \in DeliveryIds : hookRuns[i] <= 1

(* No window of a minute holds more reservations than the budget, although *)
(* every request reads the clock before its transaction and commits in     *)
(* another order than it read it.                                          *)
RollingBudgetKept ==
    \A from \in 0 .. LastInstant :
        Cardinality({i \in DeliveryIds :
            reserved[i] # Never /\ reserved[i] \in from .. (from + Minute)}) <= PerMinute
=============================================================================

----------------------------- MODULE EffectGate -----------------------------
(***************************************************************************)
(* What the tool-call ledger promises a reader who knows nothing of runs,  *)
(* drivers, requests or restarts: a call passes a gate at most once, on    *)
(* consent where consent was asked for and never after it was revoked; its *)
(* effect happens at most once and only behind the gate; and one truthful  *)
(* verdict closes it for ever.                                             *)
(***************************************************************************)
EXTENDS Naturals

CONSTANT Calls

VARIABLES
    gate,     \* "open" until the call is handed over, then a verdict
    consent,  \* "unasked", "asked", "yes" or "no"
    effects,  \* how often the effect happened
    revoked   \* calls that may not be handed over any more

vars == <<gate, consent, effects, revoked>>

Verdicts == {"confirmed", "failed", "unknown"}

Init ==
    /\ gate = [c \in Calls |-> "open"]
    /\ consent = [c \in Calls |-> "unasked"]
    /\ effects = [c \in Calls |-> 0]
    /\ revoked = {}

Ask(c) ==
    /\ gate[c] = "open" /\ consent[c] = "unasked"
    /\ consent' = [consent EXCEPT ![c] = "asked"]
    /\ UNCHANGED <<gate, effects, revoked>>

Answer(c, a) ==
    /\ consent[c] = "asked"
    /\ consent' = [consent EXCEPT ![c] = a]
    /\ UNCHANGED <<gate, effects, revoked>>

(* Revocation takes whole sets of calls and withdraws their open questions *)
(* with them; it cannot reach a call that was already handed over.         *)
Revoke(S, withdrawn) ==
    /\ \A c \in S : gate[c] = "open"
    /\ \A c \in withdrawn : consent[c] = "asked"
    /\ revoked' = revoked \cup S
    /\ consent' = [c \in Calls |-> IF c \in withdrawn THEN "no" ELSE consent[c]]
    /\ UNCHANGED <<gate, effects>>

Hand(c) ==
    /\ gate[c] = "open"
    /\ c \notin revoked
    /\ consent[c] \in {"unasked", "yes"}
    /\ gate' = [gate EXCEPT ![c] = "handed"]
    /\ UNCHANGED <<consent, effects, revoked>>

Perform(c) ==
    /\ gate[c] = "handed" /\ effects[c] = 0
    /\ effects' = [effects EXCEPT ![c] = 1]
    /\ UNCHANGED <<gate, consent, revoked>>

(* A call that was never handed over can only be closed as failed.         *)
Conclude(c, v) ==
    /\ \/ gate[c] = "handed"
       \/ gate[c] = "open" /\ v = "failed"
    /\ v = "confirmed" => effects[c] = 1
    /\ v = "failed" => effects[c] = 0
    /\ gate' = [gate EXCEPT ![c] = v]
    /\ UNCHANGED <<consent, effects, revoked>>

Next ==
    \/ \E c \in Calls : Ask(c) \/ Hand(c) \/ Perform(c)
    \/ \E c \in Calls, a \in {"yes", "no"} : Answer(c, a)
    \/ \E S \in SUBSET Calls, W \in SUBSET Calls : Revoke(S, W)
    \/ \E c \in Calls, v \in Verdicts : Conclude(c, v)

Spec == Init /\ [][Next]_vars
=============================================================================

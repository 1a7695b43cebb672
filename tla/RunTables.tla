----------------------------- MODULE RunTables -----------------------------
(***************************************************************************)
(* The two closed transition tables every writer of the daemon consults:   *)
(* the agent run's (crates/jarvis-core/src/run.rs) and the tool call's     *)
(* (crates/jarvis-core/src/tool_outcome.rs).  Both are relations, so a     *)
(* guard asks whether an edge is in the table.                             *)
(***************************************************************************)

(* RunState, split into the states a run can still leave and the settled   *)
(* ones (RunState::is_terminal).                                           *)
Terminal == {"completed", "cancelled", "failed"}

Unsettled == {"received", "context_building", "planning", "executing",
              "observing", "awaiting_approval", "responding"}

RunStates == Unsettled \cup Terminal

(* RunState::can_transition_to.  A parked run cannot fail: nothing is in   *)
(* progress while a person decides.                                        *)
CanTransitionTo(s, next) ==
    \/ s = "received"          /\ next \in {"context_building", "failed", "cancelled"}
    \/ s = "context_building"  /\ next \in {"planning", "failed", "cancelled"}
    \/ s = "planning"          /\ next \in {"executing", "awaiting_approval", "failed", "cancelled"}
    \/ s = "executing"         /\ next \in {"observing", "failed", "cancelled"}
    \/ s = "observing"         /\ next \in {"planning", "responding", "failed", "cancelled"}
    \/ s = "awaiting_approval" /\ next \in {"executing", "responding", "cancelled"}
    \/ s = "responding"        /\ next \in {"completed", "failed", "cancelled"}

(* ToolOutcome::is_terminal and ToolOutcome::can_advance_to.  No adapter   *)
(* and no repository of the daemon writes the outcome `cancelled`, so the  *)
(* edges into it are left out.                                             *)
ResolvedOutcomes == {"confirmed", "failed", "unknown"}

ToolOutcomes == {"requested", "authorized", "submitted"} \cup ResolvedOutcomes

CanAdvanceTo(o, next) ==
    \/ o = "requested"  /\ next \in {"authorized", "failed", "unknown"}
    \/ o = "authorized" /\ next \in {"submitted", "failed", "unknown"}
    \/ o = "submitted"  /\ next \in {"confirmed", "failed", "unknown"}
=============================================================================

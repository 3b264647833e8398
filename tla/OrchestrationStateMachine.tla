--------------------- MODULE OrchestrationStateMachine ---------------------
(***************************************************************************)
(* The states of an orchestration session and the transitions that         *)
(* OrchestrationStateMachine.transition accepts; any other transition      *)
(* throws and leaves the session unchanged.                                *)
(***************************************************************************)

OrchestrationState ==
  {"created", "planning", "awaiting_plan_approval", "scheduled", "running",
   "replanning", "merging_changes", "verifying", "reviewing",
   "security_review", "awaiting_final_approval", "completed", "failed",
   "cancelled", "security_stopped", "recovery_required"}

Transitions ==
  [created           |-> {"planning", "cancelled", "failed"},
   planning          |-> {"awaiting_plan_approval", "scheduled", "failed",
                          "cancelled"},
   awaiting_plan_approval
                     |-> {"scheduled", "cancelled", "failed"},
   scheduled         |-> {"running", "cancelled", "recovery_required"},
   running           |-> {"replanning", "merging_changes", "verifying",
                          "reviewing", "security_review",
                          "awaiting_final_approval", "failed", "cancelled",
                          "security_stopped", "recovery_required"},
   replanning        |-> {"awaiting_plan_approval", "scheduled", "failed",
                          "cancelled"},
   merging_changes   |-> {"verifying", "reviewing", "failed", "cancelled",
                          "recovery_required"},
   verifying         |-> {"reviewing", "security_review", "replanning",
                          "failed", "cancelled", "recovery_required"},
   reviewing         |-> {"security_review", "replanning",
                          "awaiting_final_approval", "failed", "cancelled",
                          "recovery_required"},
   security_review   |-> {"awaiting_final_approval", "security_stopped",
                          "replanning", "failed", "cancelled",
                          "recovery_required"},
   awaiting_final_approval
                     |-> {"completed", "replanning", "cancelled", "failed"},
   completed         |-> {},
   failed            |-> {"recovery_required"},
   cancelled         |-> {},
   security_stopped  |-> {"replanning", "cancelled"},
   recovery_required |-> {"scheduled", "cancelled", "failed"}]

CanTransition(from, to) == to \in Transitions[from]

\* Wrong variant of Interrupted: a session that was running is left alone.
InterruptedButRunning ==
  {"scheduled", "merging_changes", "verifying", "reviewing", "security_review"}

\* The states that recovery does not trust after a restart.
Interrupted ==
  {"scheduled", "running", "merging_changes", "verifying", "reviewing",
   "security_review"}

\* The user's last words: nothing may follow them.
Terminal == {"completed", "cancelled"}
=============================================================================

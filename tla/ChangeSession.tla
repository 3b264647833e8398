--------------------------- MODULE ChangeSession ---------------------------
(***************************************************************************)
(* A LocalChangeService and its VerificationCoordinator as the agent loop  *)
(* and the runtime server see them: the state of the session's current     *)
(* ChangeSet and of the checks after an apply.  What an apply does to the  *)
(* files is the subject of ChangeEngine; here it is one of the outcomes    *)
(* that ChangeEngine gives it.                                             *)
(***************************************************************************)
EXTENDS Integers

CONSTANTS
  MaxOperations,      \* limits.maxChangeOperations
  MaxRepairAttempts,  \* maxRepairAttempts
  RollbackOnFailure,  \* rollbackOnVerificationFailure
  VerifyAfterApply,   \* verificationEnabled and verifyAfterApply
  Verdict             \* how a verification may end

ASSUME ChangeSessionAssumption ==
  /\ MaxOperations \in Nat \ {0}
  /\ MaxRepairAttempts \in Nat
  /\ {RollbackOnFailure, VerifyAfterApply} \subseteq BOOLEAN
  /\ Verdict \subseteq {"passed", "failed", "partial", "unavailable"}

Status == {"draft", "previewed", "pending_confirmation", "rejected", "applied",
           "failed", "rolled_back"}

Session ==
  [write : BOOLEAN,                  \* mode "write"; "readonly" otherwise
   status : Status, ops : 0 .. MaxOperations,
   checkpoint : BOOLEAN,             \* a checkpoint has been made
   awaitingRepair : BOOLEAN, repairAttempts : 0 .. MaxRepairAttempts,
   maxReached : BOOLEAN, rolledBack : BOOLEAN, report : Verdict \cup {"none"}]

NewSession(write) ==
  [write |-> write, status |-> "draft", ops |-> 0, checkpoint |-> FALSE,
   awaitingRepair |-> FALSE, repairAttempts |-> 0,
   maxReached |-> FALSE, rolledBack |-> FALSE, report |-> "none"]

-----------------------------------------------------------------------------
(* The ChangeSet.                                                          *)

\* assertMutable.
Mutable(s) == s.status \notin {"applied", "failed", "rolled_back"}

\* addPreparedOperation goes on to a new ChangeSet after an apply or a rollback.
Renewed(s) ==
  IF s.status \in {"applied", "rolled_back"}
  THEN [s EXCEPT !.status = "draft", !.ops = 0] ELSE s

CanAdd(s) == s.write /\ Mutable(Renewed(s)) /\ Renewed(s).ops < MaxOperations

Added(s) == [Renewed(s) EXCEPT !.status = "draft", !.ops = @ + 1]

CanEdit(s) == s.write /\ Mutable(s)

Cleared(s) == [s EXCEPT !.status = "draft", !.ops = 0]

\* previewChangeSet rewrites whatever status there was.
Previewed(s, valid) ==
  [s EXCEPT !.status = IF valid THEN "previewed" ELSE "draft"]

\* applyChangeSet up to the confirmation; it throws otherwise, or when the
\* ChangeSet turns out not to fit the files.
CanApply(s) == s.write /\ s.status # "applied" /\ s.ops > 0

Unconfirmed(s, decision) ==
  [s EXCEPT !.status = IF decision = "pending" THEN "pending_confirmation"
                       ELSE "rejected"]

\* After the confirmation: validated again, then applied, or undone on failure.
Written(s) == [s EXCEPT !.status = "applied", !.checkpoint = TRUE]

WriteFailed(s) == [s EXCEPT !.status = "failed", !.checkpoint = TRUE]

-----------------------------------------------------------------------------
(* The coordinator.                                                        *)

\* beforeApply throws RepairAttemptLimitError.
RepairRefused(s) == s.awaitingRepair /\ s.repairAttempts >= MaxRepairAttempts

Refused(s) == [s EXCEPT !.maxReached = TRUE]

\* afterApply: the checks of an applied ChangeSet, and what follows from them.
\* When the rollback itself fails, the exception leaves the rest as it was.
AfterApply(s, verdict, rollbackFails) ==
  LET attempts == s.repairAttempts + IF s.awaitingRepair THEN 1 ELSE 0
      failed == verdict = "failed"
      undone == failed /\ RollbackOnFailure /\ ~rollbackFails
  IN [s EXCEPT !.report = verdict,
               !.repairAttempts = attempts,
               !.awaitingRepair = failed /\ ~undone,
               !.maxReached = @ \/ (failed /\ attempts >= MaxRepairAttempts),
               !.rolledBack = @ \/ undone,
               !.status = IF undone THEN "rolled_back" ELSE @]

\* The verification throws: it would repeat the last one, or no more commands
\* may be run.  The exception leaves afterApply before it decides anything.
VerifyThrows(s) ==
  [s EXCEPT !.repairAttempts = @ + IF s.awaitingRepair THEN 1 ELSE 0]

\* What afterApply makes of an applied ChangeSet.
Verified(s) ==
  IF VerifyAfterApply
  THEN {AfterApply(s, v, f) : v \in Verdict, f \in BOOLEAN} \cup {VerifyThrows(s)}
  ELSE {s}
=============================================================================

----------------------------- MODULE AgentLoop -----------------------------
(***************************************************************************)
(* AgentLoop.run: the model is called, its tool calls are carried out one  *)
(* after the other, and so on until it answers without a call, a limit is  *)
(* reached, the user aborts or something fails.  The tools are those of a  *)
(* session in mode "write"; an apply verifies the project, lets the model  *)
(* repair what it broke a limited number of times, or undoes it.           *)
(*                                                                         *)
(* The model is the environment: any response may come.  Time passes and   *)
(* the user aborts at any moment.  The files are told apart only by which  *)
(* of a few contents the agent has given them.                             *)
(***************************************************************************)
EXTENDS ChangeSession, FiniteSets

CONSTANTS
  MaxSteps,          \* maxSteps and maxModelCalls, whichever is less
  MaxCalls,          \* bound: tool calls in one response
  Content,           \* what the agent may give the files instead of 0
  Decision           \* what the confirmation provider answers

ASSUME LoopAssumption ==
  /\ {MaxSteps, MaxCalls} \subseteq Nat \ {0}
  /\ Content \subseteq Nat \ {0}
  /\ Decision \subseteq {"approved", "pending", "rejected"}

\* A "read" is any call that changes nothing the rest depends on.
Call ==
  {[tool |-> "prepare", arg |-> c] : c \in Content}
    \cup {[tool |-> t, arg |-> 0] :
            t \in {"read", "clear", "preview", "apply", "restore",
                   "run_verification"}}

Original == 0
Nothing == [content |-> Original, by |-> "nobody"]

VARIABLES
  pc,            \* "step", "chat", "call" or "done"
  step,          \* the model calls made
  left,          \* the tool calls of the response that are yet to be made
  executed,      \* executedCalls of the present workspaceVersion
  commandLimit,  \* commandLimitReached
  session,       \* the ChangeSet and the coordinator
  prepared,      \* what the ChangeSet would make of the files
  files, saved,  \* the files, and what the last checkpoint holds of them
  verified,      \* lastVerificationFingerprint
  aborted, late, \* the signal, and whether maxTaskDurationMs has passed
  base, reason   \* finishReason as the loop gave it, and as finish() made it

vars == <<pc, step, left, executed, commandLimit, session, prepared, files,
          saved, verified, aborted, late, base, reason>>

loopVars == <<step, left, executed>>
changeVars == <<session, prepared, files, saved, verified>>

BaseReason == {"completed", "error", "aborted", "max_steps"}

Reason == BaseReason \cup
  {"changes_applied", "changes_pending_confirmation", "changes_rejected",
   "rolled_back", "max_repair_attempts", "command_limit_reached",
   "verification_passed", "verification_failed", "verification_unavailable"}

TypeOK ==
  /\ pc \in {"step", "chat", "call", "done"}
  /\ step \in 0 .. MaxSteps
  /\ left \in 0 .. MaxCalls
  /\ executed \subseteq Call
  /\ {commandLimit, aborted, late} \subseteq BOOLEAN
  /\ session \in Session
  /\ {prepared, files, saved} \subseteq Content \cup {Original}
  /\ verified.content \in Content \cup {Original}
  /\ base \in BaseReason \cup {"none"} /\ reason \in Reason \cup {"none"}

Init ==
  /\ pc = "step" /\ step = 0 /\ left = 0
  /\ executed = {} /\ commandLimit = FALSE
  /\ session = NewSession(TRUE) /\ prepared = Original
  /\ files = Original /\ saved = Original /\ verified = Nothing
  /\ aborted = FALSE /\ late = FALSE
  /\ base = "none" /\ reason = "none"

-----------------------------------------------------------------------------
(* The result.                                                             *)

\* What finish() makes of a completed run: first from the ChangeSet, and where
\* that says no more than that it is applied, from the verifications.
OfChanges(s) ==
  CASE s.status = "applied" -> "changes_applied"
    [] s.status = "pending_confirmation" -> "changes_pending_confirmation"
    [] s.status = "rejected" -> "changes_rejected"
    [] OTHER -> "completed"

OfReport(report, otherwise) ==
  CASE report = "passed" -> "verification_passed"
    [] report = "failed" -> "verification_failed"
    [] report \in {"partial", "unavailable"} -> "verification_unavailable"
    [] OTHER -> otherwise

\* Wrong variant of OfVerification: the limit of commands hides that of repairs.
OfVerificationCommandsFirst(s, otherwise) ==
  IF s.rolledBack THEN "rolled_back"
  ELSE IF commandLimit THEN "command_limit_reached"
  ELSE IF s.maxReached THEN "max_repair_attempts"
  ELSE OfReport(s.report, otherwise)

OfVerification(s, otherwise) ==
  IF s.rolledBack THEN "rolled_back"
  ELSE IF s.maxReached THEN "max_repair_attempts"
  ELSE IF commandLimit THEN "command_limit_reached"
  ELSE OfReport(s.report, otherwise)

\* Wrong variant of FinishReason: what the ChangeSet says is enough.
FinishReasonOfChanges(r, s) == IF r = "completed" THEN OfChanges(s) ELSE r

FinishReason(r, s) ==
  LET changes == IF r = "completed" THEN OfChanges(s) ELSE r
  IN IF changes \in {"completed", "changes_applied"}
     THEN OfVerification(s, changes) ELSE changes

Finish(r) ==
  /\ pc' = "done"
  /\ base' = r
  /\ reason' = FinishReason(r, session)
  /\ UNCHANGED <<left, executed, commandLimit>>
  /\ UNCHANGED changeVars

-----------------------------------------------------------------------------
(* The loop.                                                               *)

\* Wrong variant of Step: the signal is left to the client of the model.
StepDeafToAbort ==
  /\ pc = "step" /\ step < MaxSteps
  /\ pc' = "chat" /\ step' = step + 1
  /\ UNCHANGED <<left, executed, commandLimit, base, reason, aborted, late>>
  /\ UNCHANGED changeVars

\* Wrong variant of Step: the steps are not counted.
StepUncounted ==
  /\ pc = "step"
  /\ \/ aborted /\ Finish("aborted")
     \/ /\ ~aborted /\ pc' = "chat"
        /\ UNCHANGED <<left, executed, commandLimit, base, reason>>
        /\ UNCHANGED changeVars
  /\ UNCHANGED <<step, aborted, late>>

\* The head of the loop, up to the call of the model.
Step ==
  /\ pc = "step"
  /\ \/ step = MaxSteps /\ Finish("max_steps") /\ UNCHANGED step
     \/ step < MaxSteps /\ late /\ Finish("error") /\ UNCHANGED step
     \/ step < MaxSteps /\ ~late /\ aborted /\ Finish("aborted") /\ UNCHANGED step
     \/ /\ step < MaxSteps /\ ~late /\ ~aborted
        /\ pc' = "chat"
        /\ step' = step + 1
        /\ UNCHANGED <<left, executed, commandLimit, base, reason>>
        /\ UNCHANGED changeVars
  /\ UNCHANGED <<aborted, late>>

\* The call of the model ends; the signal makes it end in an AbortError.
Respond ==
  /\ pc = "chat"
  /\ \/ aborted /\ Finish("aborted")
     \/ ~aborted /\ Finish("completed")
     \/ ~aborted /\ Finish("error")
     \/ /\ ~aborted
        /\ left' \in 1 .. MaxCalls
        /\ pc' = "call"
        /\ UNCHANGED <<executed, commandLimit, base, reason>>
        /\ UNCHANGED changeVars
  /\ UNCHANGED <<step, aborted, late>>

\* callFingerprint, whose order of the arguments does not matter: this call was
\* made before on the present workspaceVersion.
Repeated(c) == c \in executed

\* The same call again ends the task.
Repeat(c) ==
  /\ pc = "call"
  /\ Repeated(c)
  /\ Finish("error")
  /\ UNCHANGED <<step, aborted, late>>

\* One call of the response is made; changed says whether its result counts as
\* a change of the workspace.
Execute(c, changed) ==
  /\ pc = "call"
  /\ ~Repeated(c)
  /\ executed' = IF changed THEN {} ELSE executed \cup {c}
  /\ left' = left - 1
  /\ pc' = IF left = 1 THEN "step" ELSE "call"
  /\ UNCHANGED <<step, aborted, late, base, reason>>

-----------------------------------------------------------------------------
(* The tools.                                                              *)

\* read_file, search_text, list_checkpoints and the like, refused ones too.
Read(c) ==
  /\ c.tool = "read"
  /\ Execute(c, FALSE)
  /\ UNCHANGED <<commandLimit, session, prepared, files, saved, verified>>

\* prepare_patch and its like, clear_change_set and preview_changes, whose
\* errors the model is told of; a ChangeSet goes on to be valid while the files
\* are as they were when it was prepared.
Prepare(c) ==
  /\ Execute(c, FALSE)
  /\ \/ /\ c.tool = "prepare"
        /\ IF CanAdd(session) /\ c.arg # files
           THEN session' = Added(session) /\ prepared' = c.arg
           ELSE session' = Renewed(session) /\ UNCHANGED prepared
     \/ /\ c.tool = "clear"
        /\ session' = IF CanEdit(session) THEN Cleared(session) ELSE session
        /\ UNCHANGED prepared
     \/ /\ c.tool = "preview"
        /\ session' = Previewed(session, session.ops > 0 /\ prepared # files)
        /\ UNCHANGED prepared
  /\ UNCHANGED <<commandLimit, files, saved, verified>>

Applied == [content |-> prepared, by |-> "apply"]

\* afterApply of an applied ChangeSet.  verify() throws when it would repeat the
\* last verification, and when the limit of commands is reached.
CheckApplied ==
  \/ /\ ~VerifyAfterApply
     /\ session' = Written(session) /\ files' = prepared
     /\ UNCHANGED <<commandLimit, verified>>
  \/ /\ VerifyAfterApply /\ verified = Applied
     /\ session' = VerifyThrows(Written(session)) /\ files' = prepared
     /\ UNCHANGED <<commandLimit, verified>>
  \/ /\ VerifyAfterApply /\ verified # Applied
     /\ session' = VerifyThrows(Written(session)) /\ files' = prepared
     /\ commandLimit' = TRUE
     /\ UNCHANGED verified
  \/ \E v \in Verdict :
       /\ VerifyAfterApply /\ verified # Applied
       /\ commandLimit => v = "unavailable"
       /\ session' = AfterApply(Written(session), v, FALSE)
       /\ files' = IF session'.status = "rolled_back" THEN files ELSE prepared
       /\ verified' = Applied
       /\ UNCHANGED commandLimit

\* apply_changes.
Apply(c) ==
  /\ c.tool = "apply"
  /\ \/ /\ RepairRefused(session)
        /\ Execute(c, FALSE)
        /\ session' = Refused(session)
        /\ UNCHANGED <<commandLimit, files, saved, verified>>
     \/ /\ ~RepairRefused(session)
        /\ ~(CanApply(session) /\ prepared # files)
        /\ Execute(c, FALSE)
        /\ UNCHANGED <<commandLimit, session, files, saved, verified>>
     \/ /\ ~RepairRefused(session) /\ CanApply(session) /\ prepared # files
        /\ \E d \in Decision \ {"approved"} : session' = Unconfirmed(session, d)
        /\ Execute(c, FALSE)
        /\ UNCHANGED <<commandLimit, files, saved, verified>>
     \/ /\ ~RepairRefused(session) /\ CanApply(session) /\ prepared # files
        /\ "approved" \in Decision
        /\ saved' = files
        /\ CheckApplied
        /\ Execute(c, ~(session' = VerifyThrows(Written(session)) /\ VerifyAfterApply))
  /\ UNCHANGED prepared

\* restore_checkpoint; a checkpoint for safety is made of what it overwrites.
Restore(c) ==
  /\ c.tool = "restore"
  /\ IF session.checkpoint /\ "approved" \in Decision
     THEN Execute(c, TRUE) /\ files' = saved /\ saved' = files
     ELSE Execute(c, FALSE) /\ UNCHANGED <<files, saved>>
  /\ UNCHANGED <<commandLimit, session, prepared, verified>>

\* run_verification: the report is not the coordinator's.
RunVerification(c) ==
  /\ c.tool = "run_verification"
  /\ Execute(c, FALSE)
  /\ \/ verified' = [content |-> files, by |-> "tool"] /\ UNCHANGED commandLimit
     \/ commandLimit' = TRUE /\ UNCHANGED verified
  /\ UNCHANGED <<session, prepared, files, saved>>

-----------------------------------------------------------------------------
Abort ==
  /\ ~aborted /\ pc # "done"
  /\ aborted' = TRUE
  /\ UNCHANGED <<pc, commandLimit, late, base, reason>>
  /\ UNCHANGED loopVars /\ UNCHANGED changeVars

TimePasses ==
  /\ ~late /\ pc # "done"
  /\ late' = TRUE
  /\ UNCHANGED <<pc, commandLimit, aborted, base, reason>>
  /\ UNCHANGED loopVars /\ UNCHANGED changeVars

Loop ==
  \/ Step \/ Respond
  \/ \E c \in Call :
       \/ Repeat(c) \/ Read(c) \/ Prepare(c) \/ Apply(c) \/ Restore(c)
       \/ RunVerification(c)

Next == Loop \/ Abort \/ TimePasses

\* Calls of the model and of tools end, if only by their time limits.
Spec == Init /\ [][Next]_vars /\ WF_vars(Loop)

-----------------------------------------------------------------------------
(* What must hold.                                                         *)

\* "Po jego osiagnieciu (...) wynik sesji to max_repair_attempts" (README): a run
\* that is completed when the limit has been reached says so.
LimitIsReported ==
  pc = "done" /\ base = "completed" /\ session.maxReached
    => reason \in {"max_repair_attempts", "rolled_back"}

\* A completed run whose files are known to be broken, because the verification
\* after its last apply failed, never claims success.
FailureIsReported ==
  pc = "done" /\ base = "completed" /\ session.awaitingRepair
    => reason \notin {"completed", "changes_applied", "verification_passed",
                      "verification_unavailable"}

\* After the abort nothing new begins: the calls of the response at hand are
\* the last ones.
AbortBoundsWork ==
  [][aborted => left' <= left /\ (pc' = "chat" => pc = "chat")]_vars

\* The loop ends, whatever the model answers.
Ends == <>(pc = "done")

=============================================================================

--------------------------- MODULE RuntimeServer ---------------------------
(***************************************************************************)
(* The runtime server that the VS Code extension talks to.  start() reads  *)
(* one request at a time and awaits its handler before it reads the next;  *)
(* tasks and runs of the orchestrator go on in the background meanwhile.   *)
(*                                                                         *)
(* The client may send any request at any moment, so a request is chosen   *)
(* when the server reads it.  The agent of a task calls any tool of its    *)
(* registry (AgentLoop has the loop itself).  Requests that only read are  *)
(* left out, and so are those of the remote service (module Remote).       *)
(***************************************************************************)
EXTENDS ChangeSession, FiniteSets

CONSTANTS
  Root,             \* folders the user may open
  NoRoot,           \* no folder is open
  Mode,             \* the modes in which tasks are started
  MaxTasks,         \* bound: tasks started
  MaxAsked,         \* bound: changes.apply and checkpoints.restore requests
  MaxSteps,         \* tool calls of one task (maxSteps)
  MaxOrchestrators  \* bound: OrchestrationRuntimeServices created

ASSUME ServerAssumption ==
  /\ NoRoot \notin Root
  /\ Mode \subseteq {"ask", "plan", "edit", "agent", "orchestrated"}
  /\ {MaxTasks, MaxAsked, MaxSteps, MaxOrchestrators} \subseteq Nat

Task == 1 .. MaxTasks
Orchestrator == 1 .. MaxOrchestrators
None == 0

VARIABLES
  workspace,      \* the open folder and whether it is trusted
  task,           \* tasks: what is known of each
  activeTask,     \* the task that runs, or None
  resources,      \* changes and coordinator of the last task that has any
  approvalOnce,   \* the next confirmation is answered "approved"
  handler,        \* the request whose handler is awaited
  orchestrators,  \* the services: being created, idle, or with a running session
  orchestration,  \* the one the server knows, or None
  shuttingDown,
  asked, writes   \* history: applies and restores asked for, and carried out

vars == <<workspace, task, activeTask, resources, approvalOnce, handler,
          orchestrators, orchestration, shuttingDown, asked, writes>>

TaskState ==
  {"none", "preparing", "running", "orchestrating",
   "completed", "failed", "cancelled"}

Working == {"preparing", "running", "orchestrating"}

\* The requests whose handlers are awaited; all others are one step.
Request ==
  {"none", "verify", "restore", "watch", "orchestrate", "shutdown"}
    \cup {"apply.validate", "apply.write", "apply.verify"}

NoResources == [root |-> None]

Resources ==
  [root : Root \cup {NoRoot}, trusted : BOOLEAN,
   apply : BOOLEAN,  \* the registry has apply_changes and restore_checkpoint
   session : Session]

TypeOK ==
  /\ workspace \in [root : Root \cup {NoRoot}, trusted : BOOLEAN]
  /\ task \in [Task -> [state : TaskState, mode : Mode \cup {"ask"}, aborted : BOOLEAN,
                        steps : 0 .. MaxSteps]]
  /\ activeTask \in Task \cup {None}
  /\ resources \in Resources \cup {NoResources}
  /\ approvalOnce \in BOOLEAN
  /\ handler \in Request
  /\ orchestrators \in
       [Orchestrator -> {"none", "for task", "for request", "idle", "running"}]
  /\ orchestration \in Orchestrator \cup {None}
  /\ shuttingDown \in BOOLEAN
  /\ asked \in 0 .. MaxAsked
  /\ writes \in 0 .. MaxAsked

\* All that is of interest of a task that is not at work.
Idle(state) == [state |-> state, mode |-> "ask", aborted |-> FALSE, steps |-> 0]

\* runtime.initialize says whether the client trusts the workspace; the client
\* sends it once, before anything else.
Init ==
  /\ workspace \in [root : {NoRoot}, trusted : BOOLEAN]
  /\ task = [t \in Task |-> Idle("none")]
  /\ activeTask = None
  /\ resources = NoResources
  /\ approvalOnce = FALSE
  /\ handler = "none"
  /\ orchestrators = [o \in Orchestrator |-> "none"]
  /\ orchestration = None
  /\ shuttingDown = FALSE
  /\ asked = 0
  /\ writes = 0

\* The server is ready to read the next line.
Reads == handler = "none" /\ ~shuttingDown

\* hasActiveSession() of the orchestrator the server knows.
Orchestrating ==
  orchestration # None /\ orchestrators[orchestration] = "running"

Busy == activeTask # None \/ Orchestrating

-----------------------------------------------------------------------------
(* Workspace and settings.                                                 *)

\* Wrong variant of WorkspaceSet: the ChangeSet of the last folder stays.
WorkspaceSetKeepingChanges(root, trusted) ==
  /\ Reads
  /\ ~Busy
  /\ workspace' = [root |-> root, trusted |-> trusted]
  /\ orchestration' = None
  /\ UNCHANGED <<task, activeTask, resources, approvalOnce, handler,
                 orchestrators, shuttingDown, asked, writes>>

WorkspaceSet(root, trusted) ==
  /\ Reads
  /\ ~Busy
  /\ workspace' = [root |-> root, trusted |-> trusted]
  /\ resources' = NoResources
  /\ orchestration' = None
  /\ UNCHANGED <<task, activeTask, approvalOnce, handler, orchestrators,
                 shuttingDown, asked, writes>>

\* The settings themselves are of no interest here; the services that were made
\* from the old ones are dropped.
SettingsUpdate ==
  /\ Reads
  /\ ~Busy
  /\ orchestration' = None
  /\ UNCHANGED <<workspace, task, activeTask, resources, approvalOnce, handler,
                 orchestrators, shuttingDown, asked, writes>>

-----------------------------------------------------------------------------
(* Tasks.                                                                  *)

\* Wrong variant of Allowed: nobody asks whether the folder is trusted.
AllowedUntrusted(mode, selection) == workspace.root # NoRoot

\* ensureWorkspace.
Allowed(mode, selection) ==
  \/ workspace.trusted /\ workspace.root # NoRoot
  \/ ~workspace.trusted /\ mode = "ask" /\ selection

\* task.start and agent.sendMessage; the answer does not wait for the task.
StartTask(mode, selection) ==
  \E t \in Task :
    /\ Reads
    /\ activeTask = None
    /\ Allowed(mode, selection)
    /\ task[t].state = "none" /\ \A u \in 1 .. t - 1 : task[u].state # "none"
    /\ task' = [task EXCEPT ![t].mode = mode,
                            ![t].state = IF mode = "orchestrated"
                                         THEN "orchestrating" ELSE "preparing"]
    /\ activeTask' = t
    /\ UNCHANGED <<workspace, resources, approvalOnce, handler, orchestrators,
                   orchestration, shuttingDown, asked, writes>>

\* On a task that has ended the abort has no effect.
CancelTask(t) ==
  /\ Reads
  /\ task[t].state \in Working
  /\ task' = [task EXCEPT ![t].aborted = TRUE]
  /\ UNCHANGED <<workspace, activeTask, resources, approvalOnce, handler,
                 orchestrators, orchestration, shuttingDown, asked, writes>>

\* The finally block of executeTask, after the outcome has been recorded.
EndTask(t, state) ==
  /\ task' = [task EXCEPT ![t] = Idle(state)]
  /\ activeTask' = IF activeTask = t THEN None ELSE activeTask

\* configFor: what the mode and the trust leave of the settings.
Restricted(mode) == mode \in {"ask", "plan"} \/ ~workspace.trusted

CreateResources(t) ==
  /\ task[t].state = "preparing"
  /\ resources' =
       [root |-> workspace.root, trusted |-> workspace.trusted,
        apply |-> task[t].mode = "agent" /\ ~Restricted("agent")
                  /\ workspace.root # NoRoot,
        session |-> NewSession(task[t].mode \in {"edit", "agent"})]
  /\ task' = [task EXCEPT ![t].state = "running"]
  /\ UNCHANGED <<workspace, activeTask, approvalOnce, handler, orchestrators,
                 orchestration, shuttingDown, asked, writes>>

\* createResources throws: the resources of the task before stay.
CreateFails(t) ==
  /\ task[t].state = "preparing"
  /\ EndTask(t, IF task[t].aborted THEN "cancelled" ELSE "failed")
  /\ UNCHANGED <<workspace, resources, approvalOnce, handler, orchestrators,
                 orchestration, shuttingDown, asked, writes>>

\* Wrong variant of Calls: the steps are not counted.
CallsWithoutLimit(t) ==
  /\ task[t].state = "running"
  /\ UNCHANGED <<workspace, task, activeTask, handler, orchestrators,
                 orchestration, shuttingDown, asked>>

\* The model asks for one more tool call, unless it has used up its steps or the
\* loop has seen the abort.
Calls(t) ==
  /\ task[t].state = "running"
  /\ task[t].steps < MaxSteps
  /\ task' = [task EXCEPT ![t].steps = @ + 1]
  /\ UNCHANGED <<workspace, activeTask, handler, orchestrators, orchestration,
                 shuttingDown, asked>>

\* create_file and its like, clear_changes, preview_changes.
PrepareTool(t) ==
  LET s == resources.session IN
  /\ Calls(t)
  /\ resources.trusted /\ s.write
  /\ \/ CanAdd(s) /\ resources' = [resources EXCEPT !.session = Added(s)]
     \/ CanEdit(s) /\ resources' = [resources EXCEPT !.session = Cleared(s)]
     \/ resources' = [resources EXCEPT !.session = Previewed(s, s.ops > 0)]
  /\ UNCHANGED <<approvalOnce, writes>>

\* confirmationProvider: one approval is good for one confirmation.
Confirmed == approvalOnce

\* Wrong variant of Confirm: the approval is good for ever.
ConfirmForEver(answer) ==
  /\ UNCHANGED approvalOnce
  /\ writes' = IF answer THEN writes + 1 ELSE writes

Confirm(answer) ==
  /\ approvalOnce' = (approvalOnce /\ ~answer)
  /\ writes' = IF answer THEN writes + 1 ELSE writes

\* apply_changes, which asks for a confirmation and gets "pending" unless an
\* approval has been left over.
ApplyTool(t) ==
  LET s == resources.session IN
  /\ Calls(t)
  /\ resources.apply
  /\ \/ /\ RepairRefused(s)
        /\ resources' = [resources EXCEPT !.session = Refused(s)]
        /\ UNCHANGED <<approvalOnce, writes>>
     \/ /\ ~RepairRefused(s)
        /\ CanApply(s)
        /\ Confirm(Confirmed)
        /\ \E r \in IF Confirmed THEN Verified(Written(s)) \cup {WriteFailed(s)}
                    ELSE {Unconfirmed(s, "pending")} :
             resources' = [resources EXCEPT !.session = r]

\* restore_checkpoint.  Checkpoints are files, those of earlier tasks and
\* processes included.
RestoreTool(t) ==
  /\ Calls(t)
  /\ resources.apply
  /\ Confirmed
  /\ Confirm(Confirmed)
  /\ UNCHANGED resources

AgentReturns(t) ==
  /\ task[t].state = "running"
  /\ EndTask(t, IF task[t].aborted THEN "cancelled" ELSE "completed")
  /\ UNCHANGED <<workspace, resources, approvalOnce, handler, orchestrators,
                 orchestration, shuttingDown, asked, writes>>

-----------------------------------------------------------------------------
(* The ChangeSet the task has left.                                        *)

HasChanges == resources # NoResources

PreviewChanges ==
  /\ Reads
  /\ HasChanges
  /\ resources' = [resources EXCEPT
                     !.session = Previewed(@, resources.session.ops > 0)]
  /\ UNCHANGED <<workspace, task, activeTask, approvalOnce, handler,
                 orchestrators, orchestration, shuttingDown, asked, writes>>

\* changes.reject asks nobody whether a task is at work on the ChangeSet.
RejectChanges ==
  /\ Reads
  /\ HasChanges
  /\ CanEdit(resources.session)
  /\ resources' = [resources EXCEPT !.session = Cleared(@)]
  /\ UNCHANGED <<workspace, task, activeTask, approvalOnce, handler,
                 orchestrators, orchestration, shuttingDown, asked, writes>>

\* Wrong variant of ApplyChanges: it does not wait for the end of the task.
ApplyDuringTask ==
  /\ Reads
  /\ HasChanges
  /\ asked < MaxAsked
  /\ asked' = asked + 1
  /\ approvalOnce' = TRUE
  /\ handler' = "apply.validate"
  /\ UNCHANGED <<workspace, task, activeTask, resources, orchestrators,
                 orchestration, shuttingDown, writes>>

\* changes.apply up to the ChangeSet's first validation.
ApplyChanges ==
  LET s == resources.session IN
  /\ Reads
  /\ activeTask = None
  /\ HasChanges
  /\ asked < MaxAsked
  /\ asked' = asked + 1
  /\ approvalOnce' = TRUE
  /\ IF RepairRefused(s)
     THEN /\ resources' = [resources EXCEPT !.session = Refused(s)]
          /\ UNCHANGED handler
     ELSE /\ handler' = "apply.validate"
          /\ UNCHANGED resources
  /\ UNCHANGED <<workspace, task, activeTask, orchestrators, orchestration,
                 shuttingDown, writes>>

\* The validation: on failure the request ends in an error and the approval is
\* not used; otherwise the confirmation uses it.
Validate(valid) ==
  /\ handler = "apply.validate"
  /\ valid => CanApply(resources.session)
  /\ IF valid THEN Confirm(Confirmed) ELSE UNCHANGED <<approvalOnce, writes>>
  /\ handler' = IF valid THEN "apply.write" ELSE "none"
  /\ UNCHANGED <<workspace, task, activeTask, resources, orchestrators,
                 orchestration, shuttingDown, asked>>

Write ==
  /\ handler = "apply.write"
  /\ \/ /\ resources' = [resources EXCEPT !.session = Written(@)]
        /\ handler' = "apply.verify"
     \/ /\ resources' = [resources EXCEPT !.session = WriteFailed(@)]
        /\ handler' = "none"
     \/ handler' = "none" /\ UNCHANGED resources  \* it no longer fits the files
  /\ UNCHANGED <<workspace, task, activeTask, approvalOnce, orchestrators,
                 orchestration, shuttingDown, asked, writes>>

VerifyApplied ==
  /\ handler = "apply.verify"
  /\ handler' = "none"
  /\ \E s \in Verified(resources.session) :
       resources' = [resources EXCEPT !.session = s]
  /\ UNCHANGED <<workspace, task, activeTask, approvalOnce, orchestrators,
                 orchestration, shuttingDown, asked, writes>>

\* checkpoints.restore: the service may refuse before it asks for confirmation.
RestoreCheckpoint ==
  /\ Reads
  /\ activeTask = None
  /\ HasChanges
  /\ asked < MaxAsked
  /\ asked' = asked + 1
  /\ approvalOnce' = TRUE
  /\ handler' = "restore"
  /\ UNCHANGED <<workspace, task, activeTask, resources, orchestrators,
                 orchestration, shuttingDown, writes>>

Restored ==
  /\ handler = "restore"
  /\ handler' = "none"
  /\ \/ resources.session.write /\ Confirm(Confirmed)
     \/ UNCHANGED <<approvalOnce, writes>>
  /\ UNCHANGED <<workspace, task, activeTask, resources, orchestrators,
                 orchestration, shuttingDown, asked>>

-----------------------------------------------------------------------------
(* Handlers that are long under way.                                       *)

\* verification.run, and pullRequest.watchChecks in mode until_complete, which
\* ends with the checks or after githubCiMaxWaitMs.
Await(request) ==
  /\ Reads
  /\ request = "verify" => activeTask = None /\ HasChanges
  /\ handler' = request
  /\ UNCHANGED <<workspace, task, activeTask, resources, approvalOnce,
                 orchestrators, orchestration, shuttingDown, asked, writes>>

AwaitEnds ==
  /\ handler \in {"verify", "watch"}
  /\ handler' = "none"
  /\ UNCHANGED <<workspace, task, activeTask, resources, approvalOnce,
                 orchestrators, orchestration, shuttingDown, asked, writes>>

\* The abort of the task and of the runs is all that stops them.
Shutdown ==
  /\ Reads
  /\ handler' = "shutdown"
  /\ task' = IF activeTask = None THEN task
             ELSE [task EXCEPT ![activeTask].aborted = TRUE]
  /\ UNCHANGED <<workspace, activeTask, resources, approvalOnce, orchestrators,
                 orchestration, shuttingDown, asked, writes>>

ShutdownEnds ==
  /\ handler = "shutdown"
  /\ handler' = "none"
  /\ shuttingDown' = TRUE
  /\ orchestrators' = IF Orchestrating
                      THEN [orchestrators EXCEPT ![orchestration] = "idle"]
                      ELSE orchestrators
  /\ UNCHANGED <<workspace, task, activeTask, resources, approvalOnce,
                 orchestration, asked, writes>>

-----------------------------------------------------------------------------
(* The orchestrator.  orchestrationService() creates one when the server   *)
(* knows none; the creation is awaited, and whoever ends it last is known. *)

\* A service that nobody knows and that runs nothing is no more.
Free(o) == orchestrators[o] = "none" \/ (orchestrators[o] = "idle" /\ o # orchestration)

BeginCreate(purpose) ==
  \E o \in Orchestrator :
    /\ Free(o) /\ \A p \in 1 .. o - 1 : ~Free(p)
    /\ orchestrators' = [orchestrators EXCEPT ![o] = purpose]

EndCreate(purpose, state) ==
  \E o \in Orchestrator :
    /\ orchestrators[o] = purpose
    /\ orchestrators' = [orchestrators EXCEPT ![o] = state]
    /\ orchestration' = o

\* executeOrchestratedTask: the session it creates waits for its approval.
OrchestratedTask(t) ==
  LET creating == \E o \in Orchestrator : orchestrators[o] = "for task" IN
  /\ task[t].state = "orchestrating"
  /\ \/ /\ orchestration = None /\ ~creating
        /\ BeginCreate("for task")
        /\ UNCHANGED <<task, activeTask, orchestration>>
     \/ /\ EndCreate("for task", "idle")
        /\ EndTask(t, "completed")
     \/ /\ ~creating
        /\ \E state \in {"failed"} \cup IF orchestration = None THEN {} ELSE {"completed"} :
             EndTask(t, state)
        /\ UNCHANGED <<orchestrators, orchestration>>
  /\ UNCHANGED <<workspace, resources, approvalOnce, handler, shuttingDown,
                 asked, writes>>

\* orchestration.approvePlan and orchestration.resume: service.run goes on in
\* the background.
Orchestrate ==
  /\ Reads
  /\ workspace.trusted /\ workspace.root # NoRoot
  /\ IF orchestration = None
     THEN /\ BeginCreate("for request")
          /\ handler' = "orchestrate"
     ELSE /\ orchestrators' = [orchestrators EXCEPT ![orchestration] = "running"]
          /\ UNCHANGED handler
  /\ UNCHANGED <<workspace, task, activeTask, resources, approvalOnce,
                 orchestration, shuttingDown, asked, writes>>

OrchestratorCreated ==
  /\ handler = "orchestrate"
  /\ handler' = "none"
  /\ EndCreate("for request", "running")
  /\ UNCHANGED <<workspace, task, activeTask, resources, approvalOnce,
                 shuttingDown, asked, writes>>

\* A run ends by itself, or by orchestration.cancel.
RunEnds(o) ==
  /\ orchestrators[o] = "running"
  /\ orchestrators' = [orchestrators EXCEPT ![o] = "idle"]
  /\ UNCHANGED <<workspace, task, activeTask, resources, approvalOnce, handler,
                 orchestration, shuttingDown, asked, writes>>

-----------------------------------------------------------------------------
Requests ==
  \/ \E r \in Root, trusted \in BOOLEAN : WorkspaceSet(r, trusted)
  \/ SettingsUpdate
  \/ \E m \in Mode, selection \in BOOLEAN : StartTask(m, selection)
  \/ \E t \in Task : CancelTask(t)
  \/ PreviewChanges \/ RejectChanges \/ ApplyChanges \/ RestoreCheckpoint
  \/ \E request \in {"verify", "watch"} : Await(request)
  \/ Orchestrate \/ Shutdown

Handlers ==
  \/ \E valid \in BOOLEAN : Validate(valid)
  \/ Write \/ VerifyApplied \/ Restored
  \/ AwaitEnds \/ ShutdownEnds \/ OrchestratorCreated

Background(t) ==
  \/ CreateResources(t) \/ CreateFails(t)
  \/ PrepareTool(t) \/ ApplyTool(t) \/ RestoreTool(t) \/ AgentReturns(t)
  \/ OrchestratedTask(t)

Next ==
  \/ Requests \/ Handlers
  \/ \E t \in Task : Background(t)
  \/ \E o \in Orchestrator : RunEnds(o)

\* Node goes on with every awaited operation that has ended, and those of a task
\* and of a handler end: the model and the commands are called with time limits.
Fairness ==
  /\ WF_vars(Handlers)
  /\ \A t \in Task : WF_vars(Background(t))

Spec == Init /\ [][Next]_vars /\ Fairness

-----------------------------------------------------------------------------
(* What must hold.                                                         *)

\* One task is at work at a time, however tasks were started, cancelled and
\* ended: the server never forgets one that still runs (activeTask).
OneTask ==
  \A t \in Task : task[t].state \in Working <=> activeTask = t

\* The ChangeSet a user can apply, restore or reject was prepared in the folder
\* that is open now, with the trust the folder has now (workspace.set drops what
\* belongs to another).
ChangesOfWorkspace ==
  resources # NoResources =>
    /\ resources.root = workspace.root
    /\ resources.trusted = workspace.trusted

Applying ==
  handler \in {"apply.validate", "apply.write", "apply.verify", "restore"}

\* From the moment an apply has been asked for until it is done nobody else
\* touches the session it works on: no task's tool, no other request.
ApplyUndisturbed ==
  [][Applying => \/ handler' # handler
                 \/ UNCHANGED <<resources, workspace, activeTask>>]_vars

\* Files are written at most as often as the user asked for an apply or a
\* restore.  One that fails before it asks for confirmation leaves its approval
\* behind, and the agent's own tool may use it; but no approval is used twice
\* (confirmationProvider).
OneWritePerApproval ==
  writes + (IF approvalOnce THEN 1 ELSE 0) <= asked

\* An untrusted folder is never written to, neither by the agent nor on request.
WritesTrusted ==
  [][writes' # writes => resources.trusted /\ workspace.trusted]_vars

\* A task ends, whether it is cancelled or not, and so does every handler: the
\* server goes on to the next request.
TaskEnds ==
  /\ \A t \in Task : task[t].state \in Working ~> task[t].state \notin Working
  /\ handler # "none" ~> handler = "none"

=============================================================================

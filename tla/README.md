# A verification of the local coding agent

The repository is a coding agent that runs on the user's machine: a VS Code extension starts a runtime process, the
runtime lets language models read the project, prepare changes and run checks, and every effect waits for the user. This
directory holds TLA+ modules of its control logic, the instances TLC checks, and proofs that TLAPS checks. Source paths
below are relative to `src/`.

## 1. Inventory

| Component | State | Operations | What is hard | What makes it correct |
|---|---|---|---|---|
| task-graph (`packages/task-graph`) | the status of each node | `setStatus`, `refreshReadiness`, `ready`, `selectBatch`, building and validating | nodes become blocked in cascades; the user may force a node | nothing runs before what it depends on; one writer and no shared files in a batch |
| orchestrator (`packages/agent-orchestrator`) | session manifest, graph, final report, runs and their abort controllers, three files per session | create, approvePlan, resume, run, cancel, approveFinal, rejectFinal, replan, retryNode, cancelNode, recover | runs go on in the background while requests change the session; agents outlive their run; files are saved one after the other, each in several steps and under one temporary name; crashes | plan and result pass the user's gates; a veto blocks; decisions that were told are final; a run ends; a cancelled session falls silent |
| specialist execution (scheduler's `executeNode`, runner, model queue, artifacts, budget) | attempts, the queue and its active model, artifacts, usage | attempts with timeout and retry, model calls, tool calls | a dropped attempt goes on beside its retry; the model's slot is global and takes no signal | a completed node has all it owes, of one attempt; one model is loaded; every attempt ends |
| consensus and synthesis | none | the verdict from the newest results | results of old plans, order of artifacts | a veto is never overlooked |
| change-engine (`packages/change-engine`) | the ChangeSet, checkpoints on disk, the workspace's files | prepare, remove, clear, preview, apply, rollback, restore | files edited by others, failures half way, crashes, pruning | all or nothing; nothing is lost that cannot be brought back |
| runtime server (`apps/agent-runtime/src/server`) | the folder, tasks, the resources of the last one, a one-time approval, the orchestrator | JSON-RPC requests, served one at a time; tasks and runs in the background | an approval that outlives its request; resources replaced under work in progress; handlers that are awaited for long | one write for an approval; a ChangeSet belongs to its folder; every task and handler ends |
| agent loop, tools, verification coordinator | steps, calls made, repair attempts, the last report | one turn of the model, tool calls, checks after an apply, the finish reason | limits, repeated calls, aborts, checks that throw | the loop ends within its limits and reports what it left |
| command-runner | commands accepted, slots, one process tree each | validate, confirm, run, stop, record | a confirmation between a check and its use; exits, time limits and signals race; processes that do not obey | limits hold; nothing forbidden runs; a stopped command ends |
| project-verifier | the last fingerprint, the baseline on disk | verify, create a baseline, run one command | steps refused, aborted or missing; files that change meanwhile | a verdict is earned; an old problem is old |
| remote-repository, github-provider, `remote` service | approvals, prepared operations, the task's manifest, GitHub itself | prepare, decide, execute; push, pull request, update, reply, resolve, watch | lost answers, restarts, other people, a manifest read before and saved after | an approval is good for one write; what is recorded as published was approved; the manifest stays true |
| workspace (`packages/workspace`) | the cache of files, the rules of `.gitignore` | read a file or a range, list, find, search | files change between two steps of one call; limits | what is shown was there; what is left out is excluded by a rule, or said |
| extension: manager, transport, controller | the process held, restarts, pending requests | start, stop, restart, submit, apply, restore | exits that arrive late, starts that overlap, a runtime that dies, or a ChangeSet that grows, under a question to the user | every request settles; restarts come to an end; what is applied was shown |
| ci-analysis, prompts of the specialists, views, command line, installer | none that outlives a call | parsing, formatting, prompts | - | not modelled: no state of their own |

How they interact: the extension sends requests over standard input; the server handles one request at a time
(`runtimeServer.ts:1292-1322`) and starts runs without waiting for them. A request of the orchestration group goes
through `OrchestrationRuntimeService` to `AgentOrchestrator`, whose scheduler starts agents and reports node events back
by a callback. Agents prepare changes in a ChangeSet of the change engine; only the user's requests apply it. The
sessions, checkpoints and the workspace itself are files, which survive the process.

The hazards, each with its line and the properties that cover it, are listed in `PROJECT.json`.

## 2. Modules

| Module | What it is | Code |
|---|---|---|
| `TaskGraph` | node statuses as functions: `SetStatus`, `RefreshReadiness` as a least set of dead nodes, batches | `task-graph/src/taskGraph.ts`, `graphScheduler.ts` |
| `OrchestrationStateMachine` | states and the transition table | `orchestrationStateMachine.ts` |
| `Orchestration` | one session: requests, runs, agents, files, crash and recovery | `agentOrchestrator.ts`, `orchestrationSession.ts`, `orchestrationScheduler.ts`, `orchestrationRecovery.ts`, `consensusService.ts` |
| `Specialists` | one run of a session from inside: attempts, model queue, artifacts, budget (uses `TaskGraph`) | `orchestrationScheduler.ts`, `ollamaSpecialistRunner.ts`, `ollamaClient.ts`, `agentResultValidator.ts` |
| `AtomicWorkspace` | what the change engine promises: changes are atomic | abstract |
| `ChangeEngine` | how it keeps the promise, file by file | `changeService.ts`, `transactionManager.ts`, `checkpointService.ts`, `atomicWriter.ts` |
| `ChangeSession` | a ChangeSet and its verification coordinator as others see them | `changeService.ts`, `verificationCoordinator.ts` |
| `RuntimeServer` | the server: requests, tasks, approvals, orchestrators (extends `ChangeSession`) | `runtimeServer.ts` |
| `AgentLoop` | the loop around the model and its tools (extends `ChangeSession`) | `agentLoop.ts`, `changeTools.ts`, `commandTools.ts` |
| `CommandRunner` | the runner that all callers share, with its processes | `commandRunner.ts`, `commandPolicy.ts`, `processRunner.ts`, `processTreeKiller.ts` |
| `ProjectVerifier` | verifications over the runner (extends `CommandRunner`) | `projectVerifier.ts`, `baselineService.ts`, `regressionDetector.ts`, `verificationPlanBuilder.ts` |
| `Remote` | publishing a task on GitHub | `remoteRuntimeService.ts`, `packages/github-provider`, `packages/remote-repository` |
| `Extension` | the extension's hold on the runtime's process | `runtimeManager.ts`, `runtimeTransport.ts`, `agentController.ts` |
| `WorkspaceReads` | the tools that look at the workspace | `workspaceService.ts`, `ignoreService.ts` |
| `MC*` | instances for TLC | - |
| `OrchestrationProofs`, `SpecialistsProofs`, `RuntimeServerProofs`, `AgentLoopProofs`, `ProjectVerifierProofs`, `RemoteProofs`, `WorkspaceReadsProofs` | invariants and theorems | - |
| `ChangeEngineProofs` | invariants and theorems; also the proof that `ChangeEngine` implements `AtomicWorkspace` | - |

`ChangeSession` is what two modules have in common: it gives the outcomes of an apply as `ChangeEngine` has them, without
the files. As a rule a step is what the code does between two `await`s; where a step stands for several, the section of its
module says so, and why what is stated does not depend on it.

### Orchestration

There are four kinds of actors.

* *The user's requests* (`fgPc`, `fgThen`): one at a time, as the server's queue serves them. A request checks its guard,
  changes the session and the graph, and then saves manifest and graph (`ThenPersist`). `fgThen` says what follows:
  nothing, a run, or a replan.
* *The run* (`runPc`, `runId`): `StartRun` is the head of `run()`, `RunStartsBatch` the scheduler's loop, which goes round
  again when no agent of the batch is awaited any more (`AtLoopTop`), `RunStops`, `RunFinishes`, `RunGetsStuck` and
  `RunCatches` its four ends. `Conclude` is what follows with the verdict, `Fail` with an exception. The lease of a node
  in `Refusable` may be refused: the node is running and has no agent, and the run fails. The epilogue saves manifest,
  graph and, with a verdict, `tailReport`, and then removes the registered controller (`TailReleases`); a new run may
  start before it ends.
* *Saving* (`saving`, `stage`, `copy`, `temp`, `file`) is what the request and each epilogue do on their own, file by
  file, with an await between the steps (`orchestrationRecovery.ts:15-22`, `:212-228`): a copy is taken of what the
  session is (`SaveReads`; for the files after the first, in the step that renames the one before), it is written to the
  temporary file (`SaveWrites`), and this is renamed (`SaveRenames`). All use one temporary name for a file, so that a
  rename moves what somebody else has written, perhaps an older copy, or finds nothing (`SaveFails`): the request fails,
  an epilogue ends without removing its controller.
* *Agents* (`exec`): each works on a node of one graph object (`gen`) for one run, and ends in one of `Outcomes[n]`.
  `Promise.all` rejects with the first failure, so agents outlive their run, and a late one changes whatever graph
  object it was started for.
* *The process*: `Crash` leaves only the files (`manifestFile`, `graphFile`, `reportFile`); `Recover` loads them, maps
  the interrupted states to `recovery_required` and persists. Temporary names hold the number of the process, so that the
  next one does not meet what is left of them.

What is abstracted: an agent's attempts, artifacts and messages (its outcome is a choice), and which leases conflict;
scores and conflicts (they leave the choice between the two verdicts the code allows them); the audit log, including a
failure to write it after a result is in; text of any kind. The flags that demand reviews are constantly true, as in the
code. A node that a plan does not have counts as `skipped`.

### ChangeEngine

The engine serves one call at a time; `pc` says where the call is. `RequestApply`, `Decline` or `Accept` (the second
validation), `TakeCheckpoint` (with its pruning), then for each operation `Verify`, `Write` and, for a move, `Unlink`;
`CheckPasses` and `Audit` end it. A failure leads through `FailTransaction` to `pc = "undo"`, where `Restore` brings
back one file a step; `RequestRestore` (once confirmed) and `RollbackChangeSet` lead there as well, and `goal` says what
for. `told` is how the last call ended: `done`, `failed`, or `torn` (RollbackFailedError, or the process died).

A file's contents are a value, a hash is the contents it stands for, a patch is the contents it leads to. A write is one
step, because the code writes a temporary file and renames or links it; a rename overwrites and a link does not, which
`Writable` keeps apart. A move has two steps. Copying the files of a checkpoint commutes with edits of other files and
is one step. An aborted call counts as one of the failing file accesses. Modes, size limits and statistics are left
out. `PathForms` says how the agent may name files: the validator takes absolute names of files in the workspace, and
the code compares names in two places.

`AtomicWorkspace` knows nothing of operations: a change happens as a whole (`Commit`) or not at all (`Fail`), a backup
comes back as a whole (`Restore`), and only `Tear` leaves some files new and some old, all of them backed up. The
mapping (`A` in `ChangeEngine`) shows the files of a call in progress as they were before it, until it ends (`View`),
and takes the stored checkpoints for the backups (`Backups`).

### Specialists

`Orchestration` says only how an agent ends; `Specialists` opens one run and shows what happens on the way. `StartBatch`
takes a batch as the scheduler does and starts its nodes one after the other: each is set running and then asks for its
file leases, which compare names by prefix, so that a folder conflicts with a file in it (`MayNest`). A refusal is
thrown outside the `try` block: the node stays running, the run fails, the nodes before it go on (`StartNodes`). An
attempt (`attempt[n][t]`) waits for the model, calls tools and returns a result, of which the scheduler stores the
artifacts one by one. `Timeout` drops its promise and begins the next try, while the old attempt goes on to its next
model call. The queue in front of the model is one sequence whose first element has the slot; a caller that was aborted
stays in it until its turn. `ollama.active` is what the client believes, `ollama.loaded` what Ollama holds.

### ChangeSession and RuntimeServer

`ChangeSession` is a ChangeSet with its verification coordinator without the files: `Status`, `Mutable`, the outcomes of
an apply, and the coordinator's flags after a verdict. `RuntimeServer` adds the server. `handler` is the request whose
handler is awaited: requests that wait for something (an apply, a restore, the creation of an orchestrator, a run that
resumes) are several steps, the others one. `Background(t)` is what a task does beside them, and the agent of a task may
call any tool in any order. `approvalOnce` is the flag that answers the next confirmation, whoever asks for it.
`resources` belong to the last task that has any and outlive it. `orchestrators` are all services ever made and
`orchestration` is the one the server knows; `workspace.set` and `settings.update` forget it, they do not stop it.
`asked` and `writes` are history: they count what the user asked for and what was carried out. A tool of the agent is
one step, though it awaits more than once: a prepare its validation and its preview (`PrepareTool`), an apply its
validation, confirmation, transaction and verification (`ApplyTool`). A request served meanwhile (a preview, a
rejection) comes before the tool or after it; one in between would change neither what is counted nor the folder, which
is what is stated of a task. The applies and restores that are asked for by requests, which `ApplyUndisturbed` is about,
have their awaits.

### AgentLoop

One turn is `Step` (the limits and the signal are compared), `Respond` (up to `MaxCalls` calls, or an end) and a step
per call. `executed` holds the calls made since the files last changed, so that a repeated call is refused (`Repeated`).
After an apply the coordinator verifies; a failed verdict asks for a repair, or undoes the change when
`RollbackOnFailure`. The reason of the finish is computed as `finish()` does, from the flags as they are then (`base`
and `reason`). Whether the files are broken is the choice of a verdict; `files` tells apart only which of the contents
the agent has given them.

### CommandRunner and ProjectVerifier

`run[c]` follows one call: policy, limits, confirmation, slot, process, record. The policy's decision is computed from
the traits of the command in the order of the code. A process that cannot be started keeps its slot until the event
`error`. A process tree has a leader and perhaps a child; `Stop` sends SIGTERM to both if the leader is there, whichever
is stubborn survives it, SIGKILL follows after the grace period if the leader is still there then, and the answer comes
when every holder of the pipes is gone. This is the killer of POSIX; on Windows `taskkill` ends the tree at once.
`ProjectVerifier` extends it: `job[c]` takes the steps of the plan one by one through the same runner, so that it
competes with other callers for slots and the session's limit. The verdict (`VerdictOf`), the scope of changed files
(`InScope`: a command of a package the task has not touched is not of the plan) and the comparison with the baseline are
translated. A snapshot hashes the files in `Hashed`, the others being too large or in folders it skips; a baseline from
before hashes were kept (`Unhashed`) is used without asking; which diagnostics a command prints is free.

### Remote

A write takes two requests. The first loads the manifest, checks policy and permissions (`Authorized`), and leaves an
approval and a prepared operation that holds the manifest as it was read. The second brings the decision and a text of
its own (`OtherText`); it checks once more (`Check`), writes, verifies by reading back, and saves. `Fail` may come at
any await, so an answer may be lost after the effect. `Crash` forgets what the server kept, and the next login makes the
old approvals useless; the manifest's file and GitHub stay. Other people push, close the pull request and comment; an
agent's tools prepare, list checks and save beside the user's request. Commits are sequences of authors, so that being
an ancestor is being a prefix, and a push by name sends whatever the branch has become: `written` records that, not what
was approved. All who save the manifest do it in one step. The temporary file they share
(`githubBranchPublisher.ts:101-113`) may be renamed by another of them, which puts one true manifest in the place of
another, or fail one of them, which is a `Fail`.

### Extension

`manager` is the state of `RuntimeManager`; processes are slots of the operating system, each with a transport and,
while it is being launched, the call of `start()` that waits for it. `HandleExit(p)` does not look at which process has
ended, as in the code. `call[c]` is a request of the controller with the answer it waits for; an apply first asks for
the ChangeSet, shows it, and then applies. `runtime[p]` is what the server in a process holds: `submit` makes it start a
task, the task opens a ChangeSet of its own (`TaskOpens`), adds operations to it (`TaskPrepares`) and ends; meanwhile a
ChangeSet may be shown, and rejected, but not applied. A submit is three requests (settings, workspace, submit) in one
step; when the manager is ready the workspace that is sent again makes the runtime forget its ChangeSet. `Ages` forgets
a restart that is five minutes old. A request that timed out is not carried out afterwards; the question before a
rejection, which asks for nothing that is used later, is left out. When an event rejects a promise, its handler runs
before the next event: `Settled` says that no such handler is waiting, and guards every action that is an event.

### WorkspaceReads

A call of a tool is a sequence of steps with an await between them: for a file `stat`, the look at its first bytes, the
bytes, the hash; for a folder its listing and a `stat` of each entry, with a stack of what is yet to be visited. Files
change at any moment in between, also from text to binary or to too large. The cache of files is compared by the stat
and evicts its oldest. An edit always changes the stat. `rules` are the folders whose `.gitignore` was read, in the
order they were: the first call that visits a folder reads it, once for all. The one read last that speaks of an entry
decides whether it is excluded (`Ignored`), by a rule (`Excluded`) or by a negated one (`Included`). Directories that
are always left out, and names with a dot, are `Hidden`. `list`, `find` and `search` differ in their limits and in
whether a limit that was reached is told.

## 3. What TLC checks

| Run | Expected | Properties | Shows |
|---|---|---|---|
| `session` | pass | `RunningHasRun`, `OneAgentPerNode`, `DependencyOrder`, `FinalGate`, `VetoBlocksApproval`, `DecisionIsFinal`, `CancelStopsOwnRun`, `RunResolves`, `CancelQuiesces` | a session with two runs, a replan, refused leases and one crash at any point, of a save too: states and runs agree, no node twice at once or too early, the gates hold, runs end, a cancelled session falls silent |
| `session_plan_gate` | violation | `PlanGate` | `orchestration.resume` runs a plan nobody approved |
| `specialists` | pass | `CompletedIsWhole`, `OneModelLoaded`, `AttemptsEnd` | a completed node has all artifacts it owes, of one attempt; one model is loaded at a time; attempts that were dropped end too |
| `change_atomic` | pass | `Atomic` | the engine implements `AtomicWorkspace`, with a failing file access and a crash anywhere |
| `change_edits` | pass | `SavedBefore`, `UndoesOnlyReached`, `AppliedIsWhole` | two edits by somebody else at any moment of an apply: what was written was saved before, undoing leaves files alone that were not reached, applied means whole |
| `change_undo` | violation | `UndoKeepsEdits` | undoing deletes a file that somebody else made |
| `runtime` | pass | `OneWritePerApproval`, `ChangesOfWorkspace`, `ApplyUndisturbed`, `WritesTrusted`, `TaskEnds` | one write for one approval, no ChangeSet of another folder, nobody beside an apply, no write to an untrusted folder, tasks and handlers end |
| `agent` | pass | `LimitIsReported`, `FailureIsReported`, `AbortBoundsWork`, `Ends` | the loop ends whatever the model answers, never claims success for files it has found broken, and starts nothing after an abort |
| `command` | pass | `LimitsHold`, `OnlyPermittedRun`, `VerdictIsEarned`, `OldIsOld`, `StoppedCallsEnd` | limits of commands and slots under concurrent calls, verdicts that rest on checks that ran, stopped commands that end but for a child the killer leaves |
| `remote` | pass | `WrittenOnce`, `PublishedWasApproved`, `OnePullRequest`, `PullRequestIsKept`, `Answered` | one write for an approval, answers being lost; what is recorded as published was approved; the manifest keeps its pull request; requests are answered |
| `extension` | pass | `AppliesWhatWasShown`, `RequestsEnd`, `RestartsEnd` | every request settles though its process dies, a runtime that keeps dying is given up, what is applied was shown in full unless it was shown while growing |
| `reads` | pass | `ReadsWhatWasThere`, `ListsWhatStays` | a text handed out was the file's at some moment of the call; a listing that does not say it is cut has all that stayed and no rule excludes |

The runs that end in a violation each state what a document or a test of the repository says; `PROJECT.json` quotes it.
`OneWritePerApproval` counts instead of naming: an apply that fails before it asks leaves its approval behind and the
agent's own tool may use it, so that a write need not be the one that was approved (see section 5).

### Bounds

*Sessions.* The graph has five nodes: planning, two specialists side by side (one of them a writer), and the two
mandatory reviews; the chain of analysis nodes is one node, since a chain adds steps and no interleavings. Two plans
(`MaxReplans = 1`) and two runs are needed for everything a run, an agent or a result can leave behind for the next one;
a third adds another of the same. `MaxTurns = 3` allows any three of two runs, a replan and a crash. `Lag` lets a new
run start when the epilogue of the last one has saved its files and still has its controller to remove; saves of
requests and of an epilogue overlap at every step. One node's lease may be refused. With `MaxSubtasks = 9` a second run
of the first plan hits the limit and one of the second plan does not. One crash covers every pair of file contents a
crash can leave, and recovery runs to the end. The user retries or cancels one specialist and no review
(`ReviewsComeLast`). `FinalGate` and `VetoBlocksApproval` are claimed as long as nothing has crashed.

*Specialists.* Three nodes, of which two run at once and one follows. Two models on one queue make them be loaded and
unloaded in turn; two tries are one that times out beside its retry; `MaxTotalSteps = 4` is used up in the middle of an
attempt. The pair in `MayNest` makes the refusal of a lease happen.

*Changes.* Two operations are one that is done and one that fails. `change_atomic` has a file that exists and one that
does not, so that a move, or a create beside a patch or a delete, is a whole ChangeSet; no edits, since it is about the
engine's own steps. Three checkpoints with two kept make pruning happen, in an apply as in a restore. `change_edits` has
three files so that a move goes with another operation, one checkpoint (one apply, and its rollback), and two edits
anywhere. `EditOwn = FALSE` in `change_atomic` excludes edits of the files of a call while it runs, and `PathForms` has
relative names only; both restrictions are needed (sections 4 and 5).

*Server.* Two folders, so that one is left for the other; two tasks, so that the second finds what the first left; two
applies or restores asked for; two orchestrators, one the server has forgotten and one it knows. `MaxSteps = 3` lets an
agent prepare, show and apply. `MaxRepairAttempts = 0` with `RollbackOnFailure` makes the server undo a change after the
first failed verification; repairs are the subject of `agent`.

*Agent.* Four turns of up to two calls: an apply that fails, a repair, another failure and the answer. Two contents are
one that breaks the project and one that does not, which is which being chosen.

*Commands.* Two callers for one slot and a limit of two commands, so that a caller waits for a confirmation while
another reaches the limit. Leader and child may each be stubborn. One file is hashed and one is not; the tests belong to
a package, so that the scope leaves them out or not. One edit may fall anywhere in or between two verifications.

*Remote.* Three requests are a push, the pull request and one thing more, or one of them repeated after it failed. Two
commits tell an approved head from a newer one, two logins an approval from before a login, two steps of others (a push
and something on the pull request). One poll of a watch is one that goes on.

*Extension.* Four slots are an old process that lingers, the present one, its automatic restart and one started by a
request. One restart reaches the limit, and is forgotten once; one stop races everything. Three requests or stops in all
are a task and an apply with one more beside them; one operation is what a ChangeSet may have or lack when it is shown.
Restores are not asked for: to the extension one differs from an apply only in what is asked before it.

*Reads.* Two calls of any tools with two edits: between two steps of one call, between the calls, or a second edit that
makes the file what it was. Limits of one and two make each of them be reached with few entries: a folder with a file, a
folder that is hidden, and a sensitive file that the root's rules exclude and its folder's include again.

The systems may stop when the bounds are used up, so deadlock is not checked; where something must not stop before its
time a liveness property says so.

### Fairness

Weak fairness is stated only of what the program does by itself once begun, and never of the user, the model, a crash or
other people.

* `Orchestration` (`FairSpec`): the steps of the run's loop and of its epilogue, the end of each agent (every attempt
  has a timeout, `orchestrationScheduler.ts:292-309`), and the saves of a request in progress. The deadline of a run is
  not among them: a run has to end without it.
* `Specialists`: the scheduler's own steps, an attempt's own steps and its time limit. The model need not answer a chat.
* `RuntimeServer`: the awaited handler, and each task. That a task's model call ends rests on its time limit.
* `AgentLoop`: the loop, for the same reason.
* `ProjectVerifier`: the runner's own steps, its killer among them, the time limit of a command, and the steps of a
  verification. No process need end by itself, or obey the SIGTERM if it is stubborn.
* `Remote`: a request of the user goes on or fails, since each request to GitHub and each git command has a time limit;
  a watch is made to poll on, and must end by its own bound.
* `Extension`: starts, exits, calls and shutdowns, each of which has a timer. Nothing makes a runtime answer, nor a user
  a question.
* `ChangeEngine` and `WorkspaceReads` have no liveness property: a call is a bounded number of steps, and waits for
  nobody but the user.

## 4. What is proved

`OrchestrationProofs` proves, for every graph, every set of outcomes and every bound that satisfies
`ShapeAssumption` and `SessionAssumption` (`Dep[PlanningNode] = {}` among them: the builder makes planning the root):

* `TypeCorrect`: `Spec => []TypeOK`, from `TypeInv`, which has three parts. `MemoryOK` is the types of what is in
  memory; `DiskInv` adds to the types of copies and files at which stage of a save there is a copy, and that a temporary
  file is somebody's who is about to rename; `FlowInv` says who may be saving, and that the graph object in use is not
  newer than the plan.
* `RunningHasRunAlways`, `FinalGateAlways` and `CancelStopsOwnRunAlways`, from `SessionInv`. None is inductive by
  itself: `SessionInv` adds which states a run or a replan in progress allows (`RunState`, `ReplanState`), and that
  without a crash the report in memory is the newest (`ReportIsNewest`).
* `DecisionIsFinalAlways`, from `DecisionInv`. A decision that is told is in the file. To stay there, every copy that
  was taken and not renamed has to be of the decided session (`SavesDecision`): the copies taken since are, and of those
  before there are none unless `raced` says so. A request that loses its temporary file to another fails, and tells
  nobody of a decision.
* `OneAgentPerNodeAlways` and `DependencyOrderAlways`, from `GraphInv`: agents belong to existing graph objects
  (`AgentsAlive`), and the order of statuses holds of the graph in memory, of the one in the file, which recovery may
  bring back, and of every copy on its way there (`GraphsOrdered`). The lemmas about `RefreshReadiness` carry it:
  refreshing blocks a node only after a dead one, and makes ready only what has all its dependencies finished.
* `VetoBlocksApprovalAlways`, from `ReviewInv`, where `ReviewsComeLast` holds: the independent review depends on the
  security review, both depend on whatever else may stop the session, and the user starts neither by hand. The first two
  are the builder's doing (`taskGraphBuilder.ts:44-74`); TLC checks the three on the instance. An agent outlives its
  run, and its late result replaces the one the synthesis has read, so it is not enough that the synthesis has seen no
  veto: no reviewer may be at work when the session is offered or stopped (`ReviewersSilent`), nor one of an earlier
  plan afterwards (`ReviewersCurrent`). The former needs that a run's agents are at work on the graph in use
  (`RunsNumbered`), and from `GraphInv` that two reviewers are never at work at once. Without the last part of the
  hypothesis it is false (see 5).

`SpecialistsProofs` proves, for every graph, any models and outputs, and every limit of tries and steps
(`ShapeAssumption`, `SpecialistsAssumption`): `SpecialistsTypeCorrect`, `CompletedIsWholeAlways`,
`OneModelLoadedAlways` and `SlotIsOrderedAlways`, from `SpecialistsInv`. A node is whole because the attempt that is
awaited is the last one of its node and has stored nothing yet, and the ones that were given up store nothing any more
(`NodeFits`). The model is one at a time because the attempts that ask for it are in the queue, once each, and who uses it
is the first (`QueueFits`); `SlotIsOrdered` says this of the attempts alone. Of one model Ollama holds no other than
the client knows of, whatever an unload that fails leaves behind (`LoadedFits`).

`ChangeEngineProofs` proves, for every set of files and contents, every retention and every
bound that satisfies `EngineAssumption`:

* `EngineTypeCorrect` and `SavedBeforeAlways`, from `EngineInv`. `SavedBefore` speaks of the files that differ from
  before the call; to last, it needs to know where an undoing reads from and that it writes nothing else. So `EngineInv`
  adds that the checkpoint of a call survives its own pruning, has the files as they were, and covers every file the
  call may change (`Protected`), that a transaction would be undone from that very checkpoint (`InTransaction`), and that
  what is left to restore is in it (`Undoing`).
* `AppliedIsWholeAlways` adds `Whole`: what the check after the transaction has found of each file still holds when the
  ChangeSet is called applied, but for files edited in between.
* `UndoesOnlyReachedAlways` adds that touched operations are not beyond `idx` (`Reached`). It assumes `OneForm`: files
  are named in one way, so that comparing names keeps operations apart (`Apart`). With two forms an operation reached
  and one not reached may be about one file.
* `EngineIsAtomic`: `Spec => Atomic`, each step of the engine being a step of `AtomicWorkspace` or leaving it as it is.
  It assumes `Sheltered`: nobody edits the files of a call while it runs, and names are relative. `RefinementInv` says
  how far a call has come: each operation is done, being done or untouched (`Progress`), and while undoing or restoring
  each file is as before or as it would be, and where nothing is left to do as the call leaves it (`Failing`,
  `Restoring`, `Abandoning`). At the end nothing is left to do, so the whole change shows at once; at a crash or a failed
  undoing every file is one or the other, which is what `Tear` allows. `change_undo` shows what
  happens without the first. Edits of other files may happen at any time; `change_atomic` checks the same
  property with none.

`RuntimeServerProofs` proves, for any folders, modes, numbers of tasks, requests and steps (`ServerAssumption`,
`ChangeSessionAssumption`):

* `ServerTypeCorrect`, and `OneTaskAlways`: no task works beside `activeTask`.
* `OneWritePerApprovalAlways`, `ChangesOfWorkspaceAlways`, `WritesTrustedAlways` and `ApplyUndisturbedAlways`, from
  `ServerInv`. The count of writes is inductive only together with the approvals that are left: a pending `approvalOnce`
  and a confirmed apply each stand for a request not used yet. That a ChangeSet belongs to the open folder needs
  `Resourced` (resources exist only with a folder, and a ChangeSet that may be written only with its trust); that nobody
  disturbs an apply needs `OneTask` and `AppliesAlone` (no task works while an apply is awaited, and none starts); that
  nothing is written without trust needs `Trusting`.

`AgentLoopProofs` proves, for every limit of steps, calls, operations and repairs (`LoopAssumption`,
`ChangeSessionAssumption`): `LoopTypeCorrect`, `LimitIsReportedAlways`, `FailureIsReportedAlways` and
`AbortBoundsWorkAlways`, from `LoopInv`. A reason is given once, at the end, so the invariant says what the
coordinator's flags may be together on the way there (`Sound`): who has to repair has a failed report; nobody is asked to
confirm what the limit refuses; and where the limit has been reached either every further apply is refused or a change
was undone. The last alternative is why `LimitIsReportedAlways` assumes `~RollbackOnFailure` (see 5). The counter of
repairs stays within its limit because an apply that would exceed it is refused first: a lemma about `ChangeSession`, which
`RuntimeServerProofs` rests on too.

`ProjectVerifierProofs` proves, for all callers, commands, policies and limits (`RunnerAssumption`,
`VerifierAssumption`): `VerifierTypeCorrect`, `LimitsHoldAlways`, `OnlyPermittedRunAlways`, `VerdictIsEarnedAlways` and
`OldIsOldAlways`, from `VerifierInv`. Of the runner it says that the slots taken are the calls that run, by their number,
and that what the policy decided at the validation is still known at the start (`RunnerInv`); of a verification, that
every command of the plan is yet to run or has a step, unless it was aborted (`Planned`); of the baseline, that a file
that is hashed and was changed by somebody else has a newer version than the one the baseline was made of (`Outdated`).

`RemoteProofs` proves, for any agents' commits and texts, logins, requests and steps of other people
(`RemoteAssumption`; it asks for two different texts, so that a user can be shown one and approve another):
`RemoteTypeCorrect`, `WrittenOnceAlways`, `PublishedWasApprovedAlways`, `OnePullRequestAlways` and
`PullRequestIsKeptAlways`, from `RemoteInv`. Approvals are only added and used up, and what a manifest says of them stays
true (`Later`); so a request that read the manifest long ago still holds a true one, and a save that comes late overwrites
a true one with a true one (`Truthful`). A write is not made twice because an approval is used up before the
write (`Used`), and since only the user's own request holds a decision nobody has touched
meanwhile (`Decided`, `Beside`). That the agent creates one pull request rests on that last point: the one that
creates has looked before, and other people's steps create none. The type of comments is bounded by the approvals
under which one was written (`Spent`). What a push carries is a prefix of the branch on GitHub, and a branch is never
shorter than what was approved of it (`PushInv`); so the check that reads the branch back, and finds the approved head,
has found that nothing else was pushed.

`WorkspaceReadsProofs` proves, for every tree of folders, every set of callers and edits, and all limits
(`ReadsAssumption`, and `TreeAssumption`: no folder lies in itself): `ReadsTypeCorrect`, `ReadsWhatWasThereAlways`
and `ListsWhatStaysAlways`, from `ReadsInv`. Of reading: a text in the cache under some size and time is the file's own
as long as the file has these (`Remembered`), and what a call has shown so far, or will show if the file does not
change under it, was there during the call (`ReadFits`). Of listing: each file that stays and that the call should find
is found, or is still ahead: it, or a folder above it, is in one of the frames (`Placed`, `Ahead`); the frames are as
deep as the entries in them, so the folder of a file that is wanted is not too deep itself. No call passes over an entry
unless a rule speaks against it, whatever the rules loaded since say (`Omissible`). The lemmas about `Above`
rest on the smallest closed set of folders, which takes no induction over the tree.

Each invariant has one step per action; TLC has checked each on the run of its module before it was proved.
Only model-checked are the liveness properties `RunResolves`, `CancelQuiesces`, `TaskEnds`, `Ends`, `StoppedCallsEnd`,
`Answered`, `RequestsEnd`, `RestartsEnd` and `AttemptsEnd`, which the prover cannot do under fairness, and
`AppliesWhatWasShown` of `Extension`.

## 5. What is left

### The plan

1. `Specialists` as a refinement of what `Orchestration` says of agents.
2. The builder of the graph and its validator, as a reference for `ShapeAssumption` and `ReviewsComeLast`.
3. `AppliesWhatWasShown` of `Extension`, with what ties its callers to the process they ask and a ChangeSet to its task.

### What the code does that no property excludes

These were met while modelling. The models do the same as the code, and the properties are stated so that they hold.

* A crash between the two writes of a persist pairs a session with an older report (`agentOrchestrator.ts:475`), and a
  vetoed result can then be approved.
* A review that was blocked and that the user retries by hand (`agentOrchestrator.ts:539`) starts before what it depends
  on. It may outlive its run and its plan, and replace the verdict the user has approved. TLC finds this in an instance
  with four runs where the user may retry the review.
* Results outlive the plan they were made for and count for the next one (`orchestrationSession.ts:150`).
* The epilogue of an old run removes the controller of a new one, which a later cancel does not reach
  (`agentOrchestrator.ts:482`).
* A refused lease leaves its node running without an agent (`orchestrationScheduler.ts:156`). The next run does not take
  it for ready, and the user can neither retry nor cancel it.
* An epilogue that has copied the session before a decision may rename its copy after the decision was saved
  (`orchestrationRecovery.ts:15-22`). In memory the decision stays; after a restart the session is what it was before.
* Two who save a file at once may take each other's temporary file away, which fails a request whose effect is already
  in memory (`orchestrationRecovery.ts:16`), or ends an epilogue.
* A restore makes a safety checkpoint, whose pruning may remove the checkpoint that is being restored
  (`changeService.ts:776`); files named absolutely are not undone (`checkpointService.ts:222`).
* A failed verification is thrown after the apply, and its flags are those of an earlier one
  (`verificationCoordinator.ts:62`).
* With `rollbackOnVerificationFailure` the undone change that reaches the limit of repairs ends the repair as well
  (`verificationCoordinator.ts:72-75`), so that the agent may go on, and a ChangeSet that then waits for the user is
  reported instead of the limit (`agentLoop.ts:313-335`).
* A stubborn child of a leader that ends in time, or has ended, keeps its call and its slot as long as it lives: the
  killer returns before the SIGKILL (`processTreeKiller.ts:35`), although `README.md:359` says that a time limit and a
  signal end the whole tree ("AbortSignal i timeout kończą całe drzewo procesu").
* A baseline without hashes is believed whatever has changed, and so is one of files it has not hashed
  (`baselineService.ts:64-82`, `:134`).
* What is pushed is the branch by its name, with commits that were made after the check (`githubBranchPublisher.ts:129`,
  `:174`). The request then fails when it reads the branch back, and nothing is recorded, but the commits are on GitHub.
* An approval that was not used is left for the agent's next confirmation (`runtimeServer.ts:758`, `:484-488`).
* An orchestrator the server has forgotten may go on running for another folder (`runtimeServer.ts:1277`).
* The exit of an old process disposes the transport of a new one (`runtimeManager.ts:72`); after a transaction that may
  have been torn the extension restarts the runtime and knows nothing of the files.
* A ChangeSet may be shown while its task goes on, and an apply names its id alone (`runtimeServer.ts:739`, `:661-671`,
  `changeService.ts:432`): when the task has ended more is applied than was shown.
* A submit sends the workspace again before it asks whether changes are undecided, which makes the runtime forget them
  (`agentController.ts:202`).
* Of restarts only those of the last five minutes count (`runtimeManager.ts:91`): a runtime that dies every few minutes
  is restarted for ever.
* `read_file_range` hashes the file after it has streamed the lines, so that its hash may be of another text
  (`workspaceService.ts:519-559`); the rules of a `.gitignore` that has changed stay as they were read.
* Directories that are always ignored, hidden files and files excluded by a rule are left out with `truncated: false`
  (`ignoreService.ts:88-93`). A file that one `.gitignore` excludes and another includes is there or not depending on
  which was read last (`:100-110`), and the rules above the folder asked about are not read for it.

### Not modelled

* Text processing without state: patches and diffs, the parsers of diagnostics and CI logs, references and URLs, path
  validation, prompts and message schemas. Where a decision depends on it, the result is a choice or a trait.
* Budgets other than steps, rate limits, sizes of outputs, logging and audit.
* The message bus and the merge service of the orchestrator, which the runtime does not call.
* Views, the command line, the configuration's validation, the installer and build scripts.

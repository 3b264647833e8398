--------------------------- MODULE Orchestration ---------------------------
(***************************************************************************)
(* One orchestration session of the agent runtime: the user's requests     *)
(* (served one at a time by the JSON-RPC server), the run that executes    *)
(* the task graph in the background, the specialist agents it starts, the  *)
(* files the session is persisted in, and a crash of the process at any    *)
(* point, followed by recovery.                                            *)
(*                                                                         *)
(* Persisting is not atomic.  manifest.json and task-graph.json are saved  *)
(* one after the other, and a run saves final-report.json after both.      *)
(* Each file is saved in three steps with an await between them: a copy is *)
(* taken of what the session is, the copy is written to a temporary file,  *)
(* and this is renamed.  All who save a file use the same temporary name.  *)
(***************************************************************************)
EXTENDS TaskGraph, OrchestrationStateMachine

CONSTANTS
  PlanningNode,  \* the node the planner executes while the session is created
  SecurityNode,  \* the mandatory security review
  ReviewNode,    \* the mandatory independent review
  Replanned,     \* the nodes a new plan has: replan() knows the task and the
                 \* mode only, the optional specialists are not asked for again
  Outcomes,      \* Outcomes[n]: how an agent on node n may end
  Refusable,     \* the nodes whose file lease may be refused
  UserNodes,     \* bound: the nodes the user retries or cancels one by one
  MaxReplans,    \* config.maxReplans
  MaxSubtasks,   \* config.maxSubtasks
  MaxRuns,       \* bound: how many runs are started
  Lag,           \* bound: how far behind an epilogue may be when the next run
                 \* starts: the files it may still be at
  MaxCrashes,    \* bound: how often the process dies
  MaxTurns       \* bound: how many runs, new plans and crashes in all

File == {"manifest", "graph", "report"}

Outcome == {"done", "stop", "pass", "block", "approve", "changes", "manual"}

ASSUME SessionAssumption ==
  /\ {PlanningNode, SecurityNode, ReviewNode} \subseteq Node
  /\ Dep[PlanningNode] = {}
  /\ Replanned \subseteq Node
  /\ Outcomes \in [Node -> SUBSET Outcome]
  /\ Refusable \subseteq Node
  /\ UserNodes \subseteq Node
  /\ Lag \subseteq File \cup {"release"}
  /\ {MaxReplans, MaxSubtasks, MaxRuns, MaxCrashes, MaxTurns} \subseteq Nat

\* What TaskGraphBuilder sees to: the independent review awaits the security
\* review, and both await whatever else may stop the session, its nodes in a
\* chain being counted as one.  That the user starts no review by hand is not
\* the builder's to see to: retryNode takes any node.
Mandatory == {SecurityNode, ReviewNode}

ReviewsComeLast ==
  /\ SecurityNode \in Dep[ReviewNode]
  /\ \A n \in Node \ Mandatory :
       "stop" \in Outcomes[n] => n \in Dep[SecurityNode] \cap Dep[ReviewNode]
  /\ UserNodes \cap Mandatory = {}

Plan == 1 .. MaxReplans + 1
RunId == 1 .. MaxRuns
Verdict == {"ready_for_approval", "changes_required", "security_blocked"}
Report == Verdict \cup {"none"}
Result == Outcome \cup {"none"}
Agent == [node : Node, gen : Plan, run : RunId]
ManifestType ==
  [state : OrchestrationState, plan : Plan, approved : Plan \cup {0},
   subtasks : Nat, results : [Node -> Result]]
SnapshotType == [plan : Plan \cup {0}, status : [Node -> Status]]

\* What each file of a session may hold, and who saves them: the request being
\* served, and each run when its loop has ended.

Content(f) ==
  IF f = "manifest" THEN ManifestType
  ELSE IF f = "graph" THEN SnapshotType
  ELSE IF f = "report" THEN Report
  ELSE {}

Foreground == 0
Saver == RunId \cup {Foreground}

VARIABLES
  up,            \* the session is loaded in a live process
  state, plan,   \* the session's manifest: state, newest plan version,
  approved,      \* version of the plan the user approved (0: none),
  subtasks,      \* usage.subtasksCreated,
  results,       \* newest result recorded for each task
  gplan, status, \* the graph: the plan version it was built for, node status,
  gen,           \* which of the graph objects of this process it is
  report,        \* the final report held in memory
  runPc, runId,  \* the run's main loop: where it is, which run it is
  aborted,       \* its AbortController was aborted
  errs,          \* how the agents of its current batch have failed
  own,           \* the results its own agents have delivered
  ctrl,          \* the run whose controller runControllers holds (0: none)
  exec,          \* the agents at work
  saving,        \* per saver: the file it is at ("none": it saves nothing;
                 \* "release": all saved, the run's controller is left)
  stage,         \* per saver: its next step with that file
  copy,          \* per saver: the copy it has taken (at most one)
  temp,          \* the temporary of each file (empty: there is none)
  file,          \* the files
  tailReport,    \* per run: the report it still has to save
  fgPc, fgThen,  \* the request being served, and what follows its persist
  runs, crashes, \* counters for the bounds
  last,          \* history: what the newest consensus of this
                 \* process came to
  forced,        \* history: blocked nodes the user made ready
  acked,         \* history: the final decision confirmed to the user
  raced          \* history: an epilogue had a copy of the session as it was
                 \* before a final decision

session == <<state, plan, approved, subtasks, results>>
graph == <<gplan, status, gen>>
run == <<runPc, runId, aborted, errs, own>>
fg == <<fgPc, fgThen>>
disk == <<stage, copy, temp, file>>
history == <<runs, crashes, last, forced, acked, raced>>

vars == <<up, session, graph, report, run, ctrl, exec, saving, tailReport, fg,
          disk, history>>

manifestFile == file["manifest"]
graphFile == file["graph"]
reportFile == file["report"]

NoResults == [n \in Node |-> "none"]

(***************************************************************************)
(* What persist() writes and what a session looks like that is not in      *)
(* memory.  A manifest in state "created" stands for a missing file: no    *)
(* session is persisted before it has left that state.                     *)
(***************************************************************************)
Manifest ==
  [state |-> state, plan |-> plan, approved |-> approved,
   subtasks |-> subtasks, results |-> results]

GraphSnapshot == [plan |-> gplan, status |-> status]

NoManifest ==
  [state |-> "created", plan |-> 1, approved |-> 0,
   subtasks |-> 0, results |-> NoResults]

PlanNodes(v) == IF v = 1 THEN Node ELSE Replanned

\* A new graph of plan v.  A node the plan does not have is shown as skipped:
\* nothing waits for it and no request may touch it.
NewStatus(v) ==
  RefreshReadiness(
    [n \in Node |-> IF n \in PlanNodes(v) THEN "pending" ELSE "skipped"])

NoGraph == [plan |-> 0, status |-> NewStatus(1)]

SetSession(m) ==
  /\ state' = m.state
  /\ plan' = m.plan
  /\ approved' = m.approved
  /\ subtasks' = m.subtasks
  /\ results' = m.results

Init ==
  /\ up = TRUE
  /\ state = "created" /\ plan = 1 /\ approved = 0
  /\ subtasks = 0 /\ results = NoResults
  /\ gplan = 1 /\ status = NewStatus(1) /\ gen = 1
  /\ report = "none"
  /\ runPc = "idle" /\ runId = 0 /\ aborted = FALSE /\ errs = {}
  /\ own = NoResults
  /\ ctrl = 0
  /\ exec = {}
  /\ saving = [s \in Saver |-> "none"]
  /\ stage = [s \in Saver |-> "read"]
  /\ copy = [s \in Saver |-> {}]
  /\ temp = [f \in File |-> {}]
  /\ file = [f \in File |-> IF f = "manifest" THEN NoManifest
                             ELSE IF f = "graph" THEN NoGraph ELSE "none"]
  /\ tailReport = [r \in RunId |-> "none"]
  /\ fgPc = "idle" /\ fgThen = "none"
  /\ runs = 0 /\ crashes = 0
  /\ last = "none" /\ forced = {} /\ acked = "none" /\ raced = FALSE

-----------------------------------------------------------------------------
(***************************************************************************)
(* Requests.  The server awaits one request before it reads the next, so   *)
(* at most one is in progress; a request changes the session in memory in  *)
(* one step and then saves it.                                             *)
(***************************************************************************)
Request == up /\ fgPc = "idle"

Turns == runs + (plan - 1) + crashes

ThenPersist(next) ==
  /\ fgPc' = "save" /\ fgThen' = next
  /\ saving' = [saving EXCEPT ![Foreground] = "manifest"]

\* An epilogue has a copy of the session that it has not renamed yet.
StaleCopy == \E r \in RunId : saving[r] = "manifest" /\ stage[r] # "read"

\* create: the planner has produced its plan and the session waits for the
\* user.  When the planner fails nothing is kept, so no step stands for it.
Create ==
  /\ Request
  /\ state = "created"
  /\ state' = "awaiting_plan_approval"
  /\ results' = [results EXCEPT ![PlanningNode] = "done"]
  /\ status' = RefreshReadiness([status EXCEPT ![PlanningNode] = "completed"])
  /\ ThenPersist("none")
  /\ UNCHANGED <<up, plan, approved, subtasks, gplan, gen, report,
                 run, ctrl, exec, tailReport, disk, history>>

\* approvePlan: the newest plan version becomes the approved one, then the
\* run is started.
ApprovePlan ==
  /\ Request
  /\ state # "created"
  /\ CanTransition(state, "scheduled")
  /\ runs < MaxRuns /\ Turns < MaxTurns
  /\ state' = "scheduled"
  /\ approved' = plan
  /\ ThenPersist("run")
  /\ UNCHANGED <<up, plan, subtasks, results, graph, report, run,
                 ctrl, exec, tailReport, disk, history>>

\* resume: the same transition, but no plan is approved.
Resume ==
  /\ Request
  /\ state # "created"
  /\ CanTransition(state, "scheduled")
  /\ runs < MaxRuns /\ Turns < MaxTurns
  /\ state' = "scheduled"
  /\ ThenPersist("run")
  /\ UNCHANGED <<up, plan, approved, subtasks, results, graph, report, run,
                 ctrl, exec, tailReport, disk, history>>

\* Wrong variant of Cancel: the run's controller is not aborted.
CancelWithoutAbort ==
  /\ Request
  /\ state # "created"
  /\ CanTransition(state, "cancelled")
  /\ state' = "cancelled"
  /\ raced' = (raced \/ StaleCopy)
  /\ ThenPersist("none")
  /\ UNCHANGED <<up, plan, approved, subtasks, results, graph, report,
                 run, ctrl, exec, tailReport, disk, runs, crashes,
                 last, forced, acked>>

\* cancel, and rejectPlan while the plan awaits approval: abort the run whose
\* controller is registered, if its loop still listens.
Cancel ==
  /\ Request
  /\ state # "created"
  /\ CanTransition(state, "cancelled")
  /\ aborted' = (aborted \/ (runPc # "idle" /\ ctrl = runId))
  /\ state' = "cancelled"
  /\ raced' = (raced \/ StaleCopy)
  /\ ThenPersist("none")
  /\ UNCHANGED <<up, plan, approved, subtasks, results, graph, report,
                 runPc, runId, errs, own, ctrl, exec, tailReport, disk, runs,
                 crashes, last, forced, acked>>

\* approveFinal: only a report without blocks can be approved.
ApproveFinal ==
  /\ Request
  /\ report = "ready_for_approval"
  /\ CanTransition(state, "completed")
  /\ state' = "completed"
  /\ raced' = (raced \/ StaleCopy)
  /\ ThenPersist("none")
  /\ UNCHANGED <<up, plan, approved, subtasks, results, graph, report,
                 run, ctrl, exec, tailReport, disk, runs, crashes,
                 last, forced, acked>>

\* rejectResult of a result that awaits the final decision: rejectFinal
\* persists the session before a new plan is made.
RejectFinal ==
  /\ Request
  /\ state = "awaiting_final_approval" /\ Turns < MaxTurns
  /\ state' = "replanning"
  /\ ThenPersist("replan")
  /\ UNCHANGED <<up, plan, approved, subtasks, results, graph, report,
                 run, ctrl, exec, tailReport, disk, history>>

\* rejectResult of a session the security review has stopped: straight to the
\* new plan.
RejectStopped ==
  /\ Request
  /\ state = "security_stopped" /\ Turns < MaxTurns
  /\ fgPc' = "replan" /\ fgThen' = "none"
  /\ UNCHANGED <<up, session, graph, report, run, ctrl, exec, saving,
                 tailReport, disk, history>>

\* replan: a fresh graph for the next plan version; old results stay.  When
\* the number of replans is used up it throws, and the state is left as it is.
Replan ==
  /\ up /\ fgPc = "replan"
  /\ \/ /\ plan - 1 < MaxReplans
        /\ plan' = plan + 1
        /\ gplan' = plan + 1
        /\ gen' = gen + 1
        /\ status' = NewStatus(plan + 1)
        /\ state' = "awaiting_plan_approval"
        /\ ThenPersist("none")
     \/ /\ plan - 1 >= MaxReplans
        /\ fgPc' = "idle" /\ fgThen' = "none"
        /\ UNCHANGED <<plan, graph, state, saving>>
  /\ UNCHANGED <<up, approved, subtasks, results, report, run, ctrl,
                 exec, tailReport, disk, history>>

\* Wrong variant of RetryNode: any node that has been started is made ready.
RetryAnyNode(n) ==
  /\ Request
  /\ status[n] \in {"failed", "blocked", "running"}
  /\ status' = [status EXCEPT ![n] = "ready"]
  /\ forced' = IF status[n] = "blocked" THEN forced \cup {n} ELSE forced
  /\ IF state = "failed"
       THEN state' = "recovery_required"
       ELSE UNCHANGED state
  /\ ThenPersist("none")
  /\ UNCHANGED <<up, plan, approved, subtasks, results, gplan, gen, report,
                 run, ctrl, exec, tailReport, disk, runs, crashes, last,
                 acked, raced>>

\* retryNode: a failed or a blocked node becomes ready, whatever the state of
\* its dependencies and of the session; a failed session awaits resumption.
RetryNode(n) ==
  /\ Request
  /\ status[n] \in {"failed", "blocked"}
  /\ status' = [status EXCEPT ![n] = "ready"]
  /\ forced' = IF status[n] = "blocked" THEN forced \cup {n} ELSE forced
  /\ IF state = "failed"
       THEN state' = "recovery_required"
       ELSE UNCHANGED state
  /\ ThenPersist("none")
  /\ UNCHANGED <<up, plan, approved, subtasks, results, gplan, gen, report,
                 run, ctrl, exec, tailReport, disk, runs, crashes, last,
                 acked, raced>>

\* cancelNode: any node that is not running and not finished.
CancelNode(n) ==
  /\ Request
  /\ state # "created"
  /\ status[n] # "running"
  /\ CanSet(status, n, "cancelled")
  /\ status' = [status EXCEPT ![n] = "cancelled"]
  /\ ThenPersist("none")
  /\ UNCHANGED <<up, session, gplan, gen, report, run, ctrl, exec, tailReport,
                 disk, history>>

(***************************************************************************)
(* Saving: persist(), persistReport() and atomicJson().                    *)
(***************************************************************************)
Contents(s, f) ==
  IF f = "manifest" THEN Manifest
  ELSE IF f = "graph" THEN GraphSnapshot
  ELSE tailReport[s]

\* What a saver turns to when a file is in its place.
NextFile(s) ==
  IF saving[s] = "manifest" THEN "graph"
  ELSE IF s = Foreground THEN "none"
  ELSE IF saving[s] = "graph" /\ tailReport[s] # "none" THEN "report"
  ELSE "release"

Saves(s, st) == up /\ saving[s] \in File /\ stage[s] = st

SaveReads(s) ==
  /\ Saves(s, "read")
  /\ copy' = [copy EXCEPT ![s] = {Contents(s, "manifest")}]
  /\ stage' = [stage EXCEPT ![s] = "write"]
  /\ UNCHANGED <<up, session, graph, report, run, ctrl, exec, saving,
                 tailReport, fg, temp, file, history>>

\* writeFile: whatever has the name is overwritten.
SaveWrites(s) ==
  /\ Saves(s, "write")
  /\ temp' = [temp EXCEPT ![saving[s]] = copy[s]]
  /\ copy' = [copy EXCEPT ![s] = {}]
  /\ stage' = [stage EXCEPT ![s] = "rename"]
  /\ UNCHANGED <<up, session, graph, report, run, ctrl, exec, saving,
                 tailReport, fg, file, history>>

\* rename: it moves what has the name by now, whoever wrote it.  After its last
\* file a request goes on, or the user is answered.
SaveRenames(s) ==
  /\ Saves(s, "rename")
  /\ \E c \in temp[saving[s]] : file' = [file EXCEPT ![saving[s]] = c]
  /\ temp' = [temp EXCEPT ![saving[s]] = {}]
  /\ saving' = [saving EXCEPT ![s] = NextFile(s)]
  /\ IF NextFile(s) \in File
       THEN /\ stage' = [stage EXCEPT ![s] = "write"]
            /\ copy' = [copy EXCEPT ![s] = {Contents(s, NextFile(s))}]
       ELSE /\ stage' = [stage EXCEPT ![s] = "read"]
            /\ UNCHANGED copy
  /\ IF NextFile(s) = "none"
       THEN /\ fgPc' = IF fgThen = "none" THEN "idle" ELSE fgThen
            /\ fgThen' = "none"
            /\ acked' = IF fgThen = "none" /\ state \in Terminal
                          THEN state ELSE acked
       ELSE UNCHANGED <<fg, acked>>
  /\ UNCHANGED <<up, session, graph, report, run, ctrl, exec, tailReport, runs,
                 crashes, last, forced, raced>>

\* Somebody else's rename has taken the temporary file away: the request fails
\* and goes no further; the epilogue ends without releasing the controller.
SaveFails(s) ==
  /\ Saves(s, "rename")
  /\ temp[saving[s]] = {}
  /\ stage' = [stage EXCEPT ![s] = "read"]
  /\ saving' = [saving EXCEPT ![s] = "none"]
  /\ IF s = Foreground
       THEN fgPc' = "idle" /\ fgThen' = "none" /\ UNCHANGED tailReport
       ELSE tailReport' = [tailReport EXCEPT ![s] = "none"] /\ UNCHANGED fg
  /\ UNCHANGED <<up, session, graph, report, run, ctrl, exec, copy, temp, file,
                 history>>

SaveStep(s) == SaveReads(s) \/ SaveWrites(s) \/ SaveRenames(s) \/ SaveFails(s)

-----------------------------------------------------------------------------
(***************************************************************************)
(* The run.                                                                *)
(***************************************************************************)

\* run: the tracker counts the subtasks of the graph before the try block, so
\* a session over the limit is left "running" with no run behind it.
StartRun ==
  /\ up /\ fgPc = "run" /\ runPc = "idle"
  /\ state = "scheduled"
  /\ \A r \in RunId : saving[r] \in Lag \cup {"none"}
  /\ state' = "running"
  /\ runs' = runs + 1
  /\ runId' = runs + 1
  /\ ctrl' = runs + 1
  /\ runPc' = IF subtasks + Cardinality(PlanNodes(gplan)) > MaxSubtasks
                THEN "idle" ELSE "loop"
  /\ aborted' = FALSE /\ errs' = {} /\ own' = NoResults
  /\ fgPc' = "idle" /\ fgThen' = "none"
  /\ UNCHANGED <<up, plan, approved, subtasks, results, graph, report,
                 exec, saving, tailReport, disk, crashes, last, forced, acked,
                 raced>>

\* The loop is over: the usage is stored and the epilogue begins.
EndLoop(rep) ==
  /\ subtasks' = subtasks + Cardinality(PlanNodes(gplan))
  /\ runPc' = "idle" /\ aborted' = FALSE /\ errs' = {} /\ own' = NoResults
  /\ saving' = [saving EXCEPT ![runId] = "manifest"]
  /\ tailReport' = [tailReport EXCEPT ![runId] = rep]
  /\ UNCHANGED <<up, plan, approved, gplan, gen, runId, ctrl, fg, disk,
                 runs, crashes, forced, acked, raced>>

\* The catch branch for any error but a veto of a reviewer.
Fail ==
  /\ state' = IF state = "running" /\ ~aborted THEN "failed" ELSE state
  /\ EndLoop("none")
  /\ UNCHANGED <<report, last, exec>>

\* Wrong variants of Conclude: a session that was cancelled meanwhile is
\* offered all the same; an earlier report is not replaced.
ConcludeAnyState(verdict) ==
  /\ report' = verdict
  /\ last' = verdict
  /\ state' = IF verdict = "security_blocked" THEN "security_stopped"
              ELSE "awaiting_final_approval"
  /\ EndLoop(verdict)
  /\ UNCHANGED exec

ConcludeKeepingReport(verdict) ==
  /\ report' = IF report = "none" THEN verdict ELSE report
  /\ last' = verdict
  /\ state' = IF state # "running" THEN state
              ELSE IF verdict = "security_blocked" THEN "security_stopped"
              ELSE "awaiting_final_approval"
  /\ EndLoop(verdict)
  /\ UNCHANGED exec

\* Synthesis: the report replaces the previous one, and a session that is
\* still running is offered to the user or stopped.
Conclude(verdict) ==
  /\ report' = verdict
  /\ last' = verdict
  /\ state' = IF state # "running" THEN state
              ELSE IF verdict = "security_blocked" THEN "security_stopped"
              ELSE "awaiting_final_approval"
  /\ EndLoop(verdict)
  /\ UNCHANGED exec

\* Wrong variant of Consensus: the independent review has no veto.
ConsensusWithoutVeto(res) ==
  IF res[SecurityNode] = "none" \/ res[ReviewNode] = "none"
    THEN {"error"}
  ELSE IF res[SecurityNode] \in {"stop", "block"}
    THEN {"security_blocked"}
  ELSE {"ready_for_approval", "changes_required"}

(***************************************************************************)
(* What ConsensusService makes of the newest result of each role: an       *)
(* error when a mandatory review is missing, a veto, or an approval, which *)
(* conflicts between the results may still turn into changes.              *)
(***************************************************************************)
Consensus(res) ==
  LET security == res[SecurityNode]
      review == res[ReviewNode]
  IN  IF security = "none" \/ review = "none" THEN {"error"}
      ELSE IF security \in {"stop", "block"} THEN {"security_blocked"}
      ELSE IF review \in {"changes", "manual"} THEN {"changes_required"}
      ELSE {"ready_for_approval", "changes_required"}

\* The agents of the run's current batch that have not ended.
Awaited == {e \in exec : e.run = runId}

\* The run is at the head of its loop: it has just begun, or every agent of
\* its batch has delivered.
AtLoopTop ==
  /\ up
  /\ \/ runPc = "loop"
     \/ runPc = "batch" /\ errs = {} /\ Awaited = {}

Refreshed == RefreshReadiness(status)

\* Wrong variant of RunStops: only the time is checked, not the signal.
RunStopsOnTimeOnly ==
  /\ AtLoopTop /\ ~aborted
  /\ Fail
  /\ UNCHANGED <<status, results>>

\* The session was cancelled, or its time is used up.
RunStops ==
  /\ AtLoopTop
  /\ Fail
  /\ UNCHANGED <<status, results>>

\* execute() returns the results of this run's own agents, and they replace
\* whatever agents of an earlier run have recorded meanwhile.
Collected == [n \in Node |-> IF own[n] = "none" THEN results[n] ELSE own[n]]

\* Every node is finished: the results are put together.
RunFinishes ==
  /\ AtLoopTop /\ ~aborted
  /\ Unfinished(Refreshed) = {}
  /\ status' = Refreshed
  /\ results' = Collected
  /\ \E c \in Consensus(Collected) : IF c = "error" THEN Fail ELSE Conclude(c)

\* Wrong variant of RunGetsStuck: it waits for a node to become ready.
RunWaitsForReady ==
  /\ AtLoopTop /\ ~aborted
  /\ Unfinished(Refreshed) # {}
  /\ Ready(Refreshed) = {}
  /\ status' = Refreshed
  /\ UNCHANGED <<up, session, gplan, gen, report, run, ctrl, exec, saving,
                 tailReport, fg, disk, history>>

\* Something is unfinished and nothing is ready.
RunGetsStuck ==
  /\ AtLoopTop /\ ~aborted
  /\ Unfinished(Refreshed) # {}
  /\ Ready(Refreshed) = {}
  /\ status' = Refreshed
  /\ Fail
  /\ UNCHANGED results

\* One batch: its agents are all set to work before the first await.  A node
\* is set running before it gets its lease; when the lease is refused, no agent
\* is made and the node is left as it is.
RunStartsBatch ==
  /\ AtLoopTop /\ ~aborted
  /\ \E B \in SUBSET Ready(Refreshed) \ {{}} :
       \E R \in SUBSET (B \cap Refusable) :
         /\ IsBatch(B, Ready(Refreshed))
         /\ status' = SetAll(Refreshed, B, "running")
         /\ exec' = exec \cup [node : B \ R, gen : {gen},
                                run : {runId}]
         /\ errs' = IF R = {} THEN errs ELSE {"fail"}
  /\ runPc' = "batch"
  /\ UNCHANGED <<up, session, gplan, gen, report, runId, aborted, own, ctrl,
                 saving, tailReport, fg, disk, history>>

\* One agent has failed: Promise.all rejects at once, with the error of the
\* agent that rejected first, and leaves the others of the batch at work.
RunCatches ==
  /\ up /\ runPc = "batch"
  /\ \E err \in errs :
       IF err = "stop" THEN Conclude("security_blocked") ELSE Fail
  /\ UNCHANGED <<status, results>>

(***************************************************************************)
(* The agents.  An agent may outlive its run, and its graph may have been  *)
(* replaced meanwhile; its result is recorded in the session all the same. *)
(***************************************************************************)
InBatch(e) == e.run = runId /\ runPc = "batch"

NoteError(e, err) == errs' = IF InBatch(e) THEN errs \cup {err} ELSE errs

SetStatus(e, s) ==
  status' = IF e.gen = gen THEN [status EXCEPT ![e.node] = s] ELSE status

\* A valid result, "stop" being the security stop, which fails the node.
AgentDelivers(e) ==
  \E out \in Outcomes[e.node] :
    /\ up
    /\ exec' = exec \ {e}
    /\ results' = [results EXCEPT ![e.node] = out]
    /\ IF out = "stop"
         THEN SetStatus(e, "failed") /\ NoteError(e, "stop") /\ UNCHANGED own
         ELSE /\ SetStatus(e, "completed")
              /\ own' = IF InBatch(e)
                          THEN [own EXCEPT ![e.node] = out]
                          ELSE own
              /\ UNCHANGED errs
    /\ UNCHANGED <<up, state, plan, approved, subtasks, gplan, gen,
                   report, runPc, runId, aborted, ctrl, saving, tailReport,
                   fg, disk, history>>

\* No valid result: an error, the last timeout, an abort, a budget exceeded.
AgentFails(e) ==
  /\ up
  /\ exec' = exec \ {e}
  /\ SetStatus(e, "failed")
  /\ NoteError(e, "fail")
  /\ UNCHANGED <<up, session, gplan, gen, report, runPc, runId, aborted, own,
                 ctrl, saving, tailReport, fg, disk, history>>

AgentEnds(e) == AgentDelivers(e) \/ AgentFails(e)

(***************************************************************************)
(* The epilogue of a run, while the server goes on serving requests.       *)
(***************************************************************************)
\* runControllers.delete(sessionId): whoever's controller is there.
TailReleases(r) ==
  /\ up /\ saving[r] = "release"
  /\ saving' = [saving EXCEPT ![r] = "none"]
  /\ tailReport' = [tailReport EXCEPT ![r] = "none"]
  /\ ctrl' = 0
  /\ UNCHANGED <<up, session, graph, report, run, exec, fg, disk, history>>

TailStep(r) == SaveStep(r) \/ TailReleases(r)

-----------------------------------------------------------------------------
(***************************************************************************)
(* The process dies with everything it held; agents die with it.  The      *)
(* names of its temporary files have its number, so no other one uses them.*)
(***************************************************************************)
Crash ==
  /\ up
  /\ crashes < MaxCrashes /\ Turns < MaxTurns
  /\ crashes' = crashes + 1
  /\ up' = FALSE
  /\ SetSession(NoManifest)
  /\ gplan' = 1 /\ status' = NewStatus(1) /\ gen' = 1
  /\ report' = "none"
  /\ runPc' = "idle" /\ runId' = 0 /\ aborted' = FALSE /\ errs' = {}
  /\ own' = NoResults
  /\ ctrl' = 0
  /\ exec' = {}
  /\ saving' = [s \in Saver |-> "none"]
  /\ stage' = [s \in Saver |-> "read"]
  /\ copy' = [s \in Saver |-> {}]
  /\ temp' = [f \in File |-> {}]
  /\ tailReport' = [r \in RunId |-> "none"]
  /\ fgPc' = "idle" /\ fgThen' = "none"
  /\ last' = "none"
  /\ UNCHANGED <<file, runs, forced, acked, raced>>

\* recover: load() blocks the nodes that were running and sends an
\* interrupted session to recovery_required; then the session is persisted.
Recover ==
  /\ ~up
  /\ manifestFile.state # "created" /\ graphFile.plan # 0
  /\ up' = TRUE
  /\ IF manifestFile.state \in Interrupted
       THEN state' = "recovery_required"
       ELSE state' = manifestFile.state
  /\ plan' = manifestFile.plan
  /\ approved' = manifestFile.approved
  /\ subtasks' = manifestFile.subtasks
  /\ results' = manifestFile.results
  /\ gplan' = graphFile.plan
  /\ status' = [n \in Node |-> IF graphFile.status[n] = "running"
                                 THEN "blocked" ELSE graphFile.status[n]]
  /\ report' = reportFile
  /\ ThenPersist("none")
  /\ UNCHANGED <<gen, run, ctrl, exec, tailReport, disk, history>>

-----------------------------------------------------------------------------
UserRequest ==
  \/ Create \/ ApprovePlan \/ Resume \/ Cancel
  \/ ApproveFinal \/ RejectFinal \/ RejectStopped
  \/ \E n \in UserNodes : RetryNode(n) \/ CancelNode(n)

RequestStep ==
  \/ Replan \/ SaveStep(Foreground) \/ StartRun

RunStep ==
  \/ RunStops \/ RunFinishes \/ RunGetsStuck
  \/ RunStartsBatch \/ RunCatches

Next ==
  \/ UserRequest
  \/ RequestStep
  \/ RunStep
  \/ \E e \in exec : AgentEnds(e)
  \/ \E r \in RunId : TailStep(r)
  \/ Crash
  \/ Recover

(***************************************************************************)
(* What the event loop and the agents' timeouts guarantee: started work is *)
(* carried on.  Nothing is assumed of the user, of crashes or of recovery, *)
(* and a run has to get on without its time being used up.                 *)
(***************************************************************************)
RunGoesOn ==
  \/ RunStops /\ aborted
  \/ RunFinishes \/ RunGetsStuck
  \/ RunStartsBatch \/ RunCatches

Fairness ==
  /\ WF_vars(RequestStep)
  /\ WF_vars(RunGoesOn)
  /\ WF_vars(\E e \in exec : AgentEnds(e))
  /\ WF_vars(\E r \in RunId : TailStep(r))

Spec == Init /\ [][Next]_vars
FairSpec == Spec /\ Fairness

-----------------------------------------------------------------------------
(***************************************************************************)
(* Properties.                                                             *)
(***************************************************************************)

\* Every variable, and every file, holds a value of its kind.
TypeOK ==
  /\ up \in BOOLEAN
  /\ state \in OrchestrationState
  /\ plan \in Plan /\ approved \in Plan \cup {0}
  /\ subtasks \in Nat
  /\ results \in [Node -> Result]
  /\ gplan \in Plan /\ status \in [Node -> Status] /\ gen \in Plan
  /\ report \in Report
  /\ runPc \in {"idle", "loop", "batch"} /\ runId \in RunId \cup {0}
  /\ aborted \in BOOLEAN /\ errs \subseteq {"stop", "fail"}
  /\ own \in [Node -> Result]
  /\ ctrl \in RunId \cup {0}
  /\ exec \subseteq Agent
  /\ saving \in [Saver -> File \cup {"none", "release"}]
  /\ stage \in [Saver -> {"read", "write", "rename"}]
  /\ DOMAIN copy = Saver
  /\ \A s \in Saver : copy[s] \subseteq Content(saving[s])
  /\ DOMAIN temp = File /\ \A f \in File : temp[f] \subseteq Content(f)
  /\ DOMAIN file = File /\ \A f \in File : file[f] \in Content(f)
  /\ tailReport \in [RunId -> Report]
  /\ fgPc \in {"idle", "save", "replan", "run"}
  /\ fgThen \in {"none", "replan", "run"}
  /\ runs \in 0 .. MaxRuns /\ crashes \in Nat
  /\ last \in Report /\ forced \subseteq Node
  /\ acked \in Terminal \cup {"none"} /\ raced \in BOOLEAN

\* A session says "running" exactly while a run is at work on it, but for the
\* one session the subtask limit strands (run() counts before its try block);
\* and a run never goes on in a state other than "running" or "cancelled".
RunningHasRun ==
  /\ runPc # "idle" => state \in {"running", "cancelled"}
  /\ state = "running" =>
       \/ runPc # "idle"
       \/ subtasks + Cardinality(PlanNodes(gplan)) > MaxSubtasks

\* No node is executed by two agents at once, however runs, user retries and
\* agents that outlive their run overlap; and the node an agent works on says
\* so, for that is what keeps the user from making it ready or cancelling it.
\* The converse is false: a refused lease leaves a node running without an
\* agent (orchestrationScheduler.ts:156).
OneAgentPerNode ==
  /\ \A d, e \in exec : d.node = e.node /\ d.gen = e.gen => d = e
  /\ \A e \in exec : e.gen = gen => status[e.node] = "running"

\* A node gets to be executed only after all it depends on has finished, unless
\* the user forced it by a retry while it was blocked; restarts included.
DependencyOrder ==
  \A n \in Node \ forced :
    status[n] \in {"ready", "running", "completed", "failed"} =>
      Dep[n] \subseteq Finished(status)

\* A session is completed only on the strength of the newest synthesis, and
\* that synthesis recommended to apply the result.  Stated for a process that
\* has not crashed: a crash between the writes of the session and of its report
\* pairs the new session with the report of the plan before (saveSession and
\* saveReport, agentOrchestrator.ts:475).
FinalGate ==
  state = "completed" /\ crashes = 0 => last = "ready_for_approval"

\* The README's rule that a security veto and "changes_required" block the
\* final approval, read off the results the completed session itself keeps;
\* with the proviso of FinalGate, for the same reason. It holds where
\* ReviewsComeLast does: a review the user forces may outlive its plan, and its
\* late verdict replaces the one that was approved.
VetoBlocksApproval ==
  state = "completed" /\ crashes = 0 =>
    /\ results[SecurityNode] \notin {"none", "stop", "block"}
    /\ results[ReviewNode] \notin {"none", "changes", "manual"}

\* Once a user was told that the session is cancelled or completed, it stays
\* so, in memory and over a restart: no background save brings it back, though
\* it may take the request's temporary file or lose its own to it.  Stated for
\* decisions at whose time no epilogue had a copy of the session that it had
\* not renamed: such a copy may be renamed after the decision is saved, and a
\* restart then undoes the decision (atomicJson, orchestrationRecovery.ts:15).
DecisionIsFinal ==
  acked # "none" =>
    /\ crashes = 0 => state = acked
    /\ ~raced => manifestFile.state = acked /\ (up => state = acked)

\* What a run executes is a plan the user approved.
PlanGate == runPc # "idle" => approved = plan

\* Cancelling stops the run the session's controller belongs to: it sets no
\* further agent to work, even if its batch completes after the cancellation.
CancelStopsOwnRun ==
  [][state = "cancelled" /\ ctrl = runId => exec' \subseteq exec]_vars

\* A run that is at work comes to an end and leaves the session in a state the
\* user can act on, whatever the user does and whichever agents fail.
RunResolves == runPc # "idle" ~> runPc = "idle" /\ state # "running"

\* After a cancellation everything falls silent: no run, no agent, no write.
CancelQuiesces ==
  (up /\ state = "cancelled")
    ~> (runPc = "idle" /\ exec = {} /\ \A r \in RunId : saving[r] = "none")
=============================================================================

------------------------ MODULE OrchestrationProofs ------------------------
(***************************************************************************)
(* Theorems about the orchestration session, for every graph, every        *)
(* outcome of the agents and every bound.                                  *)
(***************************************************************************)
EXTENDS Orchestration, FiniteSetTheorems, TLAPS

-----------------------------------------------------------------------------
(***************************************************************************)
(* Graph operators.                                                        *)
(***************************************************************************)

\* refreshReadiness yields a status for every node.
LEMMA RefreshType ==
  ASSUME NEW st \in [Node -> Status]
  PROVE  RefreshReadiness(st) \in [Node -> Status]
BY DEF RefreshReadiness, Status

\* A new graph has a status for every node.
LEMMA NewStatusType ==
  ASSUME NEW v
  PROVE  NewStatus(v) \in [Node -> Status]
<1>1. [n \in Node |-> IF n \in PlanNodes(v) THEN "pending" ELSE "skipped"]
        \in [Node -> Status]
  BY DEF Status
<1>2. QED
  BY <1>1, RefreshType DEF NewStatus

\* The nodes of a plan can be counted.
LEMMA PlanNodesCount ==
  ASSUME NEW v
  PROVE  Cardinality(PlanNodes(v)) \in Nat
<1>1. IsFiniteSet(PlanNodes(v))
  BY FS_Subset, ShapeAssumption, SessionAssumption DEF PlanNodes
<1>2. QED
  BY <1>1, FS_CardinalityType

\* A set of nodes that are set to one status.
LEMMA SetAllType ==
  ASSUME NEW st \in [Node -> Status], NEW S, NEW s \in Status
  PROVE  SetAll(st, S, s) \in [Node -> Status]
BY DEF SetAll

\* Plan versions are numbered from 1.
LEMMA PlanValues ==
  /\ 1 \in Plan
  /\ Plan \subseteq Nat
  /\ \A v \in Plan : v - 1 < MaxReplans => v + 1 \in Plan
BY SessionAssumption DEF Plan

-----------------------------------------------------------------------------
(***************************************************************************)
(* Types.  They are split into what is in memory and what is on the disk   *)
(* or on its way to it: a saver carries a copy only between reading and    *)
(* writing it, and a temporary file is always somebody's to rename.        *)
(***************************************************************************)
MemoryOK ==
  /\ up \in BOOLEAN
  /\ state \in OrchestrationState
  /\ plan \in Plan /\ approved \in Plan \cup {0}
  /\ subtasks \in Nat
  /\ results \in [Node -> Result]
  /\ gplan \in Plan /\ status \in [Node -> Status] /\ gen \in Plan
  /\ report \in Report
  /\ runPc \in {"idle", "loop", "batch"} /\ runId \in RunId \cup {0}
  /\ aborted \in BOOLEAN /\ errs \subseteq {"stop", "fail"}
  /\ own \in [Node -> Result]
  /\ ctrl \in RunId \cup {0}
  /\ exec \subseteq Agent
  /\ tailReport \in [RunId -> Report]
  /\ fgPc \in {"idle", "save", "replan", "run"}
  /\ fgThen \in {"none", "replan", "run"}
  /\ runs \in 0 .. MaxRuns /\ crashes \in Nat
  /\ last \in Report /\ forced \subseteq Node
  /\ acked \in Terminal \cup {"none"} /\ raced \in BOOLEAN

DiskInv ==
  /\ saving \in [Saver -> File \cup {"none", "release"}]
  /\ stage \in [Saver -> {"read", "write", "rename"}]
  /\ DOMAIN copy = Saver
  /\ \A s \in Saver : copy[s] \subseteq Content(saving[s])
  /\ DOMAIN temp = File /\ \A f \in File : temp[f] \subseteq Content(f)
  /\ DOMAIN file = File /\ \A f \in File : file[f] \in Content(f)
  /\ saving[Foreground] \in {"none", "manifest", "graph"}
  /\ \A s \in Saver :
       /\ stage[s] # "read" => saving[s] \in File
       /\ stage[s] # "write" => copy[s] = {}
       /\ stage[s] = "read" => saving[s] \in {"none", "manifest", "release"}
  /\ \A f \in File :
       temp[f] # {} => \E s \in Saver : saving[s] = f /\ stage[s] = "rename"

\* Who saves: a request that is persisted, and runs whose loop has ended.  A
\* run is only requested while the bound on runs allows it, and a process never
\* holds more graph objects than there are plan versions.
FlowInv ==
  /\ fgPc = "run" \/ fgThen = "run" => runs < MaxRuns
  /\ gen <= plan
  /\ runPc # "idle" => runId \in RunId
  /\ ~up => /\ gen = 1 /\ fgPc = "idle" /\ fgThen = "none"
            /\ \A s \in Saver : saving[s] = "none"
  /\ fgPc = "save" <=> saving[Foreground] # "none"
  /\ runId <= runs
  /\ \A r \in RunId :
       saving[r] # "none" => r <= runs /\ (runPc # "idle" => r # runId)

TypeInv == MemoryOK /\ DiskInv /\ FlowInv

\* The two parts are the types of the session.
LEMMA TypeParts == TypeInv => TypeOK
BY DEF TypeInv, MemoryOK, DiskInv, TypeOK

\* A session without results.
LEMMA NoResultsType == NoResults \in [Node -> Result]
BY DEF NoResults, Result

\* What the files of a session may hold.
LEMMA ContentKinds ==
  /\ Content("manifest") = ManifestType
  /\ Content("graph") = SnapshotType
  /\ Content("report") = Report
  /\ Content("none") = {} /\ Content("release") = {}
BY DEF Content

\* The foreground is no run.
LEMMA Savers ==
  /\ Foreground \in Saver /\ Foreground \notin RunId
  /\ RunId \subseteq Saver /\ RunId \subseteq Nat
  /\ \A s \in Saver : s = Foreground \/ s \in RunId
BY SessionAssumption DEF Saver, Foreground, RunId

\* The initial values have their types.
LEMMA InitType == Init => TypeInv
<1> SUFFICES ASSUME Init PROVE TypeInv
  OBVIOUS
<1>1. NewStatus(1) \in [Node -> Status]
  BY NewStatusType
<1>2. NoResults \in [Node -> Result]
  BY NoResultsType
<1>3. NoManifest \in ManifestType
  BY <1>2, PlanValues DEF NoManifest, ManifestType, OrchestrationState
<1>4. NoGraph \in SnapshotType
  BY <1>1 DEF NoGraph, SnapshotType
<1>5. tailReport \in [RunId -> Report]
  BY DEF Init, Report
<1>6. runs \in 0 .. MaxRuns /\ crashes \in Nat
  BY SessionAssumption DEF Init
<1>7. MemoryOK
  BY <1>1, <1>2, <1>5, <1>6, PlanValues
  DEF Init, MemoryOK, OrchestrationState, Report
<1>8. \A f \in File : file[f] \in Content(f)
  BY <1>3, <1>4, ContentKinds DEF Init, File, Report
<1>9. DiskInv
  BY <1>8, Savers DEF Init, DiskInv
<1>10. FlowInv
  BY Savers, PlanValues, SessionAssumption DEF Init, FlowInv
<1>11. QED
  BY <1>7, <1>9, <1>10 DEF TypeInv

\* The step that begins to save.
LEMMA SavingBegins ==
  ASSUME DiskInv, UNCHANGED disk, NEW s \in Saver, saving[s] = "none",
         saving' = [saving EXCEPT ![s] = "manifest"]
  PROVE  DiskInv'
<1>1. stage[s] = "read" /\ copy[s] = {}
  BY DEF DiskInv, File
<1>2. \A t \in Saver : copy[t] \subseteq Content(saving'[t])
  BY <1>1 DEF DiskInv
<1>3. \A f \in File :
        temp[f] # {} => \E t \in Saver : saving'[t] = f /\ stage[t] = "rename"
  BY <1>1 DEF DiskInv
<1>4. QED
  BY <1>1, <1>2, <1>3 DEF DiskInv, disk, File

\* The step after the last file of an epilogue.
LEMMA SavingIsLeft ==
  ASSUME DiskInv, UNCHANGED disk, NEW r \in RunId, saving[r] = "release",
         saving' = [saving EXCEPT ![r] = "none"]
  PROVE  DiskInv'
<1>1. r \in Saver /\ r # Foreground
  BY Savers
<1>2. stage[r] = "read" /\ copy[r] = {}
  BY <1>1 DEF DiskInv, File
<1>3. \A t \in Saver : copy[t] \subseteq Content(saving'[t])
  BY <1>1, <1>2 DEF DiskInv
<1>4. \A f \in File :
        temp[f] # {} => \E t \in Saver : saving'[t] = f /\ stage[t] = "rename"
  BY <1>1, <1>2 DEF DiskInv
<1>5. QED
  BY <1>1, <1>2, <1>3, <1>4 DEF DiskInv, disk

\* Every step of a save.
LEMMA SaveDisk ==
  ASSUME MemoryOK, DiskInv, NEW s \in Saver, SaveStep(s)
  PROVE  DiskInv'
<1>a. /\ Contents(s, "manifest") \in Content("manifest")
      /\ Contents(s, "graph") \in Content("graph")
      /\ s \in RunId => Contents(s, "report") \in Content("report")
  BY ContentKinds
  DEF Contents, Manifest, ManifestType, GraphSnapshot, SnapshotType, MemoryOK
<1>b. /\ saving[s] \in File /\ File = {"manifest", "graph", "report"}
      /\ s = Foreground => saving[s] \in {"manifest", "graph"}
  BY DEF SaveStep, SaveReads, SaveWrites, SaveRenames, SaveFails, Saves, File,
         DiskInv
<1>1. CASE SaveReads(s)
  <2>1. /\ stage[s] = "read" /\ saving[s] = "manifest"
        /\ copy' = [copy EXCEPT ![s] = {Contents(s, "manifest")}]
        /\ stage' = [stage EXCEPT ![s] = "write"]
        /\ UNCHANGED <<saving, temp, file>>
    BY <1>1, <1>b DEF SaveReads, Saves, DiskInv
  <2>2. \A t \in Saver : copy'[t] \subseteq Content(saving'[t])
    BY <1>a, <2>1 DEF DiskInv
  <2>3. \A f \in File :
          temp[f] # {} => \E t \in Saver : saving[t] = f /\ stage'[t] = "rename"
    BY <2>1 DEF DiskInv
  <2>4. QED
    BY <1>b, <2>1, <2>2, <2>3 DEF DiskInv
<1>2. CASE SaveWrites(s)
  <2>1. /\ stage[s] = "write"
        /\ temp' = [temp EXCEPT ![saving[s]] = copy[s]]
        /\ copy' = [copy EXCEPT ![s] = {}]
        /\ stage' = [stage EXCEPT ![s] = "rename"]
        /\ UNCHANGED <<saving, file>>
    BY <1>2 DEF SaveWrites, Saves
  <2>2. \A t \in Saver : copy'[t] \subseteq Content(saving'[t])
    BY <2>1 DEF DiskInv
  <2>3. \A f \in File : temp'[f] \subseteq Content(f)
    BY <1>b, <2>1 DEF DiskInv
  <2>4. ASSUME NEW f \in File, temp'[f] # {}
        PROVE  \E t \in Saver : saving[t] = f /\ stage'[t] = "rename"
    <3>1. CASE f = saving[s]
      BY <2>1, <3>1 DEF DiskInv
    <3>2. CASE f # saving[s]
      BY <2>1, <2>4, <3>2 DEF DiskInv
    <3>3. QED
      BY <3>1, <3>2
  <2>5. QED
    BY <1>b, <2>1, <2>2, <2>3, <2>4 DEF DiskInv
<1>3. CASE SaveRenames(s)
  <2> DEFINE next == NextFile(s)
  <2>1. /\ stage[s] = "rename" /\ copy[s] = {}
        /\ \E c \in temp[saving[s]] : file' = [file EXCEPT ![saving[s]] = c]
        /\ temp' = [temp EXCEPT ![saving[s]] = {}]
        /\ saving' = [saving EXCEPT ![s] = next]
        /\ \/ /\ next \in File
              /\ stage' = [stage EXCEPT ![s] = "write"]
              /\ copy' = [copy EXCEPT ![s] = {Contents(s, next)}]
           \/ /\ next \notin File
              /\ stage' = [stage EXCEPT ![s] = "read"]
              /\ copy' = copy
    BY <1>3 DEF SaveRenames, Saves, DiskInv
  <2>2. /\ next \in {"graph", "report", "none", "release"}
        /\ s = Foreground => next \in {"graph", "none"}
    BY <1>b DEF NextFile
  <2>3. next \in File => Contents(s, next) \in Content(next)
    BY <1>a, <1>b, <2>2, Savers
  <2>4. \A t \in Saver : t # s => /\ saving'[t] = saving[t]
                                  /\ stage'[t] = stage[t]
                                  /\ copy'[t] = copy[t]
    BY <2>1 DEF DiskInv
  <2>5. /\ saving'[s] = next
        /\ stage'[s] = IF next \in File THEN "write" ELSE "read"
        /\ copy'[s] = IF next \in File THEN {Contents(s, next)} ELSE {}
    BY <2>1 DEF DiskInv
  <2> HIDE DEF next
  <2>6. \A t \in Saver : copy'[t] \subseteq Content(saving'[t])
    BY <2>3, <2>4, <2>5 DEF DiskInv
  <2>7. \A f \in File : temp'[f] \subseteq Content(f) /\ file'[f] \in Content(f)
    BY <1>b, <2>1 DEF DiskInv
  <2>8. ASSUME NEW f \in File, temp'[f] # {}
        PROVE  \E t \in Saver : saving'[t] = f /\ stage'[t] = "rename"
    <3>1. f # saving[s] /\ temp[f] # {}
      BY <2>1, <2>8 DEF DiskInv
    <3>2. PICK t \in Saver : saving[t] = f /\ stage[t] = "rename"
      BY <3>1 DEF DiskInv
    <3>3. QED
      BY <2>4, <3>1, <3>2
  <2>9. /\ saving' \in [Saver -> File \cup {"none", "release"}]
        /\ stage' \in [Saver -> {"read", "write", "rename"}]
        /\ DOMAIN copy' = Saver /\ DOMAIN temp' = File /\ DOMAIN file' = File
    BY <1>b, <2>1, <2>2 DEF DiskInv
  <2>10. saving'[Foreground] \in {"none", "manifest", "graph"}
    BY <2>2, <2>4, <2>5, Savers DEF DiskInv
  <2>11. \A t \in Saver :
           /\ stage'[t] # "read" => saving'[t] \in File
           /\ stage'[t] # "write" => copy'[t] = {}
           /\ stage'[t] = "read" => saving'[t] \in {"none", "manifest", "release"}
    BY <1>b, <2>2, <2>4, <2>5 DEF DiskInv
  <2>12. QED
    BY <2>6, <2>7, <2>8, <2>9, <2>10, <2>11 DEF DiskInv
<1>4. CASE SaveFails(s)
  <2>1. /\ stage[s] = "rename" /\ copy[s] = {} /\ temp[saving[s]] = {}
        /\ stage' = [stage EXCEPT ![s] = "read"]
        /\ saving' = [saving EXCEPT ![s] = "none"]
        /\ UNCHANGED <<copy, temp, file>>
    BY <1>4 DEF SaveFails, Saves, DiskInv
  <2>2. \A t \in Saver : copy[t] \subseteq Content(saving'[t])
    BY <2>1 DEF DiskInv
  <2>3. ASSUME NEW f \in File, temp[f] # {}
        PROVE  \E t \in Saver : saving'[t] = f /\ stage'[t] = "rename"
    <3>1. PICK t \in Saver : saving[t] = f /\ stage[t] = "rename"
      BY <2>3 DEF DiskInv
    <3>2. QED
      BY <2>1, <2>3, <3>1 DEF DiskInv
  <2>4. QED
    BY <1>b, <2>1, <2>2, <2>3, Savers DEF DiskInv
<1>5. QED
  BY <1>1, <1>2, <1>3, <1>4 DEF SaveStep

\* Every step keeps the types of what is in memory.
LEMMA NextMemory == TypeInv /\ [Next]_vars => MemoryOK'
<1> SUFFICES ASSUME TypeInv, [Next]_vars PROVE MemoryOK'
  OBVIOUS
<1>a. MaxReplans \in Nat /\ MaxRuns \in Nat
  BY SessionAssumption
<1>b. Refreshed \in [Node -> Status]
  BY RefreshType DEF Refreshed, TypeInv, MemoryOK
<1> USE <1>a DEF TypeInv
<1>1. CASE Create
  <2>1. [status EXCEPT ![PlanningNode] = "completed"] \in [Node -> Status]
    BY DEF MemoryOK, Status
  <2>2. status' \in [Node -> Status]
    BY <1>1, <2>1, RefreshType DEF Create
  <2>3. results' \in [Node -> Result]
    BY <1>1 DEF Create, MemoryOK, Result, Outcome
  <2>4. QED
    BY <1>1, <2>2, <2>3, ZenonT(60)
    DEF Create, ThenPersist, MemoryOK, OrchestrationState, run, history
<1>2. CASE ApprovePlan
  BY <1>2 DEF ApprovePlan, ThenPersist, MemoryOK, OrchestrationState, graph,
              run, history
<1>3. CASE Resume
  BY <1>3 DEF Resume, ThenPersist, MemoryOK, OrchestrationState, graph, run,
              history
<1>4. CASE Cancel
  BY <1>4 DEF Cancel, StaleCopy, ThenPersist, MemoryOK, OrchestrationState,
              graph
<1>5. CASE ApproveFinal
  BY <1>5 DEF ApproveFinal, StaleCopy, ThenPersist, MemoryOK,
              OrchestrationState, graph, run
<1>6. CASE RejectFinal
  BY <1>6 DEF RejectFinal, ThenPersist, MemoryOK, OrchestrationState, graph,
              run, history
<1>7. CASE RejectStopped
  BY <1>7 DEF RejectStopped, MemoryOK, session, graph, run, history
<1>8. CASE Replan
  <2>1. plan' \in Plan /\ gplan' \in Plan /\ gen' \in Plan
    BY <1>8 DEF Replan, MemoryOK, FlowInv, Plan, graph
  <2>2. status' \in [Node -> Status]
    BY <1>8, NewStatusType DEF Replan, MemoryOK, graph
  <2>3. QED
    BY <1>8, <2>1, <2>2
    DEF Replan, ThenPersist, MemoryOK, OrchestrationState, run, history
<1>9. ASSUME NEW n \in UserNodes, RetryNode(n)
      PROVE  MemoryOK'
  <2>1. n \in Node
    BY SessionAssumption
  <2>2. status' \in [Node -> Status]
    BY <1>9 DEF RetryNode, MemoryOK, Status
  <2>3. forced' \subseteq Node
    BY <1>9, <2>1 DEF RetryNode, MemoryOK
  <2>4. state' \in OrchestrationState
    BY <1>9 DEF RetryNode, MemoryOK, OrchestrationState
  <2>5. QED
    BY <1>9, <2>2, <2>3, <2>4
    DEF RetryNode, ThenPersist, MemoryOK, run
<1>10. ASSUME NEW n \in UserNodes, CancelNode(n)
       PROVE  MemoryOK'
  BY <1>10 DEF CancelNode, ThenPersist, MemoryOK, Status, session, run, history
<1>11. ASSUME NEW s \in Saver, SaveStep(s)
       PROVE  MemoryOK'
  <2>1. CASE SaveReads(s) \/ SaveWrites(s)
    <3>1. UNCHANGED <<up, session, graph, report, run, ctrl, exec, tailReport,
                      fg, history>>
      BY <2>1 DEF SaveReads, SaveWrites
    <3>2. QED
      BY <3>1 DEF MemoryOK, session, graph, run, fg, history
  <2>2. CASE SaveRenames(s)
    <3>1. fgPc' \in {"idle", "save", "replan", "run"}
          /\ fgThen' \in {"none", "replan", "run"}
      BY <2>2 DEF SaveRenames, MemoryOK, fg
    <3>2. acked' \in Terminal \cup {"none"}
      BY <2>2 DEF SaveRenames, MemoryOK
    <3>3. UNCHANGED <<up, session, graph, report, run, ctrl, exec, tailReport,
                      runs, crashes, last, forced, raced>>
      BY <2>2 DEF SaveRenames
    <3>4. QED
      BY <3>1, <3>2, <3>3 DEF MemoryOK, session, graph, run
  <2>3. CASE SaveFails(s)
    <3>1. tailReport' \in [RunId -> Report]
      BY <2>3 DEF SaveFails, MemoryOK, Report
    <3>2. fgPc' \in {"idle", "save", "replan", "run"}
          /\ fgThen' \in {"none", "replan", "run"}
      BY <2>3 DEF SaveFails, MemoryOK, fg
    <3>3. UNCHANGED <<up, session, graph, report, run, ctrl, exec, history>>
      BY <2>3 DEF SaveFails
    <3>4. QED
      BY <3>1, <3>2, <3>3 DEF MemoryOK, session, graph, run, history
  <2>4. QED
    BY <1>11, <2>1, <2>2, <2>3 DEF SaveStep
<1>12. CASE StartRun
  <2>1. runs + 1 \in RunId /\ runs + 1 \in 0 .. MaxRuns
    BY <1>12 DEF StartRun, MemoryOK, FlowInv, RunId
  <2>2. state' \in OrchestrationState
    BY <1>12 DEF StartRun, OrchestrationState
  <2>3. runPc' \in {"idle", "loop", "batch"}
    BY <1>12 DEF StartRun
  <2>4. QED
    BY <1>12, <2>1, <2>2, <2>3, NoResultsType DEF StartRun, MemoryOK, graph
<1>13. CASE RunStep
  <2>1. ASSUME NEW rep \in Report, EndLoop(rep),
               state' \in OrchestrationState, status' \in [Node -> Status],
               report' \in Report, last' \in Report, exec' = exec,
               results' \in [Node -> Result]
        PROVE  MemoryOK'
    <3>1. subtasks' \in Nat
      BY <2>1, PlanNodesCount DEF EndLoop, MemoryOK
    <3>2. tailReport' \in [RunId -> Report]
      BY <2>1 DEF EndLoop, MemoryOK
    <3>3. /\ UNCHANGED <<up, plan, approved, gplan, gen, runId, ctrl, fgPc,
                          fgThen, runs, crashes, forced, acked, raced>>
          /\ runPc' = "idle" /\ aborted' = FALSE /\ errs' = {}
          /\ own' = NoResults
      BY <2>1 DEF EndLoop, fg
    <3>4. QED
      BY <2>1, <3>1, <3>2, <3>3, NoResultsType, ZenonT(60) DEF MemoryOK
  <2>2. ASSUME Fail, status' \in [Node -> Status],
               results' \in [Node -> Result]
        PROVE  MemoryOK'
    BY <2>1, <2>2 DEF Fail, MemoryOK, OrchestrationState, Report
  <2>3. ASSUME NEW c \in Verdict, Conclude(c), status' \in [Node -> Status],
               results' \in [Node -> Result]
        PROVE  MemoryOK'
    BY <2>1, <2>3 DEF Conclude, MemoryOK, OrchestrationState, Report
  <2>4. CASE RunStops
    BY <2>2, <2>4 DEF RunStops, MemoryOK
  <2>5. CASE RunFinishes
    <3>1. PICK c \in Consensus(Collected) :
            IF c = "error" THEN Fail ELSE Conclude(c)
      BY <2>5 DEF RunFinishes
    <3>2. c \in Verdict \cup {"error"}
      BY DEF Consensus, Verdict
    <3>3. status' \in [Node -> Status] /\ results' \in [Node -> Result]
      BY <2>5, <1>b DEF RunFinishes, Collected, MemoryOK
    <3>4. QED
      BY <2>2, <2>3, <3>1, <3>2, <3>3
  <2>6. CASE RunGetsStuck
    BY <2>2, <2>6, <1>b DEF RunGetsStuck, MemoryOK
  <2>7. CASE RunStartsBatch
    <3>1. PICK B \in SUBSET Ready(Refreshed), R \in SUBSET Node :
            /\ status' = SetAll(Refreshed, B, "running")
            /\ exec' = exec \cup [node : B \ R, gen : {gen}, run : {runId}]
            /\ errs' = IF R = {} THEN errs ELSE {"fail"}
      BY <2>7, SessionAssumption DEF RunStartsBatch
    <3>2. status' \in [Node -> Status]
      BY <3>1, <1>b, SetAllType DEF Status
    <3>3. runId \in RunId
      BY <2>7 DEF RunStartsBatch, AtLoopTop, FlowInv
    <3>4. exec' \subseteq Agent
      BY <3>1, <3>3 DEF Ready, Agent, MemoryOK
    <3>5. errs' \subseteq {"stop", "fail"}
      BY <3>1 DEF MemoryOK
    <3>6. QED
      BY <2>7, <3>2, <3>4, <3>5
      DEF RunStartsBatch, MemoryOK, session, fg, history
  <2>8. CASE RunCatches
    BY <2>2, <2>3, <2>8 DEF RunCatches, MemoryOK, Verdict
  <2>9. QED
    BY <1>13, <2>4, <2>5, <2>6, <2>7, <2>8 DEF RunStep
<1>14. ASSUME NEW e \in exec, AgentDelivers(e)
       PROVE  MemoryOK'
  <2>1. e \in Agent
    BY DEF MemoryOK
  <2>2. PICK out \in Outcomes[e.node] :
          /\ results' = [results EXCEPT ![e.node] = out]
          /\ \/ SetStatus(e, "failed") /\ NoteError(e, "stop")
                /\ UNCHANGED own
             \/ /\ SetStatus(e, "completed")
                /\ own' = IF InBatch(e)
                            THEN [own EXCEPT ![e.node] = out]
                            ELSE own
                /\ UNCHANGED errs
    BY <1>14 DEF AgentDelivers
  <2>3. out \in Result
    BY <2>1, SessionAssumption DEF Result, Agent
  <2>4. results' \in [Node -> Result] /\ own' \in [Node -> Result]
    BY <2>2, <2>3, ZenonT(60) DEF MemoryOK
  <2>5. status' \in [Node -> Status] /\ errs' \subseteq {"stop", "fail"}
    BY <2>2 DEF SetStatus, NoteError, MemoryOK, Status
  <2>6. QED
    BY <1>14, <2>4, <2>5
    DEF AgentDelivers, MemoryOK, fg, history
<1>15. ASSUME NEW e \in exec, AgentFails(e)
       PROVE  MemoryOK'
  <2>1. status' \in [Node -> Status] /\ errs' \subseteq {"stop", "fail"}
    BY <1>15 DEF AgentFails, SetStatus, NoteError, MemoryOK, Status
  <2>2. QED
    BY <1>15, <2>1
    DEF AgentFails, MemoryOK, session, fg, history
<1>16. ASSUME NEW r \in RunId, TailReleases(r)
       PROVE  MemoryOK'
  BY <1>16 DEF TailReleases, MemoryOK, Report, session, graph, run, fg, history
<1>17. CASE Crash
  <2>1. NewStatus(1) \in [Node -> Status]
    BY NewStatusType
  <2>2. NoResults \in [Node -> Result]
    BY NoResultsType
  <2>3. /\ state' = "created" /\ plan' = 1 /\ approved' = 0
        /\ subtasks' = 0 /\ results' = NoResults
    BY <1>17 DEF Crash, SetSession, NoManifest
  <2>4. tailReport' \in [RunId -> Report]
    BY <1>17 DEF Crash, Report
  <2>5. crashes' \in Nat
    BY <1>17 DEF Crash, MemoryOK
  <2>6. QED
    BY <1>17, <2>1, <2>2, <2>3, <2>4, <2>5, PlanValues
    DEF Crash, MemoryOK, OrchestrationState, Report
<1>18. CASE Recover
  <2>1. manifestFile \in ManifestType /\ graphFile \in SnapshotType
        /\ reportFile \in Report
    BY ContentKinds DEF DiskInv, File, manifestFile, graphFile, reportFile
  <2>2. graphFile.plan \in Plan /\ graphFile.status \in [Node -> Status]
    BY <1>18, <2>1 DEF Recover, SnapshotType
  <2>3. status' \in [Node -> Status]
    BY <1>18, <2>2 DEF Recover, Status
  <2>4. /\ manifestFile.state \in OrchestrationState
        /\ manifestFile.plan \in Plan
        /\ manifestFile.approved \in Plan \cup {0}
        /\ manifestFile.subtasks \in Nat
        /\ manifestFile.results \in [Node -> Result]
    BY <2>1 DEF ManifestType
  <2>5. state' \in OrchestrationState
    BY <1>18, <2>4 DEF Recover, OrchestrationState
  <2>6. QED
    BY <1>18, <2>1, <2>2, <2>3, <2>4, <2>5
    DEF Recover, ThenPersist, MemoryOK, run, history
<1>19. CASE UNCHANGED vars
  BY <1>19 DEF vars, MemoryOK, session, graph, run, fg, history
<1>20. QED
  BY <1>1, <1>2, <1>3, <1>4, <1>5, <1>6, <1>7, <1>8, <1>9, <1>10, <1>11,
     <1>12, <1>13, <1>14, <1>15, <1>16, <1>17, <1>18, <1>19, Savers
  DEF Next, UserRequest, RequestStep, AgentEnds, TailStep

\* A step of the run either starts a batch or ends its loop.
LEMMA RunStepKinds ==
  ASSUME RunStep
  PROVE  /\ up /\ runPc # "idle"
         /\ RunStartsBatch \/ \E rep \in Report : EndLoop(rep)
<1>1. Consensus(Collected) \subseteq Verdict \cup {"error"}
  BY DEF Consensus, Verdict
<1>2. RunStartsBatch \/ \E rep \in Report : EndLoop(rep)
  BY <1>1
  DEF RunStep, RunStops, RunFinishes, RunGetsStuck, RunCatches, Fail,
      Conclude, Report, Verdict
<1>3. QED
  BY <1>2
  DEF RunStep, RunStops, RunFinishes, RunGetsStuck, RunStartsBatch,
      RunCatches, AtLoopTop

\* How a step may change what is being saved.
LEMMA SavingSteps ==
  ASSUME TypeInv, [Next]_vars
  PROVE  \/ UNCHANGED <<saving, disk>>
         \/ /\ UNCHANGED disk
            /\ \E s \in Saver : /\ saving[s] = "none"
                                /\ saving' = [saving EXCEPT ![s] = "manifest"]
         \/ \E s \in Saver : SaveStep(s)
         \/ \E r \in RunId : TailReleases(r)
         \/ Crash
<1> USE Savers DEF TypeInv
<1>1. CASE UserRequest
  BY <1>1
  DEF UserRequest, Create, ApprovePlan, Resume, Cancel, ApproveFinal,
      RejectFinal, RejectStopped, RetryNode, CancelNode, Request, ThenPersist,
      FlowInv
<1>2. CASE RequestStep
  BY <1>2 DEF RequestStep, Replan, StartRun, ThenPersist, FlowInv
<1>3. CASE RunStep
  <2>1. ASSUME NEW rep, EndLoop(rep), runPc # "idle"
        PROVE  /\ UNCHANGED disk
               /\ \E s \in Saver :
                    /\ saving[s] = "none"
                    /\ saving' = [saving EXCEPT ![s] = "manifest"]
    BY <2>1 DEF EndLoop, FlowInv
  <2>2. RunStartsBatch => UNCHANGED <<saving, disk>>
    BY DEF RunStartsBatch
  <2>3. QED
    BY <1>3, <2>1, <2>2, RunStepKinds
<1>4. CASE \E e \in exec : AgentEnds(e)
  BY <1>4 DEF AgentEnds, AgentDelivers, AgentFails
<1>5. CASE \E r \in RunId : TailStep(r)
  BY <1>5 DEF TailStep
<1>6. CASE Recover
  BY <1>6 DEF Recover, ThenPersist, FlowInv
<1>7. CASE UNCHANGED vars
  BY <1>7 DEF vars
<1>8. QED
  BY <1>1, <1>2, <1>3, <1>4, <1>5, <1>6, <1>7 DEF Next

\* Every step keeps the types of what is on the disk.
LEMMA NextDisk == TypeInv /\ [Next]_vars => DiskInv'
<1> SUFFICES ASSUME TypeInv, [Next]_vars PROVE DiskInv'
  OBVIOUS
<1>1. CASE UNCHANGED <<saving, disk>>
  BY <1>1 DEF TypeInv, DiskInv, disk
<1>2. ASSUME NEW r \in RunId, TailReleases(r) PROVE DiskInv'
  <2>1. saving[r] = "release" /\ saving' = [saving EXCEPT ![r] = "none"]
        /\ UNCHANGED disk
    BY <1>2 DEF TailReleases
  <2>2. QED
    BY <2>1, SavingIsLeft DEF TypeInv
<1>3. CASE Crash
  <2>1. /\ saving' = [s \in Saver |-> "none"]
        /\ stage' = [s \in Saver |-> "read"]
        /\ copy' = [s \in Saver |-> {}]
        /\ temp' = [f \in File |-> {}]
        /\ file' = file
    BY <1>3 DEF Crash
  <2>2. QED
    BY <2>1, Savers DEF TypeInv, DiskInv
<1>4. QED
  BY <1>1, <1>2, <1>3, SavingSteps, SavingBegins, SaveDisk DEF TypeInv

\* Every step keeps the order in which things are saved.
LEMMA NextFlow == TypeInv /\ [Next]_vars => FlowInv'
<1> SUFFICES ASSUME TypeInv, [Next]_vars PROVE FlowInv'
  OBVIOUS
<1>a. /\ runs \in Nat /\ runId \in RunId \cup {0} /\ plan \in Nat
      /\ gen \in Nat /\ MaxRuns \in Nat
      /\ saving \in [Saver -> File \cup {"none", "release"}]
      /\ "manifest" \notin {"none", "release"}
      /\ fgPc \in {"idle", "save", "replan", "run"}
      /\ MaxReplans \in Nat
  BY SessionAssumption, PlanValues DEF TypeInv, MemoryOK, DiskInv
<1> USE <1>a, Savers DEF FlowInv
<1>b. FlowInv
  BY DEF TypeInv
<1>1. CASE Create \/ ApprovePlan \/ Resume \/ Cancel \/ ApproveFinal
           \/ RejectFinal
  <2>1. /\ fgPc = "idle" /\ fgPc' = "save" /\ up
        /\ saving' = [saving EXCEPT ![Foreground] = "manifest"]
        /\ fgThen' \in {"none", "run", "replan"}
        /\ fgThen' = "run" => runs < MaxRuns
        /\ UNCHANGED <<up, plan, gen, runPc, runId, runs>>
    BY <1>1
    DEF Create, ApprovePlan, Resume, Cancel, ApproveFinal, RejectFinal,
        Request, ThenPersist, graph, run, history
  <2>2. QED
    BY <1>b, <2>1
<1>2. CASE RejectStopped
  BY <1>b, <1>2 DEF RejectStopped, Request, session, graph, run, history
<1>3. CASE Replan
  BY <1>b, <1>3 DEF Replan, ThenPersist, graph, run, history
<1>4. ASSUME NEW n \in UserNodes, RetryNode(n) \/ CancelNode(n)
      PROVE  FlowInv'
  <2>1. /\ fgPc = "idle" /\ fgPc' = "save" /\ up /\ fgThen' = "none"
        /\ saving' = [saving EXCEPT ![Foreground] = "manifest"]
        /\ UNCHANGED <<up, plan, gen, runPc, runId, runs>>
    BY <1>4
    DEF RetryNode, CancelNode, Request, ThenPersist, session, run, history
  <2>2. QED
    BY <1>b, <2>1
<1>5. ASSUME NEW s \in Saver, SaveStep(s)
      PROVE  FlowInv'
  <2>a. up /\ UNCHANGED <<up, plan, gen, runPc, runId, runs>>
        /\ saving[s] \in File /\ saving[s] # "none"
    BY <1>5
    DEF SaveStep, SaveReads, SaveWrites, SaveRenames, SaveFails, Saves,
        session, graph, run, history, File
  <2>1. CASE SaveReads(s) \/ SaveWrites(s)
    BY <1>b, <2>1, <2>a DEF SaveReads, SaveWrites, fg
  <2>2. CASE SaveRenames(s) \/ SaveFails(s)
    <3>1. PICK next \in {"graph", "report", "none", "release"} :
            /\ saving' = [saving EXCEPT ![s] = next]
            /\ next = "none" /\ s = Foreground =>
                 fgPc' \in {"idle", fgThen} \ {"none", "save"}
                 /\ fgThen' = "none"
                 /\ (fgPc' = "run" => fgThen = "run")
            /\ next # "none" \/ s # Foreground => UNCHANGED fg
      <4>1. CASE SaveRenames(s)
        <5>1. NextFile(s) \in {"graph", "report", "none", "release"}
              /\ (NextFile(s) = "none" => s = Foreground)
          BY <2>a DEF NextFile, File, TypeInv, DiskInv
        <5>2. saving' = [saving EXCEPT ![s] = NextFile(s)]
          BY <4>1 DEF SaveRenames
        <5>3. NextFile(s) # "none" => UNCHANGED fg
          BY <4>1 DEF SaveRenames
        <5>4. NextFile(s) = "none" =>
                fgPc' = (IF fgThen = "none" THEN "idle" ELSE fgThen)
                /\ fgThen' = "none"
          BY <4>1 DEF SaveRenames
        <5>5. fgThen \in {"none", "replan", "run"}
          BY DEF TypeInv, MemoryOK
        <5>6. QED
          BY <5>1, <5>2, <5>3, <5>4, <5>5
      <4>2. CASE SaveFails(s)
        BY <4>2 DEF SaveFails
      <4>3. QED
        BY <2>2, <4>1, <4>2
    <3>2. CASE s = Foreground
      <4>1. fgPc = "save"
        BY <1>b, <2>a, <3>2
      <4>2. \A r \in RunId : saving'[r] = saving[r]
        BY <3>1, <3>2
      <4>3. CASE next = "none"
        BY <1>b, <2>a, <3>1, <3>2, <4>2, <4>3
      <4>4. CASE next # "none"
        BY <1>b, <2>a, <3>1, <3>2, <4>1, <4>2, <4>4 DEF fg
      <4>5. QED
        BY <4>3, <4>4
    <3>3. CASE s # Foreground
      <4>1. s \in RunId /\ s <= runs /\ (runPc # "idle" => s # runId)
        BY <1>b, <2>a, <3>3
      <4>2. \A r \in RunId : r # s => saving'[r] = saving[r]
        BY <3>1
      <4>3. saving'[Foreground] = saving[Foreground]
        BY <3>1, <3>3
      <4>4. QED
        BY <1>b, <2>a, <3>1, <3>3, <4>1, <4>2, <4>3 DEF fg
    <3>4. QED
      BY <3>2, <3>3
  <2>3. QED
    BY <1>5, <2>1, <2>2 DEF SaveStep
<1>6. CASE StartRun
  <2>1. /\ fgPc = "run" /\ up /\ fgPc' = "idle" /\ fgThen' = "none"
        /\ runs' = runs + 1 /\ runId' = runs + 1
        /\ UNCHANGED <<up, plan, gen, saving>>
    BY <1>6 DEF StartRun, graph
  <2>2. runs + 1 \in RunId
    BY <1>b, <2>1 DEF RunId
  <2>3. \A r \in RunId : saving[r] # "none" => r <= runs
    BY <1>b
  <2>4. QED
    BY <1>b, <2>1, <2>2, <2>3
<1>7. CASE RunStep
  <2>1. ASSUME NEW rep, EndLoop(rep), up, runPc # "idle"
        PROVE  FlowInv'
    <3>1. /\ saving' = [saving EXCEPT ![runId] = "manifest"]
          /\ runPc' = "idle"
          /\ UNCHANGED <<up, plan, gen, runId, runs, fgPc, fgThen>>
      BY <2>1 DEF EndLoop, fg
    <3>2. runId \in RunId
      BY <1>b, <2>1
    <3>3. QED
      BY <1>b, <2>1, <3>1, <3>2
  <2>2. CASE RunStartsBatch
    BY <1>b, <2>2 DEF RunStartsBatch, AtLoopTop, session, fg, history
  <2>3. QED
    BY <1>7, <1>b, <2>1, <2>2, RunStepKinds
<1>8. CASE \E e \in exec : AgentEnds(e)
  BY <1>b, <1>8 DEF AgentEnds, AgentDelivers, AgentFails, session, fg, history
<1>9. ASSUME NEW r \in RunId, TailReleases(r)
      PROVE  FlowInv'
  <2>1. /\ up /\ saving' = [saving EXCEPT ![r] = "none"] /\ r # Foreground
        /\ UNCHANGED <<up, plan, gen, runPc, runId, runs, fgPc, fgThen>>
    BY <1>9 DEF TailReleases, session, graph, run, fg, history
  <2>2. QED
    BY <1>b, <2>1
<1>10. CASE Crash
  <2>1. /\ plan' = 1 /\ gen' = 1 /\ fgPc' = "idle" /\ fgThen' = "none"
        /\ runPc' = "idle" /\ runId' = 0 /\ runs' = runs /\ up' = FALSE
        /\ saving' = [s \in Saver |-> "none"]
    BY <1>10 DEF Crash, SetSession, NoManifest
  <2>2. QED
    BY <2>1
<1>11. CASE Recover
  <2>1. /\ ~up /\ fgPc = "idle" /\ fgPc' = "save" /\ fgThen' = "none"
        /\ up' = TRUE
        /\ saving' = [saving EXCEPT ![Foreground] = "manifest"]
        /\ gen' = gen /\ UNCHANGED <<runPc, runId, runs>>
    BY <1>b, <1>11 DEF Recover, ThenPersist, run, history
  <2>2. gen = 1
    BY <1>b, <2>1
  <2>3. plan' \in Plan /\ 1 <= plan'
    <3>1. manifestFile \in ManifestType
      BY ContentKinds DEF TypeInv, DiskInv, File, manifestFile
    <3>2. QED
      BY <1>11, <3>1 DEF Recover, ManifestType, Plan
  <2>4. QED
    BY <1>b, <2>1, <2>2, <2>3
<1>12. CASE UNCHANGED vars
  BY <1>b, <1>12 DEF vars, session, graph, run, fg, history
<1>13. QED
  BY <1>1, <1>2, <1>3, <1>4, <1>5, <1>6, <1>7, <1>8, <1>9, <1>10, <1>11,
     <1>12
  DEF Next, UserRequest, RequestStep, TailStep

\* Every variable and every file of a session holds a value of its kind, in
\* every reachable state.
THEOREM TypeCorrect == Spec => []TypeOK
<1>1. TypeInv /\ [Next]_vars => TypeInv'
  BY NextMemory, NextDisk, NextFlow DEF TypeInv
<1>2. QED
  BY <1>1, InitType, TypeParts, PTL DEF Spec

-----------------------------------------------------------------------------
(***************************************************************************)
(* Control.  What ties the state of the session to the run behind it, to   *)
(* the request being served, to the reports and to what is being saved.    *)
(***************************************************************************)

\* What the state machine lets happen before a few transitions.
LEMMA Leaving ==
  ASSUME NEW s \in OrchestrationState, NEW t, CanTransition(s, t)
  PROVE  /\ s \notin Terminal
         /\ t = "scheduled" => s \notin {"created", "running"}
         /\ t = "completed" => s = "awaiting_final_approval"
BY DEF CanTransition, Transitions, OrchestrationState, Terminal

\* While a run is at work, the session is running or was cancelled meanwhile;
\* an aborted run belongs to a cancelled session, and a cancelled session's
\* registered run is aborted.
RunState ==
  /\ runPc # "idle" => up /\ state \in {"running", "cancelled"}
  /\ aborted => up /\ state = "cancelled"
  /\ runPc # "idle" /\ state = "cancelled" /\ ctrl = runId => aborted

\* A new plan is made only for a session whose result was rejected.
ReplanState ==
  fgPc = "replan" \/ fgThen = "replan"
    => state \in {"replanning", "security_stopped"}

\* Before the first crash the report in memory is the newest synthesis.
ReportIsNewest ==
  /\ up /\ crashes = 0 => report = last
  /\ ~up => crashes # 0

SessionInv ==
  /\ RunState
  /\ ReplanState
  /\ ReportIsNewest
  /\ RunningHasRun
  /\ FinalGate

\* A new session has no run and no report.
LEMMA InitSession == Init => SessionInv
BY DEF Init, SessionInv, RunState, ReplanState, ReportIsNewest, RunningHasRun,
       FinalGate

\* Every step keeps SessionInv.
LEMMA NextSession == TypeInv /\ SessionInv /\ [Next]_vars => SessionInv'
<1> SUFFICES ASSUME TypeInv, SessionInv, [Next]_vars PROVE SessionInv'
  OBVIOUS
<1>a. /\ state \in OrchestrationState
      /\ crashes \in Nat
      /\ runPc # "idle" => runId \in RunId
      /\ 0 \notin RunId
  BY DEF TypeInv, MemoryOK, FlowInv, RunId
<1> USE <1>a DEF SessionInv, RunState, ReplanState, ReportIsNewest,
      RunningHasRun, FinalGate, Terminal
<1>1. CASE Create
  BY <1>1 DEF Create, Request, ThenPersist, run, history
<1>2. CASE ApprovePlan
  BY <1>2, Leaving DEF ApprovePlan, Request, ThenPersist, graph, run, history
<1>3. CASE Resume
  BY <1>3, Leaving DEF Resume, Request, ThenPersist, graph, run, history
<1>4. CASE Cancel
  BY <1>4, Leaving DEF Cancel, Request, ThenPersist, graph
<1>5. CASE ApproveFinal
  BY <1>5, Leaving DEF ApproveFinal, Request, ThenPersist, graph, run
<1>6. CASE RejectFinal
  BY <1>6 DEF RejectFinal, Request, ThenPersist, graph, run, history
<1>7. CASE RejectStopped
  BY <1>7 DEF RejectStopped, Request, session, graph, run, history
<1>8. CASE Replan
  BY <1>8 DEF Replan, ThenPersist, graph, run, history
<1>9. ASSUME NEW n \in UserNodes, RetryNode(n)
      PROVE  SessionInv'
  BY <1>9 DEF RetryNode, Request, ThenPersist, run
<1>10. ASSUME NEW n \in UserNodes, CancelNode(n)
       PROVE  SessionInv'
  BY <1>10 DEF CancelNode, Request, ThenPersist, session, run, history
<1>11. ASSUME NEW s \in Saver, SaveStep(s)
       PROVE  SessionInv'
  <2>1. UNCHANGED <<up, session, graph, report, run, ctrl, crashes, last>>
    BY <1>11
    DEF SaveStep, SaveReads, SaveWrites, SaveRenames, SaveFails, history
  <2>2. /\ fgPc' = "replan" => fgPc = "replan" \/ fgThen = "replan"
        /\ fgThen' = "replan" => fgThen = "replan"
    BY <1>11
    DEF SaveStep, SaveReads, SaveWrites, SaveRenames, SaveFails, fg
  <2>3. QED
    BY <2>1, <2>2 DEF session, graph, run
<1>12. CASE StartRun
  BY <1>12 DEF StartRun, graph
<1>13. CASE RunStep
  <2>1. ASSUME Fail, runPc # "idle", up PROVE SessionInv'
    BY <2>1 DEF Fail, EndLoop, fg
  <2>2. ASSUME NEW c \in Verdict, Conclude(c), runPc # "idle", up
        PROVE  SessionInv'
    BY <2>2 DEF Conclude, EndLoop, fg
  <2>3. up /\ runPc # "idle"
    BY <1>13, RunStepKinds
  <2>4. CASE RunStops \/ RunGetsStuck
    BY <2>1, <2>3, <2>4 DEF RunStops, RunGetsStuck
  <2>5. CASE RunFinishes
    <3>1. PICK c \in Consensus(Collected) :
            IF c = "error" THEN Fail ELSE Conclude(c)
      BY <2>5 DEF RunFinishes
    <3>2. c \in Verdict \cup {"error"}
      BY DEF Consensus, Verdict
    <3>3. QED
      BY <2>1, <2>2, <2>3, <3>1, <3>2
  <2>6. CASE RunStartsBatch
    BY <2>3, <2>6 DEF RunStartsBatch, session, fg, history
  <2>7. CASE RunCatches
    BY <2>1, <2>2, <2>3, <2>7 DEF RunCatches, Verdict
  <2>8. QED
    BY <1>13, <2>4, <2>5, <2>6, <2>7 DEF RunStep
<1>14. ASSUME NEW e \in exec, AgentDelivers(e)
       PROVE  SessionInv'
  BY <1>14 DEF AgentDelivers, fg, history
<1>15. ASSUME NEW e \in exec, AgentFails(e)
       PROVE  SessionInv'
  BY <1>15 DEF AgentFails, session, fg, history
<1>16. ASSUME NEW r \in RunId, TailReleases(r)
       PROVE  SessionInv'
  BY <1>16 DEF TailReleases, session, graph, run, fg, history
<1>17. CASE Crash
  BY <1>17 DEF Crash, SetSession, NoManifest
<1>18. CASE Recover
  BY <1>18 DEF Recover, ThenPersist, Interrupted, run, history
<1>19. CASE UNCHANGED vars
  BY <1>19 DEF vars, session, graph, run, fg, history
<1>20. QED
  BY <1>1, <1>2, <1>3, <1>4, <1>5, <1>6, <1>7, <1>8, <1>9, <1>10, <1>11,
     <1>12, <1>13, <1>14, <1>15, <1>16, <1>17, <1>18, <1>19, Savers
  DEF Next, UserRequest, RequestStep, AgentEnds, TailStep

\* Types and SessionInv hold in every reachable state.
LEMMA SessionAlways == Spec => [](TypeInv /\ SessionInv)
<1>1. TypeInv /\ [Next]_vars => TypeInv'
  BY NextMemory, NextDisk, NextFlow DEF TypeInv
<1>2. QED
  BY <1>1, InitType, InitSession, NextSession, PTL DEF Spec

\* A session says "running" exactly while a run is at work on it, unless the
\* subtask limit stranded it.
THEOREM RunningHasRunAlways == Spec => []RunningHasRun
<1>1. SessionInv => RunningHasRun
  BY DEF SessionInv
<1>2. QED
  BY <1>1, SessionAlways, PTL

\* Without a crash, only a result the newest synthesis recommends is completed.
THEOREM FinalGateAlways == Spec => []FinalGate
<1>1. SessionInv => FinalGate
  BY DEF SessionInv
<1>2. QED
  BY <1>1, SessionAlways, PTL

\* A cancelled session's own run sets no further agent to work.
THEOREM CancelStopsOwnRunAlways == Spec => CancelStopsOwnRun
<1>1. TypeInv /\ SessionInv /\ [Next]_vars
        => [state = "cancelled" /\ ctrl = runId => exec' \subseteq exec]_vars
  <2> SUFFICES ASSUME TypeInv, SessionInv, Next,
                      state = "cancelled", ctrl = runId
               PROVE  exec' \subseteq exec
    BY DEF vars
  <2>1. CASE UserRequest
    BY <2>1
    DEF UserRequest, Create, ApprovePlan, Resume, Cancel, ApproveFinal,
        RejectFinal, RejectStopped, RetryNode, CancelNode
  <2>2. ASSUME NEW s, SaveStep(s) PROVE exec' \subseteq exec
    BY <2>2 DEF SaveStep, SaveReads, SaveWrites, SaveRenames, SaveFails
  <2>3. CASE RequestStep
    BY <2>2, <2>3 DEF RequestStep, Replan, StartRun
  <2>4. CASE RunStep
    <3>1. ~RunStartsBatch
      BY <2>4, RunStepKinds DEF RunStartsBatch, SessionInv, RunState
    <3>2. QED
      BY <2>4, <3>1
      DEF RunStep, RunStops, RunFinishes, RunGetsStuck, RunCatches, Fail,
          Conclude
  <2>5. ASSUME NEW e \in exec, AgentEnds(e) PROVE exec' \subseteq exec
    BY <2>5 DEF AgentEnds, AgentDelivers, AgentFails
  <2>6. ASSUME NEW r \in RunId, TailStep(r) PROVE exec' \subseteq exec
    BY <2>2, <2>6 DEF TailStep, TailReleases
  <2>7. CASE Crash
    BY <2>7 DEF Crash
  <2>8. CASE Recover
    BY <2>8 DEF Recover
  <2>9. QED
    BY <2>1, <2>3, <2>4, <2>5, <2>6, <2>7, <2>8 DEF Next
<1>2. QED
  BY <1>1, SessionAlways, PTL DEF Spec, CancelStopsOwnRun

-----------------------------------------------------------------------------
(***************************************************************************)
(* Final decisions and the disk.  If no epilogue had a copy of the session *)
(* as it was before the decision, whatever is under way to manifest.json   *)
(* when the session is decided upon carries the decision, whoever saves it *)
(* and whoever renames it.                                                 *)
(***************************************************************************)
SavesDecision ==
  up /\ state \in Terminal /\ ~raced =>
    /\ \A s \in Saver :
         saving[s] = "manifest" => \A c \in copy[s] : c.state = state
    /\ \A c \in temp["manifest"] : c.state = state
    /\ saving[Foreground] = "graph" => file["manifest"].state = state

DecisionInv ==
  /\ SavesDecision
  /\ DecisionIsFinal

\* A new session has not been decided upon.
LEMMA InitDecision == Init => DecisionInv
BY DEF Init, DecisionInv, SavesDecision, DecisionIsFinal, Terminal

\* One step of a save.
LEMMA SaveDecision ==
  ASSUME TypeInv, DecisionInv, NEW s \in Saver, SaveStep(s)
  PROVE  DecisionInv'
<1>a. /\ up /\ UNCHANGED <<up, state, crashes, raced>>
      /\ saving[s] \in {"manifest", "graph", "report"}
  BY DEF SaveStep, SaveReads, SaveWrites, SaveRenames, SaveFails, Saves,
         session, history, File
<1>b. /\ DOMAIN saving = Saver /\ DOMAIN copy = Saver
      /\ DOMAIN temp = {"manifest", "graph", "report"}
      /\ DOMAIN file = {"manifest", "graph", "report"}
      /\ saving[Foreground] \in {"none", "manifest", "graph"}
      /\ Foreground \in Saver
  BY Savers DEF TypeInv, DiskInv, File
<1>c. acked' = acked \/ (acked' = state /\ state \in Terminal)
  BY DEF SaveStep, SaveReads, SaveWrites, SaveRenames, SaveFails, history
<1>1. crashes = 0 /\ acked' # "none" => state = acked'
  BY <1>c DEF DecisionInv, DecisionIsFinal
<1> DEFINE Lasting == state \in Terminal /\ ~raced
\* What is renamed to manifest.json.
<1>2. CASE ~Lasting
  <2>1. acked' # "none" => raced
    BY <1>2, <1>a, <1>c DEF DecisionInv, DecisionIsFinal, TypeInv, MemoryOK
  <2>2. QED
    BY <1>1, <1>2, <1>a, <2>1
    DEF DecisionInv, SavesDecision, DecisionIsFinal
<1>3. CASE Lasting
  <2>a. /\ \A t \in Saver :
             saving[t] = "manifest" => \A c \in copy[t] : c.state = state
        /\ \A c \in temp["manifest"] : c.state = state
        /\ saving[Foreground] = "graph" => file["manifest"].state = state
        /\ acked # "none" => file["manifest"].state = state /\ acked = state
    BY <1>3, <1>a
    DEF DecisionInv, SavesDecision, DecisionIsFinal, manifestFile
  <2>b. SUFFICES
          /\ \A t \in Saver :
               saving'[t] = "manifest" => \A c \in copy'[t] : c.state = state
          /\ \A c \in temp'["manifest"] : c.state = state
          /\ saving'[Foreground] = "graph" => file'["manifest"].state = state
          /\ acked' # "none" => file'["manifest"].state = state
    BY <1>1, <1>a, <1>c, <1>3, <2>a
    DEF DecisionInv, SavesDecision, DecisionIsFinal, manifestFile
  <2>1. CASE SaveReads(s)
    <3>1. /\ copy' = [copy EXCEPT ![s] = {Manifest}]
          /\ UNCHANGED <<saving, temp, file, acked>>
      BY <2>1 DEF SaveReads, Contents, history
    <3>2. Manifest.state = state
      BY DEF Manifest
    <3>3. QED
      BY <1>b, <2>a, <2>b, <3>1, <3>2
  <2>2. CASE SaveWrites(s)
    <3>1. /\ temp' = [temp EXCEPT ![saving[s]] = copy[s]]
          /\ copy' = [copy EXCEPT ![s] = {}]
          /\ UNCHANGED <<saving, file, acked>>
      BY <2>2 DEF SaveWrites, history
    <3>2. QED
      BY <1>b, <2>a, <2>b, <3>1
  <2>3. CASE SaveRenames(s)
    <3>1. /\ \E c \in temp[saving[s]] : file' = [file EXCEPT ![saving[s]] = c]
          /\ temp' = [temp EXCEPT ![saving[s]] = {}]
          /\ saving' = [saving EXCEPT ![s] = NextFile(s)]
          /\ \A t \in Saver : t # s => copy'[t] = copy[t]
          /\ acked' # acked => NextFile(s) = "none"
      BY <1>b, <2>3 DEF SaveRenames
    <3>2. /\ NextFile(s) # "manifest"
          /\ NextFile(s) = "none" => s = Foreground /\ saving[s] = "graph"
          /\ s = Foreground /\ NextFile(s) = "graph" => saving[s] = "manifest"
      BY <1>a, <1>b DEF NextFile
    <3>3. /\ saving[s] = "manifest" => file'["manifest"].state = state
          /\ saving[s] # "manifest" => file'["manifest"] = file["manifest"]
      BY <1>a, <1>b, <2>a, <3>1
    <3>4. \A c \in temp'["manifest"] : c.state = state
      BY <1>a, <1>b, <2>a, <3>1
    <3>5. \A t \in Saver :
            saving'[t] = "manifest" => \A c \in copy'[t] : c.state = state
      BY <1>b, <2>a, <3>1, <3>2
    <3>6. saving'[Foreground] = "graph" => file'["manifest"].state = state
      BY <1>b, <2>a, <3>1, <3>2, <3>3
    <3>7. acked' # "none" => file'["manifest"].state = state
      BY <2>a, <3>1, <3>2, <3>3
    <3>8. QED
      BY <2>b, <3>4, <3>5, <3>6, <3>7
  <2>4. CASE SaveFails(s)
    <3>1. /\ saving' = [saving EXCEPT ![s] = "none"]
          /\ UNCHANGED <<copy, temp, file, acked>>
      BY <2>4 DEF SaveFails, history
    <3>2. QED
      BY <1>b, <2>a, <2>b, <3>1
  <2>5. QED
    BY <2>1, <2>2, <2>3, <2>4 DEF SaveStep
<1>4. QED
  BY <1>2, <1>3

\* Every step keeps DecisionInv.
LEMMA NextDecision ==
  TypeInv /\ SessionInv /\ DecisionInv /\ [Next]_vars => DecisionInv'
<1> SUFFICES ASSUME TypeInv, SessionInv, DecisionInv, [Next]_vars
             PROVE  DecisionInv'
  OBVIOUS
<1>a. /\ state \in OrchestrationState /\ acked \in Terminal \cup {"none"}
      /\ DOMAIN saving = Saver
      /\ crashes \in Nat
      /\ \A s \in Saver : saving[s] = "none" => copy[s] = {}
      /\ ~up => crashes # 0
  BY DEF TypeInv, MemoryOK, DiskInv, SessionInv, ReportIsNewest, File
<1> USE DEF DecisionInv, SavesDecision, DecisionIsFinal, manifestFile
\* A step that neither decides nor saves.
<1>b. ASSUME UNCHANGED <<up, crashes, acked, raced, disk>>, state \notin Terminal,
             up, state' \notin Terminal
      PROVE  DecisionInv'
  BY <1>a, <1>b
<1>c. ASSUME UNCHANGED <<up, state, crashes, acked, raced, saving, disk>>
      PROVE  DecisionInv'
  BY <1>c DEF disk
<1>d. ASSUME UNCHANGED <<up, state, crashes, acked, raced, disk>>,
             NEW s \in Saver, saving[s] = "none",
             saving' = [saving EXCEPT ![s] = "manifest"]
      PROVE  DecisionInv'
  BY <1>a, <1>d DEF disk
\* A final decision.
<1>1. CASE Cancel \/ ApproveFinal
  <2>1. /\ state \notin Terminal /\ up /\ saving[Foreground] = "none"
        /\ raced' = (raced \/ StaleCopy)
        /\ saving' = [saving EXCEPT ![Foreground] = "manifest"]
        /\ UNCHANGED <<up, crashes, acked, disk>>
    BY <1>1, <1>a, Leaving
    DEF Cancel, ApproveFinal, Request, ThenPersist, TypeInv, FlowInv
  <2>2. acked # "none" => raced /\ crashes # 0
    BY <1>a, <2>1
  <2>3. ~StaleCopy => temp["manifest"] = {}
                      /\ \A s \in Saver : saving'[s] = "manifest" => copy[s] = {}
    <3>1. SUFFICES ASSUME ~StaleCopy
                   PROVE  temp["manifest"] = {}
                          /\ \A s \in Saver :
                               saving'[s] = "manifest" => copy[s] = {}
      OBVIOUS
    <3>2. \A s \in Saver : saving[s] = "manifest" => stage[s] = "read"
      BY <2>1, <3>1, Savers DEF StaleCopy
    <3>3. temp["manifest"] = {}
      BY <3>2 DEF TypeInv, DiskInv, File
    <3>4. \A s \in Saver : saving'[s] = "manifest" => copy[s] = {}
      BY <1>a, <2>1, <3>2 DEF TypeInv, DiskInv
    <3>5. QED
      BY <3>3, <3>4
  <2>4. saving'[Foreground] = "manifest"
    BY <1>a, <2>1, Savers
  <2>5. QED
    BY <2>1, <2>2, <2>3, <2>4 DEF disk
<1>2. CASE Create \/ ApprovePlan \/ Resume \/ RejectFinal
  <2>1. state \notin Terminal /\ state' \notin Terminal /\ up
        /\ UNCHANGED <<up, crashes, acked, raced, disk>>
    BY <1>2, <1>a, Leaving
    DEF Create, ApprovePlan, Resume, RejectFinal, Request, history, Terminal
  <2>2. QED
    BY <1>b, <2>1
<1>3. CASE RejectStopped
  BY <1>3, <1>c DEF RejectStopped, session, history
<1>4. CASE Replan
  <2>1. state \notin Terminal
    BY <1>4 DEF Replan, SessionInv, ReplanState, Terminal
  <2>2. up /\ state' \notin Terminal /\ UNCHANGED <<up, crashes, acked, raced, disk>>
    BY <1>4, <2>1 DEF Replan, history, Terminal
  <2>3. QED
    BY <1>b, <2>1, <2>2
<1>5. ASSUME NEW n \in UserNodes, RetryNode(n) \/ CancelNode(n)
      PROVE  DecisionInv'
  <2>1. /\ UNCHANGED <<up, crashes, acked, raced, disk>> /\ up
        /\ saving' = [saving EXCEPT ![Foreground] = "manifest"]
        /\ saving[Foreground] = "none" /\ Foreground \in Saver
        /\ state' = state \/ (state = "failed" /\ state' = "recovery_required")
    BY <1>5, Savers
    DEF RetryNode, CancelNode, Request, ThenPersist, TypeInv, FlowInv, session,
        history
  <2>2. CASE state' = state
    BY <1>d, <2>1, <2>2
  <2>3. CASE state' # state
    BY <1>b, <2>1, <2>3 DEF Terminal
  <2>4. QED
    BY <2>2, <2>3
<1>6. ASSUME NEW s \in Saver, SaveStep(s) PROVE DecisionInv'
  BY <1>6, SaveDecision
<1>7. CASE StartRun
  <2>1. up /\ state \notin Terminal /\ state' \notin Terminal
        /\ UNCHANGED <<up, crashes, acked, raced, disk>>
    BY <1>7 DEF StartRun, Terminal
  <2>2. QED
    BY <1>b, <2>1
<1>8. CASE RunStep
  <2>1. up /\ runPc # "idle" /\ state \in {"running", "cancelled"}
    BY <1>8, RunStepKinds DEF SessionInv, RunState
  <2>2. CASE RunStartsBatch
    BY <1>c, <2>2 DEF RunStartsBatch, session, history
  <2>3. ASSUME NEW rep \in Report, EndLoop(rep),
               state' \in {state, "failed", "security_stopped",
                           "awaiting_final_approval"},
               state = "cancelled" => state' = state
        PROVE  DecisionInv'
    <3>1. /\ UNCHANGED <<up, crashes, acked, raced, disk>>
          /\ saving' = [saving EXCEPT ![runId] = "manifest"]
      BY <2>3 DEF EndLoop
    <3>2. runId \in Saver /\ saving[runId] = "none"
      BY <2>1, Savers DEF TypeInv, FlowInv
    <3>3. CASE state' = state
      BY <1>d, <3>1, <3>2, <3>3
    <3>4. CASE state' # state
      BY <1>b, <2>1, <2>3, <3>1, <3>4 DEF Terminal
    <3>5. QED
      BY <3>3, <3>4
  <2>4. ASSUME Fail PROVE DecisionInv'
    BY <2>3, <2>4 DEF Fail, Report
  <2>5. ASSUME NEW c \in Verdict, Conclude(c) PROVE DecisionInv'
    BY <2>3, <2>5 DEF Conclude, Report
  <2>6. CASE RunStops \/ RunGetsStuck
    BY <2>4, <2>6 DEF RunStops, RunGetsStuck
  <2>7. CASE RunFinishes
    <3>1. PICK c \in Consensus(Collected) :
            IF c = "error" THEN Fail ELSE Conclude(c)
      BY <2>7 DEF RunFinishes
    <3>2. c \in Verdict \cup {"error"}
      BY DEF Consensus, Verdict
    <3>3. QED
      BY <2>4, <2>5, <3>1, <3>2
  <2>8. CASE RunCatches
    BY <2>4, <2>5, <2>8 DEF RunCatches, Verdict
  <2>9. QED
    BY <1>8, <2>2, <2>6, <2>7, <2>8 DEF RunStep
<1>9. CASE \E e \in exec : AgentEnds(e)
  BY <1>9, <1>c DEF AgentEnds, AgentDelivers, AgentFails, session, history
<1>10. ASSUME NEW r \in RunId, TailReleases(r) PROVE DecisionInv'
  <2>1. /\ saving' = [saving EXCEPT ![r] = "none"]
        /\ UNCHANGED <<up, state, crashes, acked, raced, disk>>
    BY <1>10 DEF TailReleases, session, history
  <2>2. \A s \in Saver : saving'[s] = saving[s] \/ saving'[s] = "none"
    BY <1>a, <2>1
  <2>3. QED
    BY <2>1, <2>2, Savers DEF disk
<1>11. CASE Crash
  <2>1. up' = FALSE /\ crashes' # 0 /\ UNCHANGED <<acked, raced, file>>
    BY <1>11, <1>a DEF Crash
  <2>2. QED
    BY <2>1
<1>12. CASE Recover
  <2>1. /\ ~up /\ up' /\ UNCHANGED <<crashes, acked, raced, disk>>
        /\ saving' = [saving EXCEPT ![Foreground] = "manifest"]
        /\ state' = IF manifestFile.state \in Interrupted
                      THEN "recovery_required" ELSE manifestFile.state
    BY <1>12 DEF Recover, ThenPersist, history
  <2>2. \A s \in Saver : saving[s] = "none"
    BY <2>1 DEF TypeInv, FlowInv
  <2>3. \A s \in Saver : copy[s] = {}
    BY <1>a, <2>2
  <2>4. temp["manifest"] = {}
    BY <2>2 DEF TypeInv, DiskInv, File
  <2>5. saving'[Foreground] = "manifest"
    BY <1>a, <2>1, Savers
  <2>6. state' \in Terminal => state' = file["manifest"].state
    BY <2>1 DEF Terminal
  <2>7. file["manifest"].state \in Terminal => state' = file["manifest"].state
    BY <2>1 DEF Terminal, Interrupted
  <2>8. QED
    BY <1>a, <2>1, <2>3, <2>4, <2>5, <2>6, <2>7 DEF disk
<1>13. CASE UNCHANGED vars
  BY <1>13, <1>c DEF vars, session, history
<1>14. QED
  BY <1>1, <1>2, <1>3, <1>4, <1>5, <1>6, <1>7, <1>8, <1>9, <1>10, <1>11,
     <1>12, <1>13, Savers
  DEF Next, UserRequest, RequestStep, TailStep

\* A cancellation or completion the user was told of stays in memory, and over
\* a restart as well, if no epilogue had read the session before it and not yet
\* put it into its place: for any number of savers that share the temporary
\* file, and whoever renames whose.
THEOREM DecisionIsFinalAlways == Spec => []DecisionIsFinal
<1>1. DecisionInv => DecisionIsFinal
  BY DEF DecisionInv
<1>2. QED
  BY <1>1, SessionAlways, InitDecision, NextDecision, PTL DEF Spec

-----------------------------------------------------------------------------
(***************************************************************************)
(* Agents and dependencies.  Ordered states DependencyOrder for any graph, *)
(* because the graph on disk must respect it too: recovery returns to it.  *)
(***************************************************************************)
Ordered(st) ==
  \A n \in Node \ forced :
    st[n] \in {"ready", "running", "completed", "failed"} =>
      Dep[n] \subseteq Finished(st)

\* refreshReadiness finishes nothing and starts nothing.
LEMMA RefreshKeeps ==
  ASSUME NEW st \in [Node -> Status]
  PROVE  /\ Finished(RefreshReadiness(st)) = Finished(st)
         /\ \A n \in Node : RefreshReadiness(st)[n] = "running"
                              <=> st[n] = "running"
BY DEF RefreshReadiness, Finished, Status

\* refreshReadiness makes a node ready only when its dependencies have finished.
LEMMA RefreshOrdered ==
  ASSUME NEW st \in [Node -> Status], Ordered(st)
  PROVE  Ordered(RefreshReadiness(st))
BY RefreshKeeps DEF Ordered, RefreshReadiness

\* A new graph is ordered, and no node of it is running.
LEMMA NewStatusOrdered ==
  ASSUME NEW v
  PROVE  /\ Ordered(NewStatus(v))
         /\ \A n \in Node : NewStatus(v)[n] # "running"
<1> DEFINE st == [n \in Node |-> IF n \in PlanNodes(v) THEN "pending"
                                                        ELSE "skipped"]
<1>1. st \in [Node -> Status]
  BY DEF Status
<1>2. Ordered(st)
  BY DEF Ordered
<1>3. \A n \in Node : st[n] # "running"
  OBVIOUS
<1> HIDE DEF st
<1>4. NewStatus(v) = RefreshReadiness(st)
  BY DEF NewStatus, st
<1>5. QED
  BY <1>1, <1>2, <1>3, <1>4, RefreshOrdered, RefreshKeeps

\* Changing the status of an unfinished node disturbs no other node; it keeps
\* the order if the node itself may have its new status.
LEMMA SetOrdered ==
  ASSUME NEW st \in [Node -> Status], Ordered(st),
         NEW n \in Node, NEW s \in Status,
         st[n] \notin {"completed", "skipped"},
         s \in {"ready", "running", "completed", "failed"} =>
           n \in forced \/ Dep[n] \subseteq Finished(st)
  PROVE  Ordered([st EXCEPT ![n] = s])
<1> DEFINE new == [st EXCEPT ![n] = s]
<1>1. Finished(st) \subseteq Finished(new)
  BY DEF Finished
<1>2. ASSUME NEW m \in Node \ forced,
             new[m] \in {"ready", "running", "completed", "failed"}
      PROVE  Dep[m] \subseteq Finished(new)
  <2>1. Dep[m] \subseteq Finished(st)
    BY <1>2 DEF Ordered
  <2>2. QED
    BY <1>1, <2>1
<1>3. QED
  BY <1>2 DEF Ordered

\* Agents exist in a live process with a planned session only, and work on a
\* graph object that was there when they started.
AgentsAlive ==
  \A e \in exec : up /\ state # "created" /\ e.gen <= gen

\* Whatever graph is on the disk or on its way to it.
GraphsOrdered ==
  /\ Ordered(file["graph"].status)
  /\ \A c \in temp["graph"] : Ordered(c.status)
  /\ \A s \in Saver :
       saving[s] = "graph" => \A c \in copy[s] : Ordered(c.status)

WorkInv ==
  /\ AgentsAlive
  /\ OneAgentPerNode
  /\ Ordered(status)

GraphInv == WorkInv /\ GraphsOrdered

\* A new session has a new graph and no agents.
LEMMA InitGraph == Init => GraphInv
<1> SUFFICES ASSUME Init PROVE GraphInv
  OBVIOUS
<1>1. file["graph"] = NoGraph /\ temp["graph"] = {}
      /\ \A s \in Saver : copy[s] = {}
  BY DEF Init, File
<1>2. NoGraph.status = NewStatus(1)
  BY DEF NoGraph
<1>3. Ordered(NewStatus(1))
  BY NewStatusOrdered
<1>4. GraphsOrdered
  BY <1>1, <1>2, <1>3 DEF GraphsOrdered
<1>5. WorkInv
  BY <1>3 DEF Init, WorkInv, AgentsAlive, OneAgentPerNode
<1>6. QED
  BY <1>4, <1>5 DEF GraphInv

\* A graph that is ordered stays so when the user forces more nodes.
LEMMA StaysOrdered ==
  ASSUME forced \subseteq forced', NEW st, Ordered(st)
  PROVE  Ordered(st)'
BY DEF Ordered

\* What is being saved stays ordered, whatever happens to the session.
LEMMA SavedGraphs ==
  ASSUME TypeInv, GraphsOrdered, Ordered(status), [Next]_vars,
         forced \subseteq forced'
  PROVE  GraphsOrdered'
<1>a. /\ DOMAIN saving = Saver /\ DOMAIN copy = Saver
      /\ DOMAIN temp = {"manifest", "graph", "report"}
      /\ DOMAIN file = {"manifest", "graph", "report"}
  BY DEF TypeInv, DiskInv, File
<1>b. ASSUME file'["graph"] = file["graph"], temp'["graph"] = temp["graph"],
             \A s \in Saver : saving'[s] = "graph" =>
               saving[s] = "graph" /\ copy'[s] \subseteq copy[s]
      PROVE  GraphsOrdered'
  BY <1>b DEF GraphsOrdered, Ordered
<1>1. CASE UNCHANGED <<saving, disk>>
  BY <1>b, <1>1 DEF disk
<1>2. CASE \E s \in Saver : saving' = [saving EXCEPT ![s] = "manifest"]
                             /\ UNCHANGED disk
  BY <1>a, <1>b, <1>2 DEF disk
<1>3. ASSUME NEW r \in RunId, TailReleases(r) PROVE GraphsOrdered'
  <2>1. UNCHANGED disk /\ saving' = [saving EXCEPT ![r] = "none"]
    BY <1>3 DEF TailReleases
  <2>2. QED
    BY <1>a, <1>b, <2>1 DEF disk
<1>4. CASE Crash
  <2>1. /\ file' = file
        /\ \A s \in Saver : saving'[s] = "none"
        /\ temp'["graph"] = {}
    BY <1>4 DEF Crash, File
  <2>2. QED
    BY <2>1, StaysOrdered DEF GraphsOrdered
<1>5. ASSUME NEW s \in Saver, SaveStep(s) PROVE GraphsOrdered'
  <2>1. CASE SaveReads(s)
    <3>1. saving[s] = "manifest" /\ UNCHANGED <<saving, temp, file>>
          /\ \A t \in Saver : t # s => copy'[t] = copy[t]
      BY <1>a, <2>1 DEF SaveReads, Saves, TypeInv, DiskInv, File
    <3>2. QED
      BY <1>b, <3>1
  <2>2. CASE SaveWrites(s)
    <3>1. /\ temp' = [temp EXCEPT ![saving[s]] = copy[s]]
          /\ copy' = [copy EXCEPT ![s] = {}]
          /\ UNCHANGED <<saving, file, forced>>
      BY <2>2 DEF SaveWrites, history
    <3>2. \A c \in temp'["graph"] : Ordered(c.status)
      BY <1>a, <3>1 DEF GraphsOrdered
    <3>3. \A t \in Saver : copy'[t] \subseteq copy[t]
      BY <1>a, <3>1
    <3>4. QED
      BY <3>1, <3>2, <3>3 DEF GraphsOrdered, Ordered
  <2>3. CASE SaveRenames(s)
    <3>1. /\ \E c \in temp[saving[s]] : file' = [file EXCEPT ![saving[s]] = c]
          /\ temp' = [temp EXCEPT ![saving[s]] = {}]
          /\ saving' = [saving EXCEPT ![s] = NextFile(s)]
          /\ \A t \in Saver : t # s => copy'[t] = copy[t]
          /\ NextFile(s) = "graph" => copy'[s] = {Contents(s, "graph")}
          /\ saving[s] \in {"manifest", "graph", "report"}
          /\ forced' = forced
      BY <1>a, <2>3 DEF SaveRenames, Saves, File
    <3>2. /\ Ordered(file'["graph"].status)
          /\ \A c \in temp'["graph"] : Ordered(c.status)
      BY <1>a, <3>1 DEF GraphsOrdered
    <3>3. Contents(s, "graph").status = status
      BY DEF Contents, GraphSnapshot
    <3>4. \A t \in Saver :
            saving'[t] = "graph" => \A c \in copy'[t] : Ordered(c.status)
      BY <1>a, <3>1, <3>3 DEF GraphsOrdered
    <3>5. QED
      BY <3>1, <3>2, <3>4 DEF GraphsOrdered, Ordered
  <2>4. CASE SaveFails(s)
    <3>1. /\ saving' = [saving EXCEPT ![s] = "none"]
          /\ UNCHANGED <<copy, temp, file>>
      BY <2>4 DEF SaveFails
    <3>2. QED
      BY <1>a, <1>b, <3>1
  <2>5. QED
    BY <1>5, <2>1, <2>2, <2>3, <2>4 DEF SaveStep
<1>6. QED
  BY <1>1, <1>2, <1>3, <1>4, <1>5, SavingSteps

\* An agent of the current graph works on a node that is running.
LEMMA AgentNodeRuns ==
  ASSUME WorkInv, NEW e \in exec, e.gen = gen
  PROVE  status[e.node] = "running"
BY DEF WorkInv, OneAgentPerNode

\* The end of an agent, with whichever status it gives its node.
LEMMA AgentEndWork ==
  ASSUME TypeInv, WorkInv, NEW e \in exec, NEW s \in {"completed", "failed"},
         SetStatus(e, s), exec' = exec \ {e},
         UNCHANGED <<up, state, gen, forced>>
  PROVE  WorkInv'
<1>1. e \in Agent /\ e.node \in Node /\ status \in [Node -> Status]
  BY DEF TypeInv, MemoryOK, Agent
<1>2. Ordered(status')
  <2>1. CASE e.gen = gen
    <3>1. status[e.node] = "running"
      BY <2>1, AgentNodeRuns
    <3>2. e.node \in forced \/ Dep[e.node] \subseteq Finished(status)
      BY <1>1, <3>1 DEF WorkInv, Ordered
    <3>3. s \in Status
      BY DEF Status
    <3>4. Ordered([status EXCEPT ![e.node] = s])
      BY <1>1, <3>1, <3>2, <3>3, SetOrdered DEF WorkInv
    <3>5. QED
      BY <2>1, <3>4 DEF SetStatus, Ordered
  <2>2. CASE e.gen # gen
    BY <2>2 DEF SetStatus, WorkInv, Ordered
  <2>3. QED
    BY <2>1, <2>2
<1>3. OneAgentPerNode'
  <2>1. \A d \in exec' : d.node = e.node => d.gen # e.gen
    BY DEF WorkInv, OneAgentPerNode
  <2>2. ASSUME NEW d \in exec', d.gen = gen
        PROVE  status'[d.node] = "running"
    <3>1. status[d.node] = "running" /\ (e.gen = gen => d.node # e.node)
      BY <2>1, <2>2, AgentNodeRuns
    <3>2. QED
      BY <1>1, <3>1 DEF SetStatus
  <2>3. QED
    BY <2>2 DEF WorkInv, OneAgentPerNode
<1>4. QED
  BY <1>2, <1>3 DEF WorkInv, AgentsAlive, Ordered

\* Every step keeps WorkInv.
LEMMA NextWork == TypeInv /\ SessionInv /\ GraphInv /\ [Next]_vars => WorkInv'
<1> SUFFICES ASSUME TypeInv, SessionInv, GraphInv, [Next]_vars PROVE WorkInv'
  OBVIOUS
<1>a. /\ status \in [Node -> Status]
      /\ gen \in Nat
      /\ exec \subseteq Agent
      /\ runPc # "idle" => state # "created"
  BY PlanValues
  DEF TypeInv, MemoryOK, SessionInv, RunState
<1>w. WorkInv
  BY DEF GraphInv
\* A step that touches neither the graph nor its agents.
<1>b. ASSUME UNCHANGED <<up, status, gen, exec, forced>>,
             state = "created" \/ state' # "created"
      PROVE  WorkInv'
  BY <1>b, <1>w DEF WorkInv, AgentsAlive, OneAgentPerNode, Ordered
\* A step that changes the status of nodes but starts and ends no work.
<1>c. ASSUME UNCHANGED <<up, gen, exec>>, state' # "created",
             Ordered(status)',
             \A n \in Node : status[n] = "running" => status'[n] = "running"
      PROVE  WorkInv'
  BY <1>a, <1>c, <1>w DEF WorkInv, AgentsAlive, OneAgentPerNode, Agent
<1>d. /\ Ordered(Refreshed)
      /\ Refreshed \in [Node -> Status]
      /\ \A n \in Node : Refreshed[n] = "running" <=> status[n] = "running"
  BY <1>a, <1>w, RefreshType, RefreshKeeps, RefreshOrdered
  DEF Refreshed, WorkInv
<1>1. CASE Create
  <2> DEFINE st == [status EXCEPT ![PlanningNode] = "completed"]
  <2>1. exec = {}
    BY <1>1, <1>w DEF Create, WorkInv, AgentsAlive
  <2>2. st \in [Node -> Status] /\ PlanningNode \in Node
    BY <1>a, SessionAssumption DEF Status
  <2>3. Ordered(st)
    BY <1>a, <1>w, <2>2, SessionAssumption DEF WorkInv, Ordered, Finished
  <2> HIDE DEF st
  <2>4. status' = RefreshReadiness(st)
    BY <1>1 DEF Create, st
  <2>5. Ordered(status')
    BY <2>2, <2>3, <2>4, RefreshOrdered
  <2>6. QED
    BY <1>1, <2>1, <2>5
    DEF Create, WorkInv, AgentsAlive, OneAgentPerNode, Ordered, history
<1>2. CASE ApprovePlan \/ Resume \/ Cancel \/ ApproveFinal \/ RejectFinal
           \/ RejectStopped
  BY <1>b, <1>2
  DEF ApprovePlan, Resume, Cancel, ApproveFinal, RejectFinal, RejectStopped,
      session, graph, history
<1>3. CASE Replan
  <2>1. CASE UNCHANGED <<plan, graph, state>>
    BY <1>b, <1>3, <2>1 DEF Replan, graph, history
  <2>2. CASE gen' = gen + 1 /\ status' = NewStatus(plan + 1)
             /\ state' = "awaiting_plan_approval"
    <3>1. \A e \in exec : e.gen # gen' /\ e.gen <= gen'
      BY <1>a, <1>w, <2>2 DEF WorkInv, AgentsAlive, Agent, Plan
    <3>2. Ordered(status')
      BY <2>2, NewStatusOrdered
    <3>3. QED
      BY <1>3, <1>w, <2>2, <3>1, <3>2
      DEF Replan, WorkInv, AgentsAlive, OneAgentPerNode, Ordered, history
  <2>3. QED
    BY <1>3, <2>1, <2>2 DEF Replan
<1>4. ASSUME NEW n \in UserNodes, RetryNode(n)
      PROVE  WorkInv'
  <2>1. n \in Node /\ status[n] \in {"failed", "blocked"}
    BY <1>4, SessionAssumption DEF RetryNode
  <2>2. /\ status' = [status EXCEPT ![n] = "ready"]
        /\ forced' = IF status[n] = "blocked" THEN forced \cup {n} ELSE forced
    BY <1>4 DEF RetryNode
  <2>3. n \in forced' \/ Dep[n] \subseteq Finished(status)
    BY <1>w, <2>1, <2>2 DEF WorkInv, Ordered
  <2>4. Finished(status) \subseteq Finished(status')
    BY <1>a, <2>1, <2>2 DEF Finished
  <2>5. \A m \in Node \ forced' :
          status'[m] \in {"ready", "running", "completed", "failed"} =>
            Dep[m] \subseteq Finished(status)
    BY <1>a, <1>w, <2>1, <2>2, <2>3 DEF WorkInv, Ordered
  <2>6. Ordered(status)'
    BY <2>4, <2>5 DEF Ordered
  <2>7. \A m \in Node : status[m] = "running" => status'[m] = "running"
    BY <1>a, <2>1, <2>2
  <2>8. \A e \in exec : e.node \in Node /\ state # "created"
    BY <1>a, <1>w DEF WorkInv, AgentsAlive, Agent
  <2>9. QED
    BY <1>4, <1>w, <2>6, <2>7, <2>8
    DEF RetryNode, WorkInv, AgentsAlive, OneAgentPerNode, Ordered
<1>5. ASSUME NEW n \in UserNodes, CancelNode(n)
      PROVE  WorkInv'
  <2>1. n \in Node /\ status[n] \notin {"running", "completed", "skipped"}
    BY <1>5, SessionAssumption DEF CancelNode, CanSet, AllowedStatus
  <2>2. status' = [status EXCEPT ![n] = "cancelled"]
    BY <1>5 DEF CancelNode
  <2>3. Ordered(status')
    BY <1>a, <1>w, <2>1, <2>2, SetOrdered DEF WorkInv, Status
  <2>4. \A m \in Node : status[m] = "running" => status'[m] = "running"
    BY <1>a, <2>1, <2>2
  <2>5. QED
    BY <1>5, <1>c, <2>3, <2>4 DEF CancelNode, session, history, Ordered
<1>6. ASSUME NEW s \in Saver, SaveStep(s)
      PROVE  WorkInv'
  BY <1>6, <1>b
  DEF SaveStep, SaveReads, SaveWrites, SaveRenames, SaveFails, session, graph,
      history
<1>7. CASE StartRun
  BY <1>7, <1>b DEF StartRun, graph
<1>8. CASE RunStep
  <2>1. ASSUME EndLoop("none") \/ (\E c \in Verdict : EndLoop(c)),
               state = "created" \/ state' # "created",
               exec' = exec, status' \in {status, Refreshed},
               runPc # "idle"
        PROVE  WorkInv'
    <3>1. UNCHANGED <<up, gen, forced>>
      BY <2>1 DEF EndLoop
    <3>2. CASE status' = status
      BY <1>b, <2>1, <3>1, <3>2
    <3>3. CASE status' = Refreshed
      BY <1>a, <1>c, <1>d, <2>1, <3>1, <3>3 DEF Ordered
    <3>4. QED
      BY <2>1, <3>2, <3>3
  <2>2. ASSUME Fail \/ (\E c \in Verdict : Conclude(c)),
               status' \in {status, Refreshed}
        PROVE  WorkInv'
    BY <1>8, <1>a, <2>1, <2>2, RunStepKinds DEF Fail, Conclude
  <2>3. CASE RunStops \/ RunGetsStuck
    BY <2>2, <2>3 DEF RunStops, RunGetsStuck
  <2>4. CASE RunFinishes
    <3>1. \A c \in Consensus(Collected) : c \in Verdict \cup {"error"}
      BY DEF Consensus, Verdict
    <3>2. Fail \/ (\E c \in Verdict : Conclude(c))
      BY <2>4, <3>1 DEF RunFinishes
    <3>3. QED
      BY <2>2, <2>4, <3>2 DEF RunFinishes
  <2>5. CASE RunStartsBatch
    <3>1. PICK B \in SUBSET Ready(Refreshed), R \in SUBSET Node :
            /\ status' = SetAll(Refreshed, B, "running")
            /\ exec' = exec \cup [node : B \ R, gen : {gen}, run : {runId}]
      BY <2>5, SessionAssumption DEF RunStartsBatch
    <3>2. B \subseteq Node /\ \A n \in B : Refreshed[n] = "ready"
      BY <3>1 DEF Ready
    <3>3. Finished(status') = Finished(Refreshed)
      BY <1>d, <3>1, <3>2 DEF SetAll, Finished
    <3>4. Ordered(status')
      BY <1>d, <3>1, <3>2, <3>3 DEF Ordered, SetAll
    <3>5. \A e \in exec : e.gen = gen => e.node \notin B
      BY <1>a, <1>d, <1>w, <3>2, AgentNodeRuns DEF Agent
    <3>6. \A n \in Node : status'[n] = "running"
                            <=> n \in B \/ status[n] = "running"
      BY <1>d, <3>1, <3>2 DEF SetAll
    <3>7. UNCHANGED <<up, state, gen, forced>> /\ up /\ state # "created"
      BY <1>a, <2>5 DEF RunStartsBatch, AtLoopTop, session, history
    <3>8. \A d, e \in exec' : d.node = e.node /\ d.gen = e.gen => d = e
      BY <1>w, <3>1, <3>5 DEF WorkInv, OneAgentPerNode
    <3>9. \A e \in exec' : e.gen = gen => status'[e.node] = "running"
      BY <1>a, <1>w, <3>1, <3>2, <3>6, AgentNodeRuns DEF Agent
    <3>10. \A e \in exec' : e.gen <= gen
      BY <1>a, <1>w, <3>1 DEF WorkInv, AgentsAlive
    <3>11. QED
      BY <3>4, <3>7, <3>8, <3>9, <3>10
      DEF WorkInv, AgentsAlive, OneAgentPerNode, Ordered
  <2>6. CASE RunCatches
    <3>1. Fail \/ (\E c \in Verdict : Conclude(c))
      BY <2>6 DEF RunCatches, Verdict
    <3>2. QED
      BY <2>2, <2>6, <3>1 DEF RunCatches
  <2>7. QED
    BY <1>8, <2>3, <2>4, <2>5, <2>6 DEF RunStep
<1>9. ASSUME NEW e \in exec, AgentEnds(e)
      PROVE  WorkInv'
  <2>1. PICK s \in {"completed", "failed"} : SetStatus(e, s)
    BY <1>9 DEF AgentEnds, AgentDelivers, AgentFails
  <2>2. exec' = exec \ {e} /\ UNCHANGED <<up, state, gen, forced>>
    BY <1>9 DEF AgentEnds, AgentDelivers, AgentFails, session, history
  <2>3. QED
    BY <1>w, <2>1, <2>2, AgentEndWork
<1>10. ASSUME NEW r \in RunId, TailReleases(r)
       PROVE  WorkInv'
  BY <1>10, <1>b DEF TailReleases, session, graph, history
<1>11. CASE Crash
  BY <1>11, NewStatusOrdered
  DEF Crash, WorkInv, AgentsAlive, OneAgentPerNode, Ordered
<1>12. CASE Recover
  <2>1. exec = {} /\ exec' = {}
    BY <1>12, <1>w DEF Recover, WorkInv, AgentsAlive
  <2>a. graphFile.status \in [Node -> Status]
    <3>1. graphFile \in SnapshotType
      BY ContentKinds DEF TypeInv, DiskInv, File, graphFile
    <3>2. QED
      BY <3>1 DEF SnapshotType
  <2>2. Finished(status') = Finished(graphFile.status)
    BY <1>12, <2>a DEF Recover, Finished
  <2>3. \A n \in Node :
          status'[n] \in {"ready", "running", "completed", "failed"} =>
            status'[n] = graphFile.status[n]
    BY <1>12, <2>a DEF Recover
  <2>4. Ordered(status')
    BY <2>2, <2>3 DEF Ordered, GraphInv, GraphsOrdered, graphFile
  <2>5. QED
    BY <1>12, <2>1, <2>4
    DEF Recover, history, WorkInv, AgentsAlive, OneAgentPerNode, Ordered
<1>13. CASE UNCHANGED vars
  BY <1>b, <1>13 DEF vars, session, graph, history
<1>14. QED
  BY <1>1, <1>2, <1>3, <1>4, <1>5, <1>6, <1>7, <1>8, <1>9, <1>10, <1>11,
     <1>12, <1>13, Savers
  DEF Next, UserRequest, RequestStep, TailStep

\* The user's retries are the only ones to force nodes.
LEMMA ForcedGrows ==
  ASSUME [Next]_vars
  PROVE  forced \subseteq forced'
<1>1. RunStep => forced' = forced
  BY DEF RunStep, RunStops, RunFinishes, RunGetsStuck, RunStartsBatch,
         RunCatches, Fail, Conclude, EndLoop, history
<1>2. \A s : SaveStep(s) => forced' = forced
  BY DEF SaveStep, SaveReads, SaveWrites, SaveRenames, SaveFails, history
<1>3. \A e : AgentEnds(e) => forced' = forced
  BY DEF AgentEnds, AgentDelivers, AgentFails, history
<1>4. UserRequest => forced \subseteq forced'
  BY DEF UserRequest, Create, ApprovePlan, Resume, Cancel, ApproveFinal,
         RejectFinal, RejectStopped, RetryNode, CancelNode, history
<1>5. QED
  BY <1>1, <1>2, <1>3, <1>4
  DEF Next, RequestStep, Replan, StartRun, TailStep, TailReleases, Crash,
      Recover, vars, history

\* GraphInv holds in every reachable state.
LEMMA GraphAlways == Spec => []GraphInv
<1>1. TypeInv /\ SessionInv /\ GraphInv /\ [Next]_vars => GraphInv'
  BY NextWork, SavedGraphs, ForcedGrows DEF GraphInv, WorkInv
<1>2. QED
  BY <1>1, SessionAlways, InitGraph, PTL DEF Spec

\* No node is executed by two agents at once, and the node an agent of the
\* current graph works on is shown as running: for every set of nodes whose
\* leases may be refused, and however long agents outlive their runs.
THEOREM OneAgentPerNodeAlways == Spec => []OneAgentPerNode
<1>1. GraphInv => OneAgentPerNode
  BY DEF GraphInv, WorkInv
<1>2. QED
  BY <1>1, GraphAlways, PTL

\* Whatever the order of runs, retries, crashes and recoveries, and whichever
\* of the graphs under way to the disk gets there: no node is executed before
\* what it depends on, unless the user forced it.
THEOREM DependencyOrderAlways == Spec => []DependencyOrder
<1>1. GraphInv => DependencyOrder
  BY DEF GraphInv, WorkInv, Ordered, DependencyOrder
<1>2. QED
  BY <1>1, GraphAlways, PTL

-----------------------------------------------------------------------------
(***************************************************************************)
(* The verdicts of the two mandatory reviews.  Agents outlive their run,   *)
(* and a late result replaces the one the synthesis has read.  What keeps  *)
(* a verdict is that no reviewer is at work once the session may be        *)
(* decided upon, nor one of a plan before.                                 *)
(***************************************************************************)
\* Only the user forces nodes.
ForcedByUser == forced \subseteq UserNodes

\* The agents of a run that is at work are at work on the graph in use, and
\* their failures are its batch's.
RunsNumbered ==
  /\ \A e \in exec : e.run <= runs
  /\ runPc # "idle" => \A e \in exec : e.run = runId => e.gen = gen
  /\ errs # {} => runPc = "batch"

\* No reviewer of a plan before is at work.
ReviewersCurrent == \A e \in exec : e.node \in Mandatory => e.gen = gen

\* No reviewer is at work on a session that is decided upon or is about to be
\* stopped.
ReviewersSilent ==
  \/ state \in {"awaiting_final_approval", "completed", "security_stopped",
                "replanning"}
  \/ "stop" \in errs
  => \A e \in exec : e.node \notin Mandatory

Unvetoed(res) ==
  /\ res[SecurityNode] \notin {"none", "stop", "block"}
  /\ res[ReviewNode] \notin {"none", "changes", "manual"}

\* Before the first crash, a report that recommends the result is about the
\* results the session has.
ReportFits ==
  /\ state \in {"awaiting_final_approval", "completed"}
  /\ report = "ready_for_approval" /\ crashes = 0
  => Unvetoed(results)

ReviewInv ==
  /\ ForcedByUser
  /\ RunsNumbered
  /\ ReviewersCurrent
  /\ ReviewersSilent
  /\ ReportFits

\* A new session has no agents and no results.
LEMMA InitReview == Init => ReviewInv
BY SessionAssumption
DEF Init, ReviewInv, ForcedByUser, RunsNumbered, ReviewersCurrent,
    ReviewersSilent, ReportFits

\* Two reviewers, or a reviewer and an agent that may stop the session, are
\* never at work on the same graph.
LEMMA ReviewersAlone ==
  ASSUME ReviewsComeLast, TypeInv, WorkInv, ForcedByUser,
         NEW d \in exec, NEW e \in exec, d.gen = gen, e.gen = gen, d # e,
         d.node \in Mandatory, "stop" \in Outcomes[e.node]
  PROVE  FALSE
<1>1. /\ d \in Agent /\ e \in Agent /\ d.node \in Node /\ e.node \in Node
      /\ status[d.node] = "running" /\ status[e.node] = "running"
  BY AgentNodeRuns DEF TypeInv, MemoryOK, Agent
<1>2. d.node # e.node
  BY DEF WorkInv, OneAgentPerNode
<1>3. ASSUME NEW n \in Mandatory, status[n] = "running"
      PROVE  Dep[n] \subseteq Finished(status)
  BY <1>3, SessionAssumption
  DEF WorkInv, Ordered, ForcedByUser, ReviewsComeLast, Mandatory
<1>4. e.node \notin Finished(status) /\ d.node \notin Finished(status)
  BY <1>1 DEF Finished
<1>5. e.node \in Mandatory
  BY <1>1, <1>3, <1>4 DEF ReviewsComeLast, Mandatory
<1>6. QED
  BY <1>1, <1>2, <1>3, <1>4, <1>5 DEF ReviewsComeLast, Mandatory

\* Where every node is finished, no reviewer is at work.
LEMMA FinishedIsSilent ==
  ASSUME TypeInv, WorkInv, ReviewersCurrent, Unfinished(Refreshed) = {},
         NEW e \in exec
  PROVE  e.node \notin Mandatory
<1> SUFFICES ASSUME e.node \in Mandatory PROVE FALSE
  OBVIOUS
<1>1. status[e.node] = "running" /\ e.node \in Node
  BY AgentNodeRuns DEF ReviewersCurrent, TypeInv, MemoryOK, Agent
<1>2. Refreshed[e.node] = "running"
  BY <1>1, RefreshKeeps DEF Refreshed, TypeInv, MemoryOK
<1>3. QED
  BY <1>1, <1>2 DEF Unfinished

\* Every step keeps ReviewInv.
LEMMA NextReview ==
  ReviewsComeLast /\ TypeInv /\ SessionInv /\ WorkInv /\ ReviewInv
    /\ [Next]_vars => ReviewInv'
<1> SUFFICES ASSUME ReviewsComeLast, TypeInv, SessionInv, WorkInv, ReviewInv,
                    [Next]_vars
             PROVE  ReviewInv'
  OBVIOUS
<1>a. /\ runs \in Nat /\ runId \in Nat /\ crashes \in Nat /\ gen \in Nat
      /\ exec \subseteq Agent
      /\ \A e \in exec : e.run \in Nat
  <2>1. runs \in Nat /\ RunId \subseteq Nat
    BY SessionAssumption DEF TypeInv, MemoryOK, RunId
  <2>2. gen \in Nat
    BY PlanValues DEF TypeInv, MemoryOK
  <2>3. runId \in RunId \cup {0} /\ crashes \in Nat /\ exec \subseteq Agent
    BY DEF TypeInv, MemoryOK
  <2>4. ASSUME NEW e \in exec PROVE e.run \in Nat
    BY <2>1, <2>3 DEF Agent
  <2>5. runId \in Nat
    BY <2>1, <2>3
  <2>6. QED
    BY <2>1, <2>2, <2>3, <2>4, <2>5
<1>b. RunState /\ ReplanState /\ ReportIsNewest
  BY DEF SessionInv
<1>c. \A e \in exec : up
  BY DEF WorkInv, AgentsAlive
<1> USE DEF ReviewInv, ForcedByUser, RunsNumbered, ReviewersCurrent,
      ReviewersSilent, ReportFits
\* A step that concerns neither agents nor results.
<1>d. ASSUME UNCHANGED <<results, report, crashes, gen, runPc, runId, errs,
                         exec, runs, forced>>,
             state' \in {state, "created", "awaiting_plan_approval",
                         "scheduled", "cancelled", "failed",
                         "recovery_required"}
      PROVE  ReviewInv'
  BY <1>d
<1>1. CASE Create
  BY <1>1 DEF Create, run, history
<1>2. CASE ApprovePlan \/ Resume \/ Cancel
  BY <1>2, <1>d DEF ApprovePlan, Resume, Cancel, graph, run, history
<1>3. CASE ApproveFinal
  <2>1. state = "awaiting_final_approval"
    BY <1>3, Leaving DEF ApproveFinal, TypeInv, MemoryOK
  <2>2. QED
    BY <1>3, <2>1 DEF ApproveFinal, graph, run, history
<1>4. CASE RejectFinal
  BY <1>4 DEF RejectFinal, graph, run, history
<1>5. CASE RejectStopped
  BY <1>5, <1>d DEF RejectStopped, session, graph, run, history
<1>6. CASE Replan
  <2>1. \A e \in exec : e.node \notin Mandatory
    BY <1>6, <1>b DEF Replan, ReplanState
  <2>2. runPc = "idle"
    BY <1>6, <1>b DEF Replan, ReplanState, RunState
  <2>3. QED
    BY <1>6, <2>1, <2>2 DEF Replan, graph, run, history
<1>7. ASSUME NEW n \in UserNodes, RetryNode(n) PROVE ReviewInv'
  BY <1>7 DEF RetryNode, run
<1>8. ASSUME NEW n \in UserNodes, CancelNode(n) PROVE ReviewInv'
  BY <1>8, <1>d DEF CancelNode, session, run, history
<1>9. ASSUME NEW s \in Saver, SaveStep(s) PROVE ReviewInv'
  BY <1>9, <1>d
  DEF SaveStep, SaveReads, SaveWrites, SaveRenames, SaveFails, session, graph,
      run, history
<1>11. CASE StartRun
  <2>1. \A e \in exec : e.run # runs + 1
    BY <1>a
  <2>2. /\ state' = "running" /\ errs' = {} /\ runs' = runs + 1
        /\ runId' = runs + 1
        /\ UNCHANGED <<exec, gen, forced>>
    BY <1>11 DEF StartRun, graph
  <2>3. QED
    BY <1>a, <2>1, <2>2
<1>12. CASE RunStep
  <2>p. up /\ runPc # "idle"
    BY <1>12, RunStepKinds
  \* The end of a run.
  <2>1. ASSUME NEW rep, EndLoop(rep), exec' = exec
        PROVE  ForcedByUser' /\ RunsNumbered' /\ ReviewersCurrent' /\ errs' = {}
               /\ crashes' = crashes
    BY <2>1 DEF EndLoop
  <2>2. ASSUME Fail, runPc # "idle" PROVE ReviewInv'
    <3>1. state' \in {"running", "cancelled", "failed"}
      BY <2>2, <1>b DEF Fail, RunState
    <3>2. QED
      BY <2>1, <2>2, <3>1 DEF Fail
  <2>3. ASSUME NEW c \in Verdict, Conclude(c), runPc # "idle",
               \A e \in exec : e.node \notin Mandatory,
               c = "ready_for_approval" => Unvetoed(results')
        PROVE  ReviewInv'
    BY <2>1, <2>3 DEF Conclude
  <2>4. CASE RunStops
    BY <2>2, <2>4, <2>p DEF RunStops
  <2>5. CASE RunFinishes
    <3>1. PICK c \in Consensus(Collected) :
            IF c = "error" THEN Fail ELSE Conclude(c)
      BY <2>5 DEF RunFinishes
    <3>2. c \in Verdict \cup {"error"}
      BY DEF Consensus, Verdict
    <3>3. c = "ready_for_approval" => Unvetoed(results')
      BY <2>5 DEF RunFinishes, Consensus, Unvetoed
    <3>4. \A e \in exec : e.node \notin Mandatory
      BY <2>5, FinishedIsSilent DEF RunFinishes
    <3>5. QED
      BY <2>2, <2>3, <2>5, <2>p, <3>1, <3>2, <3>3, <3>4 DEF RunFinishes
  <2>6. CASE RunGetsStuck
    BY <2>2, <2>6, <2>p DEF RunGetsStuck
  <2>7. CASE RunStartsBatch
    <3>1. PICK B \in SUBSET Ready(Refreshed), R \in SUBSET Node :
            /\ exec' = exec \cup [node : B \ R, gen : {gen}, run : {runId}]
            /\ errs' = IF R = {} THEN errs ELSE {"fail"}
      BY <2>7, SessionAssumption DEF RunStartsBatch
    <3>2. \A e \in exec' \ exec : e.gen = gen /\ e.run = runId
      BY <3>1
    <3>3. /\ UNCHANGED <<state, gen, runId, runs, forced>>
          /\ UNCHANGED <<results, report, crashes>>
          /\ runPc' = "batch"
      BY <2>7 DEF RunStartsBatch, session, history
    <3>4. state \in {"running", "cancelled"} /\ errs = {}
      BY <2>7, <1>b, <2>p DEF RunStartsBatch, AtLoopTop, RunState
    <3>5. "stop" \notin errs'
      BY <3>1, <3>4
    <3>6. runId <= runs
      BY <1>a DEF TypeInv, FlowInv
    <3>7. RunsNumbered'
      BY <1>a, <2>p, <3>2, <3>3, <3>6
    <3>8. QED
      BY <2>p, <3>2, <3>3, <3>4, <3>5, <3>7
  <2>8. CASE RunCatches
    <3>1. PICK err \in errs :
            IF err = "stop" THEN Conclude("security_blocked") ELSE Fail
      BY <2>8 DEF RunCatches
    <3>2. err = "stop" => \A e \in exec : e.node \notin Mandatory
      BY <3>1
    <3>3. QED
      BY <2>2, <2>3, <2>8, <2>p, <3>1, <3>2 DEF RunCatches, Verdict
  <2>9. QED
    BY <1>12, <2>4, <2>5, <2>6, <2>7, <2>8 DEF RunStep
<1>13. ASSUME NEW e \in exec, AgentDelivers(e)
       PROVE  ReviewInv'
  <2>1. PICK out \in Outcomes[e.node] :
          /\ results' = [results EXCEPT ![e.node] = out]
          /\ \/ out = "stop" /\ NoteError(e, "stop")
             \/ errs' = errs
    BY <1>13 DEF AgentDelivers
  <2>2. /\ exec' = exec \ {e}
        /\ UNCHANGED <<state, report, crashes, gen, runPc, runId, runs, forced>>
    BY <1>13 DEF AgentDelivers, history
  <2>3. errs' # {} => runPc = "batch"
    BY <2>1 DEF NoteError, InBatch
  <2>4. ASSUME "stop" \in errs', "stop" \notin errs, NEW d \in exec'
        PROVE  d.node \notin Mandatory
    <3>1. out = "stop" /\ e.run = runId /\ runPc = "batch"
      BY <2>1, <2>4 DEF NoteError, InBatch
    <3>2. e.gen = gen
      BY <3>1
    <3>3. "stop" \in Outcomes[e.node]
      BY <2>1, <3>1
    <3>4. d \in exec /\ d # e
      BY <2>2, <2>4
    <3>5. QED
      BY <3>2, <3>3, <3>4, ReviewersAlone
  <2>5. ReviewersSilent'
    BY <2>2, <2>4
  <2>6. ReportFits'
    <3>1. SUFFICES ASSUME state \in {"awaiting_final_approval", "completed"},
                          report = "ready_for_approval", crashes = 0
                   PROVE  Unvetoed(results')
      BY <2>2
    <3>2. e.node \notin Mandatory
      BY <3>1
    <3>3. /\ results'[SecurityNode] = results[SecurityNode]
          /\ results'[ReviewNode] = results[ReviewNode]
      BY <2>1, <3>2, SessionAssumption DEF Mandatory, TypeInv, MemoryOK
    <3>4. QED
      BY <3>1, <3>3 DEF Unvetoed
  <2>7. QED
    BY <2>2, <2>3, <2>5, <2>6
<1>14. ASSUME NEW e \in exec, AgentFails(e)
       PROVE  ReviewInv'
  BY <1>14 DEF AgentFails, NoteError, InBatch, session, history
<1>15. ASSUME NEW r \in RunId, TailReleases(r)
       PROVE  ReviewInv'
  BY <1>15, <1>d
  DEF TailReleases, session, graph, run, history
<1>16. CASE Crash
  BY <1>16, <1>a DEF Crash, SetSession, NoManifest
<1>17. CASE Recover
  <2>1. exec = {} /\ errs = {} /\ crashes # 0
    BY <1>17, <1>b, <1>c DEF Recover, RunState, ReportIsNewest
  <2>2. QED
    BY <1>17, <2>1 DEF Recover, run, history
<1>18. CASE UNCHANGED vars
  BY <1>18, <1>d DEF vars, session, graph, run, history
<1>19. QED
  BY <1>1, <1>2, <1>3, <1>4, <1>5, <1>6, <1>7, <1>8, <1>9, <1>11,
     <1>12, <1>13, <1>14, <1>15, <1>16, <1>17, <1>18, Savers
  DEF Next, UserRequest, RequestStep, AgentEnds, TailStep

\* Where the reviews come last, a completed session has the consent of both of
\* them: no agent that was left behind has changed a verdict since.
THEOREM VetoBlocksApprovalAlways ==
  ASSUME ReviewsComeLast
  PROVE  Spec => []VetoBlocksApproval
<1>1. Spec => []ReviewInv
  <2>1. GraphInv => WorkInv
    BY DEF GraphInv
  <2>2. QED
    BY ReviewsComeLast, SessionAlways, GraphAlways, InitReview,
       NextReview, <2>1, PTL DEF Spec
<1>2. SessionInv /\ ReviewInv => VetoBlocksApproval
  BY DEF SessionInv, FinalGate, ReportIsNewest, ReviewInv, ReportFits, Unvetoed,
         VetoBlocksApproval
<1>3. QED
  BY <1>1, <1>2, SessionAlways, PTL
=============================================================================

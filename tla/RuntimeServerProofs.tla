------------------------ MODULE RuntimeServerProofs ------------------------
(***************************************************************************)
(* Theorems about the runtime server, for every set of folders and modes,  *)
(* every number of tasks, requests and services, and every limit of the    *)
(* ChangeSet's session.                                                    *)
(***************************************************************************)
EXTENDS RuntimeServer, TLAPS

-----------------------------------------------------------------------------
\* The bounds are numbers.
LEMMA Bounds ==
  MaxTasks \in Nat /\ MaxAsked \in Nat /\ MaxSteps \in Nat /\ MaxOrchestrators \in Nat
BY ServerAssumption

\* None is told apart from every task.
LEMMA NoneIsNoTask == None \notin Task
BY Bounds DEF None, Task

-----------------------------------------------------------------------------
(***************************************************************************)
(* The session of the ChangeSet.                                           *)
(***************************************************************************)

\* What the requests and tools make of a session is one again, and as much
\* allowed to write.
LEMMA SessionKept ==
  ASSUME NEW s \in Session
  PROVE  /\ CanAdd(s) => Added(s) \in Session /\ Added(s).write = s.write
         /\ Cleared(s) \in Session /\ Cleared(s).write = s.write
         /\ \A valid \in BOOLEAN :
              Previewed(s, valid) \in Session /\ Previewed(s, valid).write = s.write
         /\ \A d : Unconfirmed(s, d) \in Session /\ Unconfirmed(s, d).write = s.write
         /\ Refused(s) \in Session /\ Refused(s).write = s.write
         /\ WriteFailed(s) \in Session /\ WriteFailed(s).write = s.write
         /\ Written(s) \in Session /\ Written(s).write = s.write
         /\ RepairRefused(Written(s)) <=> RepairRefused(s)
<1>0. 0 \in 0 .. MaxOperations
  BY ChangeSessionAssumption
<1>1. CanAdd(s) => Added(s) \in Session /\ Added(s).write = s.write
  <2>1. Renewed(s) \in Session /\ Renewed(s).write = s.write
    BY <1>0 DEF Renewed, Session, Status
  <2>2. CanAdd(s) => Renewed(s).ops + 1 \in 0 .. MaxOperations
    BY <2>1, ChangeSessionAssumption DEF CanAdd, Session
  <2>3. QED
    BY <2>1, <2>2 DEF Added, Session, Status
<1>2. Cleared(s) \in Session /\ Cleared(s).write = s.write
  BY <1>0 DEF Cleared, Session, Status
<1>3. \A valid \in BOOLEAN :
        Previewed(s, valid) \in Session /\ Previewed(s, valid).write = s.write
  BY DEF Previewed, Session, Status
<1>4. \A d : Unconfirmed(s, d) \in Session /\ Unconfirmed(s, d).write = s.write
  BY DEF Unconfirmed, Session, Status
<1>5. Refused(s) \in Session /\ Refused(s).write = s.write
  BY DEF Refused, Session, Status
<1>6. WriteFailed(s) \in Session /\ WriteFailed(s).write = s.write
  BY DEF WriteFailed, Session, Status
<1>7. /\ Written(s) \in Session /\ Written(s).write = s.write
      /\ RepairRefused(Written(s)) <=> RepairRefused(s)
  BY DEF Written, RepairRefused, Session, Status
<1>8. QED
  BY <1>1, <1>2, <1>3, <1>4, <1>5, <1>6, <1>7

\* The checks after an apply count one repair at most, and only where the limit
\* allowed it, so they stay within the limit.
LEMMA CheckedSession ==
  ASSUME NEW s \in Session, ~RepairRefused(s)
  PROVE  /\ \A v \in Verdict, f \in BOOLEAN :
              AfterApply(s, v, f) \in Session /\ AfterApply(s, v, f).write = s.write
         /\ VerifyThrows(s) \in Session /\ VerifyThrows(s).write = s.write
<1>1. s.repairAttempts + (IF s.awaitingRepair THEN 1 ELSE 0)
        \in 0 .. MaxRepairAttempts
  BY ChangeSessionAssumption DEF Session, RepairRefused
<1>2. ASSUME NEW v \in Verdict, NEW f \in BOOLEAN
      PROVE  /\ AfterApply(s, v, f) \in Session
             /\ AfterApply(s, v, f).write = s.write
  <2> DEFINE undone == v = "failed" /\ RollbackOnFailure /\ ~f
             attempts == s.repairAttempts + IF s.awaitingRepair THEN 1 ELSE 0
             broken == v = "failed" /\ ~undone
             reached == s.maxReached \/ (v = "failed" /\ attempts >= MaxRepairAttempts)
             rolled == s.rolledBack \/ undone
             status == IF undone THEN "rolled_back" ELSE s.status
  <2>1. broken \in BOOLEAN /\ reached \in BOOLEAN /\ rolled \in BOOLEAN
    OBVIOUS
  <2>2. attempts \in 0 .. MaxRepairAttempts
    BY <1>1
  <2>3. status \in Status
    BY DEF Session, Status
  <2>4. AfterApply(s, v, f) =
          [s EXCEPT !.report = v, !.repairAttempts = attempts,
                    !.awaitingRepair = broken, !.maxReached = reached,
                    !.rolledBack = rolled, !.status = status]
    BY DEF AfterApply
  <2> HIDE DEF undone, attempts, broken, reached, rolled, status
  <2>5. AfterApply(s, v, f) =
          [write |-> s.write, status |-> status, ops |-> s.ops,
           checkpoint |-> s.checkpoint, awaitingRepair |-> broken,
           repairAttempts |-> attempts, maxReached |-> reached,
           rolledBack |-> rolled, report |-> v]
    BY <2>4 DEF Session
  <2>6. QED
    BY <2>1, <2>2, <2>3, <2>5 DEF Session
<1>3. VerifyThrows(s) \in Session /\ VerifyThrows(s).write = s.write
  BY <1>1 DEF VerifyThrows, Session, Status
<1>4. QED
  BY <1>2, <1>3

\* Whatever comes of the checks is a session again.
LEMMA VerifiedKept ==
  ASSUME NEW s \in Session, ~RepairRefused(s), NEW r \in Verified(s)
  PROVE  r \in Session /\ r.write = s.write
BY CheckedSession DEF Verified

-----------------------------------------------------------------------------
\* Resources with another session are resources of the same folder.
LEMMA SessionReplaced ==
  ASSUME NEW r \in Resources, NEW s \in Session, s.write = r.session.write
  PROVE  LET new == [r EXCEPT !.session = s] IN
         /\ new \in Resources /\ new.root = r.root /\ new.trusted = r.trusted
         /\ new.apply = r.apply /\ new.session = s
BY DEF Resources

-----------------------------------------------------------------------------
(***************************************************************************)
(* The invariant.                                                          *)
(***************************************************************************)

\* Whoever works on the session of the resources has resources: a running task,
\* and a request that applies or restores.
Resourced ==
  /\ \A t \in Task : task[t].state = "running" => resources \in Resources
  /\ Applying => resources \in Resources

\* A request that applies or restores has the session to itself, and an apply
\* goes on only where the limit of repairs allowed it.
AppliesAlone ==
  /\ Applying => activeTask = None
  /\ Applying /\ handler # "restore" => ~RepairRefused(resources.session)

\* What could write is trusted: tasks by ensureWorkspace when they start, their
\* resources because the folder stays while a task is at work.
Trusting ==
  /\ \A t \in Task :
       task[t].state \in Working /\ task[t].mode # "ask" => workspace.trusted
  /\ resources \in Resources =>
       (resources.apply \/ resources.session.write => resources.trusted)

ServerInv ==
  /\ TypeOK /\ OneTask /\ OneWritePerApproval /\ ChangesOfWorkspace
  /\ Resourced /\ AppliesAlone /\ Trusting

-----------------------------------------------------------------------------
(***************************************************************************)
(* The initial states, and what most steps leave alone.                    *)
(***************************************************************************)
\* A server that has just been initialized.
LEMMA InitInv == Init => ServerInv
<1> SUFFICES ASSUME Init PROVE ServerInv
  OBVIOUS
<1> USE DEF Init
<1>1. TypeOK
  <2>1. 0 \in 0 .. MaxSteps /\ 0 \in 0 .. MaxAsked
    BY Bounds
  <2>2. Idle("none") \in [state : TaskState, mode : Mode \cup {"ask"},
                         aborted : BOOLEAN, steps : 0 .. MaxSteps]
    BY <2>1 DEF Idle, TaskState
  <2>3. QED
    BY <2>1, <2>2 DEF TypeOK, Request
<1>2. OneTask
  BY DEF OneTask, Idle, Working, Task, None
<1>3. OneWritePerApproval /\ ChangesOfWorkspace
  BY DEF OneWritePerApproval, ChangesOfWorkspace
<1>4. Resourced /\ AppliesAlone
  BY DEF Resourced, AppliesAlone, Applying, Idle
<1>5. NoResources \notin Resources
  BY DEF NoResources, Resources
<1>6. Trusting
  BY <1>5 DEF Trusting, Idle, Working
<1>7. QED
  BY <1>1, <1>2, <1>3, <1>4, <1>6 DEF ServerInv

\* Steps that concern neither tasks nor the session of the ChangeSet.
LEMMA OthersKeepInv ==
  ASSUME ServerInv,
         UNCHANGED <<workspace, task, activeTask, resources, approvalOnce,
                     asked, writes>>,
         handler' \in Request, Applying' => handler' = handler,
         orchestrators' \in
           [Orchestrator -> {"none", "for task", "for request", "idle", "running"}],
         orchestration' \in Orchestrator \cup {None},
         shuttingDown' \in BOOLEAN
  PROVE  ServerInv'
<1>1. TypeOK'
  BY DEF ServerInv, TypeOK
<1>2. OneTask' /\ OneWritePerApproval' /\ ChangesOfWorkspace'
  BY DEF ServerInv, OneTask, OneWritePerApproval, ChangesOfWorkspace
<1>3. Applying' => Applying
  BY DEF Applying
<1>4. Resourced' /\ AppliesAlone' /\ Trusting'
  BY <1>3 DEF ServerInv, Resourced, AppliesAlone, Trusting
<1>5. QED
  BY <1>1, <1>2, <1>4 DEF ServerInv

\* While a task is at work no request applies or restores.
LEMMA NoneApplies ==
  ASSUME ServerInv, NEW t \in Task, task[t].state \in Working
  PROVE  activeTask = t /\ ~Applying
BY DEF ServerInv, OneTask, AppliesAlone, Task, None

\* A task that is not at work is a task.
LEMMA IdleTask ==
  ASSUME NEW state \in TaskState
  PROVE  Idle(state) \in [state : TaskState, mode : Mode \cup {"ask"},
                         aborted : BOOLEAN, steps : 0 .. MaxSteps]
<1>1. 0 \in 0 .. MaxSteps
  BY Bounds
<1>2. QED
  BY <1>1 DEF Idle

\* The end of a task.
LEMMA EndsKeepInv ==
  ASSUME ServerInv, NEW t \in Task, task[t].state \in Working,
         NEW end \in {"completed", "failed", "cancelled"}, EndTask(t, end),
         UNCHANGED <<workspace, resources, approvalOnce, handler, shuttingDown,
                     asked, writes>>,
         orchestrators' \in
           [Orchestrator -> {"none", "for task", "for request", "idle", "running"}],
         orchestration' \in Orchestrator \cup {None}
  PROVE  ServerInv'
<1>1. activeTask = t /\ ~Applying
  BY NoneApplies
<1>2. activeTask' = None
  BY <1>1 DEF EndTask
<1>3. /\ task' = [task EXCEPT ![t] = Idle(end)]
      /\ Idle(end) \in [state : TaskState, mode : Mode \cup {"ask"},
                        aborted : BOOLEAN, steps : 0 .. MaxSteps]
  BY IdleTask DEF EndTask, TaskState
<1>4. \A u \in Task : task'[u] = IF u = t THEN Idle(end) ELSE task[u]
  BY <1>3 DEF ServerInv, TypeOK
<1>5. Idle(end).state \notin Working
  BY DEF Idle, Working
<1>6. TypeOK'
  <2>1. task' \in [Task -> [state : TaskState, mode : Mode \cup {"ask"},
                            aborted : BOOLEAN, steps : 0 .. MaxSteps]]
    BY <1>3 DEF ServerInv, TypeOK
  <2>2. QED
    BY <1>2, <2>1 DEF ServerInv, TypeOK
<1>7. OneTask'
  <2>1. \A u \in Task : task'[u].state \in Working => u # t /\ task[u].state \in Working
    BY <1>4, <1>5
  <2>2. \A u \in Task : task[u].state \in Working => u = t
    BY <1>1 DEF ServerInv, OneTask
  <2>3. QED
    BY <1>2, <2>1, <2>2, NoneIsNoTask DEF OneTask
<1>8. OneWritePerApproval' /\ ChangesOfWorkspace'
  BY DEF ServerInv, OneWritePerApproval, ChangesOfWorkspace
<1>9. ~Applying'
  BY <1>1 DEF Applying
<1>10. Resourced' /\ AppliesAlone'
  BY <1>4, <1>5, <1>9 DEF ServerInv, Resourced, AppliesAlone, Working
<1>11. Trusting'
  BY <1>4, <1>5 DEF ServerInv, Trusting
<1>12. QED
  BY <1>6, <1>7, <1>8, <1>10, <1>11 DEF ServerInv

\* An approval that is used is used up.
LEMMA ConfirmCounts ==
  ASSUME ServerInv, asked' = asked,
         Confirm(Confirmed) \/ UNCHANGED <<approvalOnce, writes>>
  PROVE  /\ approvalOnce' \in BOOLEAN
         /\ writes' \in 0 .. MaxAsked
         /\ OneWritePerApproval'
<1>1. /\ approvalOnce \in BOOLEAN
      /\ writes \in 0 .. MaxAsked /\ asked \in 0 .. MaxAsked
      /\ writes + (IF approvalOnce THEN 1 ELSE 0) <= asked
  BY DEF ServerInv, TypeOK, OneWritePerApproval
<1>2. CASE UNCHANGED <<approvalOnce, writes>>
  BY <1>1, <1>2 DEF OneWritePerApproval
<1>3. CASE Confirm(Confirmed) /\ approvalOnce
  <2>1. approvalOnce' = FALSE /\ writes' = writes + 1
    BY <1>3 DEF Confirm, Confirmed
  <2>2. writes + 1 <= asked
    BY <1>1, <1>3
  <2>3. writes + 1 \in 0 .. MaxAsked
    BY <1>1, <2>2, Bounds
  <2>4. (IF approvalOnce' THEN 1 ELSE 0) = 0 /\ writes' + 0 = writes + 1
    BY <1>1, <2>1
  <2>5. OneWritePerApproval'
    BY <2>2, <2>4 DEF OneWritePerApproval
  <2>6. QED
    BY <2>1, <2>3, <2>5
<1>4. CASE Confirm(Confirmed) /\ ~approvalOnce
  <2>1. approvalOnce' = FALSE /\ writes' = writes
    BY <1>4 DEF Confirm, Confirmed
  <2>2. QED
    BY <1>1, <1>4, <2>1 DEF OneWritePerApproval
<1>5. QED
  BY <1>2, <1>3, <1>4

\* Steps that give the resources another session, or none, and that may use an
\* approval: the tools, and the requests about the ChangeSet.
LEMMA SessionsKeepInv ==
  ASSUME ServerInv, resources \in Resources,
         NEW s \in Session, s.write = resources.session.write,
         resources' = [resources EXCEPT !.session = s],
         approvalOnce' \in BOOLEAN, writes' \in 0 .. MaxAsked,
         asked' \in 0 .. MaxAsked, OneWritePerApproval',
         handler' \in Request,
         Applying' => /\ activeTask = None
                      /\ handler' # "restore" => ~RepairRefused(s),
         task' \in [Task -> [state : TaskState, mode : Mode \cup {"ask"},
                             aborted : BOOLEAN, steps : 0 .. MaxSteps]],
         \A u \in Task : task'[u].state = task[u].state /\ task'[u].mode = task[u].mode,
         UNCHANGED <<workspace, activeTask, orchestrators, orchestration, shuttingDown>>
  PROVE  ServerInv'
<1>1. /\ resources' \in Resources /\ resources'.root = resources.root
      /\ resources'.trusted = resources.trusted
      /\ resources'.apply = resources.apply /\ resources'.session = s
  BY SessionReplaced
<1>2. resources # NoResources
  BY DEF Resources, NoResources
<1>3. TypeOK'
  BY <1>1 DEF ServerInv, TypeOK
<1>4. OneTask'
  BY DEF ServerInv, OneTask
<1>5. ChangesOfWorkspace'
  BY <1>1, <1>2 DEF ServerInv, ChangesOfWorkspace
<1>6. Resourced'
  BY <1>1 DEF Resourced
<1>7. AppliesAlone'
  BY <1>1 DEF AppliesAlone
<1>8. Trusting'
  BY <1>1 DEF ServerInv, Trusting
<1>9. QED
  BY <1>3, <1>4, <1>5, <1>6, <1>7, <1>8 DEF ServerInv

-----------------------------------------------------------------------------
(***************************************************************************)
(* Every step.                                                             *)
(***************************************************************************)

\* Tools of a running task: they count a step, and what else they change is the
\* session of the resources and the approval.
LEMMA ToolsKeepInv ==
  ASSUME ServerInv, NEW t \in Task, PrepareTool(t) \/ ApplyTool(t) \/ RestoreTool(t)
  PROVE  ServerInv'
<1>1. /\ Calls(t) /\ asked' = asked
      /\ resources \in Resources /\ resources.session \in Session
  <2>1. Calls(t) /\ asked' = asked
    BY DEF PrepareTool, ApplyTool, RestoreTool, Calls
  <2>2. resources \in Resources
    BY <2>1 DEF Calls, ServerInv, Resourced
  <2>3. QED
    BY <2>1, <2>2 DEF Resources
<1>2. activeTask = t /\ ~Applying
  BY <1>1, NoneApplies DEF Calls, Working
<1>3. handler' = handler /\ ~Applying'
  BY <1>1, <1>2 DEF Calls, Applying
<1>4. /\ task' \in [Task -> [state : TaskState, mode : Mode \cup {"ask"},
                             aborted : BOOLEAN, steps : 0 .. MaxSteps]]
      /\ \A u \in Task : task'[u].state = task[u].state /\ task'[u].mode = task[u].mode
  <2>1. /\ task \in [Task -> [state : TaskState, mode : Mode \cup {"ask"},
                              aborted : BOOLEAN, steps : 0 .. MaxSteps]]
        /\ task[t].steps < MaxSteps
        /\ task' = [task EXCEPT ![t].steps = @ + 1]
    BY <1>1 DEF Calls, ServerInv, TypeOK
  <2>2. task[t].steps + 1 \in 0 .. MaxSteps
    BY <2>1, Bounds
  <2>3. QED
    BY <2>1, <2>2
<1>5. /\ Confirm(Confirmed) \/ UNCHANGED <<approvalOnce, writes>>
      /\ \E s \in Session :
           /\ s.write = resources.session.write
           /\ resources' = [resources EXCEPT !.session = s]
  <2>1. resources = [resources EXCEPT !.session = resources.session]
    BY <1>1 DEF Resources
  <2>2. CASE PrepareTool(t)
    <3> DEFINE s == resources.session
    <3>1. (s.ops > 0) \in BOOLEAN
      OBVIOUS
    <3>2. /\ UNCHANGED <<approvalOnce, writes>>
          /\ \/ CanAdd(s) /\ resources' = [resources EXCEPT !.session = Added(s)]
             \/ resources' = [resources EXCEPT !.session = Cleared(s)]
             \/ resources' = [resources EXCEPT !.session = Previewed(s, s.ops > 0)]
      BY <2>2 DEF PrepareTool
    <3>3. QED
      BY <1>1, <3>1, <3>2, SessionKept
  <2>3. CASE RestoreTool(t)
    BY <1>1, <2>1, <2>3 DEF RestoreTool
  <2>4. CASE ApplyTool(t)
    <3> DEFINE s == resources.session
    <3>1. CASE RepairRefused(s)
      BY <1>1, <2>4, <3>1, SessionKept DEF ApplyTool
    <3>2. CASE ~RepairRefused(s)
      <4>1. PICK r \in IF Confirmed THEN Verified(Written(s)) \cup {WriteFailed(s)}
                       ELSE {Unconfirmed(s, "pending")} :
                 resources' = [resources EXCEPT !.session = r]
        BY <2>4, <3>2 DEF ApplyTool
      <4>2. r \in Session /\ r.write = s.write
        <5>1. CASE r \in Verified(Written(s))
          BY <1>1, <3>2, <5>1, SessionKept, VerifiedKept
        <5>2. CASE r \notin Verified(Written(s))
          BY <1>1, <4>1, <5>2, SessionKept
        <5>3. QED
          BY <5>1, <5>2
      <4>3. Confirm(Confirmed)
        BY <2>4, <3>2 DEF ApplyTool
      <4>4. QED
        BY <4>1, <4>2, <4>3
    <3>3. QED
      BY <3>1, <3>2
  <2>5. QED
    BY <2>2, <2>3, <2>4
<1>6. approvalOnce' \in BOOLEAN /\ writes' \in 0 .. MaxAsked /\ OneWritePerApproval'
  BY <1>1, <1>5, ConfirmCounts
<1>7. PICK s \in Session : /\ s.write = resources.session.write
                           /\ resources' = [resources EXCEPT !.session = s]
  BY <1>5
<1>8. /\ asked' \in 0 .. MaxAsked /\ handler' \in Request
      /\ UNCHANGED <<workspace, activeTask, orchestrators, orchestration, shuttingDown>>
  BY <1>1, <1>3 DEF Calls, ServerInv, TypeOK
<1>9. QED
  BY <1>1, <1>3, <1>4, <1>6, <1>7, <1>8, SessionsKeepInv

\* The requests that are made about the ChangeSet, up to the end of an apply.
LEMMA ChangeRequestsKeepInv ==
  ASSUME ServerInv,
         \/ PreviewChanges \/ RejectChanges \/ ApplyChanges \/ RestoreCheckpoint
         \/ \E valid \in BOOLEAN : Validate(valid)
         \/ Write \/ VerifyApplied \/ Restored
  PROVE  ServerInv'
<1> DEFINE s == resources.session
<1>1. resources \in Resources /\ s \in Session
  <2>1. resources \in Resources
    BY DEF ServerInv, TypeOK, Resourced, Applying, HasChanges, PreviewChanges,
           RejectChanges, ApplyChanges, RestoreCheckpoint, Validate, Write,
           VerifyApplied, Restored
  <2>2. QED
    BY <2>1 DEF Resources
<1>2. resources = [resources EXCEPT !.session = s]
  BY <1>1 DEF Resources
<1>3. /\ task' = task
      /\ UNCHANGED <<workspace, activeTask, orchestrators, orchestration, shuttingDown>>
  BY DEF PreviewChanges, RejectChanges, ApplyChanges, RestoreCheckpoint, Validate,
         Write, VerifyApplied, Restored
<1>4. asked' = asked \/ (asked < MaxAsked /\ asked' = asked + 1)
  BY DEF PreviewChanges, RejectChanges, ApplyChanges, RestoreCheckpoint, Validate,
         Write, VerifyApplied, Restored
<1>5. asked' \in 0 .. MaxAsked
  <2>1. asked \in 0 .. MaxAsked
    BY DEF ServerInv, TypeOK
  <2>2. QED
    BY <1>4, <2>1, Bounds
<1>6. approvalOnce' \in BOOLEAN /\ writes' \in 0 .. MaxAsked /\ OneWritePerApproval'
  <2>1. CASE ApplyChanges \/ RestoreCheckpoint
    <3>1. approvalOnce' = TRUE /\ asked' = asked + 1 /\ writes' = writes
      BY <2>1 DEF ApplyChanges, RestoreCheckpoint
    <3>2. /\ writes \in 0 .. MaxAsked /\ asked \in 0 .. MaxAsked
          /\ writes + (IF approvalOnce THEN 1 ELSE 0) <= asked
      BY DEF ServerInv, TypeOK, OneWritePerApproval
    <3>3. writes + 1 <= asked + 1
      BY <3>2, Bounds
    <3>4. QED
      BY <3>1, <3>2, <3>3 DEF OneWritePerApproval
  <2>2. CASE ~(ApplyChanges \/ RestoreCheckpoint)
    <3>1. /\ asked' = asked
          /\ Confirm(Confirmed) \/ UNCHANGED <<approvalOnce, writes>>
      BY <2>2 DEF PreviewChanges, RejectChanges, Validate, Write, VerifyApplied, Restored
    <3>2. QED
      BY <3>1, ConfirmCounts
  <2>3. QED
    BY <2>1, <2>2
<1>7. handler' \in Request
  BY DEF ServerInv, TypeOK, Request, PreviewChanges, RejectChanges, ApplyChanges,
         RestoreCheckpoint, Validate, Write, VerifyApplied, Restored
<1>8. \E new \in Session :
        /\ new.write = s.write
        /\ resources' = [resources EXCEPT !.session = new]
        /\ Applying' => /\ activeTask = None
                        /\ handler' # "restore" => ~RepairRefused(new)
  <2>1. CASE PreviewChanges
    <3>1. ~Applying' /\ (s.ops > 0) \in BOOLEAN
      BY <2>1 DEF PreviewChanges, Reads, Applying
    <3>2. QED
      BY <1>1, <2>1, <3>1, SessionKept DEF PreviewChanges
  <2>2. CASE RejectChanges
    BY <1>1, <2>2, SessionKept DEF RejectChanges, Reads, Applying
  <2>3. CASE ApplyChanges /\ RepairRefused(s)
    BY <1>1, <2>3, SessionKept DEF ApplyChanges, Reads, Applying
  <2>4. CASE ApplyChanges /\ ~RepairRefused(s)
    BY <1>1, <1>2, <2>4 DEF ApplyChanges
  <2>5. CASE RestoreCheckpoint
    BY <1>1, <1>2, <2>5 DEF RestoreCheckpoint
  <2>6. CASE \E valid \in BOOLEAN : Validate(valid)
    BY <1>1, <1>2, <2>6 DEF Validate, Applying, ServerInv, AppliesAlone
  <2>7. CASE Write
    <3>1. activeTask = None /\ ~RepairRefused(s)
      BY <2>7 DEF Write, Applying, ServerInv, AppliesAlone
    <3>2. \/ resources' = [resources EXCEPT !.session = Written(s)]
          \/ handler' = "none" /\ resources' = [resources EXCEPT !.session = WriteFailed(s)]
          \/ handler' = "none" /\ resources' = resources
      BY <2>7 DEF Write
    <3>3. QED
      BY <1>1, <1>2, <3>1, <3>2, SessionKept DEF Applying
  <2>8. CASE VerifyApplied
    <3>1. ~RepairRefused(s) /\ ~Applying'
      BY <2>8 DEF VerifyApplied, Applying, ServerInv, AppliesAlone
    <3>2. PICK r \in Verified(s) : resources' = [resources EXCEPT !.session = r]
      BY <2>8 DEF VerifyApplied
    <3>3. QED
      BY <1>1, <3>1, <3>2, VerifiedKept
  <2>9. CASE Restored
    BY <1>1, <1>2, <2>9 DEF Restored, Applying
  <2>10. QED
    BY <2>1, <2>2, <2>3, <2>4, <2>5, <2>6, <2>7, <2>8, <2>9
<1>9. PICK new \in Session :
        /\ new.write = s.write
        /\ resources' = [resources EXCEPT !.session = new]
        /\ Applying' => /\ activeTask = None
                        /\ handler' # "restore" => ~RepairRefused(new)
  BY <1>8
<1>10. task' \in [Task -> [state : TaskState, mode : Mode \cup {"ask"},
                           aborted : BOOLEAN, steps : 0 .. MaxSteps]]
  BY <1>3 DEF ServerInv, TypeOK
<1>11. QED
  BY <1>1, <1>3, <1>5, <1>6, <1>7, <1>9, <1>10, SessionsKeepInv

\* What happens to the orchestrators keeps their kind.
LEMMA OrchestratorsKept ==
  ASSUME ServerInv
  PROVE  /\ \A purpose \in {"for task", "for request"} : BeginCreate(purpose) =>
              orchestrators' \in
                [Orchestrator -> {"none", "for task", "for request", "idle", "running"}]
         /\ \A purpose \in {"for task", "for request"}, state \in {"idle", "running"} :
              EndCreate(purpose, state) =>
                /\ orchestrators' \in
                     [Orchestrator -> {"none", "for task", "for request", "idle", "running"}]
                /\ orchestration' \in Orchestrator \cup {None}
BY DEF ServerInv, TypeOK, BeginCreate, EndCreate

\* The requests and steps about the ChangeSet aside.
LEMMA OtherStepsKeepInv ==
  ASSUME ServerInv, [Next]_vars,
         ~(PreviewChanges \/ RejectChanges \/ ApplyChanges \/ RestoreCheckpoint
           \/ (\E valid \in BOOLEAN : Validate(valid))
           \/ Write \/ VerifyApplied \/ Restored),
         \A t \in Task : ~(PrepareTool(t) \/ ApplyTool(t) \/ RestoreTool(t))
  PROVE  ServerInv'
<1>0. /\ task \in [Task -> [state : TaskState, mode : Mode \cup {"ask"},
                            aborted : BOOLEAN, steps : 0 .. MaxSteps]]
      /\ orchestrators \in
           [Orchestrator -> {"none", "for task", "for request", "idle", "running"}]
      /\ orchestration \in Orchestrator \cup {None}
      /\ shuttingDown \in BOOLEAN /\ handler \in Request
  BY DEF ServerInv, TypeOK
<1>1. ASSUME NEW r \in Root, NEW trusted \in BOOLEAN, WorkspaceSet(r, trusted)
      PROVE  ServerInv'
  <2>1. \A t \in Task : task[t].state \notin Working
    BY <1>1, NoneIsNoTask DEF WorkspaceSet, Busy, ServerInv, OneTask
  <2>2. handler = "none" /\ handler' = "none" /\ resources' = NoResources /\ task' = task
    BY <1>1 DEF WorkspaceSet, Reads
  <2>3. TypeOK'
    BY <1>1 DEF WorkspaceSet, ServerInv, TypeOK
  <2>4. OneTask' /\ OneWritePerApproval' /\ ChangesOfWorkspace'
    BY <1>1 DEF WorkspaceSet, ServerInv, OneTask, OneWritePerApproval, ChangesOfWorkspace
  <2>5. Resourced' /\ AppliesAlone'
    BY <2>1, <2>2 DEF Resourced, AppliesAlone, Applying, Working
  <2>6. NoResources \notin Resources
    BY DEF NoResources, Resources
  <2>7. Trusting'
    BY <2>1, <2>2, <2>6 DEF Trusting
  <2>8. QED
    BY <2>3, <2>4, <2>5, <2>7 DEF ServerInv
<1>2. CASE SettingsUpdate \/ AwaitEnds \/ Orchestrate \/ OrchestratorCreated
           \/ ShutdownEnds \/ (\E request \in {"verify", "watch"} : Await(request))
           \/ (\E o \in Orchestrator : RunEnds(o)) \/ UNCHANGED vars
  <2>1. /\ UNCHANGED <<workspace, task, activeTask, resources, approvalOnce,
                       asked, writes>>
        /\ handler' \in Request
        /\ Applying' => handler' = handler
    BY <1>0, <1>2 DEF SettingsUpdate, AwaitEnds, Orchestrate, OrchestratorCreated,
       ShutdownEnds, Await, RunEnds, vars, Applying, Request
  <2>2. /\ orchestrators' \in
             [Orchestrator -> {"none", "for task", "for request", "idle", "running"}]
        /\ orchestration' \in Orchestrator \cup {None}
        /\ shuttingDown' \in BOOLEAN
    <3>1. CASE Orchestrate
      BY <1>0, <3>1, OrchestratorsKept DEF Orchestrate
    <3>2. CASE OrchestratorCreated
      BY <1>0, <3>2, OrchestratorsKept DEF OrchestratorCreated
    <3>3. CASE SettingsUpdate \/ AwaitEnds \/ ShutdownEnds
               \/ (\E request \in {"verify", "watch"} : Await(request))
               \/ (\E o \in Orchestrator : RunEnds(o)) \/ UNCHANGED vars
      BY <1>0, <3>3 DEF SettingsUpdate, AwaitEnds, ShutdownEnds, Await, RunEnds, vars
    <3>4. QED
      BY <1>2, <3>1, <3>2, <3>3
  <2>3. QED
    BY <2>1, <2>2, OthersKeepInv
<1>3. ASSUME NEW m \in Mode, NEW selection \in BOOLEAN, StartTask(m, selection)
      PROVE  ServerInv'
  <2>1. PICK t \in Task :
          /\ Reads /\ activeTask = None /\ Allowed(m, selection)
          /\ task[t].state = "none"
          /\ task' = [task EXCEPT ![t].mode = m,
                                  ![t].state = IF m = "orchestrated"
                                               THEN "orchestrating" ELSE "preparing"]
          /\ activeTask' = t
          /\ UNCHANGED <<workspace, resources, approvalOnce, handler, orchestrators,
                         orchestration, shuttingDown, asked, writes>>
    BY <1>3 DEF StartTask
  <2>2. /\ task' \in [Task -> [state : TaskState, mode : Mode \cup {"ask"},
                               aborted : BOOLEAN, steps : 0 .. MaxSteps]]
        /\ \A u \in Task \ {t} : task'[u] = task[u]
        /\ task'[t].state \in {"preparing", "orchestrating"} /\ task'[t].mode = m
    BY <1>0, <2>1 DEF TaskState
  <2>3. \A u \in Task : task[u].state \notin Working
    BY <2>1, NoneIsNoTask DEF ServerInv, OneTask
  <2>4. TypeOK'
    BY <2>1, <2>2 DEF ServerInv, TypeOK
  <2>5. OneTask'
    BY <2>1, <2>2, <2>3 DEF OneTask, Working
  <2>6. OneWritePerApproval' /\ ChangesOfWorkspace'
    BY <2>1 DEF ServerInv, OneWritePerApproval, ChangesOfWorkspace
  <2>7. Resourced' /\ AppliesAlone'
    BY <2>1, <2>2, <2>3 DEF Resourced, AppliesAlone, Applying, Reads, Working
  <2>8. Trusting'
    BY <2>1, <2>2, <2>3 DEF ServerInv, Trusting, Allowed
  <2>9. QED
    BY <2>4, <2>5, <2>6, <2>7, <2>8 DEF ServerInv
<1>4. CASE (\E t \in Task : CancelTask(t)) \/ Shutdown
  <2>1. /\ task' \in [Task -> [state : TaskState, mode : Mode \cup {"ask"},
                               aborted : BOOLEAN, steps : 0 .. MaxSteps]]
        /\ \A u \in Task : task'[u].state = task[u].state /\ task'[u].mode = task[u].mode
    <3>1. activeTask # None => activeTask \in Task
      BY DEF ServerInv, TypeOK
    <3>2. task' = task \/ \E t \in Task : task' = [task EXCEPT ![t].aborted = TRUE]
      BY <1>4, <3>1 DEF CancelTask, Shutdown
    <3>3. CASE task' = task
      BY <1>0, <3>3
    <3>4. ASSUME NEW t \in Task, task' = [task EXCEPT ![t].aborted = TRUE]
          PROVE  /\ task' \in [Task -> [state : TaskState, mode : Mode \cup {"ask"},
                                       aborted : BOOLEAN, steps : 0 .. MaxSteps]]
                 /\ \A u \in Task :
                      task'[u].state = task[u].state /\ task'[u].mode = task[u].mode
      BY <1>0, <3>4
    <3>5. QED
      BY <3>2, <3>3, <3>4
  <2>2. /\ handler' \in Request /\ ~Applying'
        /\ UNCHANGED <<workspace, activeTask, resources, approvalOnce, orchestrators,
                       orchestration, shuttingDown, asked, writes>>
    BY <1>0, <1>4 DEF CancelTask, Shutdown, Reads, Applying, Request
  <2>3. TypeOK'
    BY <2>1, <2>2 DEF ServerInv, TypeOK
  <2>4. OneTask' /\ OneWritePerApproval' /\ ChangesOfWorkspace'
    BY <2>1, <2>2 DEF ServerInv, OneTask, OneWritePerApproval, ChangesOfWorkspace
  <2>5. Resourced' /\ AppliesAlone' /\ Trusting'
    BY <2>1, <2>2 DEF ServerInv, Resourced, AppliesAlone, Trusting
  <2>6. QED
    BY <2>3, <2>4, <2>5 DEF ServerInv
<1>5. ASSUME NEW t \in Task, CreateResources(t)
      PROVE  ServerInv'
  <2> DEFINE new == [root |-> workspace.root, trusted |-> workspace.trusted,
                     apply |-> task[t].mode = "agent" /\ ~Restricted("agent")
                               /\ workspace.root # NoRoot,
                     session |-> NewSession(task[t].mode \in {"edit", "agent"})]
  <2>1. /\ task[t].state = "preparing" /\ resources' = new
        /\ task' = [task EXCEPT ![t].state = "running"]
        /\ UNCHANGED <<workspace, activeTask, approvalOnce, handler, orchestrators,
                       orchestration, shuttingDown, asked, writes>>
    BY <1>5 DEF CreateResources
  <2>2. activeTask = t /\ ~Applying /\ ~Applying'
    BY <2>1, NoneApplies DEF Working, Applying
  <2>3. /\ task' \in [Task -> [state : TaskState, mode : Mode \cup {"ask"},
                               aborted : BOOLEAN, steps : 0 .. MaxSteps]]
        /\ \A u \in Task \ {t} : task'[u] = task[u]
        /\ task'[t].state = "running" /\ task'[t].mode = task[t].mode
    BY <1>0, <2>1 DEF TaskState
  <2>4. \A write \in BOOLEAN :
          NewSession(write) \in Session /\ NewSession(write).write = write
    <3>1. 0 \in 0 .. MaxOperations /\ 0 \in 0 .. MaxRepairAttempts
      BY ChangeSessionAssumption
    <3>2. QED
      BY <3>1 DEF NewSession, Session, Status
  <2>5. new \in Resources
    <3>1. workspace.root \in Root \cup {NoRoot} /\ workspace.trusted \in BOOLEAN
      BY DEF ServerInv, TypeOK
    <3>2. /\ (task[t].mode = "agent" /\ ~Restricted("agent")
              /\ workspace.root # NoRoot) \in BOOLEAN
          /\ (task[t].mode \in {"edit", "agent"}) \in BOOLEAN
      OBVIOUS
    <3>3. QED
      BY <2>4, <3>1, <3>2 DEF Resources
  <2>6. new.apply \/ new.session.write => new.trusted
    <3>1. (task[t].mode \in {"edit", "agent"}) \in BOOLEAN
      OBVIOUS
    <3>2. new.session.write = (task[t].mode \in {"edit", "agent"})
      BY <2>4, <3>1
    <3>3. new.apply => task[t].mode = "agent"
      OBVIOUS
    <3>4. task[t].mode \in {"edit", "agent"} => workspace.trusted
      BY <2>1 DEF ServerInv, Trusting, Working
    <3>5. QED
      BY <3>2, <3>3, <3>4
  <2> HIDE DEF new
  <2>7. TypeOK'
    BY <2>1, <2>3, <2>5 DEF ServerInv, TypeOK
  <2>8. OneTask'
    BY <2>1, <2>2, <2>3 DEF ServerInv, OneTask, Working
  <2>9. OneWritePerApproval' /\ ChangesOfWorkspace'
    BY <2>1 DEF new, ServerInv, OneWritePerApproval, ChangesOfWorkspace
  <2>10. Resourced' /\ AppliesAlone'
    BY <2>1, <2>2, <2>5 DEF Resourced, AppliesAlone
  <2>11. Trusting'
    BY <2>1, <2>3, <2>6 DEF ServerInv, Trusting, Working
  <2>12. QED
    BY <2>7, <2>8, <2>9, <2>10, <2>11 DEF ServerInv
<1>6. ASSUME NEW t \in Task, CreateFails(t) \/ AgentReturns(t)
      PROVE  ServerInv'
  <2>1. /\ task[t].state \in Working
        /\ \E end \in {"completed", "failed", "cancelled"} : EndTask(t, end)
        /\ UNCHANGED <<workspace, resources, approvalOnce, handler, orchestrators,
                       orchestration, shuttingDown, asked, writes>>
    BY <1>6 DEF CreateFails, AgentReturns, Working
  <2>2. QED
    BY <1>0, <2>1, EndsKeepInv
<1>7. ASSUME NEW t \in Task, OrchestratedTask(t)
      PROVE  ServerInv'
  <2>1. /\ task[t].state \in Working
        /\ UNCHANGED <<workspace, resources, approvalOnce, handler, shuttingDown,
                       asked, writes>>
    BY <1>7 DEF OrchestratedTask, Working
  <2>2. \/ BeginCreate("for task") /\ UNCHANGED <<task, activeTask, orchestration>>
        \/ EndCreate("for task", "idle") /\ EndTask(t, "completed")
        \/ /\ UNCHANGED <<orchestrators, orchestration>>
           /\ \E end \in {"completed", "failed", "cancelled"} : EndTask(t, end)
    BY <1>7 DEF OrchestratedTask
  <2>3. CASE BeginCreate("for task") /\ UNCHANGED <<task, activeTask, orchestration>>
    BY <1>0, <2>1, <2>3, OrchestratorsKept, OthersKeepInv
  <2>4. CASE EndCreate("for task", "idle") /\ EndTask(t, "completed")
    BY <2>1, <2>4, OrchestratorsKept, EndsKeepInv
  <2>5. CASE /\ UNCHANGED <<orchestrators, orchestration>>
             /\ \E end \in {"completed", "failed", "cancelled"} : EndTask(t, end)
    BY <1>0, <2>1, <2>5, EndsKeepInv
  <2>6. QED
    BY <2>2, <2>3, <2>4, <2>5
<1>8. QED
  BY <1>1, <1>2, <1>3, <1>4, <1>5, <1>6, <1>7 DEF Next, Requests, Handlers, Background

\* The three kinds of steps together.
LEMMA NextInv == ServerInv /\ [Next]_vars => ServerInv'
<1> SUFFICES ASSUME ServerInv, [Next]_vars PROVE ServerInv'
  OBVIOUS
<1>1. CASE \E t \in Task : PrepareTool(t) \/ ApplyTool(t) \/ RestoreTool(t)
  BY <1>1, ToolsKeepInv
<1>2. CASE \/ PreviewChanges \/ RejectChanges \/ ApplyChanges \/ RestoreCheckpoint
           \/ \E valid \in BOOLEAN : Validate(valid)
           \/ Write \/ VerifyApplied \/ Restored
  BY <1>2, ChangeRequestsKeepInv
<1>3. QED
  BY <1>1, <1>2, OtherStepsKeepInv

\* Hence the invariant holds in every reachable state.
LEMMA AlwaysInv == Spec => []ServerInv
<1>1. QED
  BY InitInv, NextInv, PTL DEF Spec

-----------------------------------------------------------------------------
(***************************************************************************)
(* The theorems.                                                           *)
(***************************************************************************)

\* Every variable always holds a value of its kind; in particular the repairs
\* that the coordinator counts stay within maxRepairAttempts.
THEOREM ServerTypeCorrect == Spec => []TypeOK
<1>1. ServerInv => TypeOK
  BY DEF ServerInv
<1>2. QED
  BY <1>1, AlwaysInv, PTL

\* However tasks are started, cancelled and ended, the server has one task at
\* work at a time, and it knows which.
THEOREM OneTaskAlways == Spec => []OneTask
<1>1. ServerInv => OneTask
  BY DEF ServerInv
<1>2. QED
  BY <1>1, AlwaysInv, PTL

\* Files are written no more often than the user asked for it, the approvals
\* that requests leave behind counted.
THEOREM OneWritePerApprovalAlways == Spec => []OneWritePerApproval
<1>1. ServerInv => OneWritePerApproval
  BY DEF ServerInv
<1>2. QED
  BY <1>1, AlwaysInv, PTL

\* The ChangeSet at hand belongs to the folder that is open, with its trust.
THEOREM ChangesOfWorkspaceAlways == Spec => []ChangesOfWorkspace
<1>1. ServerInv => ChangesOfWorkspace
  BY DEF ServerInv
<1>2. QED
  BY <1>1, AlwaysInv, PTL

\* Whoever writes does so with resources of a trusted folder: the agent's tools
\* that write exist in no others, and a session in "write" mode neither.
THEOREM WritesTrustedAlways == Spec => WritesTrusted
<1>1. ASSUME ServerInv, [Next]_vars, writes' # writes
      PROVE  resources.trusted /\ workspace.trusted
  <2>1. \/ \E t \in Task : ApplyTool(t) \/ RestoreTool(t)
        \/ \E valid \in BOOLEAN : Validate(valid)
        \/ Restored
    BY <1>1 DEF Next, vars, Requests, Handlers, Background, WorkspaceSet, SettingsUpdate,
       StartTask, CancelTask, PreviewChanges, RejectChanges, ApplyChanges,
       RestoreCheckpoint, Await, Orchestrate, Shutdown, Write, VerifyApplied, AwaitEnds,
       ShutdownEnds, OrchestratorCreated, CreateResources, CreateFails, PrepareTool,
       AgentReturns, OrchestratedTask, RunEnds
  <2>2. resources \in Resources /\ (resources.apply \/ resources.session.write)
    <3>1. CASE \E t \in Task : ApplyTool(t) \/ RestoreTool(t)
      BY <1>1, <3>1 DEF ApplyTool, RestoreTool, Calls, ServerInv, Resourced
    <3>2. CASE \E valid \in BOOLEAN : Validate(valid)
      BY <1>1, <3>2 DEF Validate, CanApply, Applying, ServerInv, Resourced
    <3>3. CASE Restored
      BY <1>1, <3>3 DEF Restored, Applying, ServerInv, Resourced
    <3>4. QED
      BY <2>1, <3>1, <3>2, <3>3
  <2>3. resources.trusted
    BY <1>1, <2>2 DEF ServerInv, Trusting
  <2>4. resources # NoResources
    BY <2>2 DEF Resources, NoResources
  <2>5. QED
    BY <1>1, <2>3, <2>4 DEF ServerInv, ChangesOfWorkspace
<1>2. ServerInv /\ [Next]_vars
        => [writes' # writes => resources.trusted /\ workspace.trusted]_vars
  BY <1>1
<1>3. QED
  BY <1>2, AlwaysInv, PTL DEF Spec, WritesTrusted

\* An apply or a restore that was asked for has the session to itself.
THEOREM ApplyUndisturbedAlways == Spec => ApplyUndisturbed
<1>1. ASSUME ServerInv, [Next]_vars, Applying, handler' = handler
      PROVE  UNCHANGED <<resources, workspace, activeTask>>
  <2>1. ~Reads /\ handler # "none"
    BY <1>1 DEF Applying, Reads
  <2>2. ~Requests
    BY <2>1 DEF Requests, WorkspaceSet, SettingsUpdate, StartTask, CancelTask,
       PreviewChanges, RejectChanges, ApplyChanges, RestoreCheckpoint, Await,
       Orchestrate, Shutdown
  <2>3. ~Handlers
    BY <1>1, <2>1 DEF Handlers, Validate, Write, VerifyApplied, Restored, AwaitEnds,
       ShutdownEnds, OrchestratorCreated, Applying
  <2>4. \A t \in Task : task[t].state \notin Working
    BY <1>1, NoneApplies
  <2>5. \A t \in Task : ~Background(t)
    BY <2>4 DEF Background, CreateResources, CreateFails, PrepareTool, ApplyTool,
       RestoreTool, AgentReturns, OrchestratedTask, Calls, Working
  <2>6. QED
    BY <1>1, <2>2, <2>3, <2>5 DEF Next, RunEnds, vars
<1>2. ServerInv /\ [Next]_vars
        => [Applying => \/ handler' # handler
                        \/ UNCHANGED <<resources, workspace, activeTask>>]_vars
  BY <1>1
<1>3. QED
  BY <1>2, AlwaysInv, PTL DEF Spec, ApplyUndisturbed
=============================================================================

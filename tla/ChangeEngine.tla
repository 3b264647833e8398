---------------------------- MODULE ChangeEngine ----------------------------
(***************************************************************************)
(* LocalChangeService with its TransactionManager and CheckpointService:   *)
(* a ChangeSet is put together, validated, confirmed, applied file by file *)
(* under the protection of a checkpoint, and undone from the checkpoint    *)
(* when something fails.  Checkpoints can be restored later.               *)
(*                                                                         *)
(* The engine serves one call at a time.  Its environment: the user edits  *)
(* files at any moment, an access to the file system fails, the process    *)
(* dies (the ChangeSet is lost; files and checkpoints stay).               *)
(***************************************************************************)
EXTENDS Integers, Sequences, FiniteSets

CONSTANTS
  Path,                 \* files, in the order in which manifests list them
  Content,              \* what a file may hold,
  Absent,               \* or that there is no file
  AgentContent,         \* what the agent writes
  UserContent,          \* what somebody else leaves behind
  InitialFiles,         \* the workspace at the beginning
  PathForms,            \* how the agent names files: "relative", "absolute"
  MaxChangeOperations,  \* limits.maxChangeOperations
  Retention,            \* checkpointRetention
  MaxCheckpoints,       \* bound: how many checkpoints are made
  MaxEdits,             \* bound: how often somebody else edits a file
  MaxFaults,            \* bound: how many file accesses fail
  MaxCrashes,           \* bound: how often the process dies
  EditOwn               \* whether files of a running transaction are edited

ASSUME EngineAssumption ==
  /\ Path \subseteq Nat
  /\ Absent \in Content
  /\ AgentContent \subseteq Content \ {Absent}
  /\ UserContent \subseteq Content
  /\ InitialFiles \in [Path -> Content]
  /\ PathForms \subseteq {"relative", "absolute"}
  /\ MaxChangeOperations \in Nat \ {0}
  /\ Retention \in Nat \ {0}
  /\ {MaxCheckpoints, MaxEdits, MaxFaults, MaxCrashes} \subseteq Nat
  /\ EditOwn \in BOOLEAN

ChangeSetStatus ==
  {"draft", "previewed", "pending_confirmation", "applying", "applied",
   "failed", "rejected", "rolled_back"}

\* from: the contents the agent read (its hash in the code); to: the new
\* contents; dest: another file for a move, and the same file otherwise; form:
\* how the agent names them.
FileOperation ==
  [type : {"patch", "create", "delete", "move"}, form : PathForms,
   path : Path, dest : Path, from : Content, to : Content]

\* The contents of some files.
Image == UNION {[D -> Content] : D \in SUBSET Path}

VARIABLES
  fs,        \* the files of the workspace
  ops, status, checkpointId,  \* the current ChangeSet
  saved,     \* the checkpoints on disk
  made,      \* how many were made
  pc,        \* where the call in progress is
  goal,      \* what the call, or its undoing, leads to
  idx,       \* the transaction: number of the operation it is at,
  touched,   \* those whose files are to be restored should it fail
  source,    \* a restore: the checkpoint it reads,
  undo,      \* the files it has not come to
  told,      \* how the last call ended
  safety,    \* the checkpoint that protects the files from the call,
  before, edited,  \* history: the files when it was made, those that
                   \* somebody else edited since
  edits, faults, crashes

callVars == <<goal, idx, touched, source, undo>>
changeVars == <<ops, status, checkpointId>>
diskVars == <<saved, made>>
safetyVars == <<safety, before, edited>>
bounds == <<edits, faults, crashes>>

vars ==
  <<fs, changeVars, diskVars, pc, told, callVars, safetyVars, bounds>>

\* The calls that have begun to change files.
Busy == {"verify", "write", "unlink", "check", "audit", "undo"}

-----------------------------------------------------------------------------
(* Operations and ChangeSets.                                              *)

OperationPaths(op) == {op.path, op.dest}

ChangeSetPaths(s) == UNION {OperationPaths(s[i]) : i \in DOMAIN s}

\* What the operations make of their files.
Target(s) ==
  [p \in ChangeSetPaths(s) |->
     LET i == CHOOSE j \in DOMAIN s : p \in OperationPaths(s[j])
     IN  IF p = s[i].dest THEN s[i].to ELSE Absent]

\* The file has the contents the agent read, a new file is not there.
ValidOperation(op) ==
  /\ fs[op.path] = op.from
  /\ op.type = "move" => fs[op.dest] = Absent

\* No two operations concern the same file.  Names are compared, and the same
\* file has a relative and an absolute one.
Disjoint(s) ==
  \A i, j \in DOMAIN s :
    i # j /\ s[i].form = s[j].form =>
      OperationPaths(s[i]) \cap OperationPaths(s[j]) = {}

CanApply ==
  /\ ops # <<>>
  /\ Len(ops) <= MaxChangeOperations
  /\ Disjoint(ops)
  /\ \A i \in DOMAIN ops : ValidOperation(ops[i])

\* The operations a tool may ask for that pass validation: the hash it passes
\* on is that of the present contents.
Requestable ==
  {op \in FileOperation :
     /\ ValidOperation(op)
     /\ op.type = "create" <=> op.from = Absent
     /\ op.type = "move" <=> op.dest # op.path
     /\ CASE op.type = "delete" -> op.to = Absent
          [] op.type = "move" -> op.to = op.from
          [] OTHER -> op.to \in AgentContent}

Immutable == {"applying", "applied", "failed", "rolled_back"}

-----------------------------------------------------------------------------
(* The end of a call.  What it kept in local variables is gone; the files   *)
(* as they were before it matter only when it left them torn.              *)

EndCall(outcome) ==
  /\ pc' = "idle" /\ told' = outcome
  /\ goal' = "none" /\ idx' = 0 /\ touched' = {} /\ source' = 0 /\ undo' = {}
  /\ IF outcome = "torn"
       THEN UNCHANGED safetyVars
       ELSE safety' = 0 /\ before' = InitialFiles /\ edited' = {}

-----------------------------------------------------------------------------
Init ==
  /\ fs = InitialFiles
  /\ ops = <<>> /\ status = "draft" /\ checkpointId = 0
  /\ saved = [k \in {} |-> {}] /\ made = 0
  /\ pc = "idle" /\ goal = "none" /\ idx = 0 /\ touched = {}
  /\ source = 0 /\ undo = {} /\ safety = 0
  /\ told = "none"
  /\ before = InitialFiles /\ edited = {}
  /\ edits = 0 /\ faults = 0 /\ crashes = 0

\* A tool prepares an operation; after an applied or rolled back ChangeSet it
\* is the first one of a new ChangeSet.
Prepare ==
  /\ pc = "idle"
  /\ LET fresh == status \in {"applied", "rolled_back"}
         current == IF fresh THEN <<>> ELSE ops
     IN  /\ fresh \/ status \notin Immutable
         /\ Len(current) < MaxChangeOperations
         /\ \E op \in Requestable :
              /\ Disjoint(Append(current, op))
              /\ ops' = Append(current, op)
         /\ checkpointId' = IF fresh THEN 0 ELSE checkpointId
  /\ status' = "draft"
  /\ UNCHANGED <<fs, diskVars, pc, told, callVars, safetyVars, bounds>>

Remove ==
  /\ pc = "idle"
  /\ status \notin Immutable
  /\ \E i \in DOMAIN ops :
       ops' = SubSeq(ops, 1, i - 1) \o SubSeq(ops, i + 1, Len(ops))
  /\ status' = "draft"
  /\ UNCHANGED <<fs, checkpointId, diskVars, pc, told, callVars, safetyVars, bounds>>

Clear ==
  /\ pc = "idle"
  /\ status \notin Immutable
  /\ ops' = <<>> /\ status' = "draft"
  /\ UNCHANGED <<fs, checkpointId, diskVars, pc, told, callVars, safetyVars, bounds>>

\* Whatever the status was, that of an applied ChangeSet included.
Preview ==
  /\ pc = "idle"
  /\ status' = IF CanApply THEN "previewed" ELSE "draft"
  /\ UNCHANGED <<fs, ops, checkpointId, diskVars, pc, told, callVars, safetyVars, bounds>>

-----------------------------------------------------------------------------
(* Applying: validation, confirmation, checkpoint.                         *)

RequestApply ==
  /\ pc = "idle"
  /\ status # "applied"
  /\ CanApply
  /\ made < MaxCheckpoints
  /\ pc' = "confirm" /\ goal' = "applied"
  /\ UNCHANGED <<fs, changeVars, diskVars, idx, touched, source, undo,
                 safetyVars, told, bounds>>

RequestRestore ==
  /\ pc = "idle"
  /\ made < MaxCheckpoints
  /\ source' \in DOMAIN saved
  /\ pc' = "confirm" /\ goal' = "restored"
  /\ UNCHANGED <<fs, changeVars, diskVars, idx, touched, undo,
                 safetyVars, told, bounds>>

\* The user puts the decision off or says no.
Decline ==
  /\ pc = "confirm"
  /\ EndCall("none")
  /\ IF goal = "applied"
       THEN status' \in {"pending_confirmation", "rejected"}
       ELSE UNCHANGED status
  /\ UNCHANGED <<fs, ops, checkpointId, diskVars, bounds>>

\* The user agrees; a ChangeSet is validated once more.
Accept ==
  /\ pc = "confirm"
  /\ IF goal = "applied" => CanApply
       THEN pc' = "checkpoint" /\ UNCHANGED <<told, callVars, safetyVars>>
       ELSE EndCall("failed")
  /\ UNCHANGED <<fs, changeVars, diskVars, bounds>>

\* Those of the checkpoints in S that pruning leaves: the newest ones.
Kept(S) == {k \in S : Cardinality({m \in S : m > k}) < Retention}

\* Wrong variant of TakeCheckpoint: the new name of a moved file is left out.
CheckpointOfOldNames ==
  /\ pc = "checkpoint" /\ goal = "applied"
  /\ LET id == made + 1
         paths == {ops[i].path : i \in DOMAIN ops}
     IN  /\ saved' = [k \in Kept(DOMAIN saved \cup {id}) |->
                        IF k = id THEN [p \in paths |-> fs[p]] ELSE saved[k]]
         /\ made' = id /\ safety' = id /\ checkpointId' = id /\ source' = id
  /\ status' = "applying" /\ pc' = "verify" /\ idx' = 1 /\ touched' = {}
  /\ before' = fs /\ edited' = {}
  /\ UNCHANGED <<fs, ops, goal, undo, told, bounds>>

\* The files are copied one after the other; copying commutes with edits of
\* other files, so that the step may be taken as one.
TakeCheckpoint ==
  /\ pc = "checkpoint"
  /\ LET id == made + 1
         paths == IF goal = "applied" THEN ChangeSetPaths(ops) ELSE DOMAIN saved[source]
     IN  /\ saved' = [k \in Kept(DOMAIN saved \cup {id}) |->
                        IF k = id THEN [p \in paths |-> fs[p]] ELSE saved[k]]
         /\ made' = id /\ safety' = id
         /\ IF goal = "applied"
              THEN /\ checkpointId' = id /\ status' = "applying"
                   /\ pc' = "verify" /\ idx' = 1 /\ touched' = {} /\ source' = id
                   /\ UNCHANGED undo
              ELSE /\ pc' = "undo" /\ undo' = paths
                   /\ UNCHANGED <<checkpointId, status, idx, touched, source>>
  /\ before' = fs /\ edited' = {}
  /\ UNCHANGED <<fs, ops, goal, told, bounds>>

\* Copying fails, or pruning does when older checkpoints are already gone.
CheckpointFails ==
  /\ pc = "checkpoint"
  /\ faults < MaxFaults /\ faults' = faults + 1
  /\ \E kept \in {DOMAIN saved, Kept(DOMAIN saved \cup {made + 1}) \ {made + 1}} :
       saved' = [k \in kept |-> saved[k]]
  /\ EndCall("failed")
  /\ UNCHANGED <<fs, changeVars, made, edits, crashes>>

-----------------------------------------------------------------------------
(* The transaction.                                                        *)

\* The files that restore() finds among those touched: it compares the names
\* the operations use with the relative ones of the manifest.
TouchedFiles ==
  UNION {OperationPaths(ops[i]) : i \in {j \in touched : ops[j].form = "relative"}}

Undo(files) ==
  /\ pc' = "undo" /\ goal' = "failed" /\ undo' = files
  /\ UNCHANGED <<status, told, idx, touched, source, safetyVars>>

\* Nothing is undone.
GiveUp == EndCall("failed") /\ status' = "failed"

\* Wrong variant of FailTransaction: only finished operations are undone.
FailTransactionUpTo ==
  IF idx = 1 THEN GiveUp ELSE Undo(ChangeSetPaths(SubSeq(ops, 1, idx - 1)))

\* Wrong variant of FailTransaction: the whole checkpoint is restored.
FailTransactionWhole ==
  IF touched = {} THEN GiveUp ELSE Undo(DOMAIN saved[source])

\* What the transaction does when an operation fails.
FailTransaction == IF touched = {} THEN GiveUp ELSE Undo(TouchedFiles)

\* An access to the file system fails.
Fault == faults < MaxFaults /\ faults' = faults + 1

\* Before its operation each file is compared with what the agent read; a new
\* file is not looked at.
Unchanged(op) == op.type = "create" \/ fs[op.path] = op.from

Verify ==
  /\ pc = "verify" /\ idx <= Len(ops)
  /\ Unchanged(ops[idx])
  /\ touched' = touched \cup {idx}
  /\ pc' = "write"
  /\ UNCHANGED <<fs, changeVars, diskVars, goal, idx, source, undo,
                 safetyVars, told, bounds>>

\* The file was changed, or the call is aborted, or the file cannot be read.
VerifyFails ==
  /\ pc = "verify" /\ idx <= Len(ops)
  /\ IF Unchanged(ops[idx]) THEN Fault ELSE UNCHANGED faults
  /\ FailTransaction
  /\ UNCHANGED <<fs, ops, checkpointId, diskVars, edits, crashes>>

\* A file is replaced by rename, which overwrites; a new one and the new name
\* of a moved one are made by link, which does not.
Writable(op) ==
  /\ op.type # "create" => fs[op.path] # Absent
  /\ op.type \in {"create", "move"} => fs[op.dest] = Absent

Written(op) ==
  [fs EXCEPT ![op.dest] = IF op.type = "move" THEN fs[op.path] ELSE op.to]

Write ==
  /\ pc = "write"
  /\ Writable(ops[idx])
  /\ fs' = Written(ops[idx])
  /\ IF ops[idx].type = "move"
       THEN pc' = "unlink" /\ UNCHANGED idx
       ELSE pc' = "verify" /\ idx' = idx + 1
  /\ UNCHANGED <<changeVars, diskVars, goal, touched, source, undo,
                 safetyVars, told, bounds>>

\* createFile fails as well when the file is there and only its temporary name
\* could not be removed.
WriteFails ==
  /\ pc = "write"
  /\ IF Writable(ops[idx])
       THEN /\ Fault
            /\ \/ UNCHANGED fs
               \/ ops[idx].type = "create" /\ fs' = Written(ops[idx])
       ELSE UNCHANGED <<fs, faults>>
  /\ FailTransaction
  /\ UNCHANGED <<ops, checkpointId, diskVars, edits, crashes>>

\* The old name of a moved file.
Unlink ==
  /\ pc = "unlink"
  /\ fs[ops[idx].path] # Absent
  /\ fs' = [fs EXCEPT ![ops[idx].path] = Absent]
  /\ pc' = "verify" /\ idx' = idx + 1
  /\ UNCHANGED <<changeVars, diskVars, goal, touched, source, undo,
                 safetyVars, told, bounds>>

UnlinkFails ==
  /\ pc = "unlink"
  /\ IF fs[ops[idx].path] # Absent THEN Fault ELSE UNCHANGED faults
  /\ FailTransaction
  /\ UNCHANGED <<fs, ops, checkpointId, diskVars, edits, crashes>>

WrittenAll ==
  /\ pc = "verify" /\ idx > Len(ops)
  /\ pc' = "check"
  /\ UNCHANGED <<fs, changeVars, diskVars, goal, idx, touched, source, undo,
                 safetyVars, told, bounds>>

\* What the check after the transaction finds of one operation.
Leftover(op) == op.type \in {"delete", "move"} /\ fs[op.path] # Absent
Mismatch(op) == op.type # "delete" /\ fs[op.dest] # op.to
Bad(op) == Leftover(op) \/ Mismatch(op)

\* Wrong variant of CheckPasses: contents are not compared.
CheckPassesUnread ==
  /\ pc = "check"
  /\ \A i \in DOMAIN ops : ~Leftover(ops[i])
  /\ pc' = "audit"
  /\ UNCHANGED <<fs, changeVars, diskVars, goal, idx, touched, source, undo,
                 safetyVars, told, bounds>>

CheckPasses ==
  /\ pc = "check"
  /\ \A i \in DOMAIN ops : ~Bad(ops[i])
  /\ pc' = "audit"
  /\ UNCHANGED <<fs, changeVars, diskVars, goal, idx, touched, source, undo,
                 safetyVars, told, bounds>>

\* A file that should be gone is reported as a failed transaction, like one
\* that has been undone already: nothing is undone.
CheckFindsLeftover ==
  /\ pc = "check"
  /\ \E i \in DOMAIN ops :
       /\ Leftover(ops[i])
       /\ \A j \in 1 .. i - 1 : ~Bad(ops[j])
  /\ GiveUp
  /\ UNCHANGED <<fs, ops, checkpointId, diskVars, bounds>>

\* Another contents, or a file that cannot be read: the whole checkpoint.
CheckFails ==
  /\ pc = "check"
  /\ \/ /\ \E i \in DOMAIN ops :
             /\ Mismatch(ops[i]) /\ ~Leftover(ops[i])
             /\ \A j \in 1 .. i - 1 : ~Bad(ops[j])
        /\ UNCHANGED faults
     \/ Fault
  /\ Undo(DOMAIN saved[source])
  /\ UNCHANGED <<fs, ops, checkpointId, diskVars, edits, crashes>>

\* The entries of the audit log.
Audit ==
  /\ pc = "audit"
  /\ status' = "applied"
  /\ EndCall("done")
  /\ UNCHANGED <<fs, ops, checkpointId, diskVars, bounds>>

AuditFails ==
  /\ pc = "audit"
  /\ Fault
  /\ Undo(DOMAIN saved[source])
  /\ UNCHANGED <<fs, ops, checkpointId, diskVars, edits, crashes>>

-----------------------------------------------------------------------------
(* Restoring files from a checkpoint.                                      *)

\* The checks of the project fail right after a ChangeSet was applied.  No
\* checkpoint is made of the files as they are now.
RollbackChangeSet ==
  /\ pc = "idle" /\ status = "applied" /\ told = "done"
  /\ checkpointId = made /\ checkpointId \in DOMAIN saved
  /\ pc' = "undo" /\ goal' = "rolled_back"
  /\ source' = checkpointId /\ undo' = DOMAIN saved[checkpointId]
  /\ safety' = 0 /\ before' = fs /\ edited' = {}
  /\ UNCHANGED <<fs, changeVars, diskVars, idx, touched, told, bounds>>

\* The files in the order of the manifest.
Restore ==
  /\ pc = "undo" /\ source \in DOMAIN saved
  /\ \E p \in undo :
       /\ \A q \in undo : p <= q
       /\ fs' = [fs EXCEPT ![p] = saved[source][p]]
       /\ undo' = undo \ {p}
  /\ UNCHANGED <<changeVars, diskVars, pc, goal, idx, touched, source,
                 safetyVars, told, bounds>>

Restored ==
  /\ pc = "undo" /\ source \in DOMAIN saved
  /\ undo = {}
  /\ EndCall(IF goal \in {"restored", "rolled_back"} THEN "done" ELSE "failed")
  /\ IF goal \in {"failed", "rolled_back"} THEN status' = goal ELSE UNCHANGED status
  /\ UNCHANGED <<fs, ops, checkpointId, diskVars, bounds>>

\* A file cannot be restored, or the checkpoint is not there any more.  Only a
\* restore the user asked for has another checkpoint to go back to.
RestoreFails ==
  /\ pc = "undo"
  /\ IF source \in DOMAIN saved THEN Fault ELSE UNCHANGED faults
  /\ IF goal = "restored"
       THEN /\ goal' = "abandoned" /\ source' = safety /\ undo' = DOMAIN saved[safety]
            /\ UNCHANGED <<pc, status, told, idx, touched, safetyVars>>
       ELSE /\ EndCall("torn")
            /\ IF goal = "failed" THEN status' = goal ELSE UNCHANGED status
  /\ UNCHANGED <<fs, ops, checkpointId, diskVars, edits, crashes>>

-----------------------------------------------------------------------------
(* The environment.                                                        *)

\* The files the call in progress is about.
Own ==
  IF pc \in Busy THEN DOMAIN saved[IF safety = 0 THEN source ELSE safety] ELSE {}

\* Somebody else writes or deletes a file.
Edit ==
  /\ edits < MaxEdits /\ edits' = edits + 1
  /\ \E p \in Path, c \in UserContent :
       /\ p \in Own => EditOwn
       /\ fs[p] # c
       /\ fs' = [fs EXCEPT ![p] = c]
       /\ edited' = edited \cup {p}
  /\ UNCHANGED <<changeVars, diskVars, pc, told, callVars, safety, before, faults, crashes>>

\* The process dies and is started again.
Crash ==
  /\ crashes < MaxCrashes /\ crashes' = crashes + 1
  /\ ops' = <<>> /\ status' = "draft" /\ checkpointId' = 0
  /\ EndCall(IF pc \in Busy THEN "torn" ELSE told)
  /\ UNCHANGED <<fs, diskVars, edits, faults>>

-----------------------------------------------------------------------------
Next ==
  \/ Prepare \/ Remove \/ Clear \/ Preview
  \/ RequestApply \/ RequestRestore \/ Decline \/ Accept
  \/ TakeCheckpoint \/ CheckpointFails
  \/ Verify \/ VerifyFails \/ Write \/ WriteFails \/ Unlink \/ UnlinkFails
  \/ WrittenAll \/ CheckPasses \/ CheckFindsLeftover \/ CheckFails
  \/ Audit \/ AuditFails
  \/ RollbackChangeSet \/ Restore \/ Restored \/ RestoreFails
  \/ Edit \/ Crash

Spec == Init /\ [][Next]_vars

-----------------------------------------------------------------------------
(* Properties.                                                             *)

\* The ranges of the variables; a checkpoint holds whole files, and a
\* ChangeSet has no more operations than allowed.
TypeOK ==
  /\ fs \in [Path -> Content]
  /\ ops \in Seq(FileOperation) /\ Len(ops) <= MaxChangeOperations
  /\ status \in ChangeSetStatus
  /\ checkpointId \in 0 .. made
  /\ DOMAIN saved \subseteq 1 .. made /\ \A k \in DOMAIN saved : saved[k] \in Image
  /\ made \in 0 .. MaxCheckpoints
  /\ pc \in Busy \cup {"idle", "confirm", "checkpoint"}
  /\ goal \in {"none", "applied", "restored", "rolled_back", "failed", "abandoned"}
  /\ idx \in 0 .. MaxChangeOperations + 1
  /\ touched \subseteq DOMAIN ops /\ undo \subseteq Path
  /\ source \in 0 .. made /\ safety \in 0 .. made
  /\ told \in {"none", "done", "failed", "torn"}
  /\ before \in [Path -> Content] /\ edited \subseteq Path
  /\ edits \in 0 .. MaxEdits /\ faults \in 0 .. MaxFaults /\ crashes \in 0 .. MaxCrashes

\* While a call changes files, and after the process died in the middle of one
\* or undoing it failed, every file that is not as it was before the call is in
\* a checkpoint that still exists, as it was.  (Files that somebody else edited
\* meanwhile aside.)  It needs both names of a moved file in the checkpoint,
\* pruning that spares it, and touched files recorded before they are written.
SavedBefore ==
  safety # 0 /\ (pc \in Busy \/ told = "torn") =>
    \A p \in Path \ edited :
      fs[p] # before[p] =>
        /\ safety \in DOMAIN saved
        /\ p \in DOMAIN saved[safety]
        /\ saved[safety][p] = before[p]

\* The undoing of a failed transaction leaves the files of operations alone
\* that it had not come to, whatever somebody else made of them.
UndoesOnlyReached ==
  [][goal = "failed" /\ undo' # undo =>
       \A i \in DOMAIN ops : i > idx =>
         \A p \in OperationPaths(ops[i]) : fs'[p] = fs[p]]_vars

\* A ChangeSet becomes applied only when every file it is about, other than
\* those somebody else edited meanwhile, is what the ChangeSet makes of it: an
\* edit between the comparison of a file and its move is not passed on.
AppliedIsWhole ==
  [][status' = "applied" /\ status # "applied" =>
       \A p \in ChangeSetPaths(ops) \ edited : fs[p] = Target(ops)[p]]_vars

\* The undoing of a failed transaction leaves a file alone that somebody else
\* has changed and that no finished operation of the transaction is about.
\* (tests/transactionManager.test.ts: after a conflict it undoes the files it
\* touched only, and keeps the contents it did not expect.)
UndoKeepsEdits ==
  [][goal = "failed" /\ undo' # undo =>
       \A p \in edited :
         (\A i \in 1 .. idx - 1 : p \notin OperationPaths(ops[i])) => fs'[p] = fs[p]]_vars

\* While a call is in progress its files count as they were before.
View == [p \in Path |-> IF p \in Own THEN before[p] ELSE fs[p]]

Backups == {saved[k] : k \in DOMAIN saved}

A == INSTANCE AtomicWorkspace WITH
  files <- View, backups <- Backups, change <- Target(ops), outcome <- told

\* The engine keeps the promises of AtomicWorkspace: what the user sees are whole
\* changes, or none, and what is torn can be brought back.
Atomic == A!Spec
=============================================================================

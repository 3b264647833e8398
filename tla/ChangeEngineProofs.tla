------------------------- MODULE ChangeEngineProofs -------------------------
(***************************************************************************)
(* Theorems about the change engine, for every set of files and contents,  *)
(* every retention and every bound.                                        *)
(***************************************************************************)
EXTENDS ChangeEngine, FiniteSetTheorems, SequenceTheorems, TLAPS

-----------------------------------------------------------------------------
(***************************************************************************)
(* Operators.                                                              *)
(***************************************************************************)

\* An image has whole contents for some of the files.
LEMMA ImageValues ==
  ASSUME NEW x \in Image
  PROVE  DOMAIN x \subseteq Path /\ \A p \in DOMAIN x : x[p] \in Content
<1>1. PICK D \in SUBSET Path : x \in [D -> Content]
  BY DEF Image
<1>2. QED
  BY <1>1

\* Copies of some of the files are an image.
LEMMA CopyIsImage ==
  ASSUME NEW D \in SUBSET Path, NEW f \in [Path -> Content]
  PROVE  [p \in D |-> f[p]] \in Image
<1>1. [p \in D |-> f[p]] \in [D -> Content]
  OBVIOUS
<1>2. QED
  BY <1>1 DEF Image

\* Pruning spares the checkpoint just made, and adds none.
LEMMA KeptNewest ==
  ASSUME NEW S \in SUBSET Nat, NEW id \in Nat, \A k \in S : k <= id
  PROVE  /\ id \in Kept(S \cup {id})
         /\ Kept(S \cup {id}) \subseteq S \cup {id}
<1>a. \A m \in S \cup {id} : ~(m > id)
  OBVIOUS
<1>1. {m \in S \cup {id} : m > id} = {}
  BY <1>a
<1>2. Cardinality({m \in S \cup {id} : m > id}) < Retention
  BY <1>1, FS_EmptySet, EngineAssumption
<1>3. QED
  BY <1>2 DEF Kept

\* The files of operations are files.
LEMMA PathsOfOperations ==
  ASSUME NEW s \in Seq(FileOperation)
  PROVE  /\ ChangeSetPaths(s) \subseteq Path
         /\ \A i \in DOMAIN s : OperationPaths(s[i]) \subseteq ChangeSetPaths(s)
<1>1. \A i \in DOMAIN s : s[i].path \in Path /\ s[i].dest \in Path
  <2>1. \A i \in DOMAIN s : s[i] \in FileOperation
    OBVIOUS
  <2>2. \A op \in FileOperation : op.path \in Path /\ op.dest \in Path
    BY DEF FileOperation
  <2>3. QED
    BY <2>1, <2>2
<1>2. \A i \in DOMAIN s : OperationPaths(s[i]) \subseteq Path
  BY <1>1 DEF OperationPaths
<1>3. QED
  BY <1>2 DEF ChangeSetPaths

-----------------------------------------------------------------------------
(***************************************************************************)
(* The invariant.                                                          *)
(***************************************************************************)
Transaction == {"verify", "write", "unlink", "check", "audit"}

\* A delete leaves nothing behind, and only a move has two files.
OperationShape ==
  \A i \in DOMAIN ops :
    /\ ops[i].type = "delete" => ops[i].to = Absent
    /\ ops[i].type # "move" => ops[i].dest = ops[i].path

\* A call that has not begun to change files.
Waiting ==
  /\ pc = "idle" => touched = {}
  /\ pc \in {"confirm", "checkpoint"} =>
       /\ made < MaxCheckpoints
       /\ goal \in {"applied", "restored"}
       /\ goal = "restored" => source \in DOMAIN saved

\* A transaction is protected by the checkpoint it would be undone from.
InTransaction ==
  /\ pc \in Transaction =>
       /\ safety # 0 /\ source = safety /\ idx >= 1
       /\ DOMAIN saved[safety] = ChangeSetPaths(ops)
  /\ pc \in {"write", "unlink"} => idx <= Len(ops)

\* Files are restored from where they are saved, and only such files are
\* changed as the checkpoint that protects them has.
Undoing ==
  pc = "undo" =>
    /\ goal \in {"failed", "restored", "abandoned", "rolled_back"}
    /\ goal \in {"restored", "abandoned"} => safety # 0
    /\ source \in DOMAIN saved => undo \subseteq DOMAIN saved[source]
    /\ safety # 0 => undo \subseteq DOMAIN saved[safety]

\* The checkpoint that protects the files has them as they were, and the
\* others are still as they were.
Protected ==
  safety # 0 =>
    /\ safety \in DOMAIN saved
    /\ \A p \in DOMAIN saved[safety] : saved[safety][p] = before[p]
    /\ \A p \in Path \ edited :
         p \notin DOMAIN saved[safety] => fs[p] = before[p]

EngineInv ==
  TypeOK /\ OperationShape /\ Waiting /\ InTransaction /\ Undoing /\ Protected

\* The parts of the invariant that end a call leave true.
LEMMA EndCallKeeps ==
  ASSUME EngineInv, NEW outcome \in {"none", "done", "failed", "torn"},
         EndCall(outcome), UNCHANGED <<saved, made>>,
         outcome = "torn" => UNCHANGED fs
  PROVE  Waiting' /\ InTransaction' /\ Undoing' /\ Protected'
BY DEF EngineInv, EndCall, safetyVars, Waiting, InTransaction, Undoing,
       Protected, Transaction

\* Nothing of a call is left.
Quiet ==
  /\ pc = "idle" /\ told \in {"none", "done", "failed", "torn"}
  /\ goal = "none" /\ idx = 0 /\ touched = {} /\ undo = {}
  /\ source = 0 /\ safety \in 0 .. made
  /\ before \in [Path -> Content] /\ edited \subseteq Path

\* A call that has ended leaves nothing but its outcome and, when the files are
\* torn, the checkpoint that protects them.
LEMMA EndCallType ==
  ASSUME TypeOK, NEW outcome \in {"none", "done", "failed", "torn"},
         EndCall(outcome), UNCHANGED made
  PROVE  Quiet'
<1>1. InitialFiles \in [Path -> Content] /\ made \in Nat
  BY EngineAssumption DEF TypeOK
<1>2. CASE outcome = "torn"
  BY <1>2 DEF EndCall, TypeOK, safetyVars, Quiet
<1>3. CASE outcome # "torn"
  BY <1>1, <1>3 DEF EndCall, TypeOK, Quiet
<1>4. QED
  BY <1>2, <1>3

\* EngineInv holds initially.
LEMMA InitEngine == Init => EngineInv
<1> SUFFICES ASSUME Init PROVE EngineInv
  OBVIOUS
<1>1. TypeOK
  <2>1. ops \in Seq(FileOperation) /\ Len(ops) <= MaxChangeOperations
    BY EngineAssumption DEF Init
  <2>2. DOMAIN saved = {}
    BY DEF Init
  <2>3. QED
    BY <2>1, <2>2, EngineAssumption DEF Init, TypeOK, ChangeSetStatus
<1>2. OperationShape
  BY DEF Init, OperationShape
<1>3. QED
  BY <1>1, <1>2
  DEF Init, EngineInv, Waiting, InTransaction, Undoing, Protected, Transaction

\* The operations of a ChangeSet are put together while no call is in progress.
LEMMA PrepareKeeps == EngineInv /\ Prepare => EngineInv'
<1> SUFFICES ASSUME EngineInv, Prepare PROVE EngineInv'
  OBVIOUS
<1> DEFINE current == IF status \in {"applied", "rolled_back"} THEN <<>> ELSE ops
<1>1. PICK op \in Requestable : ops' = Append(current, op)
  BY DEF Prepare
<1>2. current \in Seq(FileOperation) /\ Len(current) < MaxChangeOperations
  BY EngineAssumption DEF Prepare, EngineInv, TypeOK
<1>3. op \in FileOperation
  BY DEF Requestable
<1>4. /\ ops' \in Seq(FileOperation)
      /\ Len(ops') = Len(current) + 1
      /\ \A i \in 1 .. Len(current) : ops'[i] = current[i]
      /\ ops'[Len(current) + 1] = op
  BY <1>1, <1>2, <1>3, AppendProperties
<1>5. \A i \in DOMAIN ops' : ops'[i] = op \/ ops'[i] \in {current[j] : j \in DOMAIN current}
  BY <1>2, <1>4
<1>6. \A i \in DOMAIN current :
        /\ current[i].type = "delete" => current[i].to = Absent
        /\ current[i].type # "move" => current[i].dest = current[i].path
  BY DEF EngineInv, OperationShape
<1>7. /\ op.type = "delete" => op.to = Absent
      /\ op.type # "move" => op.dest = op.path
  BY DEF Requestable
<1>8. OperationShape'
  BY <1>5, <1>6, <1>7 DEF OperationShape
<1>9. TypeOK'
  BY <1>2, <1>4, EngineAssumption
  DEF Prepare, EngineInv, TypeOK, Waiting, ChangeSetStatus, callVars, diskVars,
      safetyVars, bounds
<1>10. QED
  BY <1>8, <1>9
  DEF Prepare, EngineInv, Waiting, InTransaction, Undoing, Protected,
      Transaction, callVars, diskVars, safetyVars, bounds

\* Where the elements of a concatenation come from.
LEMMA ConcatElements ==
  ASSUME NEW S, NEW a \in Seq(S), NEW b \in Seq(S)
  PROVE  /\ a \o b \in Seq(S)
         /\ Len(a \o b) = Len(a) + Len(b)
         /\ \A j \in 1 .. Len(a) + Len(b) :
              \/ j <= Len(a) /\ (a \o b)[j] = a[j]
              \/ /\ j - Len(a) \in 1 .. Len(b)
                 /\ (a \o b)[j] = b[j - Len(a)]
<1>1. Len(a) \in Nat /\ Len(b) \in Nat
  OBVIOUS
<1>2. /\ a \o b \in Seq(S)
      /\ Len(a \o b) = Len(a) + Len(b)
      /\ \A j \in 1 .. Len(a) + Len(b) :
           (a \o b)[j] = IF j <= Len(a) THEN a[j] ELSE b[j - Len(a)]
  BY ConcatProperties
<1>3. QED
  BY <1>1, <1>2

\* The two parts of a sequence that one element is taken out of.
LEMMA WithoutOne ==
  ASSUME NEW S, NEW s \in Seq(S), NEW i \in DOMAIN s
  PROVE  LET a == SubSeq(s, 1, i - 1)
             b == SubSeq(s, i + 1, Len(s))
         IN  /\ a \in Seq(S) /\ Len(a) = i - 1
             /\ \A j \in 1 .. i - 1 : a[j] = s[j]
             /\ b \in Seq(S) /\ Len(b) = Len(s) - i
             /\ \A j \in 1 .. Len(s) - i : b[j] = s[j + i]
<1>1. i \in 1 .. Len(s) /\ Len(s) \in Nat
  OBVIOUS
<1>2. QED
  BY <1>1

\* What is left of a ChangeSet are operations that it had, in their order.
LEMMA RemoveElements ==
  ASSUME EngineInv, Remove
  PROVE  /\ ops' \in Seq(FileOperation)
         /\ Len(ops') = Len(ops) - 1
         /\ \E i \in 1 .. Len(ops) : \A j \in 1 .. Len(ops') :
              /\ (IF j < i THEN j ELSE j + 1) \in 1 .. Len(ops)
              /\ ops'[j] = ops[IF j < i THEN j ELSE j + 1]
<1>1. PICK i \in DOMAIN ops :
        ops' = SubSeq(ops, 1, i - 1) \o SubSeq(ops, i + 1, Len(ops))
  BY DEF Remove
<1>2. ops \in Seq(FileOperation) /\ i \in 1 .. Len(ops) /\ Len(ops) \in Nat
  BY DEF EngineInv, TypeOK
<1>3. PICK a \in Seq(FileOperation), b \in Seq(FileOperation) :
        /\ ops' = a \o b
        /\ Len(a) = i - 1 /\ Len(b) = Len(ops) - i
        /\ \A j \in 1 .. i - 1 : a[j] = ops[j]
        /\ \A j \in 1 .. Len(ops) - i : b[j] = ops[j + i]
  <2>1. LET a == SubSeq(ops, 1, i - 1)
            b == SubSeq(ops, i + 1, Len(ops))
        IN  /\ a \in Seq(FileOperation) /\ Len(a) = i - 1
            /\ \A j \in 1 .. i - 1 : a[j] = ops[j]
            /\ b \in Seq(FileOperation) /\ Len(b) = Len(ops) - i
            /\ \A j \in 1 .. Len(ops) - i : b[j] = ops[j + i]
    BY <1>2, WithoutOne
  <2>2. QED
    BY <1>1, <2>1, Zenon
<1>4. /\ ops' \in Seq(FileOperation)
      /\ Len(ops') = Len(a) + Len(b)
      /\ \A j \in 1 .. Len(a) + Len(b) :
           \/ j <= Len(a) /\ ops'[j] = a[j]
           \/ /\ j - Len(a) \in 1 .. Len(b)
              /\ ops'[j] = b[j - Len(a)]
  BY <1>3, ConcatElements
<1>5. Len(ops') = Len(ops) - 1
  BY <1>2, <1>3, <1>4
<1>6. ASSUME NEW j \in 1 .. Len(ops')
      PROVE  /\ (IF j < i THEN j ELSE j + 1) \in 1 .. Len(ops)
             /\ ops'[j] = ops[IF j < i THEN j ELSE j + 1]
  <2>1. CASE j <= Len(a) /\ ops'[j] = a[j]
    <3>1. j < i /\ j \in 1 .. Len(ops) /\ ops'[j] = ops[j]
      BY <1>2, <1>3, <2>1
    <3>2. QED
      BY <3>1
  <2>2. CASE j - Len(a) \in 1 .. Len(b) /\ ops'[j] = b[j - Len(a)]
    <3>1. b[j - Len(a)] = ops[(j - Len(a)) + i]
      <4>1. j - Len(a) \in 1 .. Len(ops) - i
        BY <1>3, <2>2
      <4>2. QED
        BY <1>3, <4>1
    <3>2. j \in Int /\ i \in Int /\ Len(a) = i - 1 /\ j - Len(a) >= 1
      BY <1>2, <1>3, <2>2
    <3>3. (j - Len(a)) + i = j + 1 /\ ~(j < i)
      BY <3>2
    <3>4. j + 1 \in 1 .. Len(ops)
      BY <1>2, <1>5, <3>2
    <3>5. QED
      BY <2>2, <3>1, <3>3, <3>4
  <2>3. QED
    BY <1>4, <2>1, <2>2
<1>7. QED
  BY <1>2, <1>4, <1>5, <1>6

\* A file is taken out of the ChangeSet.
LEMMA RemoveKeeps == EngineInv /\ Remove => EngineInv'
<1> SUFFICES ASSUME EngineInv, Remove PROVE EngineInv'
  OBVIOUS
<1>1. /\ ops' \in Seq(FileOperation) /\ Len(ops') = Len(ops) - 1
      /\ \E i \in 1 .. Len(ops) : \A j \in 1 .. Len(ops') :
           /\ (IF j < i THEN j ELSE j + 1) \in 1 .. Len(ops)
           /\ ops'[j] = ops[IF j < i THEN j ELSE j + 1]
  BY RemoveElements
<1>2. ops \in Seq(FileOperation) /\ Len(ops) <= MaxChangeOperations
  BY DEF EngineInv, TypeOK
<1>3. \A j \in 1 .. Len(ops') : \E k \in 1 .. Len(ops) : ops'[j] = ops[k]
  BY <1>1
<1>4. OperationShape'
  BY <1>1, <1>2, <1>3 DEF EngineInv, OperationShape
<1>5. Len(ops') <= MaxChangeOperations
  BY <1>1, <1>2, EngineAssumption
<1>6. touched' = {}
  BY DEF Remove, EngineInv, Waiting, callVars
<1>7. TypeOK'
  BY <1>1, <1>5, <1>6
  DEF Remove, EngineInv, TypeOK, Waiting, ChangeSetStatus, callVars, diskVars,
      safetyVars, bounds
<1>8. QED
  BY <1>4, <1>7
  DEF Remove, EngineInv, Waiting, InTransaction, Undoing, Protected,
      Transaction, callVars, diskVars, safetyVars, bounds

\* The ChangeSet is discarded.
LEMMA ClearKeeps == EngineInv /\ Clear => EngineInv'
<1> SUFFICES ASSUME EngineInv, Clear PROVE EngineInv'
  OBVIOUS
<1>1. /\ ops' = <<>> /\ ops' \in Seq(FileOperation) /\ touched' = {}
      /\ Len(ops') <= MaxChangeOperations
  BY EngineAssumption DEF Clear, EngineInv, Waiting, callVars
<1>2. TypeOK'
  BY <1>1
  DEF Clear, EngineInv, TypeOK, ChangeSetStatus, callVars, diskVars, safetyVars,
      bounds
<1>3. OperationShape'
  BY <1>1 DEF OperationShape
<1>4. QED
  BY <1>2, <1>3
  DEF Clear, EngineInv, Waiting, InTransaction, Undoing, Protected, Transaction,
      callVars, diskVars, safetyVars, bounds

\* The ChangeSet is shown.
LEMMA PreviewKeeps == EngineInv /\ Preview => EngineInv'
<1> SUFFICES ASSUME EngineInv, Preview PROVE EngineInv'
  OBVIOUS
<1>1. TypeOK'
  BY DEF Preview, EngineInv, TypeOK, ChangeSetStatus, callVars, diskVars,
         safetyVars, bounds
<1>2. QED
  BY <1>1
  DEF Preview, EngineInv, OperationShape, Waiting, InTransaction, Undoing,
      Protected, Transaction, callVars, diskVars, safetyVars, bounds

\* Requests and their confirmation.
LEMMA RequestKeeps == EngineInv /\ (RequestApply \/ RequestRestore) => EngineInv'
<1> SUFFICES ASSUME EngineInv, RequestApply \/ RequestRestore PROVE EngineInv'
  OBVIOUS
<1>1. TypeOK'
  <2>1. /\ UNCHANGED <<fs, ops, status, checkpointId, saved, made, idx, touched,
                       undo, safety, before, edited, told, edits, faults, crashes>>
        /\ pc' = "confirm" /\ goal' \in {"applied", "restored"}
    BY DEF RequestApply, RequestRestore, changeVars, diskVars, safetyVars, bounds
  <2>2. source' \in 0 .. made
    BY DEF RequestApply, RequestRestore, EngineInv, TypeOK
  <2>3. QED
    BY <2>1, <2>2 DEF EngineInv, TypeOK
<1>2. QED
  BY <1>1
  DEF RequestApply, RequestRestore, EngineInv, OperationShape, Waiting,
      InTransaction, Undoing, Protected, Transaction, changeVars, diskVars,
      safetyVars, bounds

\* The user declines.
LEMMA DeclineKeeps == EngineInv /\ Decline => EngineInv'
<1> SUFFICES ASSUME EngineInv, Decline PROVE EngineInv'
  OBVIOUS
<1>1. EndCall("none") /\ UNCHANGED <<fs, saved, made>>
  BY DEF Decline, diskVars
<1>2. TypeOK'
  <2>1. Quiet'
    BY <1>1, EndCallType DEF EngineInv
  <2>2. status' \in ChangeSetStatus
    BY DEF Decline, EngineInv, TypeOK, ChangeSetStatus
  <2>3. UNCHANGED <<fs, ops, checkpointId, saved, made, edits, faults, crashes>>
    BY DEF Decline, diskVars, bounds
  <2>4. QED
    BY <2>1, <2>2, <2>3, EngineAssumption, SMTT(20) DEF Quiet, EngineInv, TypeOK
<1>3. OperationShape'
  BY DEF Decline, EngineInv, OperationShape
<1>4. QED
  BY <1>1, <1>2, <1>3, EndCallKeeps DEF EngineInv

\* The user accepts, and the call begins.
LEMMA AcceptKeeps == EngineInv /\ Accept => EngineInv'
<1> SUFFICES ASSUME EngineInv, Accept PROVE EngineInv'
  OBVIOUS
<1>1. OperationShape'
  BY DEF Accept, EngineInv, OperationShape, changeVars
<1>2. CASE goal = "applied" => CanApply
  <2>1. TypeOK'
    BY <1>2 DEF Accept, EngineInv, TypeOK, changeVars, diskVars, callVars,
                safetyVars, bounds
  <2>2. QED
    BY <1>1, <1>2, <2>1
    DEF Accept, EngineInv, Waiting, InTransaction, Undoing, Protected,
        Transaction, changeVars, diskVars, callVars, safetyVars, bounds
<1>3. CASE ~(goal = "applied" => CanApply)
  <2>1. EndCall("failed") /\ UNCHANGED <<fs, saved, made>>
    BY <1>3 DEF Accept, diskVars
  <2>2. Quiet'
    BY <2>1, EndCallType DEF EngineInv
  <2>3. TypeOK'
    BY <2>2, EngineAssumption
    DEF Quiet, Accept, EngineInv, TypeOK, changeVars, diskVars, bounds
  <2>4. QED
    BY <1>1, <2>1, <2>3, EndCallKeeps DEF EngineInv
<1>4. QED
  BY <1>2, <1>3

\* The checkpoint.
LEMMA TakeCheckpointKeeps == EngineInv /\ TakeCheckpoint => EngineInv'
<1> SUFFICES ASSUME EngineInv, TakeCheckpoint PROVE EngineInv'
  OBVIOUS
<1> DEFINE id == made + 1
           paths == IF goal = "applied" THEN ChangeSetPaths(ops)
                    ELSE DOMAIN saved[source]
           kept == Kept(DOMAIN saved \cup {id})
<1>1. /\ made \in Nat /\ id \in 1 .. MaxCheckpoints
      /\ DOMAIN saved \subseteq 1 .. made
  <2>1. made \in 0 .. MaxCheckpoints /\ made < MaxCheckpoints
    BY DEF TakeCheckpoint, EngineInv, TypeOK, Waiting
  <2>2. DOMAIN saved \subseteq 1 .. made
    BY DEF EngineInv, TypeOK
  <2>3. QED
    BY <2>1, <2>2, EngineAssumption
<1>2. paths \subseteq Path
  BY PathsOfOperations, ImageValues
  DEF TakeCheckpoint, EngineInv, TypeOK, Waiting
<1>3. [p \in paths |-> fs[p]] \in Image
  BY <1>2, CopyIsImage DEF EngineInv, TypeOK
<1>4. id \in kept /\ kept \subseteq DOMAIN saved \cup {id}
  <2>1. DOMAIN saved \subseteq Nat /\ id \in Nat /\ \A k \in DOMAIN saved : k <= id
    BY <1>1
  <2>2. QED
    BY <2>1, KeptNewest
<1>5. /\ saved' = [k \in kept |-> IF k = id THEN [p \in paths |-> fs[p]] ELSE saved[k]]
      /\ made' = id /\ safety' = id /\ before' = fs /\ edited' = {}
      /\ UNCHANGED <<fs, ops, goal, told, bounds>>
  BY DEF TakeCheckpoint
<1>6. /\ goal = "applied" =>
           /\ checkpointId' = id /\ status' = "applying" /\ pc' = "verify"
           /\ idx' = 1 /\ touched' = {} /\ source' = id /\ undo' = undo
      /\ goal # "applied" =>
           /\ pc' = "undo" /\ undo' = paths
           /\ UNCHANGED <<checkpointId, status, idx, touched, source>>
  BY DEF TakeCheckpoint
<1>7. pc = "checkpoint" /\ goal \in {"applied", "restored"}
  BY DEF TakeCheckpoint, EngineInv, Waiting
<1>8. /\ id \in DOMAIN saved' /\ saved'[id] = [p \in paths |-> fs[p]]
      /\ DOMAIN saved' \subseteq DOMAIN saved \cup {id}
      /\ \A k \in DOMAIN saved' : k # id => saved'[k] = saved[k]
  BY <1>4, <1>5
<1> HIDE DEF id, paths, kept
<1>9. TypeOK'
  <2>1. DOMAIN saved' \subseteq 1 .. made' /\ made' \in 0 .. MaxCheckpoints
    BY <1>1, <1>5, <1>8 DEF id
  <2>2. \A k \in DOMAIN saved' : saved'[k] \in Image
    BY <1>3, <1>8 DEF EngineInv, TypeOK
  <2>3. /\ checkpointId' \in 0 .. made' /\ source' \in 0 .. made'
        /\ safety' \in 0 .. made'
    BY <1>1, <1>5, <1>6 DEF EngineInv, TypeOK, id
  <2>4. idx' \in 0 .. MaxChangeOperations + 1
    BY <1>6, EngineAssumption, SMTT(20) DEF EngineInv, TypeOK
  <2>5. QED
    BY <1>2, <1>5, <1>6, <1>7, <2>1, <2>2, <2>3, <2>4
    DEF EngineInv, TypeOK, bounds, ChangeSetStatus, Busy
<1>10. OperationShape'
  BY <1>5 DEF EngineInv, OperationShape
<1>11. Waiting' /\ InTransaction' /\ Undoing'
  <2>1. id # 0
    BY <1>1
  <2>2. CASE goal = "applied"
    BY <1>5, <1>6, <1>8, <2>1, <2>2
    DEF Waiting, InTransaction, Undoing, Transaction, paths
  <2>3. CASE goal # "applied"
    <3>1. source \in DOMAIN saved /\ source # id
      BY <1>1, <1>7, <2>3 DEF EngineInv, Waiting, id
    <3>2. source' \in DOMAIN saved' => DOMAIN saved'[source'] = paths
      BY <1>6, <1>8, <2>3, <3>1 DEF paths
    <3>3. QED
      BY <1>5, <1>6, <1>7, <1>8, <2>1, <2>3, <3>2
      DEF Waiting, InTransaction, Undoing, Transaction
  <2>4. QED
    BY <2>2, <2>3
<1>12. Protected'
  BY <1>5, <1>8 DEF Protected
<1>13. QED
  BY <1>9, <1>10, <1>11, <1>12 DEF EngineInv

\* A checkpoint that cannot be made ends the call before any file is touched.
LEMMA CheckpointFailsKeeps == EngineInv /\ CheckpointFails => EngineInv'
<1> SUFFICES ASSUME EngineInv, CheckpointFails PROVE EngineInv'
  OBVIOUS
<1>1. EndCall("failed") /\ UNCHANGED <<fs, changeVars, made, edits, crashes>>
  BY DEF CheckpointFails
<1>2. DOMAIN saved' \subseteq DOMAIN saved /\ \A k \in DOMAIN saved' : saved'[k] = saved[k]
  <2>1. Kept(DOMAIN saved \cup {made + 1}) \ {made + 1} \subseteq DOMAIN saved
    BY DEF Kept
  <2>2. QED
    BY <2>1 DEF CheckpointFails
<1>3. Quiet'
  BY <1>1, EndCallType DEF EngineInv
<1>4. faults' \in 0 .. MaxFaults
  BY EngineAssumption DEF CheckpointFails, EngineInv, TypeOK
<1>5. TypeOK'
  <2>1. /\ UNCHANGED <<fs, ops, status, checkpointId, made, edits, crashes>>
        /\ 0 \in 0 .. made'
    BY <1>1, EngineAssumption DEF EngineInv, TypeOK, changeVars
  <2>2. DOMAIN saved' \subseteq 1 .. made' /\ \A k \in DOMAIN saved' : saved'[k] \in Image
    BY <1>2, <2>1 DEF EngineInv, TypeOK
  <2>3. /\ pc' \in Busy \cup {"idle", "confirm", "checkpoint"}
        /\ goal' \in {"none", "applied", "restored", "rolled_back", "failed", "abandoned"}
        /\ idx' \in 0 .. MaxChangeOperations + 1
        /\ touched' \subseteq DOMAIN ops' /\ undo' \subseteq Path
        /\ source' \in 0 .. made' /\ safety' \in 0 .. made'
    BY <1>3, <2>1, EngineAssumption DEF Quiet
  <2>4. QED
    BY <1>3, <1>4, <2>1, <2>2, <2>3 DEF Quiet, EngineInv, TypeOK
<1>6. safety' = 0
  BY <1>1 DEF EndCall
<1>7. QED
  BY <1>1, <1>3, <1>5, <1>6
  DEF Quiet, EngineInv, OperationShape, Waiting, InTransaction, Undoing,
      Protected, Transaction, changeVars

-----------------------------------------------------------------------------
(***************************************************************************)
(* The transaction.                                                        *)
(***************************************************************************)

\* Where a transaction is when it comes to its next operation.
LEMMA VerifyKeeps == EngineInv /\ Verify => EngineInv'
<1> SUFFICES ASSUME EngineInv, Verify PROVE EngineInv'
  OBVIOUS
<1>1. touched' \subseteq DOMAIN ops
  <2>1. idx \in Nat /\ idx >= 1 /\ idx <= Len(ops)
    BY EngineAssumption DEF Verify, EngineInv, TypeOK, InTransaction, Transaction
  <2>2. QED
    BY <2>1 DEF Verify, EngineInv, TypeOK
<1>2. TypeOK'
  BY <1>1
  DEF Verify, EngineInv, TypeOK, Busy, changeVars, diskVars, safetyVars, bounds
<1>3. QED
  BY <1>2
  DEF Verify, EngineInv, OperationShape, Waiting, InTransaction, Undoing,
      Protected, Transaction, changeVars, diskVars, safetyVars, bounds

\* The files of one operation are protected.
LEMMA OperationProtected ==
  ASSUME EngineInv, pc \in {"write", "unlink"}
  PROVE  /\ idx \in DOMAIN ops /\ ops[idx] \in FileOperation
         /\ safety # 0 /\ safety \in DOMAIN saved
         /\ OperationPaths(ops[idx]) \subseteq DOMAIN saved[safety]
         /\ OperationPaths(ops[idx]) \subseteq Path
<1>1. idx \in Nat /\ idx >= 1 /\ idx <= Len(ops) /\ Len(ops) \in Nat
  BY EngineAssumption, SMTT(20) DEF EngineInv, TypeOK, InTransaction, Transaction
<1>2. idx \in DOMAIN ops
  BY <1>1 DEF EngineInv, TypeOK
<1>3. ops[idx] \in FileOperation
  BY <1>2 DEF EngineInv, TypeOK
<1>4. OperationPaths(ops[idx]) \subseteq ChangeSetPaths(ops) /\ ChangeSetPaths(ops) \subseteq Path
  BY <1>2, PathsOfOperations DEF EngineInv, TypeOK
<1>5. QED
  BY <1>2, <1>3, <1>4 DEF EngineInv, InTransaction, Protected, Transaction

\* An operation writes its files and no others.
LEMMA WrittenType ==
  ASSUME EngineInv, pc \in {"write", "unlink"}
  PROVE  /\ Written(ops[idx]) \in [Path -> Content]
         /\ [fs EXCEPT ![ops[idx].path] = Absent] \in [Path -> Content]
         /\ \A p \in Path \ OperationPaths(ops[idx]) :
              /\ Written(ops[idx])[p] = fs[p]
              /\ [fs EXCEPT ![ops[idx].path] = Absent][p] = fs[p]
<1>1. /\ ops[idx].path \in Path /\ ops[idx].dest \in Path
      /\ ops[idx].to \in Content /\ Absent \in Content
  BY OperationProtected, EngineAssumption DEF FileOperation
<1>2. fs \in [Path -> Content]
  BY DEF EngineInv, TypeOK
<1>3. QED
  BY <1>1, <1>2 DEF Written, OperationPaths

\* A step that only changes files the checkpoint has leaves the others as they
\* were.
LEMMA ProtectedKept ==
  ASSUME EngineInv, UNCHANGED <<saved, safetyVars>>,
         \A p \in Path :
           safety # 0 /\ p \notin DOMAIN saved[safety] => fs'[p] = fs[p]
  PROVE  Protected'
BY DEF EngineInv, Protected, safetyVars

\* What failing leaves of a transaction.
FailedType ==
  /\ status \in ChangeSetStatus
  /\ pc \in {"idle", "undo"} /\ goal \in {"none", "failed"}
  /\ idx \in 0 .. MaxChangeOperations + 1
  /\ touched \subseteq DOMAIN ops /\ undo \subseteq Path
  /\ source \in 0 .. made /\ safety \in 0 .. made
  /\ told \in {"none", "done", "failed", "torn"}
  /\ before \in [Path -> Content] /\ edited \subseteq Path

\* A call that gives up fails as it is.
LEMMA GiveUpKeeps ==
  ASSUME EngineInv, GiveUp, UNCHANGED <<ops, saved, made>>
  PROVE  FailedType' /\ Waiting' /\ InTransaction' /\ Undoing' /\ Protected'
<1>1. EndCall("failed") /\ status' = "failed"
  BY DEF GiveUp
<1>2. Quiet'
  BY <1>1, EndCallType DEF EngineInv
<1>3. FailedType'
  <2>1. made' \in Nat
    BY EngineAssumption DEF EngineInv, TypeOK
  <2>2. QED
    BY <1>1, <1>2, <2>1, EngineAssumption DEF Quiet, FailedType, ChangeSetStatus
<1>4. QED
  BY <1>1, <1>3, EndCallKeeps

\* A failed transaction begins to undo what it has done.
LEMMA UndoKeeps ==
  ASSUME EngineInv, pc \in Transaction,
         NEW files \in SUBSET ChangeSetPaths(ops), Undo(files),
         UNCHANGED <<ops, saved, made>>,
         \A p \in Path : p \notin DOMAIN saved[safety] => fs'[p] = fs[p]
  PROVE  FailedType' /\ Waiting' /\ InTransaction' /\ Undoing' /\ Protected'
<1>1. files \subseteq Path
  BY PathsOfOperations DEF EngineInv, TypeOK
<1>2. FailedType'
  BY <1>1 DEF Undo, FailedType, EngineInv, TypeOK, safetyVars
<1>3. Protected'
  BY ProtectedKept DEF Undo
<1>4. Undoing'
  BY DEF Undo, Undoing, EngineInv, InTransaction, safetyVars
<1>5. QED
  BY <1>2, <1>3, <1>4 DEF Undo, Waiting, InTransaction, Transaction

\* A transaction that fails is undone from its own checkpoint.
LEMMA FailTransactionKeeps ==
  ASSUME EngineInv, pc \in Transaction, FailTransaction,
         UNCHANGED <<ops, saved, made>>,
         \A p \in Path : p \notin DOMAIN saved[safety] => fs'[p] = fs[p]
  PROVE  FailedType' /\ Waiting' /\ InTransaction' /\ Undoing' /\ Protected'
<1>1. TouchedFiles \subseteq ChangeSetPaths(ops)
  BY DEF TouchedFiles, ChangeSetPaths, EngineInv, TypeOK
<1>2. CASE touched = {}
  BY <1>2, GiveUpKeeps DEF FailTransaction
<1>3. CASE touched # {}
  BY <1>1, <1>3, UndoKeeps DEF FailTransaction
<1>4. QED
  BY <1>2, <1>3

\* What is left to show of a step that fails a transaction.
LEMMA FailedInv ==
  ASSUME EngineInv, fs' \in [Path -> Content], faults' \in 0 .. MaxFaults,
         UNCHANGED <<ops, checkpointId, diskVars, edits, crashes>>,
         FailedType' /\ Waiting' /\ InTransaction' /\ Undoing' /\ Protected'
  PROVE  EngineInv'
<1>1. TypeOK'
  BY DEF FailedType, EngineInv, TypeOK, diskVars, Busy
<1>2. OperationShape'
  BY DEF EngineInv, OperationShape
<1>3. QED
  BY <1>1, <1>2 DEF EngineInv

\* Faults are counted up to their bound.
LEMMA FaultType ==
  ASSUME EngineInv, Fault \/ UNCHANGED faults
  PROVE  faults' \in 0 .. MaxFaults
BY EngineAssumption DEF EngineInv, TypeOK, Fault

\* A file is not as it was when the change was prepared.
LEMMA VerifyFailsKeeps == EngineInv /\ VerifyFails => EngineInv'
<1> SUFFICES ASSUME EngineInv, VerifyFails PROVE EngineInv'
  OBVIOUS
<1>1. faults' \in 0 .. MaxFaults
  BY FaultType DEF VerifyFails
<1>2. /\ FailTransaction /\ pc \in Transaction
      /\ UNCHANGED <<fs, ops, checkpointId, diskVars, edits, crashes>>
  BY DEF VerifyFails, Transaction
<1>3. FailedType' /\ Waiting' /\ InTransaction' /\ Undoing' /\ Protected'
  BY <1>2, FailTransactionKeeps DEF diskVars
<1>4. fs' \in [Path -> Content]
  BY <1>2 DEF EngineInv, TypeOK
<1>5. QED
  BY <1>1, <1>2, <1>3, <1>4, FailedInv

\* One file is written.
LEMMA WriteKeeps == EngineInv /\ Write => EngineInv'
<1> SUFFICES ASSUME EngineInv, Write PROVE EngineInv'
  OBVIOUS
<1>1. /\ idx \in DOMAIN ops /\ safety # 0
      /\ OperationPaths(ops[idx]) \subseteq DOMAIN saved[safety]
  BY OperationProtected DEF Write
<1>2. /\ fs' \in [Path -> Content]
      /\ \A p \in Path \ OperationPaths(ops[idx]) : fs'[p] = fs[p]
  BY WrittenType DEF Write
<1>3. Protected'
  BY <1>1, <1>2, ProtectedKept DEF Write, diskVars
<1>4. idx' \in 1 .. MaxChangeOperations + 1
  <2>1. idx \in 1 .. Len(ops) /\ Len(ops) \in Nat /\ Len(ops) <= MaxChangeOperations
    BY <1>1 DEF EngineInv, TypeOK
  <2>2. QED
    BY <2>1, EngineAssumption DEF Write
<1>5. TypeOK'
  BY <1>2, <1>4 DEF Write, EngineInv, TypeOK, Busy, changeVars, diskVars,
                    safetyVars, bounds
<1>6. InTransaction'
  BY <1>4 DEF Write, EngineInv, InTransaction, Transaction, changeVars, diskVars,
              safetyVars
<1>7. QED
  BY <1>3, <1>5, <1>6
  DEF Write, EngineInv, OperationShape, Waiting, Undoing, changeVars

\* A write fails, with the file as it was or as it should be.
LEMMA WriteFailsKeeps == EngineInv /\ WriteFails => EngineInv'
<1> SUFFICES ASSUME EngineInv, WriteFails PROVE EngineInv'
  OBVIOUS
<1>1. faults' \in 0 .. MaxFaults
  BY FaultType DEF WriteFails
<1>2. /\ FailTransaction /\ pc \in Transaction
      /\ UNCHANGED <<ops, checkpointId, diskVars, edits, crashes>>
      /\ fs' \in {fs, Written(ops[idx])}
  BY DEF WriteFails, Transaction
<1>3. /\ fs' \in [Path -> Content]
      /\ \A p \in Path \ OperationPaths(ops[idx]) : fs'[p] = fs[p]
  BY <1>2, WrittenType DEF WriteFails, EngineInv, TypeOK
<1>4. \A p \in Path : p \notin DOMAIN saved[safety] => fs'[p] = fs[p]
  BY <1>3, OperationProtected DEF WriteFails
<1>5. FailedType' /\ Waiting' /\ InTransaction' /\ Undoing' /\ Protected'
  BY <1>2, <1>4, FailTransactionKeeps DEF diskVars
<1>6. QED
  BY <1>1, <1>2, <1>3, <1>5, FailedInv

\* One file is removed.
LEMMA UnlinkKeeps == EngineInv /\ Unlink => EngineInv'
<1> SUFFICES ASSUME EngineInv, Unlink PROVE EngineInv'
  OBVIOUS
<1>1. /\ idx \in DOMAIN ops /\ safety # 0
      /\ OperationPaths(ops[idx]) \subseteq DOMAIN saved[safety]
  BY OperationProtected DEF Unlink
<1>2. /\ fs' \in [Path -> Content]
      /\ \A p \in Path \ OperationPaths(ops[idx]) : fs'[p] = fs[p]
  BY WrittenType DEF Unlink
<1>3. Protected'
  BY <1>1, <1>2, ProtectedKept DEF Unlink, diskVars
<1>4. idx' \in 1 .. MaxChangeOperations + 1
  <2>1. idx \in 1 .. Len(ops) /\ Len(ops) \in Nat /\ Len(ops) <= MaxChangeOperations
    BY <1>1 DEF EngineInv, TypeOK
  <2>2. QED
    BY <2>1, EngineAssumption DEF Unlink
<1>5. TypeOK'
  BY <1>2, <1>4 DEF Unlink, EngineInv, TypeOK, Busy, changeVars, diskVars,
                    safetyVars, bounds
<1>6. InTransaction'
  BY <1>4 DEF Unlink, EngineInv, InTransaction, Transaction, changeVars,
              diskVars, safetyVars
<1>7. QED
  BY <1>3, <1>5, <1>6
  DEF Unlink, EngineInv, OperationShape, Waiting, Undoing, changeVars

\* A removal fails.
LEMMA UnlinkFailsKeeps == EngineInv /\ UnlinkFails => EngineInv'
<1> SUFFICES ASSUME EngineInv, UnlinkFails PROVE EngineInv'
  OBVIOUS
<1>1. faults' \in 0 .. MaxFaults
  BY FaultType DEF UnlinkFails
<1>2. /\ FailTransaction /\ pc \in Transaction
      /\ UNCHANGED <<fs, ops, checkpointId, diskVars, edits, crashes>>
  BY DEF UnlinkFails, Transaction
<1>3. FailedType' /\ Waiting' /\ InTransaction' /\ Undoing' /\ Protected'
  BY <1>2, FailTransactionKeeps DEF diskVars
<1>4. fs' \in [Path -> Content]
  BY <1>2 DEF EngineInv, TypeOK
<1>5. QED
  BY <1>1, <1>2, <1>3, <1>4, FailedInv

\* The checks after the last operation only look.
LEMMA LookKeeps == EngineInv /\ (WrittenAll \/ CheckPasses) => EngineInv'
<1> SUFFICES ASSUME EngineInv, WrittenAll \/ CheckPasses PROVE EngineInv'
  OBVIOUS
<1>1. TypeOK'
  BY DEF WrittenAll, CheckPasses, EngineInv, TypeOK, Busy, changeVars, diskVars,
         safetyVars, bounds
<1>2. QED
  BY <1>1
  DEF WrittenAll, CheckPasses, EngineInv, OperationShape, Waiting,
      InTransaction, Undoing, Protected, Transaction, changeVars, diskVars,
      safetyVars, bounds

\* A file that should be gone is still there.
LEMMA CheckFindsLeftoverKeeps == EngineInv /\ CheckFindsLeftover => EngineInv'
<1> SUFFICES ASSUME EngineInv, CheckFindsLeftover PROVE EngineInv'
  OBVIOUS
<1>1. GiveUp /\ UNCHANGED <<fs, ops, checkpointId, diskVars, bounds>>
  BY DEF CheckFindsLeftover
<1>2. FailedType' /\ Waiting' /\ InTransaction' /\ Undoing' /\ Protected'
  BY <1>1, GiveUpKeeps DEF diskVars
<1>3. fs' \in [Path -> Content] /\ faults' \in 0 .. MaxFaults
  BY <1>1 DEF EngineInv, TypeOK, bounds
<1>4. QED
  BY <1>1, <1>2, <1>3, FailedInv DEF bounds

\* After a failed check, or a failed entry of the audit log, the whole
\* checkpoint is restored.
LEMMA UndoAllKeeps == EngineInv /\ (CheckFails \/ AuditFails) => EngineInv'
<1> SUFFICES ASSUME EngineInv, CheckFails \/ AuditFails PROVE EngineInv'
  OBVIOUS
<1>1. faults' \in 0 .. MaxFaults
  BY FaultType DEF CheckFails, AuditFails
<1>2. /\ Undo(DOMAIN saved[source]) /\ pc \in Transaction
      /\ UNCHANGED <<fs, ops, checkpointId, diskVars, edits, crashes>>
  BY DEF CheckFails, AuditFails, Transaction
<1>3. DOMAIN saved[source] = ChangeSetPaths(ops)
  BY <1>2 DEF EngineInv, InTransaction
<1>4. FailedType' /\ Waiting' /\ InTransaction' /\ Undoing' /\ Protected'
  BY <1>2, <1>3, UndoKeeps DEF diskVars
<1>5. fs' \in [Path -> Content]
  BY <1>2 DEF EngineInv, TypeOK
<1>6. QED
  BY <1>1, <1>2, <1>4, <1>5, FailedInv

\* The check finds nothing wrong: the ChangeSet is applied.
LEMMA AuditKeeps == EngineInv /\ Audit => EngineInv'
<1> SUFFICES ASSUME EngineInv, Audit PROVE EngineInv'
  OBVIOUS
<1>1. EndCall("done") /\ UNCHANGED <<fs, saved, made>>
  BY DEF Audit, diskVars
<1>2. Quiet'
  BY <1>1, EndCallType DEF EngineInv
<1>3. TypeOK'
  BY <1>2, EngineAssumption
  DEF Quiet, Audit, EngineInv, TypeOK, ChangeSetStatus, diskVars, bounds
<1>4. OperationShape'
  BY DEF Audit, EngineInv, OperationShape
<1>5. QED
  BY <1>1, <1>3, <1>4, EndCallKeeps DEF EngineInv

-----------------------------------------------------------------------------
(***************************************************************************)
(* Restoring, and the environment.                                         *)
(***************************************************************************)
LEMMA RollbackKeeps == EngineInv /\ RollbackChangeSet => EngineInv'
<1> SUFFICES ASSUME EngineInv, RollbackChangeSet PROVE EngineInv'
  OBVIOUS
<1>1. DOMAIN saved[checkpointId] \subseteq Path
  BY ImageValues DEF RollbackChangeSet, EngineInv, TypeOK
<1>2. TypeOK'
  BY <1>1, EngineAssumption
  DEF RollbackChangeSet, EngineInv, TypeOK, Busy, changeVars, diskVars, bounds
<1>3. QED
  BY <1>2
  DEF RollbackChangeSet, EngineInv, OperationShape, Waiting, InTransaction,
      Undoing, Protected, Transaction, changeVars, diskVars

\* One file is restored from a checkpoint.
LEMMA RestoreKeeps == EngineInv /\ Restore => EngineInv'
<1> SUFFICES ASSUME EngineInv, Restore PROVE EngineInv'
  OBVIOUS
<1>1. PICK p \in undo :
        fs' = [fs EXCEPT ![p] = saved[source][p]] /\ undo' = undo \ {p}
  BY DEF Restore
<1>2. p \in Path /\ p \in DOMAIN saved[source] /\ saved[source] \in Image
  BY DEF Restore, EngineInv, TypeOK, Undoing
<1>3. fs' \in [Path -> Content] /\ \A q \in Path \ {p} : fs'[q] = fs[q]
  BY <1>1, <1>2, ImageValues DEF EngineInv, TypeOK
<1>4. safety # 0 => p \in DOMAIN saved[safety]
  BY DEF Restore, EngineInv, Undoing
<1>5. Protected'
  BY <1>3, <1>4, ProtectedKept DEF Restore, diskVars
<1>6. TypeOK'
  BY <1>1, <1>3
  DEF Restore, EngineInv, TypeOK, changeVars, diskVars, safetyVars, bounds
<1>7. QED
  BY <1>1, <1>5, <1>6
  DEF Restore, EngineInv, OperationShape, Waiting, InTransaction, Undoing,
      Transaction, changeVars, diskVars, safetyVars

\* Nothing is left to restore.
LEMMA RestoredKeeps == EngineInv /\ Restored => EngineInv'
<1> SUFFICES ASSUME EngineInv, Restored PROVE EngineInv'
  OBVIOUS
<1>1. PICK outcome \in {"done", "failed"} : EndCall(outcome)
  BY DEF Restored
<1>2. UNCHANGED <<fs, ops, saved, made>>
  BY DEF Restored, diskVars
<1>3. Quiet'
  BY <1>1, <1>2, EndCallType DEF EngineInv
<1>4. TypeOK'
  <2>1. status' \in ChangeSetStatus
    BY DEF Restored, EngineInv, TypeOK, ChangeSetStatus
  <2>2. UNCHANGED <<checkpointId, edits, faults, crashes>>
    BY DEF Restored, bounds
  <2>3. QED
    BY <1>2, <1>3, <2>1, <2>2, EngineAssumption DEF Quiet, EngineInv, TypeOK
<1>5. OperationShape'
  BY <1>2 DEF EngineInv, OperationShape
<1>6. QED
  BY <1>1, <1>2, <1>4, <1>5, EndCallKeeps DEF EngineInv

\* A file cannot be restored.
LEMMA RestoreFailsKeeps == EngineInv /\ RestoreFails => EngineInv'
<1> SUFFICES ASSUME EngineInv, RestoreFails PROVE EngineInv'
  OBVIOUS
<1>1. faults' \in 0 .. MaxFaults
  BY FaultType DEF RestoreFails
<1>2. UNCHANGED <<fs, ops, checkpointId, saved, made, edits, crashes>>
  BY DEF RestoreFails, diskVars
<1>3. OperationShape'
  BY <1>2 DEF EngineInv, OperationShape
<1>4. CASE goal = "restored"
  <2>1. safety # 0 /\ safety \in DOMAIN saved
    BY <1>4 DEF RestoreFails, EngineInv, Undoing, Protected
  <2>2. DOMAIN saved[safety] \subseteq Path
    BY <2>1, ImageValues DEF EngineInv, TypeOK
  <2>3. TypeOK'
    BY <1>1, <1>2, <1>4, <2>2 DEF RestoreFails, EngineInv, TypeOK, safetyVars
  <2>4. QED
    BY <1>2, <1>3, <1>4, <2>1, <2>3
    DEF RestoreFails, EngineInv, Waiting, InTransaction, Undoing, Protected,
        Transaction, safetyVars
<1>5. CASE goal # "restored"
  <2>1. EndCall("torn") /\ status' \in {status, "failed"}
    BY <1>5 DEF RestoreFails
  <2>2. Quiet'
    BY <1>2, <2>1, EndCallType DEF EngineInv
  <2>3. status' \in ChangeSetStatus
    BY <2>1 DEF EngineInv, TypeOK, ChangeSetStatus
  <2>4. made' \in 0 .. MaxCheckpoints /\ 0 \in 0 .. made'
    BY <1>2, EngineAssumption DEF EngineInv, TypeOK
  <2>5. /\ pc' \in Busy \cup {"idle", "confirm", "checkpoint"}
        /\ goal' \in {"none", "applied", "restored", "rolled_back", "failed", "abandoned"}
        /\ idx' \in 0 .. MaxChangeOperations + 1
        /\ touched' \subseteq DOMAIN ops' /\ undo' \subseteq Path
        /\ source' \in 0 .. made' /\ safety' \in 0 .. made'
    BY <1>2, <2>2, <2>4, EngineAssumption DEF Quiet
  <2>6. TypeOK'
    BY <1>1, <1>2, <2>2, <2>3, <2>4, <2>5 DEF Quiet, EngineInv, TypeOK
  <2>7. QED
    BY <1>2, <1>3, <2>1, <2>6, EndCallKeeps DEF EngineInv
<1>6. QED
  BY <1>4, <1>5

\* Somebody else edits a file.
LEMMA EditKeeps == EngineInv /\ Edit => EngineInv'
<1> SUFFICES ASSUME EngineInv, Edit PROVE EngineInv'
  OBVIOUS
<1>1. PICK p \in Path, c \in UserContent :
        fs' = [fs EXCEPT ![p] = c] /\ edited' = edited \cup {p}
  BY DEF Edit
<1>2. fs' \in [Path -> Content] /\ \A q \in Path \ {p} : fs'[q] = fs[q]
  BY <1>1, EngineAssumption DEF EngineInv, TypeOK
<1>3. edits' \in 0 .. MaxEdits
  BY EngineAssumption DEF Edit, EngineInv, TypeOK
<1>4. TypeOK'
  BY <1>1, <1>2, <1>3
  DEF Edit, EngineInv, TypeOK, changeVars, diskVars, callVars
<1>5. Protected'
  BY <1>1, <1>2 DEF Edit, EngineInv, Protected, diskVars
<1>6. QED
  BY <1>4, <1>5
  DEF Edit, EngineInv, OperationShape, Waiting, InTransaction, Undoing,
      Transaction, changeVars, diskVars, callVars

\* The process dies in the middle of a call.
LEMMA CrashKeeps == EngineInv /\ Crash => EngineInv'
<1> SUFFICES ASSUME EngineInv, Crash PROVE EngineInv'
  OBVIOUS
<1>1. PICK outcome \in {"none", "done", "failed", "torn"} : EndCall(outcome)
  BY DEF Crash, EngineInv, TypeOK
<1>2. UNCHANGED <<fs, saved, made>>
  BY DEF Crash, diskVars
<1>3. Quiet'
  BY <1>1, <1>2, EndCallType DEF EngineInv
<1>4. crashes' \in 0 .. MaxCrashes /\ made \in Nat
  BY EngineAssumption DEF Crash, EngineInv, TypeOK
<1>5. ops' = <<>> /\ ops' \in Seq(FileOperation) /\ Len(ops') = 0
  BY DEF Crash
<1>6. TypeOK'
  BY <1>2, <1>3, <1>4, <1>5, EngineAssumption
  DEF Quiet, Crash, EngineInv, TypeOK, ChangeSetStatus, diskVars
<1>7. OperationShape'
  BY <1>5 DEF OperationShape
<1>8. QED
  BY <1>1, <1>2, <1>6, <1>7, EndCallKeeps DEF EngineInv

\* Every step keeps EngineInv.
LEMMA NextEngine == EngineInv /\ [Next]_vars => EngineInv'
<1> SUFFICES ASSUME EngineInv, [Next]_vars PROVE EngineInv'
  OBVIOUS
<1>1. CASE UNCHANGED vars
  BY <1>1
  DEF vars, changeVars, diskVars, callVars, safetyVars, bounds, EngineInv,
      TypeOK, OperationShape, Waiting, InTransaction, Undoing, Protected
<1>2. CASE Next
  BY <1>2, PrepareKeeps, RemoveKeeps, ClearKeeps, PreviewKeeps, RequestKeeps,
     DeclineKeeps, AcceptKeeps, TakeCheckpointKeeps, CheckpointFailsKeeps,
     VerifyKeeps, VerifyFailsKeeps, WriteKeeps, WriteFailsKeeps, UnlinkKeeps,
     UnlinkFailsKeeps, LookKeeps, CheckFindsLeftoverKeeps, UndoAllKeeps,
     AuditKeeps, RollbackKeeps, RestoreKeeps, RestoredKeeps, RestoreFailsKeeps,
     EditKeeps, CrashKeeps
  DEF Next
<1>3. QED
  BY <1>1, <1>2

\* EngineInv holds in every reachable state.
LEMMA EngineInvAlways == Spec => []EngineInv
BY InitEngine, NextEngine, PTL DEF Spec

-----------------------------------------------------------------------------
(***************************************************************************)
(* Theorems.                                                               *)
(***************************************************************************)

\* Every variable of the engine, and every checkpoint, keeps a value of its
\* kind: no transaction runs past its last operation, and none undoes files
\* that no checkpoint can have.
THEOREM EngineTypeCorrect == Spec => []TypeOK
<1>1. EngineInv => TypeOK
  BY DEF EngineInv
<1>2. QED
  BY <1>1, EngineInvAlways, PTL

\* A file that a call has changed is in a checkpoint on disk, as it was, at
\* every moment of the call, after a failed undoing and after a crash: pruning,
\* moves and partial writes included (LocalChangeService.applyChangeSet and
\* restoreCheckpoint, CheckpointService.create).
THEOREM SavedBeforeAlways == Spec => []SavedBefore
<1>1. EngineInv => SavedBefore
  BY DEF EngineInv, Protected, SavedBefore
<1>2. QED
  BY <1>1, EngineInvAlways, PTL

\* What the check after the transaction has found of every file holds until
\* the ChangeSet is called applied, other than for files edited meanwhile.
Whole ==
  pc = "audit" =>
    \A p \in ChangeSetPaths(ops) \ edited : fs[p] = Target(ops)[p]

\* Operations that are not bad have made their files what they should be.
LEMMA CheckedTarget ==
  ASSUME EngineInv, \A i \in DOMAIN ops : ~Bad(ops[i]),
         NEW p \in ChangeSetPaths(ops)
  PROVE  fs[p] = Target(ops)[p]
<1> DEFINE i == CHOOSE j \in DOMAIN ops : p \in OperationPaths(ops[j])
<1>1. \E j \in DOMAIN ops : p \in OperationPaths(ops[j])
  BY DEF ChangeSetPaths
<1>2. i \in DOMAIN ops /\ p \in OperationPaths(ops[i])
  BY <1>1
<1>3. Target(ops)[p] = IF p = ops[i].dest THEN ops[i].to ELSE Absent
  BY DEF Target
<1> HIDE DEF i
<1>4. CASE p = ops[i].dest
  BY <1>2, <1>3, <1>4
  DEF Bad, Leftover, Mismatch, EngineInv, OperationShape
<1>5. CASE p # ops[i].dest
  <2>1. p = ops[i].path /\ ops[i].type = "move"
    BY <1>2, <1>5 DEF OperationPaths, EngineInv, OperationShape
  <2>2. QED
    BY <1>2, <1>3, <1>5, <2>1 DEF Bad, Leftover
<1>6. QED
  BY <1>4, <1>5

\* Every step keeps Whole.
LEMMA NextWhole == EngineInv /\ Whole /\ [Next]_vars => Whole'
<1> SUFFICES ASSUME EngineInv, Whole, [Next]_vars, pc' = "audit"
             PROVE  Whole'
  BY DEF Whole
<1>1. CASE CheckPasses
  <2>1. \A p \in ChangeSetPaths(ops) : fs[p] = Target(ops)[p]
    BY <1>1, CheckedTarget DEF CheckPasses
  <2>2. UNCHANGED <<fs, ops>>
    BY <1>1 DEF CheckPasses, changeVars
  <2>3. QED
    BY <2>1, <2>2 DEF Whole
<1>2. CASE Edit
  <2>1. PICK p \in Path, c \in UserContent :
          fs' = [fs EXCEPT ![p] = c] /\ edited' = edited \cup {p}
    BY <1>2 DEF Edit
  <2>2. ops' = ops /\ pc = "audit"
    BY <1>2 DEF Edit, changeVars
  <2>3. \A q \in ChangeSetPaths(ops) \ edited' : q \notin edited /\ fs'[q] = fs[q]
    BY <2>1, PathsOfOperations DEF EngineInv, TypeOK
  <2>4. QED
    BY <2>2, <2>3 DEF Whole
<1>3. CASE UNCHANGED vars
  BY <1>3 DEF Whole, vars, changeVars, safetyVars
<1>4. QED
  BY <1>1, <1>2, <1>3
  DEF Next, Prepare, Remove, Clear, Preview, RequestApply, RequestRestore,
      Decline, Accept, TakeCheckpoint, CheckpointFails, Verify, VerifyFails,
      Write, WriteFails, Unlink, UnlinkFails, WrittenAll, CheckFindsLeftover,
      CheckFails, Audit, AuditFails, RollbackChangeSet, Restore, Restored,
      RestoreFails, Crash, EndCall, FailTransaction, GiveUp, Undo

\* A ChangeSet is only called applied when every file it is about, other than
\* those somebody else edited meanwhile, is what its operations make of it
\* (LocalChangeService.applyChangeSet, the check after TransactionManager.apply).
THEOREM AppliedIsWholeAlways == Spec => AppliedIsWhole
<1>1. Init => Whole
  BY DEF Init, Whole
<1>2. ASSUME EngineInv, Whole, [Next]_vars, status' = "applied", status # "applied"
      PROVE  \A p \in ChangeSetPaths(ops) \ edited : fs[p] = Target(ops)[p]
  <2>1. CASE Audit
    BY <1>2, <2>1 DEF Audit, Whole
  <2>2. CASE ~Audit
    BY <1>2, <2>2
    DEF Next, vars, changeVars, Prepare, Remove, Clear, Preview, RequestApply,
        RequestRestore, Decline, Accept, TakeCheckpoint, CheckpointFails, Verify,
        VerifyFails, Write, WriteFails, Unlink, UnlinkFails, WrittenAll,
        CheckPasses, CheckFindsLeftover, CheckFails, AuditFails,
        RollbackChangeSet, Restore, Restored, RestoreFails, Edit, Crash,
        FailTransaction, GiveUp, Undo
  <2>3. QED
    BY <2>1, <2>2
<1>3. EngineInv /\ Whole /\ [Next]_vars =>
        [status' = "applied" /\ status # "applied" =>
           \A p \in ChangeSetPaths(ops) \ edited : fs[p] = Target(ops)[p]]_vars
  BY <1>2
<1>4. QED
  BY <1>1, <1>3, InitEngine, NextEngine, NextWhole, PTL DEF Spec, AppliedIsWhole

\* Where files have one form of name only, comparing names keeps the operations
\* of a ChangeSet apart.
OneForm == \A f, g \in PathForms : f = g

Apart ==
  \A i, j \in DOMAIN ops :
    i # j => OperationPaths(ops[i]) \cap OperationPaths(ops[j]) = {}

\* A transaction has touched no file of an operation it had not come to, and
\* after the last one there is none of those.
Reached ==
  /\ goal = "failed" => pc = "undo"
  /\ pc \in {"verify", "write", "unlink"} => touched \subseteq 1 .. idx
  /\ pc \in {"check", "audit"} => idx > Len(ops)
  /\ pc = "undo" /\ goal = "failed" =>
       \A i \in DOMAIN ops : i > idx => undo \cap OperationPaths(ops[i]) = {}

\* Any two operations of what is left of a ChangeSet were operations of it.
LEMMA RemoveApart ==
  ASSUME EngineInv, Disjoint(ops), Remove
  PROVE  Disjoint(ops')
<1>1. /\ ops \in Seq(FileOperation) /\ ops' \in Seq(FileOperation)
      /\ Len(ops) \in Nat /\ Len(ops') \in Nat
  BY RemoveElements DEF EngineInv, TypeOK
<1>2. PICK i \in 1 .. Len(ops) : \A j \in 1 .. Len(ops') :
        /\ (IF j < i THEN j ELSE j + 1) \in 1 .. Len(ops)
        /\ ops'[j] = ops[IF j < i THEN j ELSE j + 1]
  BY RemoveElements
<1>3. \A j, k \in 1 .. Len(ops') :
        j # k => (IF j < i THEN j ELSE j + 1) # (IF k < i THEN k ELSE k + 1)
  BY <1>1
<1>4. DOMAIN ops = 1 .. Len(ops) /\ DOMAIN ops' = 1 .. Len(ops')
  BY <1>1
<1>5. ASSUME NEW j \in 1 .. Len(ops'), NEW k \in 1 .. Len(ops'),
             j # k, ops'[j].form = ops'[k].form
      PROVE  OperationPaths(ops'[j]) \cap OperationPaths(ops'[k]) = {}
  <2> DEFINE m == IF j < i THEN j ELSE j + 1
             n == IF k < i THEN k ELSE k + 1
  <2>1. /\ m \in DOMAIN ops /\ n \in DOMAIN ops /\ m # n
        /\ ops'[j] = ops[m] /\ ops'[k] = ops[n]
    BY <1>2, <1>3, <1>4, <1>5
  <2> HIDE DEF m, n
  <2>2. QED
    BY <1>5, <2>1 DEF Disjoint
<1>6. QED
  BY <1>4, <1>5 DEF Disjoint

\* Every step keeps the operations about different files.
LEMMA NextApart ==
  ASSUME EngineInv, Disjoint(ops), [Next]_vars
  PROVE  Disjoint(ops')
<1>1. Disjoint(<<>>)
  BY DEF Disjoint
<1>2. CASE Prepare
  BY <1>2 DEF Prepare
<1>3. CASE Remove
  BY <1>3, RemoveApart
<1>4. CASE Clear \/ Crash
  BY <1>1, <1>4 DEF Clear, Crash
<1>5. CASE UNCHANGED ops
  BY <1>5
<1>6. QED
  BY <1>2, <1>3, <1>4, <1>5
  DEF Next, vars, changeVars, Preview, RequestApply, RequestRestore, Decline,
      Accept, TakeCheckpoint, CheckpointFails, Verify, VerifyFails, Write,
      WriteFails, Unlink, UnlinkFails, WrittenAll, CheckPasses,
      CheckFindsLeftover, CheckFails, Audit, AuditFails, RollbackChangeSet,
      Restore, Restored, RestoreFails, Edit

\* Where files are named in one way such operations are apart.
LEMMA DisjointApart ==
  ASSUME EngineInv, OneForm, Disjoint(ops)
  PROVE  Apart
<1>1. \A i \in DOMAIN ops : ops[i] \in FileOperation
  BY DEF EngineInv, TypeOK
<1>2. \A i \in DOMAIN ops : ops[i].form \in PathForms
  BY <1>1 DEF FileOperation
<1>3. QED
  BY <1>2 DEF OneForm, Disjoint, Apart

\* A failed transaction restores files of operations that it had come to.
LEMMA FailReached ==
  ASSUME EngineInv, Apart, Reached, pc \in {"verify", "write", "unlink"},
         FailTransaction, UNCHANGED ops
  PROVE  Reached'
<1>1. CASE touched = {}
  BY <1>1 DEF FailTransaction, GiveUp, EndCall, Reached
<1>2. CASE touched # {}
  <2>1. Undo(TouchedFiles)
    BY <1>2 DEF FailTransaction
  <2>2. ASSUME NEW i \in DOMAIN ops, i > idx
        PROVE  TouchedFiles \cap OperationPaths(ops[i]) = {}
    <3>1. \A j \in touched : j \in DOMAIN ops /\ j # i
      BY <2>2 DEF Reached, EngineInv, TypeOK
    <3>2. \A j \in touched : OperationPaths(ops[j]) \cap OperationPaths(ops[i]) = {}
      BY <3>1 DEF Apart
    <3>3. QED
      BY <3>2 DEF TouchedFiles
  <2>3. QED
    BY <2>1, <2>2 DEF Undo, Reached
<1>3. QED
  BY <1>1, <1>2

\* Every step keeps Reached.
LEMMA NextReached ==
  ASSUME EngineInv, Apart, Reached, [Next]_vars
  PROVE  Reached'
<1>1. CASE TakeCheckpoint
  BY <1>1 DEF TakeCheckpoint, Reached, EngineInv, Waiting
<1>2. CASE Verify
  BY <1>2, EngineAssumption
  DEF Verify, Reached, EngineInv, TypeOK, InTransaction, Transaction, changeVars
<1>3. CASE VerifyFails \/ WriteFails \/ UnlinkFails
  <2>1. FailTransaction /\ pc \in {"verify", "write", "unlink"} /\ UNCHANGED ops
    BY <1>3 DEF VerifyFails, WriteFails, UnlinkFails
  <2>2. QED
    BY <2>1, FailReached
<1>4. CASE Write \/ Unlink
  <2>1. idx \in Nat /\ idx' \in {idx, idx + 1} /\ touched \subseteq 1 .. idx
    BY <1>4 DEF Write, Unlink, EngineInv, TypeOK, Reached
  <2>2. touched' = touched
    BY <1>4 DEF Write, Unlink
  <2>3. touched' \subseteq 1 .. idx'
    BY <2>1, <2>2
  <2>4. QED
    BY <1>4, <2>3 DEF Write, Unlink, Reached, changeVars
<1>5. CASE WrittenAll \/ CheckPasses
  BY <1>5 DEF WrittenAll, CheckPasses, Reached, changeVars
<1>6. CASE CheckFails \/ AuditFails
  <2>1. /\ pc' = "undo" /\ UNCHANGED <<idx, ops>> /\ idx > Len(ops)
        /\ idx \in Nat /\ DOMAIN ops = 1 .. Len(ops) /\ Len(ops) \in Nat
    BY <1>6 DEF CheckFails, AuditFails, Undo, Reached, EngineInv, TypeOK
  <2>2. \A i \in DOMAIN ops' : ~(i > idx')
    BY <2>1
  <2>3. QED
    BY <2>1, <2>2 DEF Reached
<1>7. CASE Restore
  BY <1>7 DEF Restore, Reached, changeVars
<1>8. CASE RestoreFails
  BY <1>8 DEF RestoreFails, Reached, EndCall
<1>9. CASE RollbackChangeSet
  BY <1>9 DEF RollbackChangeSet, Reached
<1>10. CASE Edit \/ UNCHANGED vars
  BY <1>10 DEF Edit, Reached, vars, changeVars, callVars
<1>11. CASE Decline \/ CheckpointFails \/ CheckFindsLeftover \/ Audit \/ Restored \/ Crash
  <2>1. PICK outcome : EndCall(outcome)
    BY <1>11 DEF Decline, CheckpointFails, CheckFindsLeftover, GiveUp, Audit,
                 Restored, Crash
  <2>2. QED
    BY <2>1 DEF EndCall, Reached
<1>12. CASE Accept
  BY <1>12 DEF Accept, EndCall, callVars, Reached
<1>13. CASE Prepare \/ Remove \/ Clear \/ Preview
  BY <1>13 DEF Prepare, Remove, Clear, Preview, callVars, Reached
<1>14. CASE RequestApply \/ RequestRestore
  BY <1>14 DEF RequestApply, RequestRestore, Reached
<1>15. QED
  BY <1>1, <1>2, <1>3, <1>4, <1>5, <1>6, <1>7, <1>8, <1>9, <1>10, <1>11, <1>12,
     <1>13, <1>14
  DEF Next

\* While a failed transaction is undone, only Restore changes files that the
\* engine has left to undo.
LEMMA UndoStep ==
  ASSUME EngineInv, Reached, [Next]_vars, goal = "failed", undo' # undo,
         NEW i \in DOMAIN ops, i > idx, NEW p \in OperationPaths(ops[i])
  PROVE  fs'[p] = fs[p]
<1>1. pc = "undo" /\ p \notin undo
  BY DEF Reached
<1>2. p \in Path
  BY PathsOfOperations DEF EngineInv, TypeOK
<1>3. CASE Restore
  BY <1>1, <1>2, <1>3 DEF Restore, EngineInv, TypeOK
<1>4. CASE UNCHANGED fs
  BY <1>4
<1>5. QED
  BY <1>1, <1>3, <1>4
  DEF Next, vars, callVars, Prepare, Remove, Clear, Preview, RequestApply,
      RequestRestore, Decline, Accept, TakeCheckpoint, CheckpointFails, Verify,
      VerifyFails, Write, WriteFails, Unlink, UnlinkFails, WrittenAll,
      CheckPasses, CheckFindsLeftover, CheckFails, Audit, AuditFails,
      RollbackChangeSet, Restored, RestoreFails, Edit, Crash

\* Where files have one form of name, the undoing of a failed transaction
\* changes no file of an operation that the transaction had not come to
\* (TransactionManager.apply and rollback).
THEOREM UndoesOnlyReachedAlways ==
  ASSUME OneForm
  PROVE  Spec => UndoesOnlyReached
<1>1. Init => Disjoint(ops) /\ Reached
  BY DEF Init, Disjoint, Reached
<1>2. EngineInv /\ Disjoint(ops) /\ Reached /\ [Next]_vars => Disjoint(ops)' /\ Reached'
  BY NextApart, DisjointApart, NextReached
<1>3. EngineInv /\ Reached /\ [Next]_vars =>
        [goal = "failed" /\ undo' # undo =>
           \A i \in DOMAIN ops : i > idx =>
             \A p \in OperationPaths(ops[i]) : fs'[p] = fs[p]]_vars
  BY UndoStep
<1>4. QED
  BY <1>1, <1>2, <1>3, InitEngine, NextEngine, PTL DEF Spec, UndoesOnlyReached

-----------------------------------------------------------------------------
(***************************************************************************)
(* The change engine implements AtomicWorkspace, for every set of files    *)
(* and contents, every retention and every bound, as long as nobody edits  *)
(* the files of a running call and files are named in one way.  TLC shows  *)
(* what happens otherwise.                                                 *)
(***************************************************************************)

Sheltered == ~EditOwn /\ \A f \in PathForms : f = "relative"

-----------------------------------------------------------------------------
(***************************************************************************)
(* The invariant: how far a transaction, or an undoing, has come.          *)
(***************************************************************************)

\* A move moves something, and what it moves is what the agent read.
MoveShape ==
  \A i \in DOMAIN ops :
    ops[i].type = "move" => ops[i].dest # ops[i].path /\ ops[i].to = ops[i].from

Untouched(i) == \A p \in OperationPaths(ops[i]) : fs[p] = before[p]

Done(i) ==
  /\ fs[ops[i].dest] = ops[i].to
  /\ ops[i].path # ops[i].dest => fs[ops[i].path] = Absent

\* The operations before idx are done, those after it have not begun.
Progress ==
  pc \in Transaction =>
    /\ \A i \in DOMAIN ops :
         /\ i < idx => Done(i) /\ i \in touched
         /\ (i > idx \/ (i = idx /\ pc \in {"verify", "write"})) => Untouched(i)
    /\ pc \in {"write", "unlink"} => idx \in touched /\ Unchanged(ops[idx])
    /\ pc = "unlink" =>
         /\ ops[idx].type = "move"
         /\ fs[ops[idx].dest] = ops[idx].to
         /\ fs[ops[idx].path] = before[ops[idx].path]

\* A failed transaction has left every file old or new, and old where there is
\* nothing to undo any more.
Failing ==
  pc = "undo" /\ goal = "failed" =>
    /\ safety # 0 /\ source = safety
    /\ DOMAIN saved[safety] = ChangeSetPaths(ops)
    /\ \A p \in ChangeSetPaths(ops) :
         /\ fs[p] \in {before[p], Target(ops)[p]}
         /\ p \notin undo => fs[p] = before[p]

\* Files that are being restored are as they were or as the checkpoint has them.
\* When the checkpoint was pruned, nothing is restored.
Restoring ==
  pc = "undo" /\ goal \in {"restored", "rolled_back"} =>
    /\ goal = "restored" <=> safety # 0
    /\ goal = "rolled_back" => source \in DOMAIN saved
    /\ source \in DOMAIN saved =>
         /\ DOMAIN saved[source] = Own
         /\ \A p \in Own :
              /\ fs[p] \in {before[p], saved[source][p]}
              /\ p \notin undo => fs[p] = saved[source][p]
    /\ source \notin DOMAIN saved => \A p \in Own : fs[p] = before[p]

\* When restoring is given up, there is still the checkpoint that the files are
\* partly from.
Abandoning ==
  pc = "undo" /\ goal = "abandoned" =>
    /\ safety # 0 /\ source = safety
    /\ \E k \in DOMAIN saved :
         /\ DOMAIN saved[k] = Own
         /\ \A p \in Own : fs[p] \in {before[p], saved[k][p]}
    /\ \A p \in Own : p \notin undo => fs[p] = before[p]

RefinementInv ==
  /\ EngineInv
  /\ Disjoint(ops) /\ Reached /\ MoveShape
  /\ Progress /\ Failing /\ Restoring /\ Abandoning

-----------------------------------------------------------------------------
(***************************************************************************)
(* Operators.                                                              *)
(***************************************************************************)

\* What a ChangeSet makes of a file is what the one operation about it does.
LEMMA TargetOf ==
  ASSUME EngineInv, Apart, NEW i \in DOMAIN ops, NEW p \in OperationPaths(ops[i])
  PROVE  Target(ops)[p] = IF p = ops[i].dest THEN ops[i].to ELSE Absent
<1> DEFINE m == CHOOSE j \in DOMAIN ops : p \in OperationPaths(ops[j])
<1>1. m \in DOMAIN ops /\ p \in OperationPaths(ops[m])
  OBVIOUS
<1>2. p \in ChangeSetPaths(ops)
  BY DEF ChangeSetPaths
<1>3. Target(ops)[p] = IF p = ops[m].dest THEN ops[m].to ELSE Absent
  BY <1>2 DEF Target
<1> HIDE DEF m
<1>4. m = i
  BY <1>1 DEF Apart
<1>5. QED
  BY <1>3, <1>4

\* A done operation has made its files what they should be.
LEMMA DoneTarget ==
  ASSUME EngineInv, Apart, NEW i \in DOMAIN ops, Done(i),
         NEW p \in OperationPaths(ops[i])
  PROVE  fs[p] = Target(ops)[p]
<1>1. p = ops[i].dest \/ p = ops[i].path
  BY DEF OperationPaths
<1>2. QED
  BY <1>1, TargetOf DEF Done

\* The files of a transaction are those of its ChangeSet.
LEMMA OwnOfTransaction ==
  ASSUME EngineInv, pc \in Transaction
  PROVE  Own = ChangeSetPaths(ops)
BY DEF Own, EngineInv, InTransaction, Transaction, Busy

\* Nothing is hidden while no call changes files.
LEMMA QuietView ==
  ASSUME EngineInv, pc \notin Busy
  PROVE  Own = {} /\ View = fs
BY DEF Own, View, EngineInv, TypeOK

\* What a ChangeSet leads to is contents of some files.
LEMMA TargetImage ==
  ASSUME NEW s \in Seq(FileOperation)
  PROVE  Target(s) \in Image
<1>1. \A i \in DOMAIN s : s[i] \in FileOperation
  OBVIOUS
<1>2. ASSUME NEW p \in ChangeSetPaths(s)
      PROVE  Target(s)[p] \in Content
  <2> DEFINE m == CHOOSE j \in DOMAIN s : p \in OperationPaths(s[j])
  <2>1. m \in DOMAIN s
    BY DEF ChangeSetPaths
  <2>2. Target(s)[p] = IF p = s[m].dest THEN s[m].to ELSE Absent
    BY DEF Target
  <2> HIDE DEF m
  <2>3. s[m].to \in Content
    BY <1>1, <2>1 DEF FileOperation
  <2>4. QED
    BY <2>2, <2>3, EngineAssumption
<1>3. Target(s) \in [ChangeSetPaths(s) -> Content]
  <2>1. Target(s) = [p \in ChangeSetPaths(s) |-> Target(s)[p]]
    BY DEF Target
  <2>2. QED
    BY <1>2, <2>1
<1>4. QED
  BY <1>3, PathsOfOperations DEF Image

-----------------------------------------------------------------------------
(***************************************************************************)
(* Every step keeps the invariant.                                         *)
(***************************************************************************)
LEMMA InitRefinement == Init => RefinementInv
<1> SUFFICES ASSUME Init PROVE RefinementInv
  OBVIOUS
<1>1. Disjoint(ops) /\ Reached /\ MoveShape
  BY DEF Init, Disjoint, Reached, MoveShape
<1>2. Progress /\ Failing /\ Restoring /\ Abandoning
  BY DEF Init, Progress, Failing, Restoring, Abandoning, Transaction
<1>3. QED
  BY <1>1, <1>2, InitEngine DEF RefinementInv

\* The steps that prepare operations keep moves moves.
LEMMA NextMoveShape ==
  ASSUME EngineInv, MoveShape, [Next]_vars
  PROVE  MoveShape'
<1>1. CASE Prepare
  <2> DEFINE current == IF status \in {"applied", "rolled_back"} THEN <<>> ELSE ops
  <2>1. PICK op \in Requestable : ops' = Append(current, op)
    BY <1>1 DEF Prepare
  <2>2. current \in Seq(FileOperation) /\ op \in FileOperation
    BY DEF EngineInv, TypeOK, Requestable
  <2>3. /\ op.type = "move" => op.dest # op.path
        /\ op.type = "move" => op.to = op.from
    BY DEF Requestable
  <2>4. \A i \in DOMAIN current :
          current[i].type = "move" =>
            current[i].dest # current[i].path /\ current[i].to = current[i].from
    BY DEF MoveShape
  <2>5. \A i \in DOMAIN ops' : ops'[i] = op \/ ops'[i] \in {current[j] : j \in DOMAIN current}
    BY <2>1, <2>2, AppendProperties
  <2>6. QED
    BY <2>3, <2>4, <2>5 DEF MoveShape
<1>2. CASE Remove
  <2>1. /\ DOMAIN ops = 1 .. Len(ops) /\ DOMAIN ops' = 1 .. Len(ops')
        /\ \A j \in 1 .. Len(ops') : \E k \in 1 .. Len(ops) : ops'[j] = ops[k]
    <3>1. ops' \in Seq(FileOperation) /\ ops \in Seq(FileOperation)
      BY <1>2, RemoveElements DEF EngineInv, TypeOK
    <3>2. PICK i \in 1 .. Len(ops) : \A j \in 1 .. Len(ops') :
            /\ (IF j < i THEN j ELSE j + 1) \in 1 .. Len(ops)
            /\ ops'[j] = ops[IF j < i THEN j ELSE j + 1]
      BY <1>2, RemoveElements
    <3>3. QED
      BY <3>1, <3>2
  <2>2. QED
    BY <2>1 DEF MoveShape
<1>3. CASE ops' = <<>>
  BY <1>3 DEF MoveShape
<1>4. CASE UNCHANGED ops
  BY <1>4 DEF MoveShape
<1>5. QED
  BY <1>1, <1>2, <1>3, <1>4
  DEF Next, vars, changeVars, Clear, Crash, Preview, RequestApply,
      RequestRestore, Decline, Accept, TakeCheckpoint, CheckpointFails, Verify,
      VerifyFails, Write, WriteFails, Unlink, UnlinkFails, WrittenAll,
      CheckPasses, CheckFindsLeftover, CheckFails, Audit, AuditFails,
      RollbackChangeSet, Restore, Restored, RestoreFails, Edit

\* What the invariant says of a step that is not in the middle of a call.
LEMMA NotBusy ==
  ASSUME pc' \notin Busy
  PROVE  Progress' /\ Failing' /\ Restoring' /\ Abandoning'
BY DEF Busy, Progress, Failing, Restoring, Abandoning, Transaction

Position == Progress /\ Failing /\ Restoring /\ Abandoning

\* After the checkpoint no operation is done yet.
LEMMA TakeCheckpointPosition ==
  ASSUME RefinementInv, TakeCheckpoint
  PROVE  Position'
<1>1. /\ before' = fs /\ fs' = fs /\ ops' = ops /\ goal' = goal
      /\ pc = "checkpoint" /\ goal \in {"applied", "restored"}
      /\ safety' = made + 1 /\ made + 1 # 0
  BY EngineAssumption
  DEF TakeCheckpoint, RefinementInv, EngineInv, Waiting, TypeOK
<1>2. CASE goal = "applied"
  <2>1. pc' = "verify" /\ idx' = 1
    BY <1>2 DEF TakeCheckpoint
  <2>2. \A i \in DOMAIN ops : ~(i < 1)
    BY DEF RefinementInv, EngineInv, TypeOK
  <2>3. Progress'
    BY <1>1, <2>1, <2>2 DEF Progress, Untouched
  <2>4. QED
    BY <1>1, <2>1, <2>3
    DEF Position, Failing, Restoring, Abandoning
<1>3. CASE goal = "restored"
  <2>1. /\ pc' = "undo" /\ undo' = DOMAIN saved[source] /\ source' = source
        /\ source \in DOMAIN saved /\ source # made + 1
    BY <1>1, <1>3, EngineAssumption, SMTT(20)
    DEF TakeCheckpoint, RefinementInv, EngineInv, Waiting, TypeOK
  <2>2. /\ DOMAIN saved'[safety'] = DOMAIN saved[source]
        /\ source \in DOMAIN saved' => saved'[source] = saved[source]
    <3>1. made + 1 \in DOMAIN saved'
      <4>1. TakeCheckpoint => EngineInv'
        BY TakeCheckpointKeeps DEF RefinementInv
      <4>2. QED
        BY <1>1, <4>1 DEF EngineInv, Protected
    <3>2. QED
      BY <1>1, <1>3, <2>1, <3>1 DEF TakeCheckpoint
  <2>3. Own' = DOMAIN saved[source]
    BY <1>1, <2>1, <2>2 DEF Own, Busy
  <2>4. Restoring'
    BY <1>1, <1>3, <2>1, <2>2, <2>3 DEF Restoring
  <2>5. QED
    BY <1>1, <1>3, <2>1, <2>4
    DEF Position, Progress, Failing, Abandoning, Transaction
<1>4. QED
  BY <1>1, <1>2, <1>3

\* Verifying touches nothing.
LEMMA VerifyPosition ==
  ASSUME RefinementInv, Verify
  PROVE  Position'
<1>1. /\ pc = "verify" /\ pc' = "write" /\ touched' = touched \cup {idx}
      /\ Unchanged(ops[idx])
      /\ UNCHANGED <<fs, ops, idx, before>>
  BY DEF Verify, changeVars, safetyVars
<1>2. Progress'
  BY <1>1 DEF RefinementInv, Progress, Transaction, Untouched, Done, Unchanged
<1>3. QED
  BY <1>1, <1>2 DEF Position, Failing, Restoring, Abandoning

\* Writing the files of one operation leaves the others as they are.
LEMMA OthersUnwritten ==
  ASSUME RefinementInv, Apart, pc \in {"write", "unlink"},
         fs' \in {Written(ops[idx]), [fs EXCEPT ![ops[idx].path] = Absent]},
         NEW i \in DOMAIN ops, i # idx,
         UNCHANGED <<ops, before>>
  PROVE  /\ \A p \in OperationPaths(ops[i]) : fs'[p] = fs[p]
         /\ Done(i) => Done(i)'
         /\ Untouched(i) => Untouched(i)'
<1>1. EngineInv
  BY DEF RefinementInv
<1>2. OperationPaths(ops[i]) \subseteq Path /\ OperationPaths(ops[i]) \cap OperationPaths(ops[idx]) = {}
  BY <1>1, PathsOfOperations, OperationProtected DEF Apart, EngineInv, TypeOK
<1>3. \A p \in OperationPaths(ops[i]) : fs'[p] = fs[p]
  BY <1>1, <1>2, WrittenType
<1>4. QED
  BY <1>3 DEF Done, Untouched, OperationPaths

\* A write does the operation in progress, and no other.
LEMMA WritePosition ==
  ASSUME RefinementInv, Apart, Write
  PROVE  Position'
<1> DEFINE op == ops[idx]
<1>1. /\ pc = "write" /\ fs' = Written(op)
      /\ UNCHANGED <<ops, before, touched>>
      /\ op.type = "move" => pc' = "unlink" /\ idx' = idx
      /\ op.type # "move" => pc' = "verify" /\ idx' = idx + 1
  BY DEF Write, changeVars, safetyVars
<1>2. EngineInv /\ idx \in DOMAIN ops /\ idx \in Nat /\ DOMAIN ops \subseteq Nat
  BY <1>1, OperationProtected DEF RefinementInv, EngineInv, TypeOK
<1>3. op.path \in Path /\ op.dest \in Path /\ fs \in [Path -> Content]
  BY <1>1, <1>2, OperationProtected DEF FileOperation, EngineInv, TypeOK
<1>4. /\ Untouched(idx) /\ Unchanged(op) /\ idx \in touched
      /\ \A i \in DOMAIN ops : i < idx => Done(i) /\ i \in touched
      /\ \A i \in DOMAIN ops : i > idx => Untouched(i)
  BY <1>1, <1>2 DEF RefinementInv, Progress, Transaction
<1>5. \A i \in DOMAIN ops : i # idx => (Done(i) => Done(i)') /\ (Untouched(i) => Untouched(i)')
  BY <1>1, OthersUnwritten
<1>6. CASE op.type = "move"
  <2>1. op.dest # op.path /\ fs[op.path] = op.to /\ fs[op.path] = op.from
    BY <1>2, <1>4, <1>6 DEF RefinementInv, MoveShape, Unchanged
  <2>2. fs'[op.dest] = op.to /\ fs'[op.path] = fs[op.path]
    BY <1>1, <1>3, <1>6, <2>1 DEF Written
  <2>3. fs[op.path] = before[op.path]
    BY <1>4 DEF Untouched, OperationPaths
  <2>4. \A i \in DOMAIN ops : ~(i = idx /\ (i < idx \/ i > idx))
    BY <1>2
  <2>5. Unchanged(op)'
    BY <1>1, <1>6, <2>1, <2>2 DEF Unchanged
  <2>6. Progress'
    BY <1>1, <1>4, <1>5, <1>6, <2>2, <2>3, <2>4, <2>5 DEF Progress
  <2>7. QED
    BY <1>1, <1>6, <2>6 DEF Position, Failing, Restoring, Abandoning
<1>7. CASE op.type # "move"
  <2>1. op.dest = op.path
    BY <1>2, <1>7 DEF EngineInv, OperationShape
  <2>2. fs'[op.dest] = op.to
    BY <1>1, <1>3, <1>7 DEF Written
  <2>3. \A i \in DOMAIN ops : i = idx => Done(i)'
    BY <1>1, <1>7, <2>1, <2>2 DEF Done
  <2>4. \A i \in DOMAIN ops :
          /\ i < idx + 1 => i = idx \/ (i # idx /\ i < idx)
          /\ (i > idx + 1 \/ i = idx + 1) => i # idx /\ i > idx
    BY <1>2
  <2>5. \A i \in DOMAIN ops :
          /\ i < idx' => Done(i)' /\ i \in touched'
          /\ (i > idx' \/ i = idx') => Untouched(i)'
    BY <1>1, <1>4, <1>5, <1>7, <2>3, <2>4
  <2>6. Progress'
    BY <1>1, <1>7, <2>5 DEF Progress
  <2>7. QED
    BY <1>1, <1>7, <2>6 DEF Position, Failing, Restoring, Abandoning
<1>8. QED
  BY <1>6, <1>7

\* So does a removal.
LEMMA UnlinkPosition ==
  ASSUME RefinementInv, Apart, Unlink
  PROVE  Position'
<1> DEFINE op == ops[idx]
<1>1. /\ pc = "unlink" /\ fs' = [fs EXCEPT ![op.path] = Absent]
      /\ pc' = "verify" /\ idx' = idx + 1
      /\ UNCHANGED <<ops, before, touched>>
  BY DEF Unlink, changeVars, safetyVars
<1>2. EngineInv /\ idx \in DOMAIN ops /\ idx \in Nat /\ DOMAIN ops \subseteq Nat
  BY <1>1, OperationProtected DEF RefinementInv, EngineInv, TypeOK
<1>3. op.path \in Path /\ op.dest \in Path /\ fs \in [Path -> Content]
  BY <1>1, <1>2, OperationProtected DEF FileOperation, EngineInv, TypeOK
<1>4. /\ op.type = "move" /\ fs[op.dest] = op.to /\ idx \in touched
      /\ \A i \in DOMAIN ops : i < idx => Done(i) /\ i \in touched
      /\ \A i \in DOMAIN ops : i > idx => Untouched(i)
  BY <1>1, <1>2 DEF RefinementInv, Progress, Transaction
<1>5. \A i \in DOMAIN ops : i # idx => (Done(i) => Done(i)') /\ (Untouched(i) => Untouched(i)')
  BY <1>1, OthersUnwritten
<1>6. fs'[op.path] = Absent /\ fs'[op.dest] = op.to
  BY <1>1, <1>2, <1>3, <1>4 DEF RefinementInv, MoveShape
<1>7. \A i \in DOMAIN ops : i = idx => Done(i)'
  BY <1>1, <1>6 DEF Done
<1>8. \A i \in DOMAIN ops :
        /\ i < idx + 1 => i = idx \/ (i # idx /\ i < idx)
        /\ (i > idx + 1 \/ i = idx + 1) => i # idx /\ i > idx
  BY <1>2
<1>9. \A i \in DOMAIN ops :
        /\ i < idx' => Done(i)' /\ i \in touched'
        /\ (i > idx' \/ i = idx') => Untouched(i)'
  BY <1>1, <1>4, <1>5, <1>7, <1>8
<1>10. Progress'
  BY <1>1, <1>9 DEF Progress
<1>11. QED
  BY <1>1, <1>10 DEF Position, Failing, Restoring, Abandoning

\* Looking at the files changes none.
LEMMA LookPosition ==
  ASSUME RefinementInv, WrittenAll \/ CheckPasses
  PROVE  Position'
<1>1. /\ pc \in Transaction /\ pc' \in {"check", "audit"}
      /\ UNCHANGED <<fs, ops, before, touched, idx>>
  BY DEF WrittenAll, CheckPasses, changeVars, safetyVars, Transaction
<1>2. Progress'
  BY <1>1 DEF RefinementInv, Progress, Untouched, Done
<1>3. QED
  BY <1>1, <1>2 DEF Position, Failing, Restoring, Abandoning

\* Every file of a transaction is old or new, and old where its operation was
\* not touched.
LEMMA OldOrNew ==
  ASSUME RefinementInv, Apart, pc \in Transaction,
         NEW i \in DOMAIN ops, NEW p \in OperationPaths(ops[i])
  PROVE  /\ fs[p] \in {before[p], Target(ops)[p]}
         /\ i \notin touched => fs[p] = before[p]
<1>1. EngineInv /\ Reached /\ idx \in Nat /\ i \in Nat
  BY DEF RefinementInv, EngineInv, TypeOK
<1>2. CASE i < idx
  BY <1>1, <1>2, DoneTarget DEF RefinementInv, Progress
<1>3. CASE i > idx \/ (i = idx /\ pc \in {"verify", "write"})
  BY <1>3 DEF RefinementInv, Progress, Untouched
<1>4. CASE i = idx /\ pc = "unlink"
  <2>1. /\ i \in touched /\ fs[ops[i].dest] = ops[i].to
        /\ fs[ops[i].path] = before[ops[i].path]
    BY <1>4 DEF RefinementInv, Progress
  <2>2. p = ops[i].dest => Target(ops)[p] = ops[i].to
    BY <1>1, TargetOf
  <2>3. QED
    BY <2>1, <2>2 DEF OperationPaths
<1>5. ~(i = idx /\ pc \in {"check", "audit"})
  BY <1>1 DEF Reached, EngineInv, TypeOK
<1>6. QED
  BY <1>1, <1>2, <1>3, <1>4, <1>5 DEF Transaction

\* A transaction that is to be undone.
LEMMA UndoPosition ==
  ASSUME RefinementInv, pc \in Transaction, NEW files, Undo(files),
         UNCHANGED <<ops, saved>>,
         \A p \in ChangeSetPaths(ops) :
           /\ fs'[p] \in {before[p], Target(ops)[p]}
           /\ p \notin files => fs'[p] = before[p]
  PROVE  Position'
<1>1. /\ pc' = "undo" /\ goal' = "failed" /\ undo' = files
      /\ UNCHANGED <<source, safety, before>>
  BY DEF Undo, safetyVars
<1>2. /\ safety # 0 /\ source = safety
      /\ DOMAIN saved[safety] = ChangeSetPaths(ops)
  BY DEF RefinementInv, EngineInv, InTransaction
<1>3. Failing'
  BY <1>1, <1>2 DEF Failing
<1>4. QED
  BY <1>1, <1>3 DEF Position, Progress, Restoring, Abandoning, Transaction

\* Where a transaction fails, each file is as before or as it should be.
LEMMA FailPosition ==
  ASSUME Sheltered, RefinementInv, Apart, pc \in Transaction, FailTransaction,
         UNCHANGED <<ops, saved>>,
         \/ UNCHANGED fs
         \/ /\ pc = "write" /\ ops[idx].type = "create"
            /\ fs' = Written(ops[idx])
  PROVE  Position'
<1>1. EngineInv
  BY DEF RefinementInv
<1>2. CASE touched = {}
  BY <1>2, NotBusy DEF FailTransaction, GiveUp, EndCall, Busy, Position
<1>3. CASE touched # {}
  <2>1. Undo(TouchedFiles)
    BY <1>3 DEF FailTransaction
  <2>2. ASSUME NEW i \in touched
        PROVE  OperationPaths(ops[i]) \subseteq TouchedFiles
    <3>1. i \in DOMAIN ops /\ ops[i].form = "relative"
      <4>1. i \in DOMAIN ops
        BY <1>1 DEF EngineInv, TypeOK
      <4>2. ops[i] \in FileOperation
        BY <1>1, <4>1 DEF EngineInv, TypeOK
      <4>3. QED
        BY <4>1, <4>2 DEF FileOperation, Sheltered
    <3>2. QED
      BY <3>1 DEF TouchedFiles
  <2>3. ASSUME NEW p \in ChangeSetPaths(ops)
        PROVE  /\ fs[p] \in {before[p], Target(ops)[p]}
               /\ p \notin TouchedFiles => fs[p] = before[p]
    <3>1. PICK i \in DOMAIN ops : p \in OperationPaths(ops[i])
      BY DEF ChangeSetPaths
    <3>2. QED
      BY <2>2, <3>1, OldOrNew
  <2>4. CASE UNCHANGED fs
    BY <2>1, <2>3, <2>4, UndoPosition
  <2>5. CASE /\ pc = "write" /\ ops[idx].type = "create"
             /\ fs' = Written(ops[idx])
    <3>1. /\ idx \in DOMAIN ops /\ ops[idx].dest = ops[idx].path
          /\ OperationPaths(ops[idx]) = {ops[idx].dest} /\ idx \in touched
      BY <1>1, <2>5, OperationProtected
      DEF EngineInv, OperationShape, OperationPaths, RefinementInv, Progress
    <3>2. ops[idx].dest \in Path /\ fs \in [Path -> Content]
      BY <1>1, <2>5, <3>1, OperationProtected DEF EngineInv, TypeOK
    <3>3. /\ fs'[ops[idx].dest] = ops[idx].to
          /\ \A p \in Path : p # ops[idx].dest => fs'[p] = fs[p]
      BY <2>5, <3>2 DEF Written
    <3>4. Target(ops)[ops[idx].dest] = ops[idx].to
      BY <1>1, <3>1, TargetOf
    <3>5. ops[idx].dest \in TouchedFiles
      BY <2>2, <3>1
    <3>6. ChangeSetPaths(ops) \subseteq Path
      BY <1>1, PathsOfOperations DEF EngineInv, TypeOK
    <3>7. \A p \in ChangeSetPaths(ops) :
            /\ fs'[p] \in {before[p], Target(ops)[p]}
            /\ p \notin TouchedFiles => fs'[p] = before[p]
      BY <2>3, <3>3, <3>4, <3>5, <3>6
    <3>8. QED
      BY <2>1, <3>7, UndoPosition
  <2>6. QED
    BY <2>4, <2>5
<1>4. QED
  BY <1>2, <1>3

\* A check that fails has its transaction undone from the beginning.
LEMMA UndoAllPosition ==
  ASSUME RefinementInv, Apart, CheckFails \/ AuditFails
  PROVE  Position'
<1>1. /\ Undo(DOMAIN saved[source]) /\ pc \in Transaction
      /\ UNCHANGED <<fs, ops, saved>>
  BY DEF CheckFails, AuditFails, Transaction, diskVars
<1>2. DOMAIN saved[source] = ChangeSetPaths(ops)
  BY <1>1 DEF RefinementInv, EngineInv, InTransaction
<1>3. ASSUME NEW p \in ChangeSetPaths(ops)
      PROVE  fs[p] \in {before[p], Target(ops)[p]}
  <2>1. PICK i \in DOMAIN ops : p \in OperationPaths(ops[i])
    BY DEF ChangeSetPaths
  <2>2. QED
    BY <1>1, <2>1, OldOrNew
<1>4. QED
  BY <1>1, <1>2, <1>3, UndoPosition

\* A rollback begins with the files the checkpoint has.
LEMMA RollbackPosition ==
  ASSUME RefinementInv, RollbackChangeSet
  PROVE  Position'
<1>1. /\ pc' = "undo" /\ goal' = "rolled_back" /\ source' = checkpointId
      /\ undo' = DOMAIN saved[checkpointId] /\ safety' = 0 /\ before' = fs
      /\ checkpointId \in DOMAIN saved /\ saved' = saved /\ fs' = fs
  BY DEF RollbackChangeSet, diskVars
<1>2. Own' = DOMAIN saved[checkpointId]
  BY <1>1 DEF Own, Busy
<1>3. Restoring'
  BY <1>1, <1>2 DEF Restoring
<1>4. QED
  BY <1>1, <1>3 DEF Position, Progress, Failing, Abandoning, Transaction

\* A restored file is as the call will leave it.
LEMMA RestorePosition ==
  ASSUME RefinementInv, Restore
  PROVE  Position'
<1>1. PICK p \in undo :
        fs' = [fs EXCEPT ![p] = saved[source][p]] /\ undo' = undo \ {p}
  BY DEF Restore
<1>2. /\ pc = "undo" /\ source \in DOMAIN saved
      /\ UNCHANGED <<ops, saved, pc, goal, source, safety, before>>
  BY DEF Restore, changeVars, diskVars, safetyVars
<1>3. p \in Path /\ fs \in [Path -> Content] /\ Own \subseteq Path
  <2>1. TypeOK /\ (safety # 0 => safety \in DOMAIN saved)
    BY DEF RefinementInv, EngineInv, Protected
  <2>2. Own \subseteq Path
    BY <1>2, <2>1, ImageValues DEF Own, Busy, TypeOK
  <2>3. QED
    BY <2>1, <2>2 DEF TypeOK
<1>4. fs'[p] = saved[source][p] /\ \A q \in Path : q # p => fs'[q] = fs[q]
  BY <1>1, <1>3
<1>5. Own' = Own
  BY <1>2 DEF Own
<1>6. Progress'
  BY <1>2 DEF Progress, Transaction
<1>7. safety # 0 /\ source = safety =>
        p \in DOMAIN saved[safety] /\ fs'[p] = before[p]
  BY <1>2, <1>4 DEF RefinementInv, EngineInv, Undoing, Protected
<1>8. Failing'
  <2> SUFFICES ASSUME goal = "failed" PROVE Failing'
    BY <1>2 DEF Failing
  <2>1. /\ safety # 0 /\ source = safety
        /\ DOMAIN saved[safety] = ChangeSetPaths(ops)
        /\ \A q \in ChangeSetPaths(ops) :
             /\ fs[q] \in {before[q], Target(ops)[q]}
             /\ q \notin undo => fs[q] = before[q]
    BY <1>2 DEF RefinementInv, Failing
  <2>2. ChangeSetPaths(ops) \subseteq Path
    BY PathsOfOperations DEF RefinementInv, EngineInv, TypeOK
  <2>3. \A q \in ChangeSetPaths(ops) :
          /\ fs'[q] \in {before[q], Target(ops)[q]}
          /\ q \notin undo' => fs'[q] = before[q]
    BY <1>1, <1>4, <1>7, <2>1, <2>2
  <2>4. QED
    BY <1>2, <2>1, <2>3 DEF Failing
<1>9. Restoring'
  <2> SUFFICES ASSUME goal \in {"restored", "rolled_back"} PROVE Restoring'
    BY <1>2 DEF Restoring
  <2>1. /\ DOMAIN saved[source] = Own
        /\ \A q \in Own :
             /\ fs[q] \in {before[q], saved[source][q]}
             /\ q \notin undo => fs[q] = saved[source][q]
        /\ goal = "restored" <=> safety # 0
    BY <1>2 DEF RefinementInv, Restoring
  <2>2. \A q \in Own :
          /\ fs'[q] \in {before[q], saved[source][q]}
          /\ q \notin undo' => fs'[q] = saved[source][q]
    BY <1>1, <1>3, <1>4, <2>1
  <2>3. QED
    BY <1>2, <1>5, <2>1, <2>2 DEF Restoring
<1>10. Abandoning'
  <2> SUFFICES ASSUME goal = "abandoned" PROVE Abandoning'
    BY <1>2 DEF Abandoning
  <2>1. safety # 0 /\ source = safety
    BY <1>2 DEF RefinementInv, Abandoning
  <2>2. PICK k \in DOMAIN saved :
          /\ DOMAIN saved[k] = Own
          /\ \A q \in Own : fs[q] \in {before[q], saved[k][q]}
    BY <1>2 DEF RefinementInv, Abandoning
  <2>3. \A q \in Own : q \notin undo => fs[q] = before[q]
    BY <1>2 DEF RefinementInv, Abandoning
  <2>4. \A q \in Own : /\ fs'[q] \in {before[q], saved[k][q]}
                       /\ q \notin undo' => fs'[q] = before[q]
    BY <1>1, <1>3, <1>4, <1>7, <2>1, <2>2, <2>3
  <2>5. QED
    BY <1>2, <1>5, <2>1, <2>2, <2>4 DEF Abandoning
<1>11. QED
  BY <1>6, <1>8, <1>9, <1>10 DEF Position

\* A file that is not restored is as before or as it would be.
LEMMA RestoreFailsPosition ==
  ASSUME RefinementInv, RestoreFails
  PROVE  Position'
<1>1. CASE goal = "restored"
  <2>1. /\ pc = "undo" /\ goal' = "abandoned" /\ source' = safety
        /\ undo' = DOMAIN saved[safety]
        /\ UNCHANGED <<fs, saved, pc, safety, before>>
    BY <1>1 DEF RestoreFails, safetyVars, diskVars
  <2>2. safety # 0 /\ safety \in DOMAIN saved
    BY <1>1, <2>1 DEF RefinementInv, EngineInv, Undoing, Protected
  <2>3. Own = DOMAIN saved[safety] /\ Own' = Own
    BY <2>1, <2>2 DEF Own, Busy
  <2>4. \E k \in DOMAIN saved :
          /\ DOMAIN saved[k] = Own
          /\ \A p \in Own : fs[p] \in {before[p], saved[k][p]}
    <3>1. CASE source \in DOMAIN saved
      BY <1>1, <2>1, <3>1 DEF RefinementInv, Restoring
    <3>2. CASE source \notin DOMAIN saved
      BY <1>1, <2>1, <2>2, <2>3, <3>2 DEF RefinementInv, Restoring
    <3>3. QED
      BY <3>1, <3>2
  <2>5. Abandoning'
    BY <2>1, <2>2, <2>3, <2>4 DEF Abandoning
  <2>6. QED
    BY <2>1, <2>5 DEF Position, Progress, Failing, Restoring, Transaction
<1>2. CASE goal # "restored"
  BY <1>2, NotBusy DEF RestoreFails, EndCall, Busy, Position
<1>3. QED
  BY <1>1, <1>2

\* The files of a call are files.
LEMMA OwnFiles ==
  ASSUME RefinementInv
  PROVE  Own \subseteq Path
<1>1. EngineInv
  BY DEF RefinementInv
<1>2. CASE pc \in Transaction
  BY <1>1, <1>2, OwnOfTransaction, PathsOfOperations DEF EngineInv, TypeOK
<1>3. CASE pc = "undo" /\ safety # 0
  BY <1>1, <1>3, ImageValues DEF EngineInv, TypeOK, Protected, Own, Busy
<1>4. CASE pc \notin Busy
  BY <1>4 DEF Own
<1>5. CASE pc = "undo" /\ safety = 0
  <2>1. source \in DOMAIN saved
    BY <1>1, <1>5
    DEF RefinementInv, EngineInv, Undoing, Failing, Restoring, Abandoning
  <2>2. QED
    BY <1>1, <1>5, <2>1, ImageValues DEF EngineInv, TypeOK, Own, Busy
<1>6. QED
  BY <1>2, <1>3, <1>4, <1>5 DEF Busy, Transaction

\* Somebody edits a file that is none of the call's.
LEMMA EditElsewhere ==
  ASSUME Sheltered, RefinementInv, Edit
  PROVE  /\ Own' = Own
         /\ \A p \in Own : fs'[p] = fs[p]
         /\ \E p \in Path, c \in Content : p \notin Own /\ fs' = [fs EXCEPT ![p] = c]
         /\ UNCHANGED <<ops, saved, pc, goal, idx, touched, source, undo, safety,
                       before, told>>
<1>1. PICK p \in Path, c \in UserContent :
        p \notin Own /\ fs' = [fs EXCEPT ![p] = c]
  BY DEF Edit, Sheltered
<1>2. UNCHANGED <<ops, saved, pc, goal, idx, touched, source, undo, safety,
                  before, told>>
  BY DEF Edit, changeVars, diskVars, callVars
<1>3. fs \in [Path -> Content] /\ c \in Content
  BY EngineAssumption DEF RefinementInv, EngineInv, TypeOK
<1>4. Own' = Own
  BY <1>2 DEF Own
<1>5. \A q \in Own : fs'[q] = fs[q]
  <2>1. Own \subseteq Path
    BY OwnFiles
  <2>2. QED
    BY <1>1, <1>3, <2>1
<1>6. QED
  BY <1>1, <1>2, <1>3, <1>4, <1>5

\* Edits of other files do not move a call.
LEMMA EditPosition ==
  ASSUME Sheltered, RefinementInv, Edit
  PROVE  Position'
<1>1. /\ Own' = Own
      /\ \A p \in Own : fs'[p] = fs[p]
      /\ UNCHANGED <<ops, saved, pc, goal, idx, touched, source, undo, safety,
                    before, told>>
  BY EditElsewhere
<1>2. Progress'
  <2> SUFFICES ASSUME pc \in Transaction PROVE Progress'
    BY <1>1 DEF Progress
  <2>1. \A i \in DOMAIN ops : \A p \in OperationPaths(ops[i]) : fs'[p] = fs[p]
    BY <1>1, OwnOfTransaction DEF RefinementInv, ChangeSetPaths
  <2>2. \A i \in DOMAIN ops :
          fs'[ops[i].path] = fs[ops[i].path] /\ fs'[ops[i].dest] = fs[ops[i].dest]
    BY <2>1 DEF OperationPaths
  <2>3. \A i \in DOMAIN ops : (Done(i) => Done(i)') /\ (Untouched(i) => Untouched(i)')
    BY <1>1, <2>1, <2>2 DEF Done, Untouched
  <2>4. /\ \A i \in DOMAIN ops :
             /\ i < idx => Done(i) /\ i \in touched
             /\ (i > idx \/ (i = idx /\ pc \in {"verify", "write"})) => Untouched(i)
        /\ pc \in {"write", "unlink"} => idx \in touched /\ Unchanged(ops[idx])
        /\ pc = "unlink" =>
             /\ ops[idx].type = "move"
             /\ fs[ops[idx].dest] = ops[idx].to
             /\ fs[ops[idx].path] = before[ops[idx].path]
    BY DEF RefinementInv, Progress
  <2>5. pc \in {"write", "unlink"} => idx \in DOMAIN ops
    BY OperationProtected DEF RefinementInv
  <2>6. pc \in {"write", "unlink"} => Unchanged(ops[idx])'
    BY <1>1, <2>2, <2>4, <2>5 DEF Unchanged
  <2>7. pc = "unlink" =>
          /\ fs'[ops[idx].dest] = ops[idx].to
          /\ fs'[ops[idx].path] = before[ops[idx].path]
    BY <2>2, <2>4, <2>5
  <2>8. QED
    BY <1>1, <2>3, <2>4, <2>6, <2>7 DEF Progress
<1>3. Failing'
  <2> SUFFICES ASSUME pc = "undo", goal = "failed" PROVE Failing'
    BY <1>1 DEF Failing
  <2>1. Own = ChangeSetPaths(ops)
    BY DEF RefinementInv, Failing, Own, Busy
  <2>2. QED
    BY <1>1, <2>1 DEF RefinementInv, Failing
<1>4. Restoring'
  BY <1>1 DEF RefinementInv, Restoring
<1>5. Abandoning'
  BY <1>1 DEF RefinementInv, Abandoning
<1>6. QED
  BY <1>2, <1>3, <1>4, <1>5 DEF Position

\* Every step keeps RefinementInv.
LEMMA NextPosition ==
  ASSUME Sheltered, RefinementInv, [Next]_vars
  PROVE  Position'
<1> USE DEF Position
<1>1. Apart
  BY DisjointApart DEF RefinementInv, Sheltered, OneForm
<1>2. CASE TakeCheckpoint \/ Verify \/ Write \/ Unlink \/ WrittenAll \/ CheckPasses
  BY <1>1, <1>2, TakeCheckpointPosition, VerifyPosition, WritePosition,
     UnlinkPosition, LookPosition
<1>3. CASE VerifyFails \/ UnlinkFails
  BY <1>1, <1>3, FailPosition DEF VerifyFails, UnlinkFails, diskVars, Transaction
<1>4. CASE WriteFails
  BY <1>1, <1>4, FailPosition DEF WriteFails, diskVars, Transaction
<1>5. CASE CheckFails \/ AuditFails
  BY <1>1, <1>5, UndoAllPosition
<1>6. CASE RollbackChangeSet \/ Restore \/ RestoreFails \/ Edit
  BY <1>6, RollbackPosition, RestorePosition, RestoreFailsPosition, EditPosition
<1>7. CASE Decline \/ CheckpointFails \/ CheckFindsLeftover \/ Audit \/ Restored \/ Crash
  BY <1>7, NotBusy
  DEF Decline, CheckpointFails, CheckFindsLeftover, GiveUp, Audit, Restored,
      Crash, EndCall, Busy
<1>8. CASE Accept
  BY <1>8, NotBusy DEF Accept, EndCall, Busy
<1>9. CASE Prepare \/ Remove \/ Clear \/ Preview \/ RequestApply \/ RequestRestore
  BY <1>9, NotBusy
  DEF Prepare, Remove, Clear, Preview, RequestApply, RequestRestore, Busy
<1>10. CASE UNCHANGED vars
  BY <1>10
  DEF vars, changeVars, diskVars, callVars, safetyVars, RefinementInv, Progress,
      Failing, Restoring, Abandoning, Untouched, Done, Unchanged, Own
<1>11. QED
  BY <1>2, <1>3, <1>4, <1>5, <1>6, <1>7, <1>8, <1>9, <1>10 DEF Next

\* Every step keeps EngineInv and RefinementInv.
LEMMA NextRefinement ==
  ASSUME Sheltered, RefinementInv, [Next]_vars
  PROVE  RefinementInv'
<1>1. Apart
  BY DisjointApart DEF RefinementInv, Sheltered, OneForm
<1>2. EngineInv' /\ Disjoint(ops)' /\ Reached' /\ MoveShape'
  BY <1>1, NextEngine, NextApart, NextReached, NextMoveShape DEF RefinementInv
<1>3. QED
  BY <1>2, NextPosition DEF RefinementInv, Position

-----------------------------------------------------------------------------
(***************************************************************************)
(* Every step is a step of AtomicWorkspace or changes nothing of it.       *)
(***************************************************************************)
Same == UNCHANGED <<View, Backups, Target(ops), told>>

\* What the user sees is a workspace.
LEMMA ViewType ==
  ASSUME EngineInv
  PROVE  /\ View \in [Path -> Content]
         /\ fs \in [Path -> Content] /\ before \in [Path -> Content]
BY DEF View, EngineInv, TypeOK

\* A step in the middle of a call that changes files of the call only is none
\* that the user sees.
LEMMA InCall ==
  ASSUME RefinementInv, pc \in Busy, pc' \in Busy,
         UNCHANGED <<ops, saved, safety, before, told>>,
         safety = 0 => UNCHANGED source,
         \A p \in Path : p \notin Own => fs'[p] = fs[p]
  PROVE  Same
<1>1. Own' = Own
  BY DEF Own
<1>2. View' = View
  BY <1>1 DEF View
<1>3. Backups' = Backups
  BY DEF Backups
<1>4. QED
  BY <1>2, <1>3 DEF Same

\* What a call does before its end leaves the abstract workspace as it is.
LEMMA CallSteps ==
  ASSUME RefinementInv,
         \/ Verify \/ Write \/ Unlink \/ WrittenAll \/ CheckPasses
         \/ CheckFails \/ AuditFails \/ Restore
         \/ RestoreFails /\ goal = "restored"
  PROVE  Same
<1>1. pc \in Busy /\ pc' \in Busy
  BY DEF Verify, Write, Unlink, WrittenAll, CheckPasses, CheckFails, AuditFails,
         Undo, Restore, RestoreFails, Busy
<1>2. UNCHANGED <<ops, saved, safety, before, told>>
  BY DEF Verify, Write, Unlink, WrittenAll, CheckPasses, CheckFails, AuditFails,
         Undo, Restore, RestoreFails, changeVars, diskVars, safetyVars
<1>3. safety = 0 => UNCHANGED source
  BY DEF Verify, Write, Unlink, WrittenAll, CheckPasses, CheckFails, AuditFails,
         Undo, Restore, RestoreFails, RefinementInv, Restoring
<1>4. \A p \in Path : p \notin Own => fs'[p] = fs[p]
  <2>1. CASE Write \/ Unlink
    <3>1. OperationPaths(ops[idx]) \subseteq Own
      BY <2>1, OwnOfTransaction, OperationProtected, PathsOfOperations
      DEF Write, Unlink, Transaction, RefinementInv, EngineInv, TypeOK
    <3>2. \A p \in Path \ OperationPaths(ops[idx]) : fs'[p] = fs[p]
      BY <2>1, WrittenType DEF Write, Unlink, RefinementInv
    <3>3. QED
      BY <3>1, <3>2
  <2>2. CASE Restore
    <3>1. undo \subseteq Own
      BY <2>2 DEF Restore, Own, Busy, RefinementInv, EngineInv, Undoing
    <3>2. fs \in [Path -> Content]
      BY DEF RefinementInv, EngineInv, TypeOK
    <3>3. QED
      BY <2>2, <3>1, <3>2 DEF Restore
  <2>3. CASE UNCHANGED fs
    BY <2>3
  <2>4. QED
    BY <2>1, <2>2, <2>3
    DEF Verify, WrittenAll, CheckPasses, CheckFails, AuditFails, RestoreFails
<1>5. QED
  BY <1>1, <1>2, <1>3, <1>4, InCall

\* Steps while no call changes files: only the ChangeSet may be another.
LEMMA IdleSteps ==
  ASSUME RefinementInv,
         \/ Prepare \/ Remove \/ Clear \/ Preview
         \/ RequestApply \/ RequestRestore \/ (Accept /\ (goal = "applied" => CanApply))
         \/ (Crash /\ pc \notin Busy)
  PROVE  A!Propose
<1>1. pc \notin Busy /\ pc' \notin Busy
  BY DEF Prepare, Remove, Clear, Preview, RequestApply, RequestRestore, Accept,
         Crash, EndCall, Busy
<1>2. UNCHANGED <<fs, saved, told>>
  BY DEF Prepare, Remove, Clear, Preview, RequestApply, RequestRestore, Accept,
         Crash, EndCall, diskVars
<1>3. View' = View /\ Backups' = Backups
  BY <1>1, <1>2 DEF View, Own, Backups
<1>4. ops' \in Seq(FileOperation)
  BY PrepareKeeps, RemoveKeeps, ClearKeeps, PreviewKeeps, RequestKeeps,
     AcceptKeeps, CrashKeeps
  DEF RefinementInv, EngineInv, TypeOK
<1>5. Target(ops)' \in A!Image
  BY <1>4, TargetImage DEF Image, A!Image
<1>6. QED
  BY <1>2, <1>3, <1>5 DEF A!Propose

\* The beginning of a rollback leaves it as it is.
LEMMA RollbackStep ==
  ASSUME RefinementInv, RollbackChangeSet
  PROVE  Same
<1>1. /\ pc = "idle" /\ before' = fs
      /\ UNCHANGED <<fs, ops, saved, told>>
  BY DEF RollbackChangeSet, changeVars, diskVars
<1>2. View' = View
  BY <1>1 DEF View, Own, Busy
<1>3. QED
  BY <1>1, <1>2 DEF Same, Backups

\* The checkpoint of a call is one of the abstract workspace.
LEMMA CheckpointStep ==
  ASSUME RefinementInv, TakeCheckpoint
  PROVE  A!BackUp
<1> DEFINE id == made + 1
           paths == IF goal = "applied" THEN ChangeSetPaths(ops)
                    ELSE DOMAIN saved[source]
           kept == {saved[k] : k \in Kept(DOMAIN saved \cup {id}) \ {id}}
<1>1. EngineInv /\ EngineInv'
  BY TakeCheckpointKeeps DEF RefinementInv
<1>2. /\ pc = "checkpoint" /\ before' = fs /\ safety' = id /\ id # 0
      /\ saved' = [k \in Kept(DOMAIN saved \cup {id}) |->
                    IF k = id THEN [p \in paths |-> fs[p]] ELSE saved[k]]
      /\ UNCHANGED <<fs, ops, told>>
  BY <1>1, EngineAssumption DEF TakeCheckpoint, EngineInv, TypeOK
<1>3. View = fs /\ View' = fs
  BY <1>1, <1>2, QuietView DEF View, Busy, EngineInv, TypeOK
<1>4. id \in DOMAIN saved'
  BY <1>1, <1>2 DEF EngineInv, Protected
<1>5. paths \subseteq Path
  BY <1>1, PathsOfOperations, ImageValues
  DEF TakeCheckpoint, EngineInv, TypeOK, Waiting
<1>6. kept \subseteq Backups
  <2>1. Kept(DOMAIN saved \cup {id}) \ {id} \subseteq DOMAIN saved
    BY DEF Kept
  <2>2. QED
    BY <2>1 DEF Backups
<1>7. Backups' = kept \cup {[p \in paths |-> View[p]]}
  <2> HIDE DEF paths, id
  <2>1. DOMAIN saved' = Kept(DOMAIN saved \cup {id})
    BY <1>2
  <2>2. saved'[id] = [p \in paths |-> View[p]]
    BY <1>2, <1>3, <1>4, <2>1
  <2>3. \A k \in DOMAIN saved' : k # id => saved'[k] = saved[k]
    BY <1>2, <2>1
  <2>4. QED
    BY <1>4, <2>1, <2>2, <2>3 DEF Backups
<1> HIDE DEF paths, kept, id
<1>8. QED
  BY <1>2, <1>3, <1>5, <1>6, <1>7 DEF A!BackUp

\* An edit is an edit of the abstract workspace.
LEMMA EditStep ==
  ASSUME Sheltered, RefinementInv, Edit
  PROVE  A!Edit
<1>1. PICK p \in Path, c \in Content : p \notin Own /\ fs' = [fs EXCEPT ![p] = c]
  BY EditElsewhere
<1>2. Own' = Own /\ UNCHANGED <<ops, saved, before, told>>
  BY EditElsewhere
<1>3. fs \in [Path -> Content]
  BY DEF RefinementInv, EngineInv, TypeOK
<1>4. View' = [View EXCEPT ![p] = c]
  <2>1. View' = [q \in Path |-> IF q \in Own THEN before[q] ELSE fs'[q]]
    BY <1>2 DEF View
  <2>2. \A q \in Path : fs'[q] = IF q = p THEN c ELSE fs[q]
    BY <1>1, <1>3
  <2>3. QED
    BY <1>1, <2>1, <2>2 DEF View
<1>5. QED
  BY <1>2, <1>4 DEF A!Edit, Backups

\* A call that ends with failure and nothing to be seen of it.
LEMMA FailStep ==
  ASSUME View' = View, UNCHANGED ops, Backups' \subseteq Backups,
         told' \in {"failed", "none"}
  PROVE  A!Fail
BY DEF A!Fail

\* A call that is refused, or gets no checkpoint, fails there.
LEMMA RefusedSteps ==
  ASSUME RefinementInv,
         \/ Decline
         \/ Accept /\ ~(goal = "applied" => CanApply)
         \/ CheckpointFails
  PROVE  A!Fail
<1>1. /\ pc \notin Busy /\ pc' \notin Busy /\ told' \in {"failed", "none"}
      /\ UNCHANGED <<fs, ops>>
  BY DEF Decline, Accept, CheckpointFails, EndCall, Busy, changeVars
<1>2. View' = View
  BY <1>1 DEF View, Own
<1>3. Backups' \subseteq Backups
  <2>1. CASE CheckpointFails
    <3>1. PICK kept \in {DOMAIN saved, Kept(DOMAIN saved \cup {made + 1}) \ {made + 1}} :
            saved' = [k \in kept |-> saved[k]]
      BY <2>1 DEF CheckpointFails
    <3>2. kept \subseteq DOMAIN saved
      BY DEF Kept
    <3>3. QED
      BY <3>1, <3>2 DEF Backups
  <2>2. CASE UNCHANGED saved
    BY <2>2 DEF Backups
  <2>3. QED
    BY <2>1, <2>2 DEF Decline, Accept, diskVars
<1>4. QED
  BY <1>1, <1>2, <1>3, FailStep

\* A transaction fails before it has touched a file, or its undoing begins.
LEMMA FailedSteps ==
  ASSUME Sheltered, RefinementInv, Apart, VerifyFails \/ WriteFails \/ UnlinkFails
  PROVE  Same \/ A!Fail
<1>1. /\ pc \in {"verify", "write", "unlink"} /\ FailTransaction
      /\ UNCHANGED <<ops, saved>>
  BY DEF VerifyFails, WriteFails, UnlinkFails, diskVars
<1>2. EngineInv /\ Own = ChangeSetPaths(ops)
  BY <1>1, OwnOfTransaction DEF RefinementInv, Transaction
<1>3. CASE touched = {}
  <2>1. pc = "verify" /\ UNCHANGED fs
    BY <1>1, <1>3 DEF VerifyFails, WriteFails, UnlinkFails, RefinementInv, Progress, Transaction
  <2>2. \A p \in Own : fs[p] = before[p]
    BY <1>1, <1>2, <1>3, OldOrNew DEF ChangeSetPaths, Transaction
  <2>3. pc' = "idle" /\ told' = "failed"
    BY <1>1, <1>3 DEF FailTransaction, GiveUp, EndCall
  <2>4. View' = View
    BY <2>1, <2>2, <2>3 DEF View, Own, Busy
  <2>5. QED
    BY <1>1, <2>3, <2>4, FailStep DEF Backups
<1>4. CASE touched # {}
  <2>1. Undo(TouchedFiles)
    BY <1>1, <1>4 DEF FailTransaction
  <2>2. \A p \in Path : p \notin Own => fs'[p] = fs[p]
    <3>1. CASE UNCHANGED fs
      BY <3>1
    <3>2. CASE pc = "write" /\ fs' = Written(ops[idx])
      <4>1. OperationPaths(ops[idx]) \subseteq Own
        BY <1>2, <3>2, OperationProtected, PathsOfOperations DEF EngineInv, TypeOK
      <4>2. QED
        BY <1>2, <3>2, <4>1, WrittenType
    <3>3. QED
      BY <3>1, <3>2 DEF VerifyFails, WriteFails, UnlinkFails
  <2>3. Same
    BY <1>1, <2>1, <2>2, InCall DEF Undo, safetyVars, Busy
  <2>4. QED
    BY <2>3
<1>5. QED
  BY <1>3, <1>4

\* Nobody but the transaction changes its files: after the last operation none
\* is left behind.
LEMMA NoLeftover ==
  ASSUME RefinementInv, CheckFindsLeftover
  PROVE  FALSE
<1>1. pc = "check" /\ \E i \in DOMAIN ops : Leftover(ops[i])
  BY DEF CheckFindsLeftover
<1>2. PICK i \in DOMAIN ops : Leftover(ops[i])
  BY <1>1
<1>3. idx > Len(ops) /\ DOMAIN ops = 1 .. Len(ops) /\ idx \in Nat /\ Len(ops) \in Nat
  BY <1>1 DEF RefinementInv, Reached, EngineInv, TypeOK
<1>4. Done(i)
  BY <1>1, <1>3 DEF RefinementInv, Progress, Transaction
<1>5. ops[i].type = "delete" => ops[i].to = Absent /\ ops[i].dest = ops[i].path
  BY DEF RefinementInv, EngineInv, OperationShape
<1>6. ops[i].type = "move" => ops[i].dest # ops[i].path
  BY DEF RefinementInv, MoveShape
<1>7. QED
  BY <1>2, <1>4, <1>5, <1>6 DEF Leftover, Done

\* The checkpoint of a transaction is a backup of what the user sees.
LEMMA SavedIsBackup ==
  ASSUME RefinementInv, pc \in Busy, safety # 0,
         DOMAIN saved[safety] = ChangeSetPaths(ops)
  PROVE  /\ A!BackedUp(DOMAIN Target(ops))
         /\ Own = ChangeSetPaths(ops) /\ DOMAIN Target(ops) = ChangeSetPaths(ops)
<1>1. Own = ChangeSetPaths(ops)
  BY DEF Own
<1>2. DOMAIN Target(ops) = ChangeSetPaths(ops)
  BY DEF Target
<1>3. /\ safety \in DOMAIN saved /\ saved[safety] \in Image
      /\ \A p \in DOMAIN saved[safety] : saved[safety][p] = before[p]
  BY DEF RefinementInv, EngineInv, Protected, TypeOK
<1>4. ChangeSetPaths(ops) \subseteq Path
  BY PathsOfOperations DEF RefinementInv, EngineInv, TypeOK
<1>5. saved[safety] = [p \in ChangeSetPaths(ops) |-> View[p]]
  <2>1. saved[safety] = [p \in ChangeSetPaths(ops) |-> saved[safety][p]]
    <3>1. PICK D \in SUBSET Path : saved[safety] \in [D -> Content]
      BY <1>3 DEF Image
    <3>2. QED
      BY <3>1
  <2>2. \A p \in ChangeSetPaths(ops) : View[p] = before[p]
    BY <1>1, <1>4 DEF View
  <2>3. QED
    BY <1>3, <2>1, <2>2
<1>6. saved[safety] \in Backups
  BY <1>3 DEF Backups
<1>7. QED
  BY <1>1, <1>2, <1>5, <1>6 DEF A!BackedUp

\* The whole change appears at once.
LEMMA AuditStep ==
  ASSUME RefinementInv, Apart, Audit
  PROVE  A!Commit
<1>1. /\ pc = "audit" /\ pc' = "idle" /\ told' = "done"
      /\ UNCHANGED <<fs, ops, saved>>
  BY DEF Audit, EndCall, diskVars
<1>2. safety # 0 /\ DOMAIN saved[safety] = ChangeSetPaths(ops)
  BY <1>1 DEF RefinementInv, EngineInv, InTransaction, Transaction
<1>3. /\ A!BackedUp(DOMAIN Target(ops))
      /\ Own = ChangeSetPaths(ops) /\ DOMAIN Target(ops) = ChangeSetPaths(ops)
  BY <1>1, <1>2, SavedIsBackup DEF Busy
<1>4. ASSUME NEW p \in ChangeSetPaths(ops)
      PROVE  fs[p] = Target(ops)[p]
  <2>1. PICK i \in DOMAIN ops : p \in OperationPaths(ops[i])
    BY DEF ChangeSetPaths
  <2>2. idx > Len(ops) /\ DOMAIN ops = 1 .. Len(ops) /\ idx \in Nat /\ Len(ops) \in Nat
    BY <1>1 DEF RefinementInv, Reached, EngineInv, TypeOK
  <2>3. Done(i)
    BY <1>1, <2>2 DEF RefinementInv, Progress, Transaction
  <2>4. QED
    BY <2>1, <2>3, DoneTarget DEF RefinementInv
<1>5. View' = [p \in Path |-> IF p \in DOMAIN Target(ops) THEN Target(ops)[p] ELSE View[p]]
  <2>1. View' = [p \in Path |-> fs[p]]
    BY <1>1 DEF View, Own, Busy
  <2>2. \A p \in Path : fs[p] = IF p \in DOMAIN Target(ops) THEN Target(ops)[p] ELSE View[p]
    BY <1>3, <1>4 DEF View
  <2>3. QED
    BY <2>1, <2>2
<1>6. QED
  BY <1>1, <1>3, <1>5 DEF A!Commit, A!With, Backups

\* Where nothing is left to restore the whole call shows at once.
LEMMA RestoredStep ==
  ASSUME RefinementInv, Restored
  PROVE  A!Restore \/ A!Fail
<1>1. /\ pc = "undo" /\ pc' = "idle" /\ undo = {} /\ source \in DOMAIN saved
      /\ UNCHANGED <<fs, ops, saved>>
  BY DEF Restored, EndCall, diskVars
<1>2. View' = [p \in Path |-> fs[p]]
  BY <1>1 DEF View, Own, Busy
<1>3. CASE goal \in {"restored", "rolled_back"}
  <2>1. told' = "done"
    BY <1>3 DEF Restored, EndCall
  <2>2. DOMAIN saved[source] = Own /\ \A p \in Own : fs[p] = saved[source][p]
    BY <1>1, <1>3 DEF RefinementInv, Restoring
  <2>3. View' = [p \in Path |-> IF p \in DOMAIN saved[source] THEN saved[source][p] ELSE View[p]]
    <3>1. \A p \in Path : fs[p] = IF p \in DOMAIN saved[source] THEN saved[source][p] ELSE View[p]
      BY <2>2 DEF View
    <3>2. QED
      BY <1>2, <3>1
  <2>4. saved[source] \in Backups
    BY <1>1 DEF Backups
  <2>5. QED
    BY <1>1, <2>1, <2>3, <2>4 DEF A!Restore, A!With, Backups
<1>4. CASE goal \notin {"restored", "rolled_back"}
  <2>1. told' = "failed"
    BY <1>4 DEF Restored, EndCall
  <2>2. \A p \in Own : fs[p] = before[p]
    <3>1. CASE goal = "abandoned"
      BY <1>1, <3>1 DEF RefinementInv, Abandoning
    <3>2. CASE goal = "failed"
      <4>1. Own = ChangeSetPaths(ops)
        BY <1>1, <3>2 DEF RefinementInv, Failing, Own, Busy
      <4>2. QED
        BY <1>1, <3>2, <4>1 DEF RefinementInv, Failing
    <3>3. QED
      BY <1>1, <1>4, <3>1, <3>2 DEF RefinementInv, EngineInv, Undoing
  <2>3. View' = View
    BY <1>2, <2>2 DEF View
  <2>4. QED
    BY <1>1, <2>1, <2>3, FailStep DEF Backups
<1>5. QED
  BY <1>3, <1>4

\* What a call has left of the files when it ends in the middle.
LEMMA Torn ==
  ASSUME RefinementInv, Apart, pc \in Busy, View' = [p \in Path |-> fs[p]],
         told' = "torn", Target(ops)' \in {Target(ops), A!NoChange}, UNCHANGED saved
  PROVE  A!Tear
<1> DEFINE new == {p \in Own : fs[p] # before[p]}
<1>1. Own \subseteq Path /\ Backups' = Backups
  BY OwnFiles DEF Backups
<1>2. CASE pc \in Transaction \/ goal = "failed"
  <2>1. safety # 0 /\ DOMAIN saved[safety] = ChangeSetPaths(ops)
    BY <1>2 DEF RefinementInv, EngineInv, InTransaction, Reached, Failing
  <2>2. /\ A!BackedUp(DOMAIN Target(ops))
        /\ Own = ChangeSetPaths(ops) /\ DOMAIN Target(ops) = ChangeSetPaths(ops)
    BY <2>1, SavedIsBackup
  <2>3. ASSUME NEW p \in new
        PROVE  fs[p] = Target(ops)[p]
    <3>1. PICK i \in DOMAIN ops : p \in OperationPaths(ops[i])
      BY <2>2 DEF ChangeSetPaths
    <3>2. CASE pc \in Transaction
      BY <3>1, <3>2, OldOrNew
    <3>3. CASE goal = "failed"
      BY <2>2, <3>3 DEF RefinementInv, Reached, Failing
    <3>4. QED
      BY <1>2, <3>2, <3>3
  <2>4. View' = [p \in Path |-> IF p \in new THEN Target(ops)[p] ELSE View[p]]
    <3>1. \A p \in Path : fs[p] = IF p \in new THEN Target(ops)[p] ELSE View[p]
      BY <2>3 DEF View
    <3>2. QED
      BY <3>1
  <2>5. new \in SUBSET DOMAIN Target(ops)
    BY <2>2
  <2> HIDE DEF new
  <2>6. QED
    BY <1>1, <2>2, <2>4, <2>5 DEF A!Tear, A!With
<1>3. CASE pc = "undo" /\ goal # "failed"
  <2>1. PICK k \in DOMAIN saved :
          /\ DOMAIN saved[k] = Own
          /\ \A p \in Own : fs[p] \in {before[p], saved[k][p]}
    <3>1. CASE goal = "abandoned"
      BY <1>3, <3>1 DEF RefinementInv, Abandoning
    <3>2. CASE goal \in {"restored", "rolled_back"} /\ source \in DOMAIN saved
      BY <1>3, <3>2 DEF RefinementInv, Restoring
    <3>3. CASE goal \in {"restored", "rolled_back"} /\ source \notin DOMAIN saved
      <4>1. safety # 0 /\ \A p \in Own : fs[p] = before[p]
        BY <1>3, <3>3 DEF RefinementInv, Restoring
      <4>2. safety \in DOMAIN saved /\ Own = DOMAIN saved[safety]
        BY <1>3, <4>1 DEF RefinementInv, EngineInv, Protected, Own, Busy
      <4>3. QED
        BY <4>1, <4>2
    <3>4. QED
      BY <1>3, <3>1, <3>2, <3>3 DEF RefinementInv, EngineInv, Undoing
  <2>2. View' = [p \in Path |-> IF p \in new THEN saved[k][p] ELSE View[p]]
    <3>1. \A p \in Path : fs[p] = IF p \in new THEN saved[k][p] ELSE View[p]
      BY <2>1 DEF View
    <3>2. QED
      BY <3>1
  <2>3. new \in SUBSET DOMAIN saved[k] /\ saved[k] \in Backups
    BY <2>1 DEF Backups
  <2> HIDE DEF new
  <2>4. QED
    BY <1>1, <2>2, <2>3 DEF A!Tear, A!With
<1>4. QED
  BY <1>2, <1>3 DEF Busy, Transaction

\* A crash or a failed undoing tears the call.
LEMMA TornSteps ==
  ASSUME RefinementInv, Apart,
         (RestoreFails /\ goal # "restored") \/ (Crash /\ pc \in Busy)
  PROVE  A!Tear
<1>1. /\ pc \in Busy /\ pc' = "idle" /\ told' = "torn"
      /\ UNCHANGED <<fs, saved>> /\ ops' \in {ops, <<>>}
  BY DEF RestoreFails, Crash, EndCall, diskVars, Busy
<1>2. View' = [p \in Path |-> fs[p]]
  BY <1>1 DEF View, Own, Busy
<1>3. Target(<<>>) = A!NoChange
  <2>1. ChangeSetPaths(<<>>) = {}
    BY DEF ChangeSetPaths
  <2>2. QED
    BY <2>1 DEF Target, A!NoChange
<1>4. Target(ops)' \in {Target(ops), A!NoChange}
  BY <1>1, <1>3
<1>5. QED
  BY <1>1, <1>2, <1>4, Torn

\* The initial state is one of the abstract workspace.
LEMMA InitAtomic == Init => A!Init
<1> SUFFICES ASSUME Init PROVE A!Init
  OBVIOUS
<1>1. View \in [Path -> Content]
  BY InitEngine, ViewType
<1>2. Backups = {}
  BY DEF Init, Backups
<1>3. Target(ops) = A!NoChange
  <2>1. ChangeSetPaths(ops) = {}
    BY DEF Init, ChangeSetPaths
  <2>2. QED
    BY <2>1 DEF Target, A!NoChange
<1>4. QED
  BY <1>1, <1>2, <1>3 DEF Init, A!Init

\* Every step of the engine is a step of AtomicWorkspace, or none.
LEMMA NextAtomic ==
  ASSUME Sheltered, RefinementInv, [Next]_vars
  PROVE  A!Next \/ Same
<1>1. Apart
  BY DisjointApart DEF RefinementInv, Sheltered, OneForm
<1>2. CASE \/ Prepare \/ Remove \/ Clear \/ Preview \/ RequestApply \/ RequestRestore
           \/ (Crash /\ pc \notin Busy)
  <2>1. A!Propose
    BY <1>2, IdleSteps
  <2>2. QED
    BY <2>1 DEF A!Next
<1>3. CASE Accept
  BY <1>3, IdleSteps, RefusedSteps DEF A!Next
<1>4. CASE Decline \/ CheckpointFails
  BY <1>4, RefusedSteps DEF A!Next
<1>5. CASE TakeCheckpoint
  BY <1>5, CheckpointStep DEF A!Next
<1>6. CASE Verify \/ Write \/ Unlink \/ WrittenAll \/ CheckPasses \/ CheckFails
           \/ AuditFails \/ Restore \/ (RestoreFails /\ goal = "restored")
  BY <1>6, CallSteps
<1>7. CASE VerifyFails \/ WriteFails \/ UnlinkFails
  BY <1>1, <1>7, FailedSteps DEF A!Next
<1>8. CASE CheckFindsLeftover
  BY <1>8, NoLeftover
<1>9. CASE Audit
  BY <1>1, <1>9, AuditStep DEF A!Next
<1>10. CASE RollbackChangeSet
  BY <1>10, RollbackStep
<1>11. CASE Restored
  BY <1>11, RestoredStep DEF A!Next
<1>12. CASE (RestoreFails /\ goal # "restored") \/ (Crash /\ pc \in Busy)
  BY <1>1, <1>12, TornSteps DEF A!Next
<1>13. CASE Edit
  BY <1>13, EditStep DEF A!Next
<1>14. CASE UNCHANGED vars
  BY <1>14
  DEF vars, changeVars, diskVars, callVars, safetyVars, View, Own, Backups, Same
<1>15. QED
  BY <1>2, <1>3, <1>4, <1>5, <1>6, <1>7, <1>8, <1>9, <1>10, <1>11, <1>12, <1>13,
     <1>14
  DEF Next

\* As long as nobody edits the files of a running call and files are named in
\* one way, the engine keeps the promises of AtomicWorkspace: a change that is
\* reported as done has happened as a whole, one that is reported as failed has
\* not happened at all, and after a crash or a failed undoing every file is old
\* or new and backed up (LocalChangeService.applyChangeSet, restoreCheckpoint
\* and rollbackAppliedChangeSet with TransactionManager.apply).
THEOREM EngineIsAtomic ==
  ASSUME Sheltered
  PROVE  Spec => Atomic
<1>1. RefinementInv /\ [Next]_vars => RefinementInv'
  BY NextRefinement
<1>2. RefinementInv /\ [Next]_vars => [A!Next]_<<View, Backups, Target(ops), told>>
  BY NextAtomic DEF Same
<1>3. QED
  BY <1>1, <1>2, InitRefinement, InitAtomic, PTL DEF Spec, Atomic, A!Spec
=============================================================================

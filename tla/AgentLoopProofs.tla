-------------------------- MODULE AgentLoopProofs --------------------------
(***************************************************************************)
(* Theorems about the agent's loop, for every limit of steps, calls,       *)
(* operations and repairs, every model and every answer of the user.       *)
(***************************************************************************)
EXTENDS AgentLoop, TLAPS

\* At least one step and one call are allowed.
LEMMA LoopBounds == MaxSteps \in Nat \ {0} /\ MaxCalls \in Nat \ {0}
BY LoopAssumption

-----------------------------------------------------------------------------
(***************************************************************************)
(* The session of the ChangeSet.                                           *)
(***************************************************************************)

\* What the requests and tools make of a session is one again, and as much
\* allowed to write.
LEMMA SessionKept ==
  ASSUME NEW s \in Session
  PROVE  /\ CanAdd(s) => Added(s) \in Session /\ Added(s).write = s.write
         /\ Cleared(s) \in Session /\ Cleared(s).write = s.write
         /\ \A valid \in BOOLEAN :
              Previewed(s, valid) \in Session /\ Previewed(s, valid).write = s.write
         /\ \A d : Unconfirmed(s, d) \in Session /\ Unconfirmed(s, d).write = s.write
         /\ Refused(s) \in Session /\ Refused(s).write = s.write
         /\ Written(s) \in Session /\ Written(s).write = s.write
         /\ RepairRefused(Written(s)) <=> RepairRefused(s)
<1>0. 0 \in 0 .. MaxOperations
  BY ChangeSessionAssumption
<1>1. CanAdd(s) => Added(s) \in Session /\ Added(s).write = s.write
  <2>1. Renewed(s) \in Session /\ Renewed(s).write = s.write
    BY <1>0 DEF Renewed, Session, Status
  <2>2. CanAdd(s) => Renewed(s).ops + 1 \in 0 .. MaxOperations
    BY <2>1, ChangeSessionAssumption DEF CanAdd, Session
  <2>3. QED
    BY <2>1, <2>2 DEF Added, Session, Status
<1>2. Cleared(s) \in Session /\ Cleared(s).write = s.write
  BY <1>0 DEF Cleared, Session, Status
<1>3. \A valid \in BOOLEAN :
        Previewed(s, valid) \in Session /\ Previewed(s, valid).write = s.write
  BY DEF Previewed, Session, Status
<1>4. \A d : Unconfirmed(s, d) \in Session /\ Unconfirmed(s, d).write = s.write
  BY DEF Unconfirmed, Session, Status
<1>5. Refused(s) \in Session /\ Refused(s).write = s.write
  BY DEF Refused, Session, Status
<1>6. /\ Written(s) \in Session /\ Written(s).write = s.write
      /\ RepairRefused(Written(s)) <=> RepairRefused(s)
  BY DEF Written, RepairRefused, Session, Status
<1>7. QED
  BY <1>1, <1>2, <1>3, <1>4, <1>5, <1>6

\* The checks after an apply count one repair at most, and only where the limit
\* allowed it, so they stay within the limit.
LEMMA CheckedSession ==
  ASSUME NEW s \in Session, ~RepairRefused(s)
  PROVE  /\ \A v \in Verdict, f \in BOOLEAN :
              AfterApply(s, v, f) \in Session /\ AfterApply(s, v, f).write = s.write
         /\ VerifyThrows(s) \in Session /\ VerifyThrows(s).write = s.write
<1>1. s.repairAttempts + (IF s.awaitingRepair THEN 1 ELSE 0)
        \in 0 .. MaxRepairAttempts
  BY ChangeSessionAssumption DEF Session, RepairRefused
<1>2. ASSUME NEW v \in Verdict, NEW f \in BOOLEAN
      PROVE  /\ AfterApply(s, v, f) \in Session
             /\ AfterApply(s, v, f).write = s.write
  <2> DEFINE undone == v = "failed" /\ RollbackOnFailure /\ ~f
             attempts == s.repairAttempts + IF s.awaitingRepair THEN 1 ELSE 0
             broken == v = "failed" /\ ~undone
             reached == s.maxReached \/ (v = "failed" /\ attempts >= MaxRepairAttempts)
             rolled == s.rolledBack \/ undone
             status == IF undone THEN "rolled_back" ELSE s.status
  <2>1. broken \in BOOLEAN /\ reached \in BOOLEAN /\ rolled \in BOOLEAN
    OBVIOUS
  <2>2. attempts \in 0 .. MaxRepairAttempts
    BY <1>1
  <2>3. status \in Status
    BY DEF Session, Status
  <2>4. AfterApply(s, v, f) =
          [s EXCEPT !.report = v, !.repairAttempts = attempts,
                    !.awaitingRepair = broken, !.maxReached = reached,
                    !.rolledBack = rolled, !.status = status]
    BY DEF AfterApply
  <2> HIDE DEF undone, attempts, broken, reached, rolled, status
  <2>5. AfterApply(s, v, f) =
          [write |-> s.write, status |-> status, ops |-> s.ops,
           checkpoint |-> s.checkpoint, awaitingRepair |-> broken,
           repairAttempts |-> attempts, maxReached |-> reached,
           rolledBack |-> rolled, report |-> v]
    BY <2>4 DEF Session
  <2>6. QED
    BY <2>1, <2>2, <2>3, <2>5 DEF Session
<1>3. VerifyThrows(s) \in Session /\ VerifyThrows(s).write = s.write
  BY <1>1 DEF VerifyThrows, Session, Status
<1>4. QED
  BY <1>2, <1>3

-----------------------------------------------------------------------------
(***************************************************************************)
(* The coordinator's flags.                                                *)
(***************************************************************************)

\* Who has to repair has a failed report; nobody is asked to confirm what is
\* refused; and where the limit has been reached either every further apply is
\* refused or a change was undone.
Sound(s) ==
  /\ s.awaitingRepair => s.report = "failed"
  /\ RepairRefused(s) => s.status \notin {"pending_confirmation", "rejected"}
  /\ s.maxReached => RepairRefused(s) \/ s.rolledBack
  /\ ~RollbackOnFailure => ~s.rolledBack

\* r has the flags of s, and is not waiting for the user.
SameFlags(r, s) ==
  /\ r.awaitingRepair = s.awaitingRepair /\ r.repairAttempts = s.repairAttempts
  /\ r.maxReached = s.maxReached /\ r.rolledBack = s.rolledBack /\ r.report = s.report
  /\ r.status \in {s.status, "draft", "previewed"}

\* A session that stays as it is stays sound.
LEMMA SameIsSound ==
  ASSUME NEW s, NEW r, Sound(s), SameFlags(r, s)
  PROVE  Sound(r)
BY DEF Sound, SameFlags, RepairRefused

\* The tools that prepare a ChangeSet leave the flags alone.
LEMMA PreparedKept ==
  ASSUME NEW s \in Session
  PROVE  /\ CanAdd(s) => Added(s) \in Session /\ SameFlags(Added(s), s)
         /\ Renewed(s) \in Session /\ SameFlags(Renewed(s), s)
         /\ Cleared(s) \in Session /\ SameFlags(Cleared(s), s)
         /\ \A valid \in BOOLEAN :
              Previewed(s, valid) \in Session /\ SameFlags(Previewed(s, valid), s)
<1>1. Renewed(s) \in Session /\ SameFlags(Renewed(s), s)
  <2>1. 0 \in 0 .. MaxOperations
    BY ChangeSessionAssumption
  <2>2. Renewed(s) \in Session
    BY <2>1 DEF Renewed, Session, Status
  <2>3. SameFlags(Renewed(s), s)
    BY DEF Renewed, SameFlags, Session
  <2>4. QED
    BY <2>2, <2>3
<1>2. CanAdd(s) => SameFlags(Added(s), s)
  <2>1. SameFlags(Added(s), Renewed(s))
    BY <1>1 DEF Added, SameFlags, Session
  <2>2. QED
    BY <1>1, <2>1 DEF SameFlags
<1>3. SameFlags(Cleared(s), s) /\ \A valid \in BOOLEAN : SameFlags(Previewed(s, valid), s)
  BY DEF Cleared, Previewed, SameFlags, Session
<1>4. QED
  BY <1>1, <1>2, <1>3, SessionKept

\* So does an apply that is refused or not confirmed.
LEMMA UnappliedKept ==
  ASSUME NEW s \in Session, Sound(s)
  PROVE  /\ RepairRefused(s) => Refused(s) \in Session /\ Sound(Refused(s))
         /\ ~RepairRefused(s) =>
              \A d : Unconfirmed(s, d) \in Session /\ Sound(Unconfirmed(s, d))
<1>1. RepairRefused(s) => Sound(Refused(s))
  BY DEF Refused, Sound, RepairRefused, Session
<1>2. ~RepairRefused(s) => \A d : Sound(Unconfirmed(s, d))
  BY DEF Unconfirmed, Sound, RepairRefused, Session
<1>3. QED
  BY <1>1, <1>2, SessionKept

\* Whatever comes of an apply that is carried out.
LEMMA CheckedKept ==
  ASSUME NEW s \in Session, Sound(s), ~RepairRefused(s)
  PROVE  /\ Written(s) \in Session /\ Sound(Written(s))
         /\ VerifyAfterApply =>
              \A r \in {AfterApply(Written(s), v, FALSE) : v \in Verdict}
                       \cup {VerifyThrows(Written(s))} : r \in Session /\ Sound(r)
<1> DEFINE w == Written(s)
<1>1. w \in Session /\ ~RepairRefused(w) /\ w.status = "applied"
  BY SessionKept DEF Written, Session
<1>2. Sound(w)
  BY DEF Written, Sound, RepairRefused, Session
<1> HIDE DEF w
<1>3. VerifyThrows(w) \in Session /\ Sound(VerifyThrows(w))
  <2>1. Sound(VerifyThrows(w))
    BY <1>1, <1>2 DEF VerifyThrows, Sound, RepairRefused, Session
  <2>2. VerifyThrows(w) \in Session
    BY <1>1, CheckedSession
  <2>3. QED
    BY <2>1, <2>2
<1>4. ASSUME VerifyAfterApply, NEW v \in Verdict
      PROVE  AfterApply(w, v, FALSE) \in Session /\ Sound(AfterApply(w, v, FALSE))
  <2> DEFINE r == AfterApply(w, v, FALSE)
             attempts == w.repairAttempts + IF w.awaitingRepair THEN 1 ELSE 0
             undone == v = "failed" /\ RollbackOnFailure /\ ~FALSE
             broken == v = "failed" /\ ~undone
             reached == w.maxReached \/ (v = "failed" /\ attempts >= MaxRepairAttempts)
             rolled == w.rolledBack \/ undone
             status == IF undone THEN "rolled_back" ELSE w.status
  <2>1. r \in Session
    BY <1>1, <1>4, CheckedSession
  <2>2. r = [w EXCEPT !.report = v, !.repairAttempts = attempts,
                      !.awaitingRepair = broken, !.maxReached = reached,
                      !.rolledBack = rolled, !.status = status]
    BY DEF AfterApply
  <2>3. /\ broken => v = "failed" /\ ~undone
        /\ v = "failed" /\ ~undone => broken
        /\ reached <=> w.maxReached \/ (v = "failed" /\ attempts >= MaxRepairAttempts)
        /\ rolled <=> w.rolledBack \/ undone
        /\ status \in {"rolled_back", "applied"}
        /\ undone => RollbackOnFailure
    BY <1>1
  <2> HIDE DEF undone, attempts, broken, reached, rolled, status
  <2>4. /\ r.report = v /\ r.repairAttempts = attempts
        /\ r.awaitingRepair = broken /\ r.maxReached = reached
        /\ r.rolledBack = rolled /\ r.status = status
    BY <1>1, <2>2 DEF Session
  <2>5. w.maxReached => w.rolledBack
    BY <1>1, <1>2 DEF Sound
  <2> HIDE DEF r
  <2>6. r.maxReached => RepairRefused(r) \/ r.rolledBack
    BY <2>3, <2>4, <2>5 DEF RepairRefused
  <2>7. Sound(r)
    BY <1>2, <2>3, <2>4, <2>6 DEF Sound, RepairRefused
  <2>8. QED
    BY <2>1, <2>7 DEF r
<1>5. QED
  BY <1>1, <1>2, <1>3, <1>4 DEF w
-----------------------------------------------------------------------------
(***************************************************************************)
(* The invariant.                                                          *)
(***************************************************************************)

LoopInv ==
  /\ TypeOK
  /\ Sound(session)
  /\ pc = "call" => left >= 1
  /\ pc = "done" => reason = FinishReason(base, session)

\* The reason given at the end is one of those there are.
LEMMA ReasonType ==
  ASSUME NEW s \in Session, NEW r \in BaseReason
  PROVE  FinishReason(r, s) \in Reason
<1>1. OfChanges(s) \in Reason
  BY DEF OfChanges, Reason, BaseReason
<1>2. \A o \in Reason : OfVerification(s, o) \in Reason
  BY DEF OfVerification, OfReport, Reason
<1>3. r \in Reason
  BY DEF Reason
<1>4. QED
  BY <1>1, <1>2, <1>3 DEF FinishReason

\* LoopInv holds initially.
LEMMA LoopInvInit == Init => LoopInv
<1> SUFFICES ASSUME Init PROVE LoopInv
  OBVIOUS
<1>1. session \in Session /\ Sound(session)
  BY ChangeSessionAssumption DEF Init, NewSession, Session, Status, Sound,
     RepairRefused
<1>2. TypeOK
  <2>1. step \in 0 .. MaxSteps /\ left \in 0 .. MaxCalls
    BY LoopBounds DEF Init
  <2>2. verified.content \in Content \cup {Original}
    BY DEF Init, Nothing
  <2>3. QED
    BY <1>1, <2>1, <2>2 DEF Init, TypeOK
<1>3. QED
  BY <1>1, <1>2 DEF Init, LoopInv

\* The loop ends with a reason that fits the flags.
LEMMA FinishKeeps ==
  ASSUME LoopInv, NEW r \in BaseReason, Finish(r),
         UNCHANGED <<step, aborted, late>>
  PROVE  LoopInv'
<1>1. reason' \in Reason /\ base' \in BaseReason
  BY ReasonType DEF Finish, LoopInv, TypeOK
<1>2. TypeOK'
  BY <1>1 DEF Finish, LoopInv, TypeOK, changeVars
<1>3. reason' = FinishReason(base, session)'
  BY DEF Finish, FinishReason, OfVerification, OfReport, OfChanges, changeVars
<1>4. QED
  BY <1>2, <1>3 DEF Finish, LoopInv, changeVars

\* A call of a tool that leaves the session sound leaves the rest in order.
LEMMA ExecuteKeeps ==
  ASSUME LoopInv, NEW c \in Call, NEW changed, Execute(c, changed),
         session' \in Session, Sound(session'),
         {prepared, files, saved}' \subseteq Content \cup {Original},
         verified'.content \in Content \cup {Original},
         commandLimit' \in BOOLEAN
  PROVE  LoopInv'
<1>1. left' \in 0 .. MaxCalls /\ (pc' = "call" => left' >= 1)
  BY LoopBounds DEF Execute, LoopInv, TypeOK
<1>2. pc' \in {"step", "call"} /\ executed' \subseteq Call
  BY DEF Execute, LoopInv, TypeOK
<1>3. TypeOK'
  BY <1>1, <1>2 DEF Execute, LoopInv, TypeOK
<1>4. QED
  BY <1>1, <1>2, <1>3 DEF LoopInv

\* Every step keeps LoopInv.
LEMMA LoopInvNext == LoopInv /\ [Next]_vars => LoopInv'
<1> SUFFICES ASSUME LoopInv, [Next]_vars PROVE LoopInv'
  OBVIOUS
<1>0. session \in Session /\ Sound(session)
  BY DEF LoopInv, TypeOK
<1>1. CASE UNCHANGED vars
  BY <1>1 DEF LoopInv, TypeOK, Sound, RepairRefused, FinishReason,
     OfVerification, OfReport, OfChanges, vars
<1>2. CASE Step
  <2>1. CASE step < MaxSteps /\ ~late /\ ~aborted /\ pc' = "chat" /\ step' = step + 1
             /\ UNCHANGED <<left, executed, commandLimit, base, reason>>
             /\ UNCHANGED changeVars
    <3>1. step' \in 0 .. MaxSteps
      BY <2>1, LoopBounds DEF LoopInv, TypeOK
    <3>2. TypeOK'
      BY <1>2, <2>1, <3>1 DEF Step, LoopInv, TypeOK, changeVars
    <3>3. QED
      BY <2>1, <3>2 DEF LoopInv, changeVars
  <2>2. QED
    BY <1>2, <2>1, FinishKeeps DEF Step, BaseReason
<1>3. CASE Respond
  <2>1. CASE /\ left' \in 1 .. MaxCalls /\ pc' = "call"
             /\ UNCHANGED <<executed, commandLimit, base, reason>>
             /\ UNCHANGED changeVars
    <3>1. left' \in 0 .. MaxCalls /\ left' >= 1
      BY <2>1, LoopBounds
    <3>2. TypeOK'
      BY <1>3, <2>1, <3>1 DEF Respond, LoopInv, TypeOK, changeVars
    <3>3. QED
      BY <2>1, <3>1, <3>2 DEF LoopInv, changeVars
  <2>2. QED
    BY <1>3, <2>1, FinishKeeps DEF Respond, BaseReason
<1>4. ASSUME NEW c \in Call, Repeat(c) PROVE LoopInv'
  BY <1>4, FinishKeeps DEF Repeat, BaseReason
<1>5. ASSUME NEW c \in Call, Read(c) PROVE LoopInv'
  <2>1. session' \in Session /\ Sound(session')
    BY <1>0, <1>5 DEF Read
  <2>2. QED
    BY <1>5, <2>1, ExecuteKeeps DEF Read, LoopInv, TypeOK
<1>6. ASSUME NEW c \in Call, Prepare(c) PROVE LoopInv'
  <2>1. session' \in Session /\ Sound(session')
    BY <1>0, <1>6, PreparedKept, SameIsSound DEF Prepare
  <2>2. prepared' \in Content \cup {Original}
    <3>1. c.tool = "prepare" => c.arg \in Content
      BY <1>6 DEF Call
    <3>2. QED
      BY <1>6, <3>1 DEF Prepare, LoopInv, TypeOK
  <2>3. Execute(c, FALSE) /\ UNCHANGED <<commandLimit, files, saved, verified>>
    BY <1>6 DEF Prepare
  <2>4. QED
    BY <2>1, <2>2, <2>3, ExecuteKeeps DEF LoopInv, TypeOK
<1>7. ASSUME NEW c \in Call, Apply(c) PROVE LoopInv'
  <2>1. CASE RepairRefused(session) /\ Execute(c, FALSE) /\ session' = Refused(session)
             /\ UNCHANGED <<commandLimit, files, saved, verified>>
    <3>1. session' \in Session /\ Sound(session')
      BY <1>0, <2>1, UnappliedKept
    <3>2. QED
      BY <1>7, <2>1, <3>1, ExecuteKeeps DEF Apply, LoopInv, TypeOK
  <2>2. CASE Execute(c, FALSE)
             /\ UNCHANGED <<commandLimit, session, files, saved, verified>>
    <3>1. session' \in Session /\ Sound(session')
      BY <1>0, <2>2
    <3>2. QED
      BY <1>7, <2>2, <3>1, ExecuteKeeps DEF Apply, LoopInv, TypeOK
  <2>3. CASE /\ ~RepairRefused(session)
             /\ \E d \in Decision \ {"approved"} : session' = Unconfirmed(session, d)
             /\ Execute(c, FALSE)
             /\ UNCHANGED <<commandLimit, files, saved, verified>>
    <3>1. session' \in Session /\ Sound(session')
      BY <1>0, <2>3, UnappliedKept
    <3>2. QED
      BY <1>7, <2>3, <3>1, ExecuteKeeps DEF Apply, LoopInv, TypeOK
  <2>4. CASE /\ ~RepairRefused(session) /\ saved' = files /\ CheckApplied
             /\ Execute(c, ~(session' = VerifyThrows(Written(session))
                             /\ VerifyAfterApply))
    <3>1. session' \in Session /\ Sound(session')
      BY <1>0, <2>4, CheckedKept DEF CheckApplied
    <3>2. /\ files' \in {files, prepared} /\ verified' \in {verified, Applied}
          /\ commandLimit' \in {commandLimit, TRUE}
      BY <2>4 DEF CheckApplied
    <3>3. verified'.content \in Content \cup {Original}
      BY <3>2 DEF Applied, LoopInv, TypeOK
    <3>4. {prepared, files, saved}' \subseteq Content \cup {Original}
      BY <1>7, <2>4, <3>2 DEF Apply, LoopInv, TypeOK
    <3>5. commandLimit' \in BOOLEAN
      BY <3>2 DEF LoopInv, TypeOK
    <3>6. QED
      BY <2>4, <3>1, <3>3, <3>4, <3>5, ExecuteKeeps
  <2>5. QED
    BY <1>7, <2>1, <2>2, <2>3, <2>4 DEF Apply
<1>8. ASSUME NEW c \in Call, Restore(c) PROVE LoopInv'
  <2>1. session' \in Session /\ Sound(session')
    BY <1>0, <1>8 DEF Restore
  <2>2. QED
    BY <1>8, <2>1, ExecuteKeeps DEF Restore, LoopInv, TypeOK
<1>9. ASSUME NEW c \in Call, RunVerification(c) PROVE LoopInv'
  <2>1. session' \in Session /\ Sound(session')
    BY <1>0, <1>9 DEF RunVerification
  <2>2. verified'.content \in Content \cup {Original}
    BY <1>9 DEF RunVerification, LoopInv, TypeOK
  <2>3. commandLimit' \in BOOLEAN
    BY <1>9 DEF RunVerification, LoopInv, TypeOK
  <2>4. Execute(c, FALSE) /\ UNCHANGED <<prepared, files, saved>>
    BY <1>9 DEF RunVerification
  <2>5. QED
    BY <2>1, <2>2, <2>3, <2>4, ExecuteKeeps DEF LoopInv, TypeOK
<1>10. CASE Abort \/ TimePasses
  <2>1. TypeOK'
    BY <1>10 DEF Abort, TimePasses, LoopInv, TypeOK, loopVars, changeVars
  <2>2. QED
    BY <1>10, <2>1 DEF Abort, TimePasses, LoopInv, loopVars, changeVars
<1>11. QED
  BY <1>1, <1>2, <1>3, <1>4, <1>5, <1>6, <1>7, <1>8, <1>9, <1>10 DEF Next, Loop

\* LoopInv holds in every reachable state.
THEOREM LoopInvHolds == Spec => []LoopInv
<1>1. QED
  BY LoopInvInit, LoopInvNext, PTL DEF Spec

\* The variables of the loop keep their types, for every limit and every answer
\* of the model: the counters of steps, of operations and of repairs stay within
\* their limits.
THEOREM LoopTypeCorrect == Spec => []TypeOK
<1>1. LoopInv => TypeOK
  BY DEF LoopInv
<1>2. QED
  BY <1>1, LoopInvHolds, PTL

\* A completed run that has reached the limit of repairs says so, where a failed
\* change is not undone.
THEOREM LimitIsReportedAlways ==
  ASSUME ~RollbackOnFailure PROVE Spec => []LimitIsReported
<1>1. LoopInv => LimitIsReported
  <2> SUFFICES ASSUME LoopInv, pc = "done", base = "completed", session.maxReached
               PROVE  reason \in {"max_repair_attempts", "rolled_back"}
    BY DEF LimitIsReported
  <2>1. session.status \notin {"pending_confirmation", "rejected"}
    BY DEF LoopInv, Sound
  <2>2. OfChanges(session) \in {"completed", "changes_applied"}
    BY <2>1 DEF OfChanges
  <2>3. reason = OfVerification(session, OfChanges(session))
    BY <2>2 DEF LoopInv, FinishReason
  <2>4. QED
    BY <2>3, Zenon DEF OfVerification
<1>2. QED
  BY <1>1, LoopInvHolds, PTL

\* A completed run whose last applied change is known to be broken claims no
\* success.
THEOREM FailureIsReportedAlways == Spec => []FailureIsReported
<1>1. LoopInv => FailureIsReported
  <2> SUFFICES ASSUME LoopInv, pc = "done", base = "completed",
                      session.awaitingRepair
               PROVE  reason \notin {"completed", "changes_applied",
                                     "verification_passed",
                                     "verification_unavailable"}
    BY DEF FailureIsReported
  <2>1. session.report = "failed" /\ reason = FinishReason("completed", session)
    BY DEF LoopInv, Sound
  <2>2. OfVerification(session, OfChanges(session))
          \in {"rolled_back", "max_repair_attempts", "command_limit_reached",
               "verification_failed"}
    BY <2>1 DEF OfVerification, OfReport
  <2>3. OfChanges(session) \notin {"completed", "changes_applied"}
          => OfChanges(session) \in {"changes_pending_confirmation",
                                    "changes_rejected"}
    BY DEF OfChanges
  <2>4. QED
    BY <2>1, <2>2, <2>3 DEF FinishReason
<1>2. QED
  BY <1>1, LoopInvHolds, PTL

\* An abort lets the calls of the response at hand be made and no other: the
\* model is not called again.
THEOREM AbortBoundsWorkAlways == Spec => AbortBoundsWork
<1> DEFINE Bounded == aborted => left' <= left /\ (pc' = "chat" => pc = "chat")
<1>1. LoopInv /\ [Next]_vars => [Bounded]_vars
  <2> SUFFICES ASSUME LoopInv, [Next]_vars, aborted
               PROVE  left' <= left /\ (pc' = "chat" => pc = "chat")
    BY DEF vars
  <2>0. left \in Nat
    BY LoopBounds DEF LoopInv, TypeOK
  <2>1. CASE UNCHANGED <<pc, left>>
    BY <2>0, <2>1
  <2>2. CASE Step \/ Respond
    <3>1. pc' # "chat" /\ left' = left
      BY <2>2 DEF Step, Respond, Finish
    <3>2. QED
      BY <2>0, <3>1
  <2>3. ASSUME NEW c \in Call, Repeat(c)
        PROVE  left' <= left /\ (pc' = "chat" => pc = "chat")
    BY <2>0, <2>3 DEF Repeat, Finish
  <2>4. ASSUME NEW c \in Call, NEW changed, Execute(c, changed)
        PROVE  left' <= left /\ (pc' = "chat" => pc = "chat")
    BY <2>0, <2>4 DEF Execute
  <2>5. ASSUME NEW c \in Call,
               Read(c) \/ Prepare(c) \/ Apply(c) \/ Restore(c) \/ RunVerification(c)
        PROVE  \E changed : Execute(c, changed)
    BY <2>5 DEF Read, Prepare, Apply, Restore, RunVerification
  <2>6. Abort \/ TimePasses \/ UNCHANGED vars => UNCHANGED <<pc, left>>
    BY DEF Abort, TimePasses, vars, loopVars
  <2>7. QED
    BY <2>1, <2>2, <2>3, <2>4, <2>5, <2>6 DEF Next, Loop
<1>2. QED
  BY <1>1, LoopInvHolds, PTL DEF Spec, AbortBoundsWork
=============================================================================

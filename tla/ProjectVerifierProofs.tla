----------------------- MODULE ProjectVerifierProofs -----------------------
(***************************************************************************)
(* Theorems about the command runner and the project verifier, for every   *)
(* set of callers and commands, every policy and every limit, whichever    *)
(* processes are stubborn and whoever edits the files.                     *)
(***************************************************************************)
EXTENDS ProjectVerifier, FiniteSetTheorems, TLAPS

\* The limits are numbers.
LEMMA Limits == MaxCommands \in Nat /\ MaxParallel \in Nat /\ IsFiniteSet(Caller)
BY RunnerAssumption

\* Bounds of the verifier's histories.
LEMMA VerifierBounds == MaxEdits \in Nat /\ MaxChecks \in Nat
BY VerifierAssumption

-----------------------------------------------------------------------------
(***************************************************************************)
(* The calls of the runner.                                                *)
(***************************************************************************)

\* What the place of a call says of its command: from the confirmation on it is
\* not forbidden, and it runs confirmed if it has to be.
Fit(x) ==
  /\ x.at \in {"validate", "confirm", "running"} => x.command \in Command
  /\ x.at \in {"confirm", "running"} => ~Forbidden(x.command)
  /\ x.at = "running" /\ RequiresConfirmation(x.command) => x.confirmed = TRUE

RunnerInv ==
  /\ RunnerTypeOK
  /\ Cardinality(Running) = active
  /\ \A c \in Caller : Fit(run[c])

\* The call of c becomes x, and the slots are counted.
Becomes(c, x) ==
  /\ x \in Call /\ Fit(x)
  /\ run' = [run EXCEPT ![c] = x]
  /\ accepted' \in 0 .. MaxCommands
  /\ \/ (x.at = "running" <=> run[c].at = "running") /\ active' = active
     \/ /\ x.at = "running" /\ run[c].at # "running"
        /\ active < MaxParallel /\ active' = active + 1
     \/ x.at # "running" /\ run[c].at = "running" /\ active' = active - 1

\* Where one call becomes another the invariant is kept.
LEMMA OneCall ==
  ASSUME RunnerInv, NEW c \in Caller, NEW x, Becomes(c, x)
  PROVE  /\ RunnerInv'
         /\ run'[c] = x
         /\ \A d \in Caller \ {c} : run'[d] = run[d]
<1>1. /\ run' \in [Caller -> Call] /\ run'[c] = x
      /\ \A d \in Caller \ {c} : run'[d] = run[d]
  BY DEF RunnerInv, RunnerTypeOK, Becomes
<1>2. \A d \in Caller : Fit(run'[d])
  BY <1>1 DEF RunnerInv, Becomes
<1>3. (\A d \in Caller : Fit(run[d]))'
  BY <1>2 DEF Fit, Forbidden, RequiresConfirmation
<1>4. Running \in SUBSET Caller /\ IsFiniteSet(Running) /\ Cardinality(Running) \in Nat
  BY Limits, FS_Subset, FS_CardinalityType DEF Running
<1>5. active \in Nat /\ active <= MaxParallel /\ active = Cardinality(Running)
  BY Limits DEF RunnerInv, RunnerTypeOK
<1>6. active' \in 0 .. MaxParallel /\ Cardinality(Running') = active'
  <2>1. CASE (x.at = "running" <=> run[c].at = "running") /\ active' = active
    <3>1. Running' = Running
      BY <1>1, <2>1 DEF Running
    <3>2. QED
      BY <1>5, <2>1, <3>1, Limits
  <2>2. CASE /\ x.at = "running" /\ run[c].at # "running"
             /\ active < MaxParallel /\ active' = active + 1
    <3>1. Running' = Running \cup {c} /\ c \notin Running
      BY <1>1, <2>2 DEF Running
    <3>2. Cardinality(Running') = Cardinality(Running) + 1
      BY <1>4, <3>1, FS_AddElement
    <3>3. QED
      BY <1>5, <2>2, <3>2, Limits
  <2>3. CASE x.at # "running" /\ run[c].at = "running" /\ active' = active - 1
    <3>1. Running' = Running \ {c} /\ c \in Running
      BY <1>1, <2>3 DEF Running
    <3>2. Cardinality(Running') = Cardinality(Running) - 1 /\ Cardinality(Running') \in Nat
      BY <1>4, <3>1, FS_RemoveElement, FS_CardinalityType
    <3>3. QED
      BY <1>5, <2>3, <3>2, Limits
  <2>4. QED
    BY <2>1, <2>2, <2>3 DEF Becomes
<1>7. accepted' \in 0 .. MaxCommands
  BY DEF Becomes
<1>8. QED
  BY <1>1, <1>3, <1>6, <1>7 DEF RunnerInv, RunnerTypeOK

\* A call that is over, and one that begins, are calls with nothing to prove.
LEMMA OverAndBegun ==
  ASSUME RunnerInv, NEW c \in Caller
  PROVE  /\ NoCall \in Call /\ Fit(NoCall) /\ NoCall.at = "idle"
         /\ \A o \in Outcome :
              /\ Over(c, o) \in Call /\ Fit(Over(c, o)) /\ Over(c, o).at = "idle"
              /\ Over(c, o).command = run[c].command
         /\ \A command \in Command :
              LET x == [NoCall EXCEPT !.at = "validate", !.command = command] IN
              x \in Call /\ Fit(x) /\ x.at = "validate" /\ x.command = command
<1>1. NoCall \in Call /\ Fit(NoCall) /\ NoCall.at = "idle"
  BY DEF NoCall, Call, Outcome, Fit
<1>2. run[c].command \in Command \cup {NoCommand}
  BY DEF RunnerInv, RunnerTypeOK, Call
<1>3. ASSUME NEW o \in Outcome
      PROVE  /\ Over(c, o) \in Call /\ Fit(Over(c, o)) /\ Over(c, o).at = "idle"
             /\ Over(c, o).command = run[c].command
  BY <1>2 DEF Over, NoCall, Call, Fit
<1>4. ASSUME NEW command \in Command
      PROVE  LET x == [NoCall EXCEPT !.at = "validate", !.command = command] IN
             x \in Call /\ Fit(x) /\ x.at = "validate" /\ x.command = command
  BY DEF NoCall, Call, Outcome, Fit
<1>5. QED
  BY <1>1, <1>3, <1>4

\* A call that ends without a process.
LEMMA Ends ==
  ASSUME RunnerInv, NEW c \in Caller, NEW o \in Outcome,
         run[c].at # "running", run' = [run EXCEPT ![c] = Over(c, o)],
         accepted' \in 0 .. MaxCommands, active' = active
  PROVE  \E x : Becomes(c, x) /\ x.command = run[c].command
<1>1. /\ Over(c, o) \in Call /\ Fit(Over(c, o)) /\ Over(c, o).at = "idle"
      /\ Over(c, o).command = run[c].command
  BY OverAndBegun
<1>2. Becomes(c, Over(c, o))
  BY <1>1 DEF Becomes
<1>3. QED
  BY <1>1, <1>2

\* A permitted call fits that starts its process, is refused a slot or fails to start.
LEMMA StartKeeps ==
  ASSUME RunnerInv, NEW c \in Caller, NEW b \in BOOLEAN,
         run[c].at \in {"validate", "confirm"}, run[c].command \in Command,
         ~Forbidden(run[c].command), RequiresConfirmation(run[c].command) => b = TRUE,
         Start(c, b)
  PROVE  \E x : Becomes(c, x) /\ x.command = run[c].command
<1>1. run[c] \in Call /\ accepted \in 0 .. MaxCommands
  BY DEF RunnerInv, RunnerTypeOK
<1>2. accepted' \in 0 .. MaxCommands
  <2>1. accepted < MaxCommands /\ accepted' = accepted + 1
    BY DEF Start
  <2>2. QED
    BY <1>1, <2>1, Limits
<1>3. CASE run' = [run EXCEPT ![c] = Over(c, "limit")] /\ UNCHANGED active
  BY <1>2, <1>3, Ends DEF Outcome
<1>4. ASSUME active < MaxParallel, active' = active + 1,
             NEW others \in SUBSET (Process \ {Leader}),
             run' = [run EXCEPT ![c] =
               [@ EXCEPT !.at = "running", !.confirmed = b, !.tree = {Leader} \cup others]]
      PROVE  \E x : Becomes(c, x) /\ x.command = run[c].command
  <2> DEFINE x == [run[c] EXCEPT !.at = "running", !.confirmed = b,
                                 !.tree = {Leader} \cup others]
  <2>1. run' = [run EXCEPT ![c] = x]
    BY <1>4 DEF RunnerInv, RunnerTypeOK
  <2>2. x \in Call /\ x.at = "running" /\ x.command = run[c].command /\ x.confirmed = b
    BY <1>1 DEF Call, Process, Leader
  <2>3. Fit(x)
    BY <2>2 DEF Fit
  <2> HIDE DEF x
  <2>4. QED
    BY <1>2, <1>4, <2>1, <2>2, <2>3 DEF Becomes
<1>5. ASSUME active < MaxParallel, active' = active + 1,
             run' = [run EXCEPT ![c] =
               [@ EXCEPT !.at = "running", !.confirmed = b, !.outcome = "error"]]
      PROVE  \E x : Becomes(c, x) /\ x.command = run[c].command
  <2> DEFINE x == [run[c] EXCEPT !.at = "running", !.confirmed = b, !.outcome = "error"]
  <2>1. run' = [run EXCEPT ![c] = x]
    BY <1>5 DEF RunnerInv, RunnerTypeOK
  <2>2. x \in Call /\ x.at = "running" /\ x.command = run[c].command /\ x.confirmed = b
    BY <1>1 DEF Call, Outcome
  <2>3. Fit(x)
    BY <2>2 DEF Fit
  <2> HIDE DEF x
  <2>4. QED
    BY <1>2, <1>5, <2>1, <2>2, <2>3 DEF Becomes
<1>6. QED
  BY <1>3, <1>4, <1>5 DEF Start

\* So does one that the limit of commands refuses.
LEMMA AcceptKeeps ==
  ASSUME RunnerInv, NEW c \in Caller, NEW b \in BOOLEAN,
         run[c].at \in {"validate", "confirm"}, run[c].command \in Command,
         ~Forbidden(run[c].command), RequiresConfirmation(run[c].command) => b = TRUE,
         Accept(c, b)
  PROVE  \E x : Becomes(c, x) /\ x.command = run[c].command
<1>1. CASE Start(c, b)
  BY <1>1, StartKeeps
<1>2. CASE run' = [run EXCEPT ![c] = Over(c, "limit")] /\ UNCHANGED <<accepted, active>>
  BY <1>2, Ends DEF Outcome, RunnerInv, RunnerTypeOK
<1>3. QED
  BY <1>1, <1>2 DEF Accept

\* Every step of a call makes one call of it, for the same command.
LEMMA CallGoesOn ==
  ASSUME RunnerInv, NEW c \in Caller, Runner(c) \/ Environment(c)
  PROVE  /\ \E x : Becomes(c, x) /\ x.command = run[c].command
         /\ run[c] # NoCall
<1>0. run[c] \in Call /\ accepted \in 0 .. MaxCommands /\ Fit(run[c])
  BY DEF RunnerInv, RunnerTypeOK
<1>1. CASE Validate(c)
  <2>0. run[c].at = "validate" /\ run[c].command \in Command /\ run[c] # NoCall
    BY <1>0, <1>1 DEF Validate, Fit, NoCall
  <2>1. CASE run' = [run EXCEPT ![c] = Over(c, "error")] /\ UNCHANGED <<accepted, active>>
    BY <1>0, <2>0, <2>1, Ends DEF Outcome
  <2>2. CASE /\ run' = [run EXCEPT ![c] =
                  Over(c, IF accepted >= MaxCommands THEN "limit" ELSE "error")]
             /\ UNCHANGED <<accepted, active>>
    <3>1. (IF accepted >= MaxCommands THEN "limit" ELSE "error") \in Outcome
      BY DEF Outcome
    <3>2. QED
      BY <1>0, <2>0, <2>2, <3>1, Ends
  <2>3. CASE /\ ~Forbidden(run[c].command)
             /\ run' = [run EXCEPT ![c].at = "confirm"]
             /\ UNCHANGED <<accepted, active>>
    <3> DEFINE x == [run[c] EXCEPT !.at = "confirm"]
    <3>1. run' = [run EXCEPT ![c] = x]
      BY <2>3 DEF RunnerInv, RunnerTypeOK
    <3>2. x \in Call /\ x.at = "confirm" /\ x.command = run[c].command
      BY <1>0 DEF Call
    <3>3. Fit(x)
      BY <2>0, <2>3, <3>2 DEF Fit
    <3> HIDE DEF x
    <3>4. QED
      BY <1>0, <2>0, <2>3, <3>1, <3>2, <3>3 DEF Becomes
  <2>4. CASE /\ ~Forbidden(run[c].command) /\ ~RequiresConfirmation(run[c].command)
             /\ Accept(c, FALSE)
    BY <2>0, <2>4, AcceptKeeps
  <2>5. QED
    BY <1>1, <2>0, <2>1, <2>2, <2>3, <2>4 DEF Validate
<1>2. CASE Confirm(c)
  <2>0. /\ run[c].at = "confirm" /\ run[c].command \in Command /\ run[c] # NoCall
        /\ ~Forbidden(run[c].command)
    BY <1>0, <1>2 DEF Confirm, Fit, NoCall
  <2>1. CASE Accept(c, TRUE)
    BY <2>0, <2>1, AcceptKeeps
  <2>2. CASE run' = [run EXCEPT ![c] = Over(c, "error")] /\ UNCHANGED <<accepted, active>>
    BY <1>0, <2>0, <2>2, Ends DEF Outcome
  <2>3. QED
    BY <1>2, <2>0, <2>1, <2>2 DEF Confirm
<1>3. CASE GraceEnds(c)
  <2> DEFINE x == [run[c] EXCEPT !.killer = "done",
                                 !.tree = IF Leader \in run[c].tree THEN {}
                                         ELSE run[c].tree]
  <2>1. run' = [run EXCEPT ![c] = x]
    BY <1>3 DEF GraceEnds, RunnerInv, RunnerTypeOK
  <2>2. /\ x \in Call /\ x.at = run[c].at /\ x.command = run[c].command
        /\ x.confirmed = run[c].confirmed
    BY <1>0 DEF Call
  <2>3. Fit(x) /\ run[c] # NoCall
    BY <1>0, <1>3, <2>2 DEF Fit, GraceEnds, NoCall
  <2> HIDE DEF x
  <2>4. QED
    BY <1>0, <1>3, <2>1, <2>2, <2>3 DEF Becomes, GraceEnds
<1>4. CASE Close(c)
  <2> DEFINE x == [run[c] EXCEPT !.at = "record", !.outcome = Settled(c)]
  <2>1. run' = [run EXCEPT ![c] = x] /\ run[c].at = "running"
    BY <1>4 DEF Close, Closed, RunnerInv, RunnerTypeOK
  <2>2. Settled(c) \in Outcome
    BY <1>0 DEF Settled, Call, Outcome
  <2>3. x \in Call /\ x.at = "record" /\ x.command = run[c].command
    BY <1>0, <2>2 DEF Call
  <2>4. Fit(x) /\ run[c] # NoCall
    BY <2>1, <2>3 DEF Fit, NoCall
  <2> HIDE DEF x
  <2>5. QED
    BY <1>0, <1>4, <2>1, <2>3, <2>4 DEF Becomes, Close
<1>5. CASE Record(c)
  <2>1. PICK o \in Recorded(c) : run' = [run EXCEPT ![c] = Over(c, o)]
    BY <1>5 DEF Record
  <2>2. o \in Outcome
    BY <1>0, <2>1 DEF Recorded, Call, Outcome
  <2>3. run[c].at = "record" /\ run[c] # NoCall
    BY <1>5 DEF Record, NoCall
  <2>4. QED
    BY <1>0, <1>5, <2>1, <2>2, <2>3, Ends DEF Record
<1>6. ASSUME NEW p \in Process, Exit(c, p)
      PROVE  (\E x : Becomes(c, x) /\ x.command = run[c].command) /\ run[c] # NoCall
  <2>1. PICK ok \in {FALSE, run[c].desired = "none"} :
          run' = [run EXCEPT ![c].tree = @ \ {p}, ![c].ok = IF p = Leader THEN ok ELSE @]
    BY <1>6 DEF Exit
  <2> DEFINE o == IF p = Leader THEN ok ELSE run[c].ok
             x == [run[c] EXCEPT !.tree = run[c].tree \ {p}, !.ok = o]
  <2>2. run' = [run EXCEPT ![c] = x]
    BY <2>1 DEF RunnerInv, RunnerTypeOK
  <2>3. o \in BOOLEAN
    BY <1>0 DEF Call
  <2> HIDE DEF o
  <2>4. /\ x \in Call /\ x.at = run[c].at /\ x.command = run[c].command
        /\ x.confirmed = run[c].confirmed
    BY <1>0, <2>3 DEF Call
  <2>5. Fit(x) /\ run[c] # NoCall
    BY <1>0, <1>6, <2>4 DEF Fit, Exit, NoCall
  <2> HIDE DEF x
  <2>6. QED
    BY <1>0, <1>6, <2>2, <2>4, <2>5 DEF Becomes, Exit
<1>7. ASSUME NEW status \in Interrupt, Stop(c, status)
      PROVE  (\E x : Becomes(c, x) /\ x.command = run[c].command) /\ run[c] # NoCall
  <2>0. status \in {"timeout", "aborted"} /\ run[c].at = "running" /\ run[c] # NoCall
    BY <1>7, RunnerAssumption DEF Stop, NoCall
  <2>1. ASSUME NEW k \in {"grace", "done"}, NEW t \in SUBSET Process,
               run' = [run EXCEPT ![c] = [@ EXCEPT !.desired = status, !.killer = k, !.tree = t]]
        PROVE  \E x : Becomes(c, x) /\ x.command = run[c].command
    <3> DEFINE x == [run[c] EXCEPT !.desired = status, !.killer = k, !.tree = t]
    <3>1. run' = [run EXCEPT ![c] = x]
      BY <2>1 DEF RunnerInv, RunnerTypeOK
    <3>2. /\ x \in Call /\ x.at = run[c].at /\ x.command = run[c].command
          /\ x.confirmed = run[c].confirmed
      BY <1>0, <2>0 DEF Call
    <3>3. Fit(x)
      BY <1>0, <3>2 DEF Fit
    <3> HIDE DEF x
    <3>4. QED
      BY <1>0, <1>7, <3>1, <3>2, <3>3 DEF Becomes, Stop
  <2>2. CASE run' = [run EXCEPT ![c].desired = status, ![c].killer = "done"]
    <3>1. run[c].tree \in SUBSET Process
      BY <1>0 DEF Call
    <3>2. run' = [run EXCEPT ![c] = [@ EXCEPT !.desired = status, !.killer = "done",
                                              !.tree = run[c].tree]]
      BY <1>0, <2>2 DEF RunnerInv, RunnerTypeOK, Call
    <3>3. QED
      BY <2>0, <2>1, <3>1, <3>2
  <2>3. ASSUME NEW survivors \in SUBSET (run[c].tree \cap Stubborn),
               run' = [run EXCEPT ![c].desired = status, ![c].killer = "grace",
                                  ![c].tree = survivors]
        PROVE  \E x : Becomes(c, x) /\ x.command = run[c].command
    <3>1. survivors \in SUBSET Process
      BY <1>0 DEF Call
    <3>2. run' = [run EXCEPT ![c] = [@ EXCEPT !.desired = status, !.killer = "grace",
                                              !.tree = survivors]]
      BY <2>3 DEF RunnerInv, RunnerTypeOK
    <3>3. QED
      BY <2>1, <3>1, <3>2
  <2>4. QED
    BY <1>7, <2>0, <2>2, <2>3 DEF Stop
<1>8. QED
  BY <1>1, <1>2, <1>3, <1>4, <1>5, <1>6, <1>7 DEF Runner, Environment

\* A step of a verification only leaves the runner as it is.
LEMMA RunnerStays ==
  ASSUME RunnerInv, UNCHANGED runnerVars
  PROVE  RunnerInv'
BY DEF RunnerInv, RunnerTypeOK, Running, runnerVars, Fit, Forbidden, RequiresConfirmation

\* A call begins, and it is taken note of that it has ended.
LEMMA CallBegins ==
  ASSUME RunnerInv, NEW c \in Caller, NEW command \in Command, Begin(c, command)
  PROVE  /\ RunnerInv' /\ run'[c].command = command
         /\ \A d \in Caller \ {c} : run'[d] = run[d]
<1> DEFINE x == [NoCall EXCEPT !.at = "validate", !.command = command]
<1>1. x \in Call /\ Fit(x) /\ x.at = "validate" /\ x.command = command
  BY OverAndBegun
<1>2. run' = [run EXCEPT ![c] = x] /\ run[c].at = "idle" /\ UNCHANGED <<accepted, active>>
  BY DEF Begin
<1> HIDE DEF x
<1>3. Becomes(c, x)
  BY <1>1, <1>2 DEF Becomes, RunnerInv, RunnerTypeOK
<1>4. QED
  BY <1>1, <1>3, OneCall

\* Its caller takes note that a call has ended.
LEMMA CallTaken ==
  ASSUME RunnerInv, NEW c \in Caller, run[c].at = "idle",
         run' = [run EXCEPT ![c] = NoCall], UNCHANGED <<accepted, active>>
  PROVE  /\ RunnerInv' /\ run'[c] = NoCall
         /\ \A d \in Caller \ {c} : run'[d] = run[d]
<1>1. Becomes(c, NoCall)
  BY OverAndBegun DEF Becomes, RunnerInv, RunnerTypeOK
<1>2. QED
  BY <1>1, OneCall

-----------------------------------------------------------------------------
(***************************************************************************)
(* The verifications.                                                      *)
(***************************************************************************)

\* Of the plan of c's verification every command is yet to be run or has a
\* step, unless the steps were cut short by an abort; and what c has the runner
\* do is of the plan.
Planned(c) ==
  LET j == job[c] IN
  j.at = "plan" =>
    /\ \A s \in j.steps : s[1] \in PlanSteps(j)
    /\ j.rest \subseteq PlanSteps(j)
    /\ \/ \E s \in j.steps : s[2] = "aborted"
       \/ \A d \in PlanSteps(j) : d \in j.rest \/ \E s \in j.steps : s[1] = d
    /\ run[c] # NoCall => run[c].command \in j.rest

\* The version of a file others have changed is newer than the baseline's.
Outdated ==
  /\ \A p \in Path : files[p] <= edits
  /\ baseline.hashed =>
       \A p \in Hashed :
         /\ baseline.files[p] <= edits
         /\ p \in foreign => baseline.files[p] < files[p]

VerifierInv ==
  /\ TypeOK /\ RunnerInv
  /\ \A c \in Verifier : Planned(c)
  /\ Outdated

\* The variables TypeOK speaks of besides the runner's.
Typed ==
  /\ job \in [Verifier -> Job]
  /\ last # NoFingerprint => last[2] \in Asked /\ last[3] \subseteq Path
  /\ baseline.hashed => baseline.files \in [Hashed -> 0 .. MaxEdits]
  /\ baseline.diagnostics \subseteq Diagnostic
  /\ files \in [Path -> 0 .. MaxEdits] /\ {changed, foreign} \subseteq SUBSET Path
  /\ edits \in 0 .. MaxEdits /\ checks \in 0 .. MaxChecks

\* The types of the whole are those of the runner and of the verifications.
LEMMA TypeOKIsTyped == TypeOK <=> RunnerTypeOK /\ Typed
BY DEF TypeOK, Typed

\* What a verification has while it plans.
LEMMA PlanOf ==
  ASSUME Typed, NEW c \in Verifier, job[c].at = "plan"
  PROVE  /\ c \in Caller
         /\ job[c] \in [at : {"plan"}, input : Input, allowed : SUBSET Path,
                        compare : BOOLEAN, rest : SUBSET Command,
                        steps : SUBSET (Command \X StepStatus)]
BY VerifierAssumption DEF Typed, Job, NoJob

\* VerifierInv holds initially.
LEMMA InitHolds == Init => VerifierInv
<1> SUFFICES ASSUME Init PROVE VerifierInv
  OBVIOUS
<1>1. NoCall \in Call /\ Fit(NoCall) /\ NoCall.at = "idle"
  BY DEF NoCall, Call, Outcome, Fit
<1>2. RunnerTypeOK
  BY <1>1, Limits DEF Init, RunnerInit, RunnerTypeOK
<1>3. Running = {}
  BY <1>1 DEF Running, Init, RunnerInit
<1>4. RunnerInv
  BY <1>1, <1>2, <1>3, FS_EmptySet DEF RunnerInv, Init, RunnerInit
<1>5. Typed /\ Outdated
  <2>1. ~baseline.hashed /\ baseline.diagnostics \subseteq Diagnostic
    BY DEF Init, NoBaseline, Unhashed
  <2>2. QED
    BY <2>1, VerifierBounds DEF Init, Typed, Outdated, Job, NoJob, NoFingerprint
<1>6. \A c \in Verifier : Planned(c)
  BY DEF Init, Planned, NoJob
<1>7. QED
  BY <1>2, <1>4, <1>5, <1>6, TypeOKIsTyped DEF VerifierInv

\* The runner's part: whatever the verifiers and others ask of it.
LEMMA RunnerKept ==
  ASSUME VerifierInv, [Next]_vars
  PROVE  RunnerInv'
<1>0. RunnerInv /\ Typed
  BY TypeOKIsTyped DEF VerifierInv
<1>1. ASSUME NEW c \in Caller, Runner(c) \/ Environment(c)
      PROVE  RunnerInv'
  BY <1>0, <1>1, CallGoesOn, OneCall
<1>2. ASSUME NEW c \in Caller, NEW command \in Single, SingleBegins(c, command)
      PROVE  RunnerInv'
  <2>1. command \in Command
    BY VerifierAssumption
  <2>2. QED
    BY <1>0, <1>2, <2>1, CallBegins DEF SingleBegins
<1>3. ASSUME NEW c \in Caller, SingleEnds(c)
      PROVE  RunnerInv'
  BY <1>0, <1>3, CallTaken DEF SingleEnds
<1>4. ASSUME NEW c \in Verifier, NextStep(c)
      PROVE  RunnerInv'
  <2>1. PICK command \in Foremost(job[c].rest) : Begin(c, command)
    BY <1>4 DEF NextStep
  <2>2. c \in Caller /\ command \in Command
    BY <1>0, <1>4, <2>1, PlanOf DEF NextStep, Foremost
  <2>3. QED
    BY <1>0, <2>1, <2>2, CallBegins
<1>5. ASSUME NEW c \in Verifier, StepEnds(c)
      PROVE  RunnerInv'
  <2>1. c \in Caller
    BY <1>0, <1>5, PlanOf DEF StepEnds
  <2>2. QED
    BY <1>0, <1>5, <2>1, CallTaken DEF StepEnds
<1>6. CASE UNCHANGED runnerVars
  BY <1>0, <1>6, RunnerStays
<1>7. QED
  BY <1>1, <1>2, <1>3, <1>4, <1>5, <1>6
  DEF Next, Verifying, VerifyBegins, VerifyEnds, Edit, vars

\* The types of what the verifier keeps.
LEMMA TypedKept ==
  ASSUME VerifierInv, [Next]_vars
  PROVE  Typed'
<1>0. Typed /\ RunnerTypeOK
  BY TypeOKIsTyped DEF VerifierInv
<1>1. ASSUME NEW c \in Verifier, NEW i \in Input, NEW b \in BOOLEAN, VerifyBegins(c, i, b)
      PROVE  Typed'
  <2> DEFINE a == IF i.told THEN changed ELSE {}
             k == [at |-> "plan", input |-> i, allowed |-> a, compare |-> b,
                   rest |-> {}, steps |-> {}]
             j == [k EXCEPT !.rest = PlanSteps(k)]
  <2>1. PlanSteps(k) \in SUBSET Command /\ a \in SUBSET Path
    BY <1>0 DEF PlanSteps, Catalog, Typed
  <2>2. j \in Job
    BY <2>1 DEF Job
  <2>3. checks' \in 0 .. MaxChecks
    BY <1>0, <1>1, VerifierBounds DEF VerifyBegins, Typed
  <2>4. job' = [job EXCEPT ![c] = j]
    BY <1>1 DEF VerifyBegins
  <2> HIDE DEF j
  <2>5. QED
    BY <1>0, <1>1, <2>2, <2>3, <2>4 DEF VerifyBegins, Typed
<1>2. ASSUME NEW c \in Verifier, StepEnds(c)
      PROVE  Typed'
  <2>1. job[c].at = "plan" /\ run[c].outcome \in Outcome
    <3>1. job[c].at = "plan"
      BY <1>2 DEF StepEnds
    <3>2. c \in Caller
      BY <1>0, <3>1, PlanOf
    <3>3. QED
      BY <1>0, <3>1, <3>2 DEF RunnerTypeOK, Call
  <2>2. /\ job[c] \in [at : {"plan"}, input : Input, allowed : SUBSET Path,
                        compare : BOOLEAN, rest : SUBSET Command,
                        steps : SUBSET (Command \X StepStatus)]
        /\ c \in Caller
    BY <1>0, <2>1, PlanOf
  <2>3. CASE run[c].outcome = "limit"
    BY <1>0, <1>2, <2>3 DEF StepEnds, Typed, Job
  <2>4. CASE run[c].outcome # "limit"
    <3> DEFINE status == OfOutcome(run[c].outcome)
               rest == IF run[c].outcome = "aborted" THEN {} ELSE job[c].rest \ {run[c].command}
               j == [job[c] EXCEPT !.rest = rest,
                                   !.steps = job[c].steps \cup {<<run[c].command, status>>}]
    <3>1. status \in StepStatus
      BY <2>1 DEF OfOutcome, StepStatus, Outcome
    <3>2. run[c].command \in Command
      <4>1. run[c] # NoCall
        BY <1>2 DEF StepEnds, NoCall
      <4>2. Planned(c)
        BY DEF VerifierInv
      <4>3. run[c].command \in job[c].rest
        BY <2>1, <4>1, <4>2 DEF Planned
      <4>4. job[c].rest \in SUBSET Command
        BY <2>2
      <4>5. QED
        BY <4>3, <4>4
    <3>3. rest \in SUBSET Command
      BY <2>2
    <3>4. job' = [job EXCEPT ![c] = j]
      BY <1>2, <2>4 DEF StepEnds
    <3> HIDE DEF status, rest
    <3>5. job[c].steps \cup {<<run[c].command, status>>} \in SUBSET (Command \X StepStatus)
      BY <2>2, <3>1, <3>2
    <3>6. j \in Job
      BY <2>2, <3>3, <3>5 DEF Job
    <3> HIDE DEF j
    <3>7. QED
      BY <1>0, <1>2, <3>4, <3>6 DEF StepEnds, Typed
  <2>5. QED
    BY <2>3, <2>4
<1>3. ASSUME NEW c \in Verifier, VerifyEnds(c)
      PROVE  Typed'
  <2>1. job[c].input \in Input /\ job[c].allowed \in SUBSET Path
    BY <1>0, <1>3, PlanOf DEF VerifyEnds
  <2>2. last'[2] \in Asked /\ last'[3] \subseteq Path
    <3>1. last'[2] = [job[c].input EXCEPT !.told = TRUE] /\ last'[3] = job[c].allowed
      BY <1>3 DEF VerifyEnds, Fingerprint
    <3>2. QED
      BY <2>1, <3>1 DEF Asked
  <2>3. job' \in [Verifier -> Job]
    BY <1>0, <1>3 DEF VerifyEnds, Typed, Job
  <2>4. /\ baseline'.hashed => baseline'.files \in [Hashed -> 0 .. MaxEdits]
        /\ baseline'.diagnostics \subseteq Diagnostic
        /\ foreign' \in SUBSET Path
    <3>1. Snapshot \in [Hashed -> 0 .. MaxEdits]
      BY <1>0, VerifierAssumption DEF Snapshot, Typed
    <3>2. QED
      BY <1>0, <1>3, <3>1 DEF VerifyEnds, Typed
  <2>5. QED
    BY <1>0, <1>3, <2>2, <2>3, <2>4 DEF VerifyEnds, Typed
<1>4. ASSUME NEW p \in Path, NEW b \in BOOLEAN, Edit(p, b)
      PROVE  Typed'
  <2>1. edits + 1 \in 0 .. MaxEdits
    BY <1>0, <1>4, VerifierBounds DEF Edit, Typed
  <2>2. files' \in [Path -> 0 .. MaxEdits]
    BY <1>0, <1>4, <2>1 DEF Edit, Typed
  <2>3. {changed', foreign'} \subseteq SUBSET Path
    BY <1>0, <1>4 DEF Edit, Typed
  <2>4. QED
    BY <1>0, <1>4, <2>1, <2>2, <2>3 DEF Edit, Typed
<1>5. CASE UNCHANGED verifierVars
  BY <1>0, <1>5 DEF Typed, verifierVars
<1>6. QED
  BY <1>1, <1>2, <1>3, <1>4, <1>5
  DEF Next, Verifying, NextStep, SingleBegins, SingleEnds, vars

\* A verification never loses sight of a command of its plan.
LEMMA PlannedKept ==
  ASSUME VerifierInv, [Next]_vars
  PROVE  \A c \in Verifier : Planned(c)'
<1>0. /\ Typed /\ RunnerInv /\ RunnerTypeOK
      /\ \A c \in Verifier : Planned(c) /\ c \in Caller
  BY TypeOKIsTyped, VerifierAssumption DEF VerifierInv
<1>1. ASSUME NEW c \in Caller, Runner(c) \/ Environment(c), UNCHANGED verifierVars
      PROVE  \A d \in Verifier : Planned(d)'
  <2>1. /\ run[c] # NoCall /\ run'[c].command = run[c].command
        /\ \A d \in Caller \ {c} : run'[d] = run[d]
    <3>1. run[c] # NoCall
      BY <1>0, <1>1, CallGoesOn
    <3>2. PICK x : Becomes(c, x) /\ x.command = run[c].command
      BY <1>0, <1>1, CallGoesOn
    <3>3. QED
      BY <1>0, <3>1, <3>2, OneCall
  <2>2. QED
    BY <1>0, <1>1, <2>1 DEF Planned, verifierVars
<1>2. ASSUME NEW c \in Caller, NEW command \in Single, SingleBegins(c, command)
      PROVE  \A d \in Verifier : Planned(d)'
  <2>1. command \in Command
    BY VerifierAssumption
  <2>2. \A d \in Verifier : run'[d] = run[d]
    BY <1>0, <1>2, <2>1, CallBegins DEF SingleBegins
  <2>3. QED
    BY <1>0, <1>2, <2>2 DEF Planned, SingleBegins, verifierVars
<1>3. ASSUME NEW c \in Caller, SingleEnds(c)
      PROVE  \A d \in Verifier : Planned(d)'
  <2>1. \A d \in Verifier : run'[d] = run[d]
    BY <1>0, <1>3, CallTaken DEF SingleEnds
  <2>2. QED
    BY <1>0, <1>3, <2>1 DEF Planned, SingleEnds, verifierVars
<1>4. ASSUME NEW c \in Verifier, NEW i \in Input, NEW b \in BOOLEAN, VerifyBegins(c, i, b)
      PROVE  \A d \in Verifier : Planned(d)'
  <2> DEFINE a == IF i.told THEN changed ELSE {}
             k == [at |-> "plan", input |-> i, allowed |-> a, compare |-> b,
                   rest |-> {}, steps |-> {}]
             j == [k EXCEPT !.rest = PlanSteps(k)]
  <2>1. job' = [job EXCEPT ![c] = j] /\ run' = run /\ run[c] = NoCall
    BY <1>4 DEF VerifyBegins, runnerVars
  <2>2. j.rest = PlanSteps(j) /\ j.steps = {}
    BY DEF PlanSteps, InScope
  <2> HIDE DEF j
  <2>3. job'[c] = j /\ \A d \in Verifier \ {c} : job'[d] = job[d]
    BY <1>0, <2>1 DEF Typed
  <2>4. Planned(c)'
    BY <2>1, <2>2, <2>3 DEF Planned
  <2>5. \A d \in Verifier \ {c} : Planned(d)'
    BY <1>0, <2>1, <2>3 DEF Planned
  <2>6. QED
    BY <2>4, <2>5
<1>5. ASSUME NEW c \in Verifier, NextStep(c)
      PROVE  \A d \in Verifier : Planned(d)'
  <2>1. PICK command \in Foremost(job[c].rest) : Begin(c, command)
    BY <1>5 DEF NextStep
  <2>2. command \in job[c].rest /\ command \in Command
    BY <1>0, <1>5, <2>1, PlanOf DEF NextStep, Foremost
  <2>3. run'[c].command = command /\ \A d \in Caller \ {c} : run'[d] = run[d]
    BY <1>0, <2>1, <2>2, CallBegins
  <2>4. QED
    BY <1>0, <1>5, <2>2, <2>3 DEF Planned, NextStep, verifierVars
<1>6. ASSUME NEW c \in Verifier, StepEnds(c)
      PROVE  \A d \in Verifier : Planned(d)'
  <2>1. /\ job[c].at = "plan" /\ run[c].at = "idle" /\ run[c].outcome # "none"
        /\ run' = [run EXCEPT ![c] = NoCall]
    BY <1>6 DEF StepEnds
  <2>2. run'[c] = NoCall /\ \A d \in Caller \ {c} : run'[d] = run[d]
    BY <1>0, <1>6, <2>1, CallTaken DEF StepEnds
  <2>3. \A d \in Verifier \ {c} : job'[d] = job[d]
    BY <1>0, <1>6 DEF StepEnds, Typed
  <2>4. \A d \in Verifier \ {c} : Planned(d)'
    BY <1>0, <2>2, <2>3 DEF Planned
  <2>5. CASE run[c].outcome = "limit"
    <3>1. job'[c] = NoJob
      BY <1>0, <1>6, <2>5 DEF StepEnds, Typed
    <3>2. Planned(c)'
      BY <3>1 DEF Planned, NoJob
    <3>3. QED
      BY <2>4, <3>2
  <2>6. CASE run[c].outcome # "limit"
    <3> DEFINE done == run[c].command
               status == OfOutcome(run[c].outcome)
               rest == IF run[c].outcome = "aborted" THEN {} ELSE job[c].rest \ {done}
               steps == job[c].steps \cup {<<done, status>>}
               j == [job[c] EXCEPT !.rest = rest, !.steps = steps]
    <3>1. job' = [job EXCEPT ![c] = j]
      BY <1>6, <2>6 DEF StepEnds
    <3>2. /\ job[c] \in [at : {"plan"}, input : Input, allowed : SUBSET Path,
                         compare : BOOLEAN, rest : SUBSET Command,
                         steps : SUBSET (Command \X StepStatus)]
      BY <1>0, <2>1, PlanOf
    <3>3. /\ \A s \in job[c].steps : s[1] \in PlanSteps(job[c])
          /\ job[c].rest \subseteq PlanSteps(job[c])
          /\ \/ \E s \in job[c].steps : s[2] = "aborted"
             \/ \A d \in PlanSteps(job[c]) :
                  d \in job[c].rest \/ \E s \in job[c].steps : s[1] = d
          /\ done \in job[c].rest
      BY <1>0, <2>1 DEF Planned, NoCall
    <3>4. run[c].outcome = "aborted" => status = "aborted"
      BY DEF OfOutcome
    <3> HIDE DEF status, done
    <3>5. <<done, status>>[1] = done /\ <<done, status>>[2] = status /\ <<done, status>> \in steps
      OBVIOUS
    <3>6. \A s \in steps : s[1] \in PlanSteps(job[c])
      BY <3>3, <3>5
    <3>7. rest \subseteq PlanSteps(job[c])
      BY <3>3
    <3>8. \/ \E s \in steps : s[2] = "aborted"
          \/ \A d \in PlanSteps(job[c]) : d \in rest \/ \E s \in steps : s[1] = d
      BY <3>3, <3>4, <3>5
    <3> HIDE DEF steps, rest
    <3>9. PlanSteps(j) = PlanSteps(job[c]) /\ j.rest = rest /\ j.steps = steps
      <4>1. /\ j.input = job[c].input /\ j.allowed = job[c].allowed
            /\ j.rest = rest /\ j.steps = steps
        BY <3>2
      <4>2. QED
        BY <4>1 DEF PlanSteps, InScope
    <3> HIDE DEF j
    <3>10. job'[c] = j
      BY <1>0, <3>1 DEF Typed
    <3>11. Planned(c)'
      BY <2>2, <3>6, <3>7, <3>8, <3>9, <3>10 DEF Planned
    <3>12. QED
      BY <2>4, <3>11
  <2>7. QED
    BY <2>5, <2>6
<1>7. ASSUME NEW c \in Verifier, VerifyEnds(c)
      PROVE  \A d \in Verifier : Planned(d)'
  <2>1. /\ run' = run /\ job'[c] = NoJob
        /\ \A d \in Verifier \ {c} : job'[d] = job[d]
    BY <1>0, <1>7 DEF VerifyEnds, Typed, runnerVars
  <2>2. Planned(c)'
    BY <2>1 DEF Planned, NoJob
  <2>3. QED
    BY <1>0, <2>1, <2>2 DEF Planned
<1>8. CASE UNCHANGED <<run, job>>
  BY <1>0, <1>8 DEF Planned
<1>9. QED
  BY <1>1, <1>2, <1>3, <1>4, <1>5, <1>6, <1>7, <1>8
  DEF Next, Verifying, Edit, vars, runnerVars, verifierVars

\* What others change is outdated until the next baseline.
LEMMA OutdatedKept ==
  ASSUME VerifierInv, [Next]_vars
  PROVE  Outdated'
<1>0. Typed /\ Outdated
  BY TypeOKIsTyped DEF VerifierInv
<1>1. ASSUME NEW c \in Verifier, VerifyEnds(c)
      PROVE  Outdated'
  <2>1. CASE job[c].compare
    <3>1. UNCHANGED <<files, edits, baseline, foreign>>
      BY <1>1, <2>1 DEF VerifyEnds
    <3>2. QED
      BY <1>0, <3>1 DEF Outdated
  <2>2. CASE ~job[c].compare
    <3>1. UNCHANGED <<files, edits>> /\ foreign' = {} /\ baseline'.files = Snapshot
      BY <1>1, <2>2 DEF VerifyEnds
    <3>2. QED
      BY <1>0, <3>1, VerifierAssumption DEF Outdated, Snapshot
  <2>3. QED
    BY <2>1, <2>2
<1>2. ASSUME NEW p \in Path, NEW b \in BOOLEAN, Edit(p, b)
      PROVE  Outdated'
  <2>1. /\ edits' = edits + 1 /\ UNCHANGED baseline
        /\ foreign' \subseteq foreign \cup {p}
        /\ files'[p] = edits + 1
        /\ \A q \in Path \ {p} : files'[q] = files[q]
    BY <1>0, <1>2 DEF Edit, Typed
  <2>2. edits \in Nat /\ files \in [Path -> Nat]
    BY <1>0, VerifierBounds DEF Typed
  <2>3. \A q \in Path : files'[q] <= edits'
    BY <1>0, <2>1, <2>2 DEF Outdated
  <2>4. ASSUME baseline.hashed, NEW q \in Hashed
        PROVE  /\ baseline.files[q] <= edits'
               /\ q \in foreign' => baseline.files[q] < files'[q]
    <3>1. /\ baseline.files[q] \in Nat /\ baseline.files[q] <= edits
          /\ q \in foreign => baseline.files[q] < files[q]
      BY <1>0, <2>4, VerifierBounds, VerifierAssumption DEF Typed, Outdated
    <3>2. QED
      BY <2>1, <2>2, <3>1, VerifierAssumption
  <2>5. QED
    BY <2>1, <2>3, <2>4 DEF Outdated
<1>3. CASE UNCHANGED <<files, edits, baseline, foreign>>
  BY <1>0, <1>3 DEF Outdated
<1>4. QED
  BY <1>1, <1>2, <1>3
  DEF Next, Verifying, NextStep, StepEnds, VerifyBegins, SingleBegins, SingleEnds, vars,
      verifierVars

\* Every step keeps VerifierInv.
LEMMA StepKeepsInv == VerifierInv /\ [Next]_vars => VerifierInv'
<1> SUFFICES ASSUME VerifierInv, [Next]_vars PROVE VerifierInv'
  OBVIOUS
<1>1. RunnerInv' /\ RunnerTypeOK'
  BY RunnerKept DEF RunnerInv
<1>2. TypeOK'
  BY <1>1, TypedKept DEF TypeOK, Typed
<1>3. (\A c \in Verifier : Planned(c))' /\ Outdated'
  BY PlannedKept, OutdatedKept
<1>4. QED
  BY <1>1, <1>2, <1>3 DEF VerifierInv

\* VerifierInv holds in every reachable state.
LEMMA VerifierInvAlways == Spec => []VerifierInv
BY InitHolds, StepKeepsInv, PTL DEF Spec

-----------------------------------------------------------------------------
(***************************************************************************)
(* The theorems.                                                           *)
(***************************************************************************)

\* Calls, verifications, baseline and counters stay what they are declared to
\* be: the limit of parallel commands, for one, is never exceeded.
THEOREM VerifierTypeCorrect == Spec => []TypeOK
<1>1. VerifierInv => TypeOK
  BY DEF VerifierInv
<1>2. QED
  BY <1>1, VerifierInvAlways, PTL

\* CommandRunner.run keeps the session's limits for any number of callers: a
\* slot is counted for exactly the commands that run.
THEOREM LimitsHoldAlways == Spec => []LimitsHold
<1>1. VerifierInv => LimitsHold
  BY Limits DEF VerifierInv, RunnerInv, RunnerTypeOK, LimitsHold
<1>2. QED
  BY <1>1, VerifierInvAlways, PTL

\* DefaultCommandPolicy is obeyed by every process, whatever is awaited between
\* its decision and the start.
THEOREM OnlyPermittedRunAlways == Spec => []OnlyPermittedRun
<1>1. VerifierInv => OnlyPermittedRun
  <2> SUFFICES ASSUME VerifierInv, NEW c \in Running
               PROVE  LET command == run[c].command IN
                      /\ command.traits \cap Never = {}
                      /\ command.writes => Options.mode = "write"
                      /\ command.network => Options.network
                      /\ "install" \in command.traits => Options.install
                      /\ (command.writes \/ command.network \/ command.source = "user_config")
                           => run[c].confirmed
    BY DEF OnlyPermittedRun
  <2>1. /\ ~Forbidden(run[c].command)
        /\ RequiresConfirmation(run[c].command) => run[c].confirmed = TRUE
    BY DEF VerifierInv, RunnerInv, Fit, Running
  <2>2. QED
    BY <2>1 DEF Forbidden, RequiresConfirmation
<1>2. QED
  BY <1>1, VerifierInvAlways, PTL

\* A step that makes a report: every command of the plan has been dealt with.
LEMMA ReportStep ==
  ASSUME VerifierInv, [Next]_vars, NEW c \in Verifier, Reports(c)
  PROVE  job[c].at = "plan" /\ job[c].rest = {} /\ Planned(c)
<1>0. Typed /\ RunnerTypeOK /\ Planned(c) /\ c \in Caller
  BY TypeOKIsTyped, VerifierAssumption DEF VerifierInv
<1>1. job[c].at = "plan" /\ job'[c] = NoJob /\ job'[c] # job[c] /\ run' = run
  BY DEF Reports, NoJob
<1>2. ASSUME NEW d \in Verifier, VerifyEnds(d)
      PROVE  job[c].rest = {}
  <2>1. c = d
    BY <1>0, <1>1, <1>2 DEF VerifyEnds, Typed
  <2>2. QED
    BY <1>2, <2>1 DEF VerifyEnds
<1>3. ASSUME NEW d \in Verifier, StepEnds(d)
      PROVE  FALSE
  <2>1. c = d
    BY <1>0, <1>1, <1>3 DEF StepEnds, Typed
  <2>2. run'[c] = NoCall /\ run[c].outcome # "none"
    BY <1>0, <1>3, <2>1 DEF StepEnds, RunnerTypeOK
  <2>3. QED
    BY <1>1, <2>2 DEF NoCall
<1>4. ASSUME NEW d \in Verifier, NEW i \in Input, NEW b \in BOOLEAN, VerifyBegins(d, i, b)
      PROVE  FALSE
  <2>1. c = d
    BY <1>0, <1>1, <1>4 DEF VerifyBegins, Typed
  <2>2. QED
    BY <1>1, <1>4, <2>1 DEF VerifyBegins, NoJob
<1>5. ~UNCHANGED job
  BY <1>1
<1>6. QED
  BY <1>0, <1>1, <1>2, <1>3, <1>4, <1>5
  DEF Next, Verifying, NextStep, SingleBegins, SingleEnds, Edit, vars, verifierVars

\* ProjectVerifier never reports "passed" for a plan of which a command did not
\* run to its end, and never "failed" without one that failed.
THEOREM VerdictIsEarnedAlways == Spec => VerdictIsEarned
<1>1. ASSUME VerifierInv, [Next]_vars, NEW c \in Verifier, Reports(c)
      PROVE  Earned(job[c])
  <2>1. /\ job[c].at = "plan" /\ job[c].rest = {} /\ Planned(c)
        /\ job[c].steps \subseteq Command \X StepStatus
    BY <1>1, ReportStep, PlanOf, TypeOKIsTyped DEF VerifierInv
  <2> DEFINE plan == PlanSteps(job[c])
  <2>2. /\ \A s \in job[c].steps : s[1] \in plan
        /\ \/ \E s \in job[c].steps : s[2] = "aborted"
           \/ \A d \in plan : \E s \in job[c].steps : s[1] = d
    BY <2>1 DEF Planned
  <2>3. CASE \E s \in job[c].steps : s[2] \in {"aborted"}
    BY <2>3 DEF VerdictOf, Earned
  <2>4. CASE /\ ~\E s \in job[c].steps : s[2] \in {"aborted"}
             /\ \E s \in job[c].steps : s[2] \in {"failed", "timeout"}
    BY <2>2, <2>4 DEF VerdictOf, Earned
  <2>5. CASE ~\E s \in job[c].steps : s[2] \in {"aborted", "failed", "timeout"}
    <3>1. VerdictOf(job[c]) # "failed"
      BY <2>5 DEF VerdictOf
    <3>2. ASSUME VerdictOf(job[c]) = "passed"
          PROVE  /\ plan # {} /\ ~Lacking(job[c])
                 /\ ~\E s \in job[c].steps : s[2] \in {"unavailable"}
      BY <2>5, <3>2 DEF VerdictOf
    <3>3. ASSUME VerdictOf(job[c]) = "passed"
          PROVE  job[c].steps = plan \X {"passed"}
      <4>1. \A s \in job[c].steps : s[2] = "passed" /\ s = <<s[1], s[2]>>
        BY <2>1, <2>5, <3>2, <3>3 DEF StepStatus
      <4>2. job[c].steps \subseteq plan \X {"passed"}
        BY <2>2, <4>1
      <4>3. ASSUME NEW d \in plan
            PROVE  <<d, "passed">> \in job[c].steps
        BY <2>2, <4>1
      <4>4. QED
        BY <4>2, <4>3
    <3>4. QED
      BY <3>1, <3>2, <3>3 DEF Earned
  <2>6. QED
    BY <2>3, <2>4, <2>5
<1>2. VerifierInv /\ [Next]_vars => [\A c \in Verifier : Reports(c) => Earned(job[c])]_vars
  BY <1>1
<1>3. QED
  BY <1>2, VerifierInvAlways, PTL DEF Spec, VerdictIsEarned

\* BaselineService and RegressionDetector never call a problem old by a baseline
\* with hashes that others have made out of date in a file a snapshot takes.
THEOREM OldIsOldAlways == Spec => OldIsOld
<1>1. ASSUME VerifierInv, NEW current \in SUBSET Diagnostic, NEW allowed
      PROVE  Old(current, allowed)
  <2>1. /\ foreign \subseteq Path /\ Outdated /\ files \in [Path -> 0 .. MaxEdits]
        /\ baseline.hashed => baseline.files \in [Hashed -> 0 .. MaxEdits]
    BY <1>1, TypeOKIsTyped DEF VerifierInv, Typed
  <2>2. CASE Usable(baseline, files, allowed)
    <3>1. baseline.hashed => foreign \cap Hashed \subseteq allowed
      BY <2>1, <2>2, VerifierAssumption DEF Usable, Outdated
    <3>2. Comparison(current, allowed) = Compare(current, baseline.diagnostics)
      BY <2>2 DEF Comparison
    <3>3. Compare(current, baseline.diagnostics).preExisting
            \cap Compare(current, baseline.diagnostics).regressions = {}
      BY DEF Compare
    <3>4. QED
      BY <3>1, <3>2, <3>3 DEF Old
  <2>3. CASE ~Usable(baseline, files, allowed)
    BY <2>3 DEF Comparison, Old
  <2>4. QED
    BY <2>2, <2>3
<1>2. VerifierInv /\ [Next]_vars =>
        [\A c \in Verifier : Reports(c) /\ job[c].compare =>
           \A current \in SUBSET Diagnostic : Old(current, job[c].allowed)]_vars
  BY <1>1
<1>3. QED
  BY <1>2, VerifierInvAlways, PTL DEF Spec, OldIsOld
=============================================================================

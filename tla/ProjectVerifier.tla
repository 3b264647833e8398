-------------------------- MODULE ProjectVerifier --------------------------
(***************************************************************************)
(* ProjectVerifier over a CommandRunner: the catalog of detected commands, *)
(* the plan of a verification, its verdict, and the comparison with the    *)
(* baseline.  Some callers of the runner verify, all run single commands.  *)
(*                                                                         *)
(* The diagnostics that commands print are the environment's choice, and   *)
(* so are the edits of the files: those of the current ChangeSet, which a  *)
(* verification is told of, and those of others.                           *)
(***************************************************************************)
EXTENDS CommandRunner

CONSTANTS
  Verifier,    \* the callers that verify
  Single,      \* the commands that are asked for by themselves
  Input,       \* what a verification may be asked for: categories, the scope,
               \* and whether it is told the files of the ChangeSet
  Path,        \* files of the workspace
  Hashed,      \* those of them that a snapshot takes: not in a skipped directory,
               \* no link, not over 5 MB
  Diagnostic,  \* [print, place, error]: fingerprint, locationKey, severity
  MaxEdits,    \* bound: edits of the files
  MaxChecks    \* bound: verifications and baselines begun

\* Why the detector does not allow a command: its program is missing, or the
\* name or the text of its script is not fit, or it has none.
Blocking == {"unavailable", "unsafe_name", "unsafe_text", "no_script"}

ASSUME VerifierAssumption ==
  /\ Verifier \subseteq Caller /\ Single \subseteq Command /\ Hashed \subseteq Path
  /\ {MaxEdits, MaxChecks} \subseteq Nat
  /\ Input \subseteq
       [include : SUBSET {"format", "lint", "typecheck", "test", "build"},
        scope : {"changed_files", "affected_packages"}, told : BOOLEAN]
  /\ \A c \in Command : c.detector \subseteq Blocking /\ c.home \subseteq Path

VARIABLES
  job,       \* the verification of each verifier
  last,      \* lastVerificationFingerprint
  baseline,  \* what latest() finds
  files,     \* the version of each file
  changed,   \* files of the current ChangeSet
  foreign,   \* history: files others have changed since the baseline was made
  edits, checks

verifierVars == <<job, last, baseline, files, changed, foreign, edits, checks>>
vars == <<runnerVars, verifierVars>>

StepStatus == {"passed", "failed", "timeout", "aborted", "unavailable"}

NoJob == [at |-> "none"]
NoFingerprint == <<>>

\* What a fingerprint knows of an input.
Asked == {[i EXCEPT !.told = TRUE] : i \in Input}

NoBaseline == [files |-> <<>>, diagnostics |-> {}, is |-> FALSE, hashed |-> FALSE]

\* A baseline whose file has no hashes (fileHashes is optional).
Unhashed(ds) == [files |-> <<>>, diagnostics |-> ds, is |-> TRUE, hashed |-> FALSE]

Job == {NoJob} \cup
  [at : {"plan"}, input : Input, allowed : SUBSET Path, compare : BOOLEAN,
   rest : SUBSET Command, steps : SUBSET (Command \X StepStatus)]

TypeOK ==
  /\ RunnerTypeOK
  /\ job \in [Verifier -> Job]
  /\ last # NoFingerprint => last[2] \in Asked /\ last[3] \subseteq Path
  /\ baseline.hashed => baseline.files \in [Hashed -> 0 .. MaxEdits]
  /\ baseline.diagnostics \subseteq Diagnostic
  /\ files \in [Path -> 0 .. MaxEdits] /\ {changed, foreign} \subseteq SUBSET Path
  /\ edits \in 0 .. MaxEdits /\ checks \in 0 .. MaxChecks

Init ==
  /\ RunnerInit
  /\ job = [c \in Verifier |-> NoJob]
  /\ last = NoFingerprint
  /\ baseline \in {NoBaseline} \cup {Unhashed(ds) : ds \in SUBSET Diagnostic}
  /\ files = [p \in Path |-> 0] /\ changed = {} /\ foreign = {}
  /\ edits = 0 /\ checks = 0

-----------------------------------------------------------------------------
(* ProjectScriptDetector, VerificationPlanBuilder.                         *)

\* A formatter that writes is shown, and not allowed.
Offered(c) == c.detector = {} /\ ~c.writes

\* The catalog: what may be run at all, of the scripts of the project and of the
\* tools its kind of project has.
Catalog == {c \in Command : Offered(c)}

\* scopedDetection: only when it is told the files, a verification of the
\* changed files leaves out the packages without any.  The commands of the
\* workspace's own package are at home in all of it.
InScope(c, j) ==
  j.input.scope = "changed_files" /\ j.input.told =>
    c.home = Path \/ c.home \cap j.allowed # {}

PlanSteps(j) == {c \in Catalog : InScope(c, j) /\ c.category \in j.input.include}

Lacking(j) == \E i \in j.input.include : \A c \in PlanSteps(j) : c.category # i

Order == [format |-> 0, lint |-> 1, typecheck |-> 2, test |-> 3, build |-> 4]

Foremost(commands) ==
  {c \in commands : \A d \in commands : Order[c.category] <= Order[d.category]}

-----------------------------------------------------------------------------
(* The verdict.                                                            *)

OfOutcome(outcome) ==
  CASE outcome = "success" -> "passed"
    [] outcome \in {"timeout", "aborted", "failed"} -> outcome
    [] OTHER -> "unavailable"

\* Wrong variant of VerdictOf: what could not be run does not count.
VerdictOfRun(j) ==
  LET some(status) == \E s \in j.steps : s[2] \in status
  IN CASE some({"aborted"}) -> "aborted"
       [] ~some({"aborted"}) /\ some({"failed", "timeout"}) -> "failed"
       [] OTHER -> "passed"

VerdictOf(j) ==
  LET some(status) == \E s \in j.steps : s[2] \in status
  IN CASE some({"aborted"}) -> "aborted"
       [] ~some({"aborted"}) /\ PlanSteps(j) = {} -> "unavailable"
       [] ~some({"aborted"}) /\ some({"failed", "timeout"}) -> "failed"
       [] ~some({"aborted", "failed", "timeout"}) /\ PlanSteps(j) # {}
            /\ (some({"unavailable"}) \/ Lacking(j)) -> "partial"
       [] OTHER -> "passed"

-----------------------------------------------------------------------------
(* BaselineService.latest and RegressionDetector.compare.                  *)

\* Wrong variant of Usable: a baseline is never out of date.
UsableAlways(base, now, allowed) == base.is

\* latest() throws BaselineInvalidError when a file has changed that the
\* ChangeSet does not account for; verifyInternal goes on without a baseline.
\* A baseline without hashes is taken as it is.
Usable(base, now, allowed) ==
  /\ base.is
  /\ base.hashed => \A p \in Hashed \ allowed : base.files[p] = now[p]

Prints(ds) == {d.print : d \in ds}
Places(ds) == {d.place : d \in ds}

Compare(current, old) ==
  LET known == {d \in current : d.print \in Prints(old)}
      moved == {d \in current \ known : d.place \in Places(old)}
  IN [regressions |-> {d \in current \ known : d \in moved => d.error},
      preExisting |-> known,
      resolved |-> {d \in old : d.print \notin Prints(current)
                                /\ d.place \notin Places(current)}]

\* What a verification that prints these diagnostics has to say of them.
Comparison(current, allowed) ==
  IF Usable(baseline, files, allowed)
  THEN Compare(current, baseline.diagnostics)
  ELSE [regressions |-> current, preExisting |-> {}, resolved |-> {}]

-----------------------------------------------------------------------------
(* verifyInternal.                                                         *)

Snapshot == [p \in Hashed |-> files[p]]

\* verificationFingerprint; whether it was told no files or none has changed
\* makes no difference.
Fingerprint(input, allowed) == <<Snapshot, [input EXCEPT !.told = TRUE], allowed>>

\* verify compares with the baseline, and throws when it has been asked the
\* same of the same files before; createBaseline makes a baseline.
VerifyBegins(c, input, compare) ==
  LET allowed == IF input.told THEN changed ELSE {}
      j == [at |-> "plan", input |-> input, allowed |-> allowed,
            compare |-> compare, rest |-> {}, steps |-> {}]
  IN
  /\ job[c] = NoJob /\ run[c] = NoCall /\ checks < MaxChecks
  /\ compare => last # Fingerprint(input, allowed)
  /\ job' = [job EXCEPT ![c] = [j EXCEPT !.rest = PlanSteps(j)]]
  /\ checks' = checks + 1
  /\ UNCHANGED <<runnerVars, last, baseline, files, changed, foreign, edits>>

NextStep(c) ==
  /\ job[c].at = "plan" /\ run[c] = NoCall
  /\ \E command \in Foremost(job[c].rest) : Begin(c, command)
  /\ UNCHANGED verifierVars

\* A step of the plan has ended: the limit of commands ends the verification by
\* an exception, the signal ends it with the steps so far.
StepEnds(c) ==
  /\ job[c].at = "plan" /\ run[c].at = "idle" /\ run[c].outcome # "none"
  /\ LET command == run[c].command
         outcome == run[c].outcome
     IN job' = [job EXCEPT ![c] =
          IF outcome = "limit" THEN NoJob
          ELSE [job[c] EXCEPT
                  !.rest = IF outcome = "aborted" THEN {} ELSE job[c].rest \ {command},
                  !.steps = job[c].steps \cup {<<command, OfOutcome(outcome)>>}]]
  /\ run' = [run EXCEPT ![c] = NoCall]
  /\ UNCHANGED <<accepted, active, last, baseline, files, changed, foreign, edits, checks>>

\* The report is made, of the verdict VerdictOf(job[c]) and, for verify, of
\* Comparison; a baseline holds the files as they are when it is written.
VerifyEnds(c) ==
  /\ job[c].at = "plan" /\ run[c] = NoCall /\ job[c].rest = {}
  /\ \E current \in SUBSET Diagnostic :
       /\ baseline' = IF job[c].compare THEN baseline
                      ELSE [files |-> Snapshot, diagnostics |-> current,
                            is |-> TRUE, hashed |-> TRUE]
       /\ foreign' = IF job[c].compare THEN foreign ELSE {}
  /\ last' = Fingerprint(job[c].input, job[c].allowed)
  /\ job' = [job EXCEPT ![c] = NoJob]
  /\ UNCHANGED <<runnerVars, files, changed, edits, checks>>

\* A caller runs a command by itself, be it from the catalog (runProjectCommand,
\* runCategory) or not.
SingleBegins(c, command) ==
  /\ c \notin Verifier /\ run[c] = NoCall
  /\ Begin(c, command)
  /\ UNCHANGED verifierVars

SingleEnds(c) ==
  /\ c \notin Verifier
  /\ run[c].at = "idle" /\ run[c].outcome # "none"
  /\ run' = [run EXCEPT ![c] = NoCall]
  /\ UNCHANGED <<accepted, active, verifierVars>>

\* A ChangeSet is applied that takes the place of the one before, or a file is
\* changed by somebody else.
Edit(p, byAgent) ==
  /\ edits < MaxEdits
  /\ edits' = edits + 1
  /\ files' = [files EXCEPT ![p] = edits + 1]
  /\ changed' = IF byAgent THEN {p} ELSE changed
  /\ foreign' = IF byAgent THEN foreign ELSE foreign \cup {p}
  /\ UNCHANGED <<runnerVars, job, last, baseline, checks>>

-----------------------------------------------------------------------------
Verifying(c) == NextStep(c) \/ StepEnds(c) \/ VerifyEnds(c)

Next ==
  \/ \E c \in Caller :
       \/ (Runner(c) \/ Environment(c)) /\ UNCHANGED verifierVars
       \/ \E command \in Single : SingleBegins(c, command)
       \/ SingleEnds(c)
  \/ \E c \in Verifier :
       \/ \E i \in Input, b \in BOOLEAN : VerifyBegins(c, i, b)
       \/ Verifying(c)
  \/ \E p \in Path, b \in BOOLEAN : Edit(p, b)

\* The code goes on when it can, a command has a time limit, and a process that
\* obeys the SIGTERM has ended.
Spec ==
  /\ Init /\ [][Next]_vars
  /\ \A c \in Caller :
       /\ WF_vars(Runner(c) /\ UNCHANGED verifierVars)
       /\ WF_vars(Stop(c, "timeout") /\ UNCHANGED verifierVars)
       /\ WF_vars(SingleEnds(c))
  /\ \A c \in Verifier : WF_vars(Verifying(c))

-----------------------------------------------------------------------------
(* What must hold.                                                         *)

Running == {c \in Caller : run[c].at = "running"}

\* However many callers share the runner, whatever they wait for in between: no
\* more commands are started than the session allows, nor more at a time.
LimitsHold ==
  /\ accepted <= MaxCommands
  /\ Cardinality(Running) = active /\ active <= MaxParallel

\* No process ever runs for a command in which the policy finds what is never
\* allowed, nor for one that writes, uses the network or installs packages where
\* the options do not let it; nor, without the user's confirmation, for one that
\* writes, uses the network or comes from the user's settings.
OnlyPermittedRun ==
  \A c \in Running :
    LET command == run[c].command IN
    /\ command.traits \cap Never = {}
    /\ command.writes => Options.mode = "write"
    /\ command.network => Options.network
    /\ "install" \in command.traits => Options.install
    /\ (command.writes \/ command.network \/ command.source = "user_config")
         => run[c].confirmed

\* c's verification ends in a report, of the verdict VerdictOf(job[c]).
Reports(c) == job[c].at = "plan" /\ job'[c] = NoJob /\ run' = run

\* A verdict that the steps of the plan bear out.
Earned(j) ==
  /\ VerdictOf(j) = "passed" =>
       /\ PlanSteps(j) # {} /\ ~Lacking(j)
       /\ j.steps = PlanSteps(j) \X {"passed"}
  /\ VerdictOf(j) = "failed" => \E s \in j.steps : s[2] \in {"failed", "timeout"}

\* "passed" is said only when every category asked for was there and every one
\* of its commands ended with exit code 0, and "failed" only when one did not.
VerdictIsEarned == [][\A c \in Verifier : Reports(c) => Earned(job[c])]_vars

\* What is called old, or resolved, of these diagnostics is so.
Old(current, allowed) ==
  LET comparison == Comparison(current, allowed) IN
  /\ comparison.preExisting \cap comparison.regressions = {}
  /\ comparison.preExisting \cup comparison.resolved # {} /\ baseline.hashed
       => foreign \cap Hashed \subseteq allowed

\* "Inna zmiana pliku uniewaznia baseline; runtime nie udaje wtedy precyzyjnego
\* porownania" (README): a problem is called old, or resolved, only when nobody
\* else has changed a file that the current ChangeSet does not change; and no
\* problem is called both old and new.  Of files no snapshot takes, and by a
\* baseline without hashes (baselineService.ts:134), nothing is noticed.
OldIsOld ==
  [][\A c \in Verifier : Reports(c) /\ job[c].compare =>
       \A current \in SUBSET Diagnostic : Old(current, job[c].allowed)]_vars

\* The killer has done with a tree whose leader has ended and of which a child
\* still holds the pipes.
Abandoned(c) ==
  run[c].killer = "done" /\ run[c].tree # {} /\ Leader \notin run[c].tree

\* A command that is still at work when its time limit passes ends, and the
\* caller gets its answer and the slot is free again, whichever of its processes
\* do not obey the SIGTERM; unless the leader ends before the SIGKILL and leaves
\* a child behind.  The killer then returns (processTreeKiller.ts:35), and the
\* call lasts as long as that child.
StoppedCallsEnd ==
  \A c \in Caller :
    run[c].killer = "grace" ~> run[c].at = "idle" \/ Abandoned(c)

=============================================================================

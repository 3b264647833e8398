--------------------------- MODULE CommandRunner ---------------------------
(***************************************************************************)
(* CommandRunner.run, DefaultCommandPolicy, ProcessRunner and              *)
(* ProcessTreeKiller.  The tools of all agents of a session share one      *)
(* runner, so several calls of run may be under way; the processes that a  *)
(* command starts live and die on their own.  Processes are those of a     *)
(* POSIX system: a command's tree is a process group.                      *)
(*                                                                         *)
(* What the policy finds in the text of a command is a set of traits of    *)
(* the command.                                                            *)
(***************************************************************************)
EXTENDS Integers, FiniteSets

CONSTANTS
  Caller,       \* who may call run at the same time
  Command,      \* the commands asked for
  Options,      \* CommandPolicyOptions and the access mode
  MaxCommands,  \* maxCommandsPerSession
  MaxParallel,  \* maxParallelCommands
  Interrupt,    \* what may stop a command: its time limit, and a signal
  Stubborn      \* the processes of a tree that may survive a SIGTERM

Trait == {"outside_cwd", "blocked_program", "shell_text", "shell_operator",
          "script_operator", "script_danger", "script_network", "network_words",
          "install", "dangerous_args", "recursive_mode", "docker_login",
          "path_outside"}

Category == {"version", "test", "lint", "typecheck", "build", "format",
             "diagnostic", "custom"}

Leader == "leader"
Process == {Leader, "child"}

ASSUME RunnerAssumption ==
  /\ IsFiniteSet(Caller)
  /\ {MaxCommands, MaxParallel} \subseteq Nat
  /\ Stubborn \subseteq Process /\ Interrupt \subseteq {"timeout", "aborted"}
  /\ Options \in [policy : {"disabled", "verification", "custom"}, mode : {"write", "readonly"},
                  network : BOOLEAN, install : BOOLEAN, scripts : BOOLEAN,
                  custom : BOOLEAN, format : BOOLEAN]
  /\ \A c \in Command :
       /\ c.category \in Category /\ c.traits \subseteq Trait
       /\ c.source \in {"built_in", "detected_script", "user_config"}
       /\ {c.writes, c.network} \subseteq BOOLEAN

VARIABLES
  accepted,  \* commandsAccepted
  active,    \* ProcessRunner.active
  run        \* the call of each caller

runnerVars == <<accepted, active, run>>

NoCommand == [category |-> "none"]

Outcome == {"none", "success", "failed", "timeout", "aborted", "limit", "error"}

\* tree: the processes alive, all of which hold the pipes that run reads;
\* ok: the exit code of the leader was 0; desired: desiredStatus.
Call ==
  [at : {"idle", "validate", "confirm", "running", "record"},
   command : Command \cup {NoCommand}, confirmed : BOOLEAN,
   tree : SUBSET Process, ok : BOOLEAN,
   desired : {"none", "timeout", "aborted"}, killer : {"none", "grace", "done"},
   outcome : Outcome]

NoCall ==
  [at |-> "idle", command |-> NoCommand, confirmed |-> FALSE, tree |-> {},
   ok |-> FALSE, desired |-> "none", killer |-> "none",
   outcome |-> "none"]

RunnerTypeOK ==
  /\ accepted \in 0 .. MaxCommands
  /\ active \in 0 .. MaxParallel
  /\ run \in [Caller -> Call]

RunnerInit == accepted = 0 /\ active = 0 /\ run = [c \in Caller |-> NoCall]

-----------------------------------------------------------------------------
(* DefaultCommandPolicy.evaluate.                                          *)

Never == {"outside_cwd", "blocked_program", "shell_text", "shell_operator",
          "script_operator", "script_danger", "script_network", "dangerous_args",
          "recursive_mode", "docker_login", "path_outside"}

VerificationCategory == Category \ {"custom"}

RequiresConfirmation(c) ==
  c.writes \/ c.network \/ c.category = "custom" \/ c.source = "user_config"

\* Wrong variant of Forbidden: what the user is asked about is left to the user.
ForbiddenUnlessConfirmed(c) ==
  \/ Options.policy = "disabled"
  \/ c.traits \cap Never # {} /\ ~RequiresConfirmation(c)

Forbidden(c) ==
  \/ Options.policy = "disabled"
  \/ c.traits \cap Never # {}
  \/ ~Options.network /\ (c.network \/ "network_words" \in c.traits)
  \/ ~Options.install /\ "install" \in c.traits
  \/ ~Options.scripts /\ c.source = "detected_script"
  \/ c.category = "custom" /\ ~(Options.custom /\ Options.policy = "custom")
  \/ Options.policy = "verification" /\ c.category \notin VerificationCategory
  \/ ~Options.format /\ c.category = "format"
  \/ c.writes /\ Options.mode # "write"


-----------------------------------------------------------------------------
(* CommandRunner.run.                                                      *)

Over(c, outcome) == [NoCall EXCEPT !.outcome = outcome, !.command = run[c].command]

\* A call begins; it has been dealt with when it is idle with an outcome.
Begin(c, command) ==
  /\ run[c].at = "idle"
  /\ run' = [run EXCEPT ![c] = [NoCall EXCEPT !.at = "validate", !.command = command]]
  /\ UNCHANGED <<accepted, active>>

\* The command is counted, and started unless too many are being run.
Start(c, confirmed) ==
  /\ accepted < MaxCommands
  /\ accepted' = accepted + 1
  /\ \/ /\ active >= MaxParallel
        /\ run' = [run EXCEPT ![c] = Over(c, "limit")]
        /\ UNCHANGED active
     \/ /\ active < MaxParallel
        /\ active' = active + 1
        /\ \E others \in SUBSET (Process \ {Leader}) :
             run' = [run EXCEPT ![c] =
               [@ EXCEPT !.at = "running", !.confirmed = confirmed,
                         !.tree = {Leader} \cup others]]
     \/ /\ active < MaxParallel          \* spawn fails, as an event tells
        /\ active' = active + 1
        /\ run' = [run EXCEPT ![c] =
             [@ EXCEPT !.at = "running", !.confirmed = confirmed, !.outcome = "error"]]

Accept(c, confirmed) ==
  \/ Start(c, confirmed)
  \/ /\ accepted >= MaxCommands
     /\ run' = [run EXCEPT ![c] = Over(c, "limit")]
     /\ UNCHANGED <<accepted, active>>

\* CommandValidator has answered; policy, limits and, where no confirmation is
\* wanted, the start of the process follow at once.
Validate(c) ==
  /\ run[c].at = "validate"
  /\ LET command == run[c].command IN
     \/ /\ run' = [run EXCEPT ![c] = Over(c, "error")]
        /\ UNCHANGED <<accepted, active>>
     \/ /\ Forbidden(command) \/ accepted >= MaxCommands
        /\ run' = [run EXCEPT ![c] =
             Over(c, IF accepted >= MaxCommands THEN "limit" ELSE "error")]
        /\ UNCHANGED <<accepted, active>>
     \/ /\ ~Forbidden(command) /\ accepted < MaxCommands
        /\ RequiresConfirmation(command)
        /\ run' = [run EXCEPT ![c].at = "confirm"]
        /\ UNCHANGED <<accepted, active>>
     \/ /\ ~Forbidden(command) /\ accepted < MaxCommands
        /\ ~RequiresConfirmation(command)
        /\ Accept(c, FALSE)

\* The confirmation provider answers.
Confirm(c) ==
  /\ run[c].at = "confirm"
  /\ \/ Accept(c, TRUE)
     \/ /\ run' = [run EXCEPT ![c] = Over(c, "error")]
        /\ UNCHANGED <<accepted, active>>

-----------------------------------------------------------------------------
(* The processes.                                                          *)

\* A process ends by itself; the exit code counts unless run has stopped it.
Exit(c, p) ==
  /\ p \in run[c].tree /\ run[c].at = "running"
  /\ \E ok \in {FALSE, run[c].desired = "none"} :
       run' = [run EXCEPT ![c].tree = @ \ {p}, ![c].ok = IF p = Leader THEN ok ELSE @]
  /\ UNCHANGED <<accepted, active>>

\* stop(): the time limit passes or the signal is aborted.  The killer does
\* nothing when the leader has ended already, otherwise sends SIGTERM.
Stop(c, status) ==
  /\ run[c].at = "running" /\ run[c].desired = "none"
  /\ \/ /\ Leader \notin run[c].tree
        /\ run' = [run EXCEPT ![c].desired = status, ![c].killer = "done"]
     \/ /\ Leader \in run[c].tree
        /\ \E survivors \in SUBSET (run[c].tree \cap Stubborn) :
             run' = [run EXCEPT ![c].desired = status, ![c].killer = "grace",
                                ![c].tree = survivors]
  /\ UNCHANGED <<accepted, active>>

\* Wrong variant of GraceEnds: the SIGTERM is trusted.
GraceEndsGently(c) ==
  /\ run[c].killer = "grace"
  /\ run' = [run EXCEPT ![c].killer = "done"]
  /\ UNCHANGED <<accepted, active>>

\* The grace period is over: SIGKILL for the group, if the leader still lives.
GraceEnds(c) ==
  /\ run[c].killer = "grace"
  /\ run' = [run EXCEPT ![c].killer = "done",
                         ![c].tree = IF Leader \in @ THEN {} ELSE @]
  /\ UNCHANGED <<accepted, active>>

\* The event "close", nobody holds the pipes any more, or "error".
Closed(c) == run[c].at = "running" /\ run[c].tree = {}

Settled(c) ==
  IF run[c].outcome = "error" THEN "error"
  ELSE IF run[c].desired # "none" THEN run[c].desired
  ELSE IF run[c].ok THEN "success" ELSE "failed"

\* Wrong variant of Close: the slot is not given back.
CloseKeepingSlot(c) ==
  /\ Closed(c)
  /\ run' = [run EXCEPT ![c].at = "record", ![c].outcome = Settled(c)]
  /\ UNCHANGED <<accepted, active>>

Close(c) ==
  /\ Closed(c)
  /\ run' = [run EXCEPT ![c].at = "record", ![c].outcome = Settled(c)]
  /\ active' = active - 1
  /\ UNCHANGED accepted

\* The history is appended to; when that fails, run throws although the
\* command has been run (the callers take a call that they have aborted for
\* aborted, however it ends).
Recorded(c) ==
  LET outcome == run[c].outcome IN
  {outcome, IF outcome = "aborted" THEN "aborted" ELSE "error"}

Record(c) ==
  /\ run[c].at = "record"
  /\ \E outcome \in Recorded(c) :
       run' = [run EXCEPT ![c] = Over(c, outcome)]
  /\ UNCHANGED <<accepted, active>>

Runner(c) == Validate(c) \/ Confirm(c) \/ GraceEnds(c) \/ Close(c) \/ Record(c)

Environment(c) ==
  \/ \E p \in Process : Exit(c, p)
  \/ \E status \in Interrupt : Stop(c, status)
=============================================================================

----------------------------- MODULE Extension -----------------------------
(***************************************************************************)
(* The extension's hold on the runtime's process (apps/vscode-extension/   *)
(* src): RuntimeManager starts, restarts and stops it, RuntimeTransport    *)
(* carries the requests, and AgentController sends the user's.  A request  *)
(* may start the process, the process may die at any moment, and its exit  *)
(* event is not tied to the process the manager holds by then.             *)
(*                                                                         *)
(* JavaScript: a promise rejected by an event is handled before the next   *)
(* event.  Settled says that no such handler is waiting to run.            *)
(***************************************************************************)
EXTENDS Integers, FiniteSets, FiniteSetsExt

CONSTANTS
    Caller,          \* requests of the controller that may run side by side
    Operation,       \* what they ask: "submit", "apply", "reject", "restore", "other"
    Slot,            \* processes, as many as live at once; 0 is none
    MaxRestarts,     \* automatic restarts within five minutes
    RestartOnCrash,  \* the user's setting
    MaxOperations,   \* bound on the operations of a ChangeSet
    MaxAsked,        \* bound on the user's operations
    MaxAged,         \* bound on the restarts that are forgotten
    MaxStops         \* bound on the restarts and shutdowns among them

ASSUME ExtensionAssumption ==
    /\ Slot \subseteq Nat \ {0}
    /\ {MaxRestarts, MaxOperations, MaxAsked, MaxAged, MaxStops} \subseteq Nat
    /\ RestartOnCrash \in BOOLEAN
    /\ Operation \subseteq {"submit", "apply", "reject", "restore", "other"}

VARIABLES
    manager,    \* the fields of RuntimeManager
    process,    \* the operating system's processes
    transport,  \* the transport made for each of them
    start,      \* the call of start() that launched each of them, while it waits
    runtime,    \* what each process holds: its ChangeSet, its task
    call,       \* the request of each caller
    closing,    \* the shutdown or restart in progress
    count       \* of requests, of stops and of ChangeSets so far

vars == <<manager, process, transport, start, runtime, call, closing, count>>

Transactions == {"apply", "restore"}
NoStart == [stage |-> "none", on |-> 0]
NoChanges == [set |-> 0, ops |-> 0, growing |-> FALSE]
NoCall == [op |-> "none", step |-> "idle", on |-> 0, seen |-> NoChanges]
NotClosing == [op |-> "none", on |-> 0]
NewRuntime == [set |-> 0, ops |-> 0, task |-> "none"]

-----------------------------------------------------------------------------
(* The manager.                                                            *)

\* launch(): a process with a transport and a client of its own becomes the
\* manager's, whatever process it held before.
Launched(m, p, restart) ==
    [m EXCEPT !.state = IF restart THEN "restarting" ELSE "starting",
              !.process = p, !.client = p,
              !.exited = FALSE, !.stopping = FALSE, !.uncertain = FALSE]

FreeSlots == {p \in Slot : process[p] = "none" /\ start[p] = NoStart}

Free == CHOOSE p \in FreeSlots : TRUE

\* Bound: the user asks for a process only while there is a slot for it, for
\* the restart under way and for the automatic ones.
Room == Cardinality(FreeSlots) > MaxRestarts + 1

\* A new transport reads the output of its process, and closes with it.
Opened(trans, p) == [trans EXCEPT ![p] = "open"]

\* Answers and notifications are lines of the output.
Heard(p) == transport[p] = "open"

Launch(m, procs, trans, restart) ==
    /\ manager' = Launched(m, Free, restart)
    /\ process' = [procs EXCEPT ![Free] = "alive"]
    /\ transport' = Opened(trans, Free)
    /\ start' = [start EXCEPT ![Free] = [stage |-> "initialize", on |-> Free]]
    /\ runtime' = [runtime EXCEPT ![Free] = NewRuntime]

Killed(procs, p) ==
    IF p # 0 /\ procs[p] = "alive" THEN [procs EXCEPT ![p] = "dying"] ELSE procs

Closed(trans, p) == IF p = 0 THEN trans ELSE [trans EXCEPT ![p] = "closed"]

\* A handler waits to run: what it awaits was rejected.
Rejected(on) == on # 0 /\ transport[on] = "closed"

Settled ==
    /\ \A p \in Slot : ~ Rejected(start[p].on)
    /\ \A c \in Caller : ~ (call[c].step = "sent" /\ Rejected(call[c].on))
    /\ ~ Rejected(closing.on)

WaitsFor(c, p) == call[c].step = "starting" /\ call[c].on = p

\* start(): the answers to initialize, settings.update and workspace.set.  The
\* later ones are asked of the client the manager has by then.
StartGoesOn(p) ==
    /\ Settled
    /\ start[p].stage = "initialize" /\ process[start[p].on] = "alive"
    /\ manager.client # 0
    /\ start' = [start EXCEPT ![p] = [stage |-> "configure", on |-> manager.client]]
    /\ UNCHANGED <<manager, process, transport, runtime, call, closing, count>>

StartEnds(p) ==
    /\ Settled
    /\ start[p].stage = "configure" /\ process[start[p].on] = "alive"
    /\ start' = [start EXCEPT ![p] = NoStart]
    /\ call' = [c \in Caller |-> IF ~ WaitsFor(c, p) THEN call[c]
                              ELSE IF manager.client = 0 THEN NoCall
                              ELSE [call[c] EXCEPT !.step = "sent", !.on = manager.client]]
    /\ manager' = [manager EXCEPT
          !.state = "ready",
          !.uncertain = @ \/ \E c \in Caller : /\ WaitsFor(c, p) /\ manager.client # 0
                                              /\ call[c].op \in Transactions]
    /\ UNCHANGED <<process, transport, runtime, closing, count>>

\* The catch of start() kills the process the manager holds by then; the
\* request that started it fails.
StartFails(p) ==
    /\ start[p] # NoStart
    /\ Rejected(start[p].on) \/ (Settled /\ process[start[p].on] = "alive")
    /\ start' = [start EXCEPT ![p] = NoStart]
    /\ process' = Killed(process, manager.process)
    /\ manager' = [manager EXCEPT !.state = "failed"]
    /\ call' = [c \in Caller |-> IF WaitsFor(c, p) THEN NoCall ELSE call[c]]
    /\ UNCHANGED <<transport, runtime, closing, count>>

-----------------------------------------------------------------------------
(* The process ends.  Its output may close before its exit is reported.    *)

\* What was being written when the process died is not known.
Torn(p) ==
    \E c \in Caller : call[c].step = "sent" /\ call[c].on = p /\ call[c].op \in Transactions

Dies(p) ==
    /\ Settled
    /\ process[p] = "alive"
    /\ process' = [process EXCEPT ![p] = IF Torn(p) THEN "torn" ELSE "dying"]
    /\ runtime' = [runtime EXCEPT ![p] = NewRuntime]
    /\ UNCHANGED <<manager, transport, start, call, closing, count>>

OutputCloses(p) ==
    /\ Settled
    /\ process[p] \in {"dying", "torn"} /\ transport[p] = "open"
    /\ transport' = [transport EXCEPT ![p] = "closed"]
    /\ UNCHANGED <<manager, process, start, runtime, call, closing, count>>

\* Wrong variant of MayRestart: the restarts are not counted.
MayRestartAlways(m) == ~ m.uncertain /\ RestartOnCrash

\* restarts are those of the last five minutes.
MayRestart(m) == ~ m.uncertain /\ RestartOnCrash /\ m.restarts < MaxRestarts

\* The oldest of them is five minutes ago, and is not counted any more.
Ages ==
    /\ Settled
    /\ manager.restarts > 0
    /\ count.aged < MaxAged
    /\ count' = [count EXCEPT !.aged = @ + 1]
    /\ manager' = [manager EXCEPT !.restarts = @ - 1]
    /\ UNCHANGED <<process, transport, start, runtime, call, closing>>

Exited ==
    [manager EXCEPT !.exited = TRUE, !.process = 0, !.client = 0]

\* handleExit(): it does not ask which process has ended.
HandleExit(p) ==
    LET procs == [process EXCEPT ![p] = "none"]
        trans == [Closed(transport, manager.client) EXCEPT ![p] = "closed"]
        m == Exited
    IN
    /\ Settled
    /\ process[p] \in {"dying", "torn"}
    /\ UNCHANGED <<call, closing, count>>
    /\ IF ~ m.stopping /\ MayRestart(m)
       THEN Launch([m EXCEPT !.restarts = IF @ < MaxRestarts THEN @ + 1 ELSE @],
                   procs, trans, TRUE)
       ELSE /\ manager' = [m EXCEPT !.state = IF m.stopping THEN "stopped" ELSE "failed"]
            /\ process' = procs /\ transport' = trans
            /\ UNCHANGED <<start, runtime>>

-----------------------------------------------------------------------------
(* shutdown() and restart().                                               *)

Shutdown(op) ==
    /\ Settled
    /\ closing = NotClosing
    /\ Room
    /\ count.stops < MaxStops /\ count.requests + count.stops < MaxAsked
    /\ count' = [count EXCEPT !.stops = @ + 1]
    /\ IF manager.process = 0
       THEN IF op = "restart"
            THEN Launch(manager, process, transport, TRUE) /\ UNCHANGED <<call, closing>>
            ELSE /\ manager' = [manager EXCEPT !.state = "stopped"]
                 /\ UNCHANGED <<process, transport, start, runtime, call, closing>>
       ELSE /\ manager' = [manager EXCEPT !.stopping = TRUE]
            /\ closing' = [op |-> op, on |-> manager.client]
            /\ UNCHANGED <<process, transport, start, runtime, call>>

\* The runtime answered and ends, or two seconds have passed, or the call was
\* rejected: the process is killed and forgotten; a restart starts the next at
\* once, before the exit of the last one is reported.
ShutdownEnds ==
    LET procs == IF manager.exited THEN process ELSE Killed(process, manager.process)
        trans == Closed(transport, manager.client)
        m == [Exited EXCEPT !.state = "stopped"]
    IN
    /\ closing # NotClosing
    /\ Rejected(closing.on) \/ Settled
    /\ closing' = NotClosing
    /\ IF closing.op = "restart"
       THEN Launch(m, procs, trans, TRUE)
       ELSE manager' = m /\ process' = procs /\ transport' = trans /\ UNCHANGED <<start, runtime>>
    /\ UNCHANGED <<call, count>>

-----------------------------------------------------------------------------
(* Requests.                                                               *)

\* request() when the manager has a client to ask.
Sent(c, op, step, seen) ==
    call' = [call EXCEPT ![c] = [op |-> op, step |-> step, on |-> manager.client, seen |-> seen]]

Uncertain(op) == IF op \in Transactions THEN [manager EXCEPT !.uncertain = TRUE] ELSE manager

\* ensureReady() returns at once also while the process is still starting.
Running == manager.state \in {"starting", "ready", "busy"}

\* An apply asks for the current ChangeSet first, and a submit sends the
\* workspace again when the manager is ready.
First(op) ==
    CASE op = "apply" -> "current"
      [] op = "submit" /\ manager.state = "ready" -> "sync"
      [] OTHER -> op

Ask(c, op) ==
    /\ Settled
    /\ call[c] = NoCall
    /\ count.requests + count.stops < MaxAsked
    /\ count' = [count EXCEPT !.requests = @ + 1]
    /\ IF Running
       THEN /\ manager.client # 0
            /\ Sent(c, First(op), "sent", NoChanges)
            /\ manager' = Uncertain(First(op))
            /\ UNCHANGED <<process, transport, start, runtime>>
       ELSE /\ Room
            /\ Launch(manager, process, transport, FALSE)
            /\ call' = [call EXCEPT ![c] =
                          [op |-> First(op), step |-> "starting", on |-> Free, seen |-> NoChanges]]
    /\ UNCHANGED closing

\* The finally of request().
Cleared(c) ==
    IF call[c].op \in Transactions /\ ~ manager.exited
    THEN [manager EXCEPT !.uncertain = FALSE]
    ELSE manager

\* Wrong variant of Reject: the entry is dropped and its promise left alone.
RejectForgotten(c) ==
    /\ call[c].step = "sent" /\ Rejected(call[c].on)
    /\ call' = [call EXCEPT ![c].on = 0]
    /\ UNCHANGED <<manager, process, transport, start, runtime, closing, count>>

\* rejectAll(): the transport was disposed or the output closed.
Reject(c) ==
    /\ call[c].step = "sent" /\ Rejected(call[c].on)
    /\ call' = [call EXCEPT ![c] = NoCall]
    /\ manager' = Cleared(c)
    /\ UNCHANGED <<process, transport, start, runtime, closing, count>>

\* The time limit of the request; the runtime goes on with it.
TimesOut(c) ==
    /\ Settled
    /\ call[c].step = "sent" /\ call[c].on # 0
    /\ call' = [call EXCEPT ![c] = NoCall]
    /\ manager' = Cleared(c)
    /\ UNCHANGED <<process, transport, start, runtime, closing, count>>

Answerable(c, op) ==
    /\ Settled
    /\ call[c].step = "sent" /\ call[c].op = op
    /\ call[c].on # 0 /\ process[call[c].on] = "alive"

\* assertNoPendingChanges(): changes nobody has decided on.
Undecided(p) == runtime[p].ops > 0

\* submit(): the workspace that is sent again makes the runtime forget its
\* ChangeSet, decided on or not; if it is not sent, no task starts over undecided
\* changes.  The runtime then tells of the task.  Three requests in one step.
SubmitAnswered(c) ==
    LET p == call[c].on
        held == IF call[c].op = "sync" THEN NewRuntime ELSE runtime[p]
    IN
    /\ Answerable(c, "submit") \/ Answerable(c, "sync")
    /\ call' = [call EXCEPT ![c] = NoCall]
    /\ IF runtime[p].task = "none" /\ (call[c].op = "sync" \/ ~ Undecided(p))
       THEN /\ runtime' = [runtime EXCEPT ![p] = [held EXCEPT !.task = "starting"]]
            /\ manager' = [manager EXCEPT !.state = "busy"]
       ELSE UNCHANGED <<runtime, manager>>
    /\ UNCHANGED <<process, transport, start, closing, count>>

\* Wrong variant of TaskOpens: the change service of the task before is kept.
TaskOpensOld(p) ==
    /\ Settled
    /\ process[p] = "alive" /\ runtime[p].task = "starting"
    /\ count' = [count EXCEPT !.changes = @ + 1]
    /\ runtime' = [runtime EXCEPT ![p].task = "running",
                                  ![p].set = IF @ = 0 THEN count'.changes ELSE @]
    /\ UNCHANGED <<manager, process, transport, start, call, closing>>

\* createResources(): a task has a change service, and a ChangeSet, of its own.
TaskOpens(p) ==
    /\ Settled
    /\ process[p] = "alive" /\ runtime[p].task = "starting"
    /\ count' = [count EXCEPT !.changes = @ + 1]
    /\ runtime' = [runtime EXCEPT ![p] =
          [set |-> count'.changes, ops |-> 0, task |-> "running"]]
    /\ UNCHANGED <<manager, process, transport, start, call, closing>>

\* addPreparedOperation(): the ChangeSet grows under the name it has.
TaskPrepares(p) ==
    /\ Settled
    /\ process[p] = "alive" /\ runtime[p].task = "running"
    /\ runtime[p].ops < MaxOperations
    /\ runtime' = [runtime EXCEPT ![p].ops = @ + 1]
    /\ UNCHANGED <<manager, process, transport, start, call, closing, count>>

\* The end of a task is heard as long as the transport is open.
TaskEnds(p) ==
    /\ Settled
    /\ process[p] = "alive" /\ runtime[p].task # "none"
    /\ runtime' = [runtime EXCEPT ![p].task = "none"]
    /\ manager' = IF Heard(p) THEN [manager EXCEPT !.state = "ready"] ELSE manager
    /\ UNCHANGED <<process, transport, start, call, closing, count>>

\* applyChanges(): the current ChangeSet is shown, and the user asked, also while
\* a task is preparing it.
ChangesShown(c) ==
    LET held == runtime[call[c].on] IN
    /\ Answerable(c, "current")
    /\ call' = [call EXCEPT ![c] =
          IF held.set = 0 THEN NoCall
          ELSE [op |-> "apply", step |-> "asking", on |-> 0,
                seen |-> [set |-> held.set, ops |-> held.ops,
                          growing |-> held.task = "running"]]]
    /\ UNCHANGED <<manager, process, transport, start, runtime, closing, count>>

Declined(c) ==
    /\ Settled
    /\ call[c].step = "asking"
    /\ call' = [call EXCEPT ![c] = NoCall]
    /\ UNCHANGED <<manager, process, transport, start, runtime, closing, count>>

Confirmed(c) ==
    /\ Settled
    /\ call[c].step = "asking"
    /\ IF Running
       THEN /\ manager.client # 0
            /\ Sent(c, "apply", "sent", call[c].seen)
            /\ manager' = Uncertain("apply")
            /\ UNCHANGED <<process, transport, start, runtime>>
       ELSE /\ Room
            /\ Launch(manager, process, transport, FALSE)
            /\ call' = [call EXCEPT ![c].step = "starting", ![c].on = Free]
    /\ UNCHANGED <<closing, count>>

\* changes.apply names the ChangeSet that was shown, and not what is in it.
Accepts(c) ==
    LET held == runtime[call[c].on] IN
    held.set = call[c].seen.set /\ held.ops > 0 /\ held.task = "none"

Applies(c) ==
    /\ Answerable(c, "apply")
    /\ Accepts(c)
    /\ runtime' = [runtime EXCEPT ![call[c].on].ops = 0]
    /\ call' = [call EXCEPT ![c] = NoCall]
    /\ manager' = Cleared(c)
    /\ UNCHANGED <<process, transport, start, closing, count>>

\* changes.reject names nothing, and a task may be running.
Rejects(c) ==
    /\ Answerable(c, "reject")
    /\ runtime' = [runtime EXCEPT ![call[c].on].ops = 0]
    /\ call' = [call EXCEPT ![c] = NoCall]
    /\ UNCHANGED <<manager, process, transport, start, closing, count>>

\* Every other answer, and every refusal.
Answered(c) ==
    /\ \E op \in {"apply", "reject", "restore", "other"} : Answerable(c, op)
    /\ call' = [call EXCEPT ![c] = NoCall]
    /\ manager' = Cleared(c)
    /\ UNCHANGED <<process, transport, start, runtime, closing, count>>

-----------------------------------------------------------------------------
Init ==
    /\ manager = [state |-> "stopped", process |-> 0, client |-> 0, exited |-> TRUE,
                  stopping |-> FALSE, uncertain |-> FALSE, restarts |-> 0]
    /\ process = [p \in Slot |-> "none"]
    /\ transport = [p \in Slot |-> "closed"]
    /\ start = [p \in Slot |-> NoStart]
    /\ runtime = [p \in Slot |-> NewRuntime]
    /\ call = [c \in Caller |-> NoCall]
    /\ closing = NotClosing
    /\ count = [requests |-> 0, stops |-> 0, changes |-> 0, aged |-> 0]

Starting(p) == StartGoesOn(p) \/ StartEnds(p) \/ StartFails(p)

Calling(c) ==
    \/ Reject(c) \/ TimesOut(c) \/ SubmitAnswered(c) \/ ChangesShown(c)
    \/ Applies(c) \/ Rejects(c) \/ Answered(c)

Working(p) == TaskOpens(p) \/ TaskPrepares(p) \/ TaskEnds(p)

Next ==
    \/ \E p \in Slot : Starting(p) \/ Dies(p) \/ OutputCloses(p) \/ HandleExit(p) \/ Working(p)
    \/ Ages
    \/ \E op \in {"restart", "shutdown"} : Shutdown(op)
    \/ ShutdownEnds
    \/ \E c \in Caller : Calling(c) \/ Confirmed(c) \/ Declined(c) \/ \E op \in Operation : Ask(c, op)

\* A start, a request and a shutdown come to an end: each has a time limit.  A
\* dead process is reported.  What the user does is bounded, and so is what is
\* forgotten, so that it is enough that something of it happens.
Fairness ==
    WF_vars(\/ \E p \in Slot : Starting(p) \/ HandleExit(p)
            \/ \E c \in Caller : Calling(c)
            \/ ShutdownEnds)

Spec == Init /\ [][Next]_vars /\ Fairness

-----------------------------------------------------------------------------
\* The type invariant.
TypeOK ==
    /\ manager.state \in {"stopped", "starting", "ready", "busy", "restarting", "failed"}
    /\ {manager.process, manager.client} \subseteq Slot \cup {0}
    /\ manager.restarts \in 0 .. MaxRestarts
    /\ process \in [Slot -> {"none", "alive", "dying", "torn"}]
    /\ transport \in [Slot -> {"open", "closed"}]
    /\ \A p \in Slot : start[p].stage \in {"none", "initialize", "configure"}
    /\ \A c \in Caller : call[c].step \in {"idle", "starting", "sent", "asking"}

\* What is applied is what the user was asked about, to the last operation,
\* unless he was asked while the ChangeSet was growing: whatever tasks have run,
\* ChangeSets were rejected and processes were started in the meantime.
AppliesWhatWasShown ==
    [][\A c \in Caller :
          Applies(c) /\ ~ call[c].seen.growing =>
              call[c].seen.ops = runtime[call[c].on].ops]_vars

\* Every request of the controller is answered or fails, whatever happens to
\* the process it was sent to; only a question waits for the user.
RequestsEnd == <>[](\A c \in Caller : call[c].step \in {"idle", "asking"})

\* A runtime that keeps dying within five minutes is not restarted for ever; one
\* that lives longer may be, since only the restarts of five minutes count.
RestartsEnd ==
    <>[][~ Ages]_vars => <>[](manager.state \notin {"starting", "restarting"})

=============================================================================

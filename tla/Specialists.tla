---------------------------- MODULE Specialists ----------------------------
(***************************************************************************)
(* The specialists of one run of an orchestration session: the scheduler's *)
(* loop over batches, the attempts of each node with their time limit, the *)
(* queue in front of the model (OllamaClient.withModelSlot) and the        *)
(* artifacts a result leaves.  Module Orchestration has the session around *)
(* this run; there one step stands for all that an agent does.             *)
(*                                                                         *)
(* An attempt that has timed out is not stopped: its promise is dropped,   *)
(* its signal aborted, and it goes on to its next model call.              *)
(***************************************************************************)
EXTENDS TaskGraph, Sequences

CONSTANTS
    Model,        \* the models of the configuration
    ModelOf,      \* ModelOf[n]: the model of the role of n
    Outputs,      \* Outputs[n]: expectedOutputs
    MayNest,      \* the pairs of nodes of which one may name a folder of a
                  \* file that the other names
    MaxTries,     \* 1 + the smaller of the node's and the session's retries
    MaxSteps,     \* model calls of an attempt
    MaxTotalSteps,\* of the session's budget
    OneModel,     \* maxLoadedModels = 1
    NoModel

ASSUME SpecialistsAssumption ==
    /\ ModelOf \in [Node -> Model] /\ NoModel \notin Model
    /\ {MaxTries, MaxSteps} \subseteq Nat \ {0} /\ MaxTotalSteps \in Nat
    /\ OneModel \in BOOLEAN
    /\ MayNest \subseteq Node \X Node

VARIABLES
    run,        \* the scheduler: "loop", "batch", or over: "done", "failed"
    cancelled,  \* the session's AbortSignal
    status,     \* of each node, as in TaskGraph
    awaited,    \* the try each node awaits, 0 when none
    attempt,    \* where each try of each node is, and its model calls so far
    queue,      \* the model calls in the order they were made; the first has the slot
    ollama,     \* activeModel, and the models Ollama holds loaded
    artifacts,  \* stored: of which node, which try, which type
    spent       \* totalSteps of the budget

vars == <<run, cancelled, status, awaited, attempt, queue, ollama, artifacts, spent>>

Attempt == Node \X (1 .. MaxTries)

At(a) == attempt[a[1]][a[2]]
Over == [pc |-> "over", steps |-> 0]
Put(a, r) == [attempt EXCEPT ![a[1]][a[2]] = r]

\* Nobody awaits a any more, or the session was cancelled.
Aborted(a) == cancelled \/ awaited[a[1]] # a[2]

-----------------------------------------------------------------------------
(* The loop of execute() and the outcome of a node.                        *)

LoopStops ==
    /\ run = "loop"
    /\ run' = "failed"   \* cancelled, or out of time
    /\ UNCHANGED <<cancelled, status, awaited, attempt, queue, ollama, artifacts, spent>>

\* conflicts(): the batch keeps nodes apart that name the same file, a lease also
\* those whose paths are nested.
LeaseConflict(m, n, nested) ==
    {<<m, n>>, <<n, m>>} \cap nested # {} /\ {m, n} \cap Writer # {}

\* acquire(), once for each node of a batch in their order.
Leased(B, nested) ==
    CHOOSE L \in SUBSET B :
        \A n \in B : n \in L <=> \A m \in Earlier(L, n) : ~ LeaseConflict(m, n, nested)

\* A node whose lease is refused is running by then and stays so: nothing
\* catches the error but the run, which fails.  (A lease outlives no batch.)
StartNodes(B, nested) ==
    LET leased == Leased(B, nested) IN
    /\ run' = IF leased = B THEN "batch" ELSE "failed"
    /\ attempt' = [n \in Node |-> IF n \in B \ leased THEN [attempt[n] EXCEPT ![1] = Over]
                                ELSE attempt[n]]

StartBatch ==
    LET st == RefreshReadiness(status) IN
    /\ run = "loop" /\ ~ cancelled
    /\ \/ /\ Unfinished(st) = {}
          /\ run' = "done" /\ status' = st /\ UNCHANGED attempt
       \/ /\ Unfinished(st) # {} /\ Ready(st) = {}
          /\ run' = "failed" /\ status' = st /\ UNCHANGED attempt
       \/ \E B \in SUBSET Ready(st) \ {{}}, nested \in SUBSET MayNest :
            /\ IsBatch(B, Ready(st))
            /\ status' = SetAll(st, B, "running")
            /\ StartNodes(B, nested)
    /\ UNCHANGED <<cancelled, awaited, queue, ollama, artifacts, spent>>

\* The first failure ends the run; the other nodes of the batch go on.
Fails(n) ==
    /\ status' = [status EXCEPT ![n] = "failed"]
    /\ run' = IF run = "batch" THEN "failed" ELSE run

Completes(n) ==
    /\ status' = [status EXCEPT ![n] = "completed"]
    /\ run' = IF run = "batch" /\ \A m \in Node \ {n} : status[m] # "running"
              THEN "loop" ELSE run

\* The model call an attempt makes next.
Asks(a, steps) ==
    /\ attempt' = Put(a, [pc |-> "waits", steps |-> steps])
    /\ queue' = Append(queue, a)

\* A context with the artifacts of all it depends on and a signal of its own.
Begins(n, t) ==
    /\ awaited' = [awaited EXCEPT ![n] = t]
    /\ Asks(<<n, t>>, 0)

\* agentFactory.create: the first attempt starts, or there is no agent for it.
Create(n) ==
    /\ status[n] = "running" /\ attempt[n][1].pc = "none"
    /\ \/ Begins(n, 1) /\ UNCHANGED <<status, run>>
       \/ /\ Fails(n)
          /\ UNCHANGED <<awaited, attempt, queue>>
    /\ UNCHANGED <<cancelled, ollama, artifacts, spent>>

\* withTimeout: of the errors that may be tried again only this one has a code
\* in TRANSIENT_CODES.
Timeout(n) ==
    LET t == awaited[n] IN
    /\ t # 0
    /\ IF t < MaxTries
       THEN Begins(n, t + 1) /\ UNCHANGED <<status, run>>
       ELSE /\ awaited' = [awaited EXCEPT ![n] = 0]
            /\ Fails(n)
            /\ UNCHANGED <<attempt, queue>>
    /\ UNCHANGED <<cancelled, ollama, artifacts, spent>>

\* The attempt throws; the node fails unless it no longer awaits it.
Throws(a) ==
    /\ attempt' = Put(a, Over)
    /\ IF awaited[a[1]] = a[2]
       THEN Fails(a[1]) /\ awaited' = [awaited EXCEPT ![a[1]] = 0]
       ELSE UNCHANGED <<status, run, awaited>>
    /\ UNCHANGED <<cancelled, artifacts, spent>>

\* Wrong variant of Missing: one of the expected outputs is enough.
MissingAll(n, types) == Outputs[n] \cap types = {} /\ Outputs[n] # {}

Missing(n, types) == ~ (Outputs[n] \subseteq types)

\* Bound: of what exceeds the budget only that it does so is kept.
Consumed(steps) ==
    IF spent + steps > MaxTotalSteps THEN MaxTotalSteps + 1 ELSE spent + steps

Stored(a, types) == artifacts \cup {[node |-> a[1], try |-> a[2], type |-> y] : y \in types}

\* A result that the validator or the scheduler refuses stores nothing.
Refused(n, types) ==
    Missing(n, types) /\ Fails(n) /\ UNCHANGED <<artifacts, spent>>

\* security_stop fails the node although its artifacts are stored.
Accepted(a, types) ==
    LET n == a[1] total == Consumed(At(a).steps) IN
    /\ ~ Missing(n, types)
    /\ artifacts' = Stored(a, types)
    /\ spent' = total
    /\ (total <= MaxTotalSteps /\ Completes(n)) \/ Fails(n)

\* An artifact that is too large, has no valid payload or was not expected is
\* found when those before it are stored.
HalfStored(a, types) ==
    /\ ~ Missing(a[1], types)
    /\ \E some \in SUBSET types : artifacts' = Stored(a, some)
    /\ Fails(a[1])
    /\ UNCHANGED spent

\* The answer of attempt a is a result, with artifacts of these types.
Results(a, types) ==
    /\ attempt' = Put(a, Over)
    /\ UNCHANGED cancelled
    /\ IF awaited[a[1]] # a[2]
       THEN UNCHANGED <<status, run, awaited, artifacts, spent>>
       ELSE /\ awaited' = [awaited EXCEPT ![a[1]] = 0]
            /\ Refused(a[1], types) \/ Accepted(a, types) \/ HalfStored(a, types)

-----------------------------------------------------------------------------
(* The model's slot.                                                       *)

\* The request reaches Ollama, which loads the model; an aborted one does not.
Chats(a, held) ==
    /\ attempt' = Put(a, [pc |-> "chats", steps |-> At(a).steps + 1])
    /\ ollama' = [active |-> ModelOf[a[1]],
                  loaded |-> IF Aborted(a) THEN held ELSE held \cup {ModelOf[a[1]]}]

Holds(a, pc) == queue # <<>> /\ Head(queue) = a /\ At(a).pc = pc

\* Wrong variant of MustUnload: each client knows only its own model.
MustUnloadOwn(a) == FALSE

MustUnload(a) == OneModel /\ ollama.active \notin {NoModel, ModelOf[a[1]]}

TakeSlot(a) ==
    /\ Holds(a, "waits")
    /\ IF MustUnload(a)
       THEN attempt' = Put(a, [At(a) EXCEPT !.pc = "unloads"]) /\ UNCHANGED ollama
       ELSE Chats(a, ollama.loaded)
    /\ UNCHANGED <<run, cancelled, status, awaited, queue, artifacts, spent>>

Unloads(a) ==
    /\ Holds(a, "unloads")
    /\ Chats(a, ollama.loaded \ {ollama.active})
    /\ UNCHANGED <<run, cancelled, status, awaited, queue, artifacts, spent>>

\* Wrong variant of Release: the slot is given back only after an answer.
ReleaseAnswered(a) == queue' = IF At(a).pc = "chats" /\ ~ Aborted(a) THEN Tail(queue) ELSE queue

\* The finally of withModelSlot.
Release(a) == queue' = Tail(queue)

UnloadFails(a) ==
    /\ Holds(a, "unloads")
    /\ Release(a) /\ Throws(a)
    /\ UNCHANGED ollama

ChatAborted(a) ==
    /\ Holds(a, "chats") /\ Aborted(a)
    /\ Release(a) /\ Throws(a)
    /\ UNCHANGED ollama

\* The model answers with tool calls or with a result, or the request fails, or
\* what it answers is not the JSON it was asked for.
ChatAnswers(a) ==
    /\ Holds(a, "chats") /\ ~ Aborted(a)
    /\ Release(a)
    /\ UNCHANGED ollama
    /\ \/ /\ attempt' = Put(a, [At(a) EXCEPT !.pc = "tools"])
          /\ UNCHANGED <<run, cancelled, status, awaited, artifacts, spent>>
       \/ Throws(a)
       \/ \E types \in SUBSET Outputs[a[1]] : Results(a, types)

\* The tool calls of one answer are all made, whoever awaits the attempt; then
\* comes the next model call, or the limit of steps.
ToolsEnd(a) ==
    /\ At(a).pc = "tools"
    /\ \/ /\ At(a).steps < MaxSteps
          /\ Asks(a, At(a).steps)
          /\ UNCHANGED <<run, cancelled, status, awaited, artifacts, spent>>
       \/ /\ At(a).steps = MaxSteps
          /\ Throws(a)
          /\ UNCHANGED queue
    /\ UNCHANGED ollama

\* A tool that the role may not use, or whose call fails, ends the attempt.
ToolThrows(a) ==
    /\ At(a).pc = "tools"
    /\ Throws(a)
    /\ UNCHANGED <<queue, ollama>>

Cancel ==
    /\ run \in {"loop", "batch"} /\ ~ cancelled
    /\ cancelled' = TRUE
    /\ UNCHANGED <<run, status, awaited, attempt, queue, ollama, artifacts, spent>>

-----------------------------------------------------------------------------
Init ==
    /\ run = "loop" /\ cancelled = FALSE
    /\ status = [n \in Node |-> "pending"]
    /\ awaited = [n \in Node |-> 0]
    /\ attempt = [n \in Node |-> [t \in 1 .. MaxTries |-> [pc |-> "none", steps |-> 0]]]
    /\ queue = <<>>
    /\ ollama = [active |-> NoModel, loaded |-> {}]
    /\ artifacts = {}
    /\ spent = 0

Working(a) ==
    TakeSlot(a) \/ Unloads(a) \/ UnloadFails(a) \/ ChatAborted(a) \/ ToolsEnd(a)
    \/ ToolThrows(a)

Next ==
    \/ LoopStops \/ StartBatch \/ Cancel
    \/ \E n \in Node : Create(n) \/ Timeout(n)
    \/ \E a \in Attempt : Working(a) \/ ChatAnswers(a)

\* The model need not answer a chat.  The rest comes to an end: Ollama answers
\* the request to unload or the HTTP client gives up, tools have limits, and so
\* has an attempt.
Fairness ==
    WF_vars(\/ StartBatch
            \/ \E n \in Node : Create(n) \/ Timeout(n)
            \/ \E a \in Attempt : Working(a))

Spec == Init /\ [][Next]_vars /\ Fairness

-----------------------------------------------------------------------------
Type == UNION {Outputs[n] : n \in Node}

Artifact == [node : Node, try : 1 .. MaxTries, type : Type]

Try ==
    [pc : {"none", "waits", "unloads", "chats", "tools", "over"}, steps : 0 .. MaxSteps]

\* The type invariant; and no attempt makes more model calls than it may.
TypeOK ==
    /\ run \in {"loop", "batch", "done", "failed"} /\ cancelled \in BOOLEAN
    /\ status \in [Node -> Status]
    /\ awaited \in [Node -> 0 .. MaxTries]
    /\ attempt \in [Node -> [1 .. MaxTries -> Try]]
    /\ queue \in Seq(Attempt)
    /\ ollama \in [active : Model \cup {NoModel}, loaded : SUBSET Model]
    /\ artifacts \subseteq Artifact
    /\ spent \in 0 .. MaxTotalSteps + 1

\* A completed node has an artifact of every output it owes, and what a node has
\* stored comes from one try, the one it awaited when it ended.
CompletedIsWhole ==
    \A n \in Node :
      LET own == {r \in artifacts : r.node = n} IN
      /\ status[n] = "completed" => {r.type : r \in own} = Outputs[n]
      /\ \A r, s \in own : r.try = s.try

\* With room for one model, no request makes Ollama hold a second one, in
\* whatever order the specialists ask, time out and fail.
OneModelLoaded == OneModel => Cardinality(ollama.loaded) <= 1

\* Every attempt ends, also one that was dropped while it waited for the model:
\* the slot comes to it, and it finds that it was aborted.
AttemptsEnd == <>[](\A a \in Attempt : At(a).pc \in {"none", "over"})
=============================================================================

------------------------- MODULE SpecialistsProofs -------------------------
(***************************************************************************)
(* Theorems about the specialists of a run, for every graph, every choice  *)
(* of models and outputs, and every limit of tries and steps.              *)
(***************************************************************************)
EXTENDS Specialists, SequenceTheorems, FiniteSetTheorems, TLAPS

-----------------------------------------------------------------------------
(***************************************************************************)
(* The invariant.                                                          *)
(***************************************************************************)

Own(n) == {r \in artifacts : r.node = n}

\* An attempt that is awaited is the last one of its node, and has stored nothing
\* yet; a node that has not been started has no attempts.
NodeFits(n) ==
    /\ awaited[n] # 0 =>
         /\ status[n] = "running" /\ attempt[n][1].pc # "none" /\ Own(n) = {}
         /\ \A u \in 1 .. MaxTries : u > awaited[n] => attempt[n][u].pc = "none"
    /\ attempt[n][1].pc = "none" =>
         /\ awaited[n] = 0 /\ status[n] # "completed" /\ Own(n) = {}
         /\ \A u \in 1 .. MaxTries : attempt[n][u].pc = "none"
    /\ status[n] \in {"pending", "ready", "blocked"} => attempt[n][1].pc = "none"
    /\ status[n] = "completed" => {r.type : r \in Own(n)} = Outputs[n]
    /\ \A r, s \in Own(n) : r.try = s.try

Asking == {"waits", "unloads", "chats"}

\* The attempts that ask for the model are in the queue, each of them once; who
\* uses the slot is the first; who has not asked yet has steps left.
QueueFits ==
    /\ \A i \in 1 .. Len(queue) : At(queue[i]).pc \in Asking
    /\ \A i, j \in 1 .. Len(queue) : queue[i] = queue[j] => i = j
    /\ \A a \in Attempt : At(a).pc \in Asking => \E i \in 1 .. Len(queue) : queue[i] = a
    /\ \A a \in Attempt : At(a).pc \in {"unloads", "chats"} => queue # <<>> /\ Head(queue) = a
    /\ \A a \in Attempt : At(a).pc \in {"waits", "unloads"} => At(a).steps < MaxSteps

\* Of one model Ollama holds no other than the client knows of.
LoadedFits == OneModel => ollama.loaded \subseteq {ollama.active}

SpecialistsInv ==
    /\ TypeOK
    /\ \A n \in Node : NodeFits(n)
    /\ QueueFits
    /\ LoadedFits

-----------------------------------------------------------------------------
(***************************************************************************)
(* Attempts and the queue.                                                 *)
(***************************************************************************)

\* There is at least one try, and one step in it.
LEMMA Bounds ==
  /\ MaxTries \in Nat /\ MaxTries >= 1 /\ MaxSteps \in Nat /\ MaxSteps >= 1
  /\ MaxTotalSteps \in Nat /\ 1 \in 1 .. MaxTries /\ 0 \in 0 .. MaxSteps
BY SpecialistsAssumption

\* An attempt is a node and the number of a try.
LEMMA AttemptParts ==
  ASSUME NEW a \in Attempt
  PROVE  a[1] \in Node /\ a[2] \in 1 .. MaxTries /\ a = <<a[1], a[2]>>
BY DEF Attempt

\* Recording one attempt leaves the others as they were.
LEMMA PutOne ==
  ASSUME TypeOK, NEW a \in Attempt, NEW r \in Try
  PROVE  /\ Put(a, r) \in [Node -> [1 .. MaxTries -> Try]]
         /\ \A n \in Node, u \in 1 .. MaxTries :
              Put(a, r)[n][u] = IF n = a[1] /\ u = a[2] THEN r ELSE attempt[n][u]
         /\ \A b \in Attempt : Put(a, r)[b[1]][b[2]] = IF b = a THEN r ELSE At(b)
         /\ At(a) \in Try
<1>1. attempt \in [Node -> [1 .. MaxTries -> Try]]
  BY DEF TypeOK
<1>2. a[1] \in Node /\ a[2] \in 1 .. MaxTries
  BY AttemptParts
<1>3. Put(a, r) \in [Node -> [1 .. MaxTries -> Try]]
  BY <1>1, <1>2 DEF Put
<1>4. \A n \in Node, u \in 1 .. MaxTries :
        Put(a, r)[n][u] = IF n = a[1] /\ u = a[2] THEN r ELSE attempt[n][u]
  BY <1>1, <1>2 DEF Put
<1>5. ASSUME NEW b \in Attempt
      PROVE  Put(a, r)[b[1]][b[2]] = IF b = a THEN r ELSE At(b)
  <2>1. b[1] \in Node /\ b[2] \in 1 .. MaxTries /\ (b = a <=> b[1] = a[1] /\ b[2] = a[2])
    BY AttemptParts
  <2>2. QED
    BY <1>4, <2>1 DEF At
<1>6. QED
  BY <1>1, <1>2, <1>3, <1>4, <1>5 DEF At

\* How an attempt asks for the model, is served, gives the slot back, or goes on
\* without it.
QueueStep(a, r) ==
    \/ /\ At(a).pc \notin Asking /\ r.pc = "waits" /\ r.steps < MaxSteps
       /\ queue' = Append(queue, a)
    \/ /\ queue # <<>> /\ Head(queue) = a /\ queue' = queue
       /\ r.pc \in {"unloads", "chats"} /\ (r.pc = "unloads" => r.steps < MaxSteps)
    \/ /\ queue # <<>> /\ Head(queue) = a /\ queue' = Tail(queue) /\ r.pc \notin Asking
    \/ /\ At(a).pc \notin Asking /\ r.pc \notin Asking /\ queue' = queue

\* However one attempt moves, the queue holds those that ask for the model.
LEMMA QueueKeeps ==
  ASSUME TypeOK, QueueFits, NEW a \in Attempt, NEW r \in Try, attempt' = Put(a, r),
         QueueStep(a, r)
  PROVE  queue' \in Seq(Attempt) /\ QueueFits'
<1> DEFINE L == Len(queue)
           now(b) == IF b = a THEN r ELSE At(b)
<1>1. /\ queue \in Seq(Attempt) /\ L \in Nat
      /\ \A i \in 1 .. L : queue[i] \in Attempt
  BY LenProperties, ElementOfSeq DEF TypeOK
<1>2. \A b \in Attempt : At(b)' = now(b)
  BY PutOne DEF At
<1>3. queue # <<>> => L >= 1 /\ 1 \in 1 .. L /\ Head(queue) = queue[1]
  <2>1. queue # <<>> => L # 0
    BY <1>1, EmptySeq
  <2>2. queue # <<>> => Head(queue) = queue[1]
    BY <1>1, HeadTailProperties
  <2>3. QED
    BY <1>1, <2>1, <2>2
<1>4. CASE /\ At(a).pc \notin Asking /\ r.pc = "waits" /\ r.steps < MaxSteps
           /\ queue' = Append(queue, a)
  <2> DEFINE q == Append(queue, a)
  <2>1. /\ q \in Seq(Attempt) /\ Len(q) = L + 1
        /\ \A i \in 1 .. L : q[i] = queue[i]
        /\ q[L + 1] = a
    BY <1>1, AppendProperties
  <2>2. queue' = q
    BY <1>4
  <2> HIDE DEF q, L
  <2>3. /\ \A i \in 1 .. L + 1 : i \in 1 .. L \/ i = L + 1
        /\ 1 .. L \subseteq 1 .. L + 1 /\ L + 1 \in 1 .. L + 1
    BY <1>1
  <2>4. \A i \in 1 .. L : queue[i] # a
    BY <1>4 DEF QueueFits, L
  <2>5. \A i \in 1 .. L + 1 : now(q[i]).pc \in Asking
    BY <1>4, <2>1, <2>3 DEF QueueFits, L, Asking
  <2>6. \A i, j \in 1 .. L + 1 : q[i] = q[j] => i = j
    BY <2>1, <2>3, <2>4 DEF QueueFits, L
  <2>7. \A b \in Attempt : now(b).pc \in Asking => \E i \in 1 .. L + 1 : q[i] = b
    BY <2>1, <2>3 DEF QueueFits, L
  <2>8. ASSUME NEW b \in Attempt, now(b).pc \in {"unloads", "chats"}
        PROVE  q # <<>> /\ Head(q) = b
    <3>1. At(b).pc \in {"unloads", "chats"}
      BY <1>4, <2>8
    <3>2. queue # <<>> /\ Head(queue) = b
      BY <3>1 DEF QueueFits
    <3>3. q # <<>> /\ Head(q) = q[1]
      <4>1. q # <<>>
        BY <1>1, <2>1
      <4>2. QED
        BY <2>1, <4>1, HeadTailProperties
    <3>4. QED
      BY <1>3, <2>1, <3>2, <3>3 DEF L
  <2>9. \A b \in Attempt : now(b).pc \in {"waits", "unloads"} => now(b).steps < MaxSteps
    BY <1>4 DEF QueueFits
  <2> HIDE DEF now
  <2>10. \A i \in 1 .. L + 1 : q[i] \in Attempt
    BY <1>1, <2>1, <2>3 DEF L
  <2>11. \A i \in 1 .. L + 1 : attempt'[q[i][1]][q[i][2]].pc \in Asking
    BY <1>2, <2>5, <2>10 DEF At
  <2>12. QED
    BY <1>2, <2>1, <2>2, <2>6, <2>7, <2>8, <2>9, <2>11 DEF QueueFits, At
<1>5. CASE /\ queue # <<>> /\ Head(queue) = a /\ queue' = queue
           /\ r.pc \in {"unloads", "chats"} /\ (r.pc = "unloads" => r.steps < MaxSteps)
  <2>1. \A i \in 1 .. L : now(queue[i]).pc \in Asking
    BY <1>5 DEF QueueFits, Asking
  <2>2. \A b \in Attempt : now(b).pc \in Asking => \E i \in 1 .. L : queue[i] = b
    BY <1>3, <1>5 DEF QueueFits
  <2>3. \A b \in Attempt : now(b).pc \in {"unloads", "chats"} => Head(queue) = b
    BY <1>5 DEF QueueFits
  <2>4. \A b \in Attempt : now(b).pc \in {"waits", "unloads"} => now(b).steps < MaxSteps
    BY <1>5 DEF QueueFits
  <2> HIDE DEF now
  <2>5. \A i \in 1 .. L : At(queue[i])'.pc \in Asking
    BY <1>1, <1>2, <1>5, <2>1 DEF At
  <2>6. QED
    BY <1>1, <1>2, <1>5, <2>2, <2>3, <2>4, <2>5 DEF QueueFits, At
<1>6. CASE queue # <<>> /\ Head(queue) = a /\ queue' = Tail(queue) /\ r.pc \notin Asking
  <2> DEFINE q == Tail(queue)
  <2>1. /\ q \in Seq(Attempt) /\ Len(q) = L - 1
        /\ \A i \in 1 .. L - 1 : q[i] = queue[i + 1]
    BY <1>1, <1>6, HeadTailProperties
  <2>2. queue' = q /\ queue[1] = a
    BY <1>3, <1>6
  <2> HIDE DEF q, L
  <2>3. /\ \A i \in 1 .. L - 1 : i + 1 \in 1 .. L /\ i + 1 # 1 /\ i \in Nat
        /\ \A i \in 1 .. L : i # 1 => i - 1 \in 1 .. L - 1 /\ (i - 1) + 1 = i
        /\ 1 \in 1 .. L
    BY <1>1, <1>3, <1>6 DEF L
  <2>4. \A i \in 1 .. L - 1 : q[i] # a /\ q[i] \in Attempt
    BY <1>1, <2>1, <2>2, <2>3 DEF QueueFits, L
  <2>5. \A i \in 1 .. L - 1 : At(q[i]).pc \in Asking
    BY <2>1, <2>3 DEF QueueFits, L
  <2>6. \A i, j \in 1 .. L - 1 : q[i] = q[j] => i = j
    <3>1. ASSUME NEW i \in 1 .. L - 1, NEW j \in 1 .. L - 1, q[i] = q[j] PROVE i = j
      <4>1. i + 1 = j + 1
        BY <2>1, <2>3, <3>1 DEF QueueFits, L
      <4>2. QED
        BY <2>3, <4>1
    <3>2. QED
      BY <3>1
  <2>7. ASSUME NEW b \in Attempt, b # a, At(b).pc \in Asking
        PROVE  \E i \in 1 .. L - 1 : q[i] = b
    <3>1. PICK i \in 1 .. L : queue[i] = b
      BY <2>7 DEF QueueFits, L
    <3>2. i # 1
      BY <2>2, <2>7, <3>1
    <3>3. q[i - 1] = b /\ i - 1 \in 1 .. L - 1
      BY <2>1, <2>3, <3>1, <3>2
    <3>4. QED
      BY <3>3
  <2>8. \A b \in Attempt : b # a => At(b).pc \notin {"unloads", "chats"}
    BY <1>6 DEF QueueFits
  <2>9. \A b \in Attempt : now(b).pc \notin {"unloads", "chats"}
    BY <1>6, <2>8 DEF Asking
  <2>10. \A b \in Attempt : now(b).pc \in Asking => \E i \in 1 .. L - 1 : q[i] = b
    BY <1>6, <2>7
  <2>11. \A b \in Attempt : now(b).pc \in {"waits", "unloads"} => now(b).steps < MaxSteps
    BY <1>6 DEF QueueFits, Asking
  <2>12. \A i \in 1 .. L - 1 : now(q[i]).pc \in Asking
    BY <2>4, <2>5
  <2> HIDE DEF now
  <2>13. \A i \in 1 .. L - 1 : attempt'[q[i][1]][q[i][2]].pc \in Asking
    BY <1>2, <2>4, <2>12 DEF At
  <2>14. QED
    BY <1>2, <2>1, <2>2, <2>6, <2>9, <2>10, <2>11, <2>13 DEF QueueFits, At
<1>7. CASE At(a).pc \notin Asking /\ r.pc \notin Asking /\ queue' = queue
  <2>1. \A i \in 1 .. L : now(queue[i]).pc \in Asking
    BY <1>7 DEF QueueFits
  <2>2. \A b \in Attempt : now(b).pc \in Asking => \E i \in 1 .. L : queue[i] = b
    BY <1>7 DEF QueueFits
  <2>3. \A b \in Attempt : now(b).pc \in {"unloads", "chats"} => queue # <<>> /\ Head(queue) = b
    BY <1>7 DEF QueueFits, Asking
  <2>4. \A b \in Attempt : now(b).pc \in {"waits", "unloads"} => now(b).steps < MaxSteps
    BY <1>7 DEF QueueFits, Asking
  <2> HIDE DEF now
  <2>5. \A i \in 1 .. L : At(queue[i])'.pc \in Asking
    BY <1>1, <1>2, <1>7, <2>1 DEF At
  <2>6. QED
    BY <1>1, <1>2, <1>7, <2>2, <2>3, <2>4, <2>5 DEF QueueFits, At
<1>8. QED
  BY <1>4, <1>5, <1>6, <1>7 DEF QueueStep

-----------------------------------------------------------------------------
(***************************************************************************)
(* Nodes.                                                                  *)
(***************************************************************************)

\* The end of attempt a, if its node awaits it.
Ends(a) ==
    /\ awaited[a[1]] = a[2]
    /\ awaited' = [awaited EXCEPT ![a[1]] = 0]
    /\ \E s \in {"failed", "completed"}, types \in SUBSET Outputs[a[1]] :
         /\ status' = [status EXCEPT ![a[1]] = s]
         /\ artifacts' = Stored(a, types)
         /\ s = "completed" => types = Outputs[a[1]]

NodeStep(a) == UNCHANGED <<status, awaited, artifacts>> \/ Ends(a)

\* What an attempt stores belongs to its node.
LEMMA StoredOwn ==
  ASSUME TypeOK, NEW a \in Attempt, NEW types \in SUBSET Outputs[a[1]]
  PROVE  /\ Stored(a, types) \subseteq Artifact
         /\ \A n \in Node : n # a[1] => {r \in Stored(a, types) : r.node = n} = Own(n)
         /\ Own(a[1]) = {} =>
              {r \in Stored(a, types) : r.node = a[1]} =
                {[node |-> a[1], try |-> a[2], type |-> y] : y \in types}
<1> DEFINE new == {[node |-> a[1], try |-> a[2], type |-> y] : y \in types}
<1>1. a[1] \in Node /\ a[2] \in 1 .. MaxTries /\ types \subseteq Type
  BY AttemptParts DEF Type
<1>2. new \subseteq Artifact /\ \A r \in new : r.node = a[1]
  BY <1>1 DEF Artifact
<1>3. Stored(a, types) = artifacts \cup new
  BY DEF Stored
<1> HIDE DEF new
<1>4. \A r \in new : r.node = a[1]
  BY <1>2
<1>5. Stored(a, types) \subseteq Artifact
  BY <1>2, <1>3 DEF TypeOK
<1>6. \A n \in Node : n # a[1] => {r \in artifacts \cup new : r.node = n} = Own(n)
  BY <1>4 DEF Own
<1>7. Own(a[1]) = {} => {r \in artifacts \cup new : r.node = a[1]} = new
  BY <1>4 DEF Own
<1>8. QED
  BY <1>3, <1>5, <1>6, <1>7 DEF new

\* A node whose part of the state stays.
LEMMA NodeStays ==
  ASSUME NEW n \in Node, NodeFits(n), status'[n] = status[n], awaited'[n] = awaited[n],
         Own(n)' = Own(n),
         \A u \in 1 .. MaxTries : attempt'[n][u].pc = attempt[n][u].pc
  PROVE  NodeFits(n)'
BY Bounds DEF NodeFits

\* However one attempt ends or is given up, the nodes fit their attempts.
LEMMA NodesKeep ==
  ASSUME TypeOK, \A n \in Node : NodeFits(n), NEW a \in Attempt, NEW r \in Try,
         attempt' = Put(a, r), At(a).pc # "none", r.pc # "none", NodeStep(a)
  PROVE  /\ status' \in [Node -> Status] /\ awaited' \in [Node -> 0 .. MaxTries]
         /\ artifacts' \subseteq Artifact
         /\ \A n \in Node : NodeFits(n)'
<1> DEFINE m == a[1]
<1>1. /\ m \in Node /\ a[2] \in 1 .. MaxTries /\ MaxTries \in Nat
      /\ status \in [Node -> Status] /\ awaited \in [Node -> 0 .. MaxTries]
      /\ artifacts \subseteq Artifact /\ attempt[m][a[2]].pc # "none"
  BY AttemptParts, Bounds DEF TypeOK, At
<1>2. \A n \in Node, u \in 1 .. MaxTries :
        /\ attempt'[n][u] = IF n = m /\ u = a[2] THEN r ELSE attempt[n][u]
        /\ attempt'[n][u].pc = "none" <=> attempt[n][u].pc = "none"
  <2>1. \A n \in Node, u \in 1 .. MaxTries :
          attempt'[n][u] = IF n = m /\ u = a[2] THEN r ELSE attempt[n][u]
    BY PutOne
  <2>2. QED
    BY <1>1, <2>1
<1>3. CASE UNCHANGED <<status, awaited, artifacts>>
  <2>1. ASSUME NEW n \in Node PROVE NodeFits(n)'
    <3>1. Own(n)' = Own(n)
      BY <1>3 DEF Own
    <3>2. NodeFits(n)
      OBVIOUS
    <3>3. QED
      BY <1>2, <1>3, <3>1, <3>2, Bounds DEF NodeFits
  <2>2. QED
    BY <1>1, <1>3, <2>1
<1>4. CASE Ends(a)
  <2>1. PICK s \in {"failed", "completed"}, types \in SUBSET Outputs[m] :
          /\ status' = [status EXCEPT ![m] = s]
          /\ artifacts' = Stored(a, types)
          /\ s = "completed" => types = Outputs[m]
    BY <1>4 DEF Ends
  <2>2. /\ awaited' = [awaited EXCEPT ![m] = 0] /\ awaited[m] = a[2] /\ awaited[m] # 0
    BY <1>1, <1>4 DEF Ends
  <2>3. /\ status' \in [Node -> Status] /\ awaited' \in [Node -> 0 .. MaxTries]
        /\ \A n \in Node : n # m => status'[n] = status[n] /\ awaited'[n] = awaited[n]
        /\ status'[m] = s /\ awaited'[m] = 0
    BY <1>1, <2>1, <2>2 DEF Status
  <2>4. /\ artifacts' \subseteq Artifact
        /\ \A n \in Node : n # m => Own(n)' = Own(n)
    BY <2>1, StoredOwn DEF Own
  <2>5. Own(m) = {} /\ attempt[m][1].pc # "none"
    BY <1>1, <2>2 DEF NodeFits
  <2>6. Own(m)' = {[node |-> m, try |-> a[2], type |-> y] : y \in types}
    BY <2>1, <2>5, StoredOwn DEF Own
  <2>7. ASSUME NEW n \in Node, n # m PROVE NodeFits(n)'
    <3>1. \A u \in 1 .. MaxTries : attempt'[n][u].pc = attempt[n][u].pc
      BY <1>2, <2>7
    <3>2. QED
      BY <2>3, <2>4, <2>7, <3>1, NodeStays
  <2>8. NodeFits(m)'
    <3>1. attempt'[m][1].pc # "none"
      BY <1>1, <1>2, <2>5, Bounds
    <3>2. {x.type : x \in Own(m)'} = types
      <4> DEFINE art(y) == [node |-> m, try |-> a[2], type |-> y]
                 new == {art(y) : y \in types}
      <4>1. \A y \in types : art(y) \in new /\ art(y).type = y
        OBVIOUS
      <4>2. \A x \in new : x.type \in types
        OBVIOUS
      <4>3. Own(m)' = new
        BY <2>6
      <4> HIDE DEF art, new
      <4>4. {x.type : x \in new} = types
        BY <4>1, <4>2
      <4>5. QED
        BY <4>3, <4>4
    <3>3. \A x, y \in Own(m)' : x.try = y.try
      BY <2>6
    <3>4. QED
      BY <2>1, <2>3, <3>1, <3>2, <3>3 DEF NodeFits
  <2>9. QED
    BY <2>3, <2>4, <2>7, <2>8
<1>5. QED
  BY <1>3, <1>4 DEF NodeStep

\* A node awaits its next attempt, which asks for the model.
LEMMA BeginsKeeps ==
  ASSUME TypeOK, \A n \in Node : NodeFits(n), QueueFits,
         NEW m \in Node, NEW t \in 1 .. MaxTries, Begins(m, t),
         status[m] = "running", Own(m) = {},
         \A u \in 1 .. MaxTries : u >= t => attempt[m][u].pc = "none",
         t # 1 => attempt[m][1].pc # "none",
         UNCHANGED <<status, artifacts>>
  PROVE  /\ awaited' \in [Node -> 0 .. MaxTries]
         /\ attempt' \in [Node -> [1 .. MaxTries -> Try]]
         /\ \A n \in Node : NodeFits(n)'
         /\ queue' \in Seq(Attempt) /\ QueueFits'
<1> DEFINE a == <<m, t>>
           r == [pc |-> "waits", steps |-> 0]
<1>1. a \in Attempt /\ r \in Try /\ r.pc = "waits" /\ r.steps = 0 /\ a[1] = m /\ a[2] = t
  BY Bounds DEF Attempt, Try
<1>2. /\ attempt' = Put(a, r) /\ queue' = Append(queue, a)
      /\ awaited' = [awaited EXCEPT ![m] = t]
  BY DEF Begins, Asks
<1>3. t \in Nat /\ t >= t /\ MaxTries \in Nat /\ t # 0
  BY Bounds
<1>4. At(a).pc = "none"
  BY <1>1, <1>3 DEF At
<1> HIDE DEF a, r
<1>5. queue' \in Seq(Attempt) /\ QueueFits'
  <2>1. QueueStep(a, r)
    BY <1>1, <1>2, <1>4, Bounds DEF QueueStep, Asking
  <2>2. QED
    BY <1>1, <1>2, <2>1, QueueKeeps
<1>6. /\ attempt' \in [Node -> [1 .. MaxTries -> Try]]
      /\ \A n \in Node, u \in 1 .. MaxTries :
           attempt'[n][u] = IF n = m /\ u = t THEN r ELSE attempt[n][u]
  BY <1>1, <1>2, PutOne
<1>7. /\ awaited' \in [Node -> 0 .. MaxTries]
      /\ \A n \in Node : awaited'[n] = IF n = m THEN t ELSE awaited[n]
  BY <1>2, <1>3 DEF TypeOK
<1>8. \A n \in Node : Own(n)' = Own(n)
  BY DEF Own
<1>9. ASSUME NEW n \in Node, n # m PROVE NodeFits(n)'
  <2>1. \A u \in 1 .. MaxTries : attempt'[n][u].pc = attempt[n][u].pc
    BY <1>6, <1>9
  <2>2. QED
    BY <1>7, <1>8, <1>9, <2>1, NodeStays
<1>10. NodeFits(m)'
  <2>1. attempt'[m][1].pc # "none"
    BY <1>1, <1>6, Bounds
  <2>2. \A u \in 1 .. MaxTries : u > t => attempt'[m][u].pc = "none"
    BY <1>3, <1>6
  <2>3. Own(m)' = {} /\ status'[m] = "running" /\ awaited'[m] = t
    BY <1>7, <1>8
  <2>4. QED
    BY <2>1, <2>2, <2>3 DEF NodeFits
<1>11. QED
  BY <1>5, <1>6, <1>7, <1>9, <1>10

-----------------------------------------------------------------------------
(***************************************************************************)
(* Steps.                                                                  *)
(***************************************************************************)

\* A step of an attempt that has begun.
LEMMA StepKeeps ==
  ASSUME SpecialistsInv, NEW a \in Attempt, NEW r \in Try, attempt' = Put(a, r),
         At(a).pc # "none", r.pc # "none", QueueStep(a, r), NodeStep(a),
         run' \in {"loop", "batch", "done", "failed"}, cancelled' \in BOOLEAN,
         spent' \in 0 .. MaxTotalSteps + 1,
         ollama' \in [active : Model \cup {NoModel}, loaded : SUBSET Model], LoadedFits'
  PROVE  SpecialistsInv'
<1>1. TypeOK /\ QueueFits /\ \A n \in Node : NodeFits(n)
  BY DEF SpecialistsInv
<1>2. attempt' \in [Node -> [1 .. MaxTries -> Try]]
  BY <1>1, PutOne
<1>3. queue' \in Seq(Attempt) /\ QueueFits'
  BY <1>1, QueueKeeps
<1>4. /\ status' \in [Node -> Status] /\ awaited' \in [Node -> 0 .. MaxTries]
      /\ artifacts' \subseteq Artifact
      /\ \A n \in Node : NodeFits(n)'
  BY <1>1, NodesKeep
<1>5. TypeOK'
  BY <1>2, <1>3, <1>4 DEF TypeOK
<1>6. QED
  BY <1>3, <1>4, <1>5 DEF SpecialistsInv

\* A step that does not ask Ollama loads nothing.
LEMMA OllamaStays ==
  ASSUME SpecialistsInv, UNCHANGED ollama
  PROVE  /\ ollama' \in [active : Model \cup {NoModel}, loaded : SUBSET Model]
         /\ LoadedFits'
BY DEF SpecialistsInv, TypeOK, LoadedFits

\* A chat loads its own model.
LEMMA ChatsLoads ==
  ASSUME SpecialistsInv, NEW a \in Attempt, NEW held \in SUBSET Model,
         OneModel => held \subseteq {ModelOf[a[1]]}, Chats(a, held)
  PROVE  /\ ollama' \in [active : Model \cup {NoModel}, loaded : SUBSET Model]
         /\ LoadedFits'
         /\ attempt' = Put(a, [pc |-> "chats", steps |-> At(a).steps + 1])
<1>1. ModelOf[a[1]] \in Model
  BY AttemptParts, SpecialistsAssumption
<1>2. QED
  BY <1>1 DEF Chats, LoadedFits

\* An attempt in the queue has a place, and its fields have their types.
LEMMA TryParts ==
  ASSUME SpecialistsInv, NEW a \in Attempt
  PROVE  /\ At(a) \in Try /\ At(a).steps \in 0 .. MaxSteps
         /\ At(a).pc \in {"waits", "unloads"} => At(a).steps + 1 \in 0 .. MaxSteps
         /\ run \in {"loop", "batch", "done", "failed"} /\ cancelled \in BOOLEAN
         /\ spent \in 0 .. MaxTotalSteps + 1
         /\ Over \in Try /\ Over.pc = "over"
<1>1. TypeOK /\ QueueFits
  BY DEF SpecialistsInv
<1>2. Over \in Try /\ Over.pc = "over"
  BY Bounds DEF Over, Try
<1>3. At(a) \in Try
  BY <1>1, AttemptParts DEF TypeOK, At
<1>4. At(a).steps \in 0 .. MaxSteps
  BY <1>3 DEF Try
<1>5. At(a).pc \in {"waits", "unloads"} => At(a).steps < MaxSteps
  BY <1>1 DEF QueueFits
<1>6. At(a).pc \in {"waits", "unloads"} => At(a).steps + 1 \in 0 .. MaxSteps
  BY <1>4, <1>5, Bounds
<1>7. QED
  BY <1>1, <1>2, <1>3, <1>4, <1>6 DEF TypeOK

\* The first in the queue takes the slot, and unloads first what it must.
LEMMA TakeSlotKeeps ==
  ASSUME SpecialistsInv, NEW a \in Attempt, TakeSlot(a)
  PROVE  SpecialistsInv'
<1>1. /\ queue # <<>> /\ Head(queue) = a /\ At(a).pc = "waits" /\ queue' = queue
      /\ UNCHANGED <<run, cancelled, status, awaited, artifacts, spent>>
  BY DEF TakeSlot, Holds
<1>2. NodeStep(a)
  BY <1>1 DEF NodeStep
<1>3. CASE MustUnload(a)
  <2> DEFINE r == [At(a) EXCEPT !.pc = "unloads"]
  <2>1. attempt' = Put(a, r) /\ UNCHANGED ollama
    BY <1>3 DEF TakeSlot
  <2>2. r \in Try /\ r.pc = "unloads" /\ r.steps < MaxSteps
    BY <1>1, TryParts DEF Try, SpecialistsInv, QueueFits
  <2> HIDE DEF r
  <2>3. QueueStep(a, r)
    BY <1>1, <2>2 DEF QueueStep
  <2>4. QED
    BY <1>1, <1>2, <2>1, <2>2, <2>3, StepKeeps, OllamaStays, TryParts
<1>4. CASE ~ MustUnload(a)
  <2> DEFINE r == [pc |-> "chats", steps |-> At(a).steps + 1]
             held == ollama.loaded
  <2>1. Chats(a, held)
    BY <1>4 DEF TakeSlot
  <2>2. held \in SUBSET Model /\ NoModel \notin held
    BY SpecialistsAssumption DEF SpecialistsInv, TypeOK
  <2>3. OneModel => held \subseteq {ModelOf[a[1]]}
    BY <1>4, <2>2 DEF MustUnload, SpecialistsInv, LoadedFits
  <2> HIDE DEF held
  <2>4. r \in Try /\ r.pc = "chats"
    BY <1>1, TryParts DEF Try
  <2>5. attempt' = Put(a, r) /\ LoadedFits'
        /\ ollama' \in [active : Model \cup {NoModel}, loaded : SUBSET Model]
    BY <2>1, <2>2, <2>3, ChatsLoads
  <2> HIDE DEF r
  <2>6. QueueStep(a, r)
    BY <1>1, <2>4 DEF QueueStep
  <2>7. QED
    BY <1>1, <1>2, <2>4, <2>5, <2>6, StepKeeps, TryParts
<1>5. QED
  BY <1>3, <1>4

\* The old model is unloaded before the new one is loaded.
LEMMA UnloadsKeeps ==
  ASSUME SpecialistsInv, NEW a \in Attempt, Unloads(a)
  PROVE  SpecialistsInv'
<1> DEFINE r == [pc |-> "chats", steps |-> At(a).steps + 1]
           held == ollama.loaded \ {ollama.active}
<1>1. /\ queue # <<>> /\ Head(queue) = a /\ At(a).pc = "unloads" /\ queue' = queue
      /\ Chats(a, held)
      /\ UNCHANGED <<run, cancelled, status, awaited, artifacts, spent>>
  BY DEF Unloads, Holds
<1>2. held \in SUBSET Model /\ (OneModel => held = {})
  BY DEF SpecialistsInv, TypeOK, LoadedFits
<1> HIDE DEF held
<1>3. attempt' = Put(a, r) /\ LoadedFits'
      /\ ollama' \in [active : Model \cup {NoModel}, loaded : SUBSET Model]
  BY <1>1, <1>2, ChatsLoads
<1>4. r \in Try /\ r.pc = "chats"
  BY <1>1, TryParts DEF Try
<1> HIDE DEF r
<1>5. QueueStep(a, r) /\ NodeStep(a)
  BY <1>1, <1>4 DEF QueueStep, NodeStep
<1>6. QED
  BY <1>1, <1>3, <1>4, <1>5, StepKeeps, TryParts

\* An error ends the attempt, and the node if it awaits it.
LEMMA ThrowsEnds ==
  ASSUME SpecialistsInv, NEW a \in Attempt, Throws(a)
  PROVE  /\ attempt' = Put(a, Over) /\ NodeStep(a)
         /\ run' \in {"loop", "batch", "done", "failed"}
         /\ UNCHANGED <<cancelled, spent>>
<1>1. /\ attempt' = Put(a, Over) /\ UNCHANGED <<cancelled, artifacts, spent>>
      /\ IF awaited[a[1]] = a[2]
         THEN Fails(a[1]) /\ awaited' = [awaited EXCEPT ![a[1]] = 0]
         ELSE UNCHANGED <<status, run, awaited>>
  BY DEF Throws
<1>2. CASE awaited[a[1]] = a[2]
  <2>1. status' = [status EXCEPT ![a[1]] = "failed"]
    BY <1>1, <1>2 DEF Fails
  <2>2. run' \in {"loop", "batch", "done", "failed"}
    BY <1>1, <1>2, TryParts DEF Fails
  <2>3. artifacts' = Stored(a, {}) /\ {} \in SUBSET Outputs[a[1]]
    BY <1>1 DEF Stored
  <2>4. Ends(a)
    BY <1>1, <1>2, <2>1, <2>3 DEF Ends
  <2>5. QED
    BY <1>1, <2>2, <2>4 DEF NodeStep
<1>3. CASE awaited[a[1]] # a[2]
  BY <1>1, <1>3, TryParts DEF NodeStep
<1>4. QED
  BY <1>2, <1>3

\* An attempt ends with an error, awaited or not.
LEMMA ThrowingKeeps ==
  ASSUME SpecialistsInv, NEW a \in Attempt,
         UnloadFails(a) \/ ChatAborted(a) \/ ToolThrows(a)
  PROVE  SpecialistsInv'
<1>1. Throws(a) /\ UNCHANGED ollama /\ At(a).pc # "none"
  BY DEF UnloadFails, ChatAborted, ToolThrows, Holds
<1>2. QueueStep(a, Over)
  <2>1. CASE UnloadFails(a) \/ ChatAborted(a)
    BY <2>1, TryParts DEF UnloadFails, ChatAborted, Holds, Release, QueueStep, Asking
  <2>2. CASE ToolThrows(a)
    BY <2>2, TryParts DEF ToolThrows, QueueStep, Asking
  <2>3. QED
    BY <2>1, <2>2
<1>3. QED
  BY <1>1, <1>2, StepKeeps, OllamaStays, ThrowsEnds, TryParts

\* The tools are done: the attempt asks again, or has used up its steps.
LEMMA ToolsEndKeeps ==
  ASSUME SpecialistsInv, NEW a \in Attempt, ToolsEnd(a)
  PROVE  SpecialistsInv'
<1>1. At(a).pc = "tools" /\ UNCHANGED ollama
  BY DEF ToolsEnd
<1>2. CASE Throws(a) /\ UNCHANGED queue
  <2>1. QueueStep(a, Over)
    BY <1>1, <1>2, TryParts DEF QueueStep, Asking
  <2>2. QED
    BY <1>1, <1>2, <2>1, StepKeeps, OllamaStays, ThrowsEnds, TryParts
<1>3. CASE /\ At(a).steps < MaxSteps /\ Asks(a, At(a).steps)
           /\ UNCHANGED <<run, cancelled, status, awaited, artifacts, spent>>
  <2> DEFINE r == [pc |-> "waits", steps |-> At(a).steps]
  <2>1. attempt' = Put(a, r) /\ queue' = Append(queue, a)
    BY <1>3 DEF Asks
  <2>2. r \in Try /\ r.pc = "waits" /\ r.steps < MaxSteps
    BY <1>3, TryParts DEF Try
  <2> HIDE DEF r
  <2>3. QueueStep(a, r) /\ NodeStep(a)
    BY <1>1, <1>3, <2>1, <2>2 DEF QueueStep, NodeStep, Asking
  <2>4. QED
    BY <1>1, <1>3, <2>1, <2>2, <2>3, StepKeeps, OllamaStays, TryParts
<1>4. QED
  BY <1>2, <1>3 DEF ToolsEnd

\* A result completes its node only with all that the node owes.
LEMMA ResultsEnds ==
  ASSUME SpecialistsInv, NEW a \in Attempt, NEW types \in SUBSET Outputs[a[1]],
         Results(a, types)
  PROVE  /\ attempt' = Put(a, Over) /\ NodeStep(a)
         /\ run' \in {"loop", "batch", "done", "failed"}
         /\ UNCHANGED cancelled /\ spent' \in 0 .. MaxTotalSteps + 1
<1> DEFINE n == a[1]
<1>1. attempt' = Put(a, Over) /\ UNCHANGED cancelled
  BY DEF Results
<1>2. CASE awaited[n] # a[2]
  BY <1>1, <1>2, TryParts DEF Results, NodeStep
<1>3. CASE awaited[n] = a[2]
  <2>1. /\ awaited' = [awaited EXCEPT ![n] = 0]
        /\ Refused(n, types) \/ Accepted(a, types) \/ HalfStored(a, types)
    BY <1>3 DEF Results
  <2>2. Fails(n) => /\ status' = [status EXCEPT ![n] = "failed"]
                    /\ run' \in {"loop", "batch", "done", "failed"}
    BY TryParts DEF Fails
  <2>3. CASE Refused(n, types)
    <3>1. artifacts' = Stored(a, {}) /\ Fails(n) /\ UNCHANGED spent
      BY <2>3 DEF Refused, Stored
    <3>2. Ends(a)
      BY <1>3, <2>1, <2>2, <3>1 DEF Ends
    <3>3. QED
      BY <1>1, <2>2, <3>1, <3>2, TryParts DEF NodeStep
  <2>4. CASE HalfStored(a, types)
    <3>1. PICK some \in SUBSET types : artifacts' = Stored(a, some)
      BY <2>4 DEF HalfStored
    <3>2. Fails(n) /\ UNCHANGED spent
      BY <2>4 DEF HalfStored
    <3>3. Ends(a)
      BY <1>3, <2>1, <2>2, <3>1, <3>2 DEF Ends
    <3>4. QED
      BY <1>1, <2>2, <3>2, <3>3, TryParts DEF NodeStep
  <2>5. CASE Accepted(a, types)
    <3>1. /\ artifacts' = Stored(a, types) /\ spent' = Consumed(At(a).steps)
          /\ types = Outputs[n] /\ (Completes(n) \/ Fails(n))
      BY <2>5 DEF Accepted, Missing
    <3>2. spent' \in 0 .. MaxTotalSteps + 1
      BY <3>1, TryParts, Bounds DEF Consumed
    <3>3. Completes(n) => /\ status' = [status EXCEPT ![n] = "completed"]
                          /\ run' \in {"loop", "batch", "done", "failed"}
      BY TryParts DEF Completes
    <3>4. Ends(a)
      BY <1>3, <2>1, <2>2, <3>1, <3>3 DEF Ends
    <3>5. QED
      BY <1>1, <2>2, <3>1, <3>2, <3>3, <3>4 DEF NodeStep
  <2>6. QED
    BY <2>1, <2>3, <2>4, <2>5
<1>4. QED
  BY <1>2, <1>3

\* The model answers with tools to call or with results, and the slot is free.
LEMMA ChatAnswersKeeps ==
  ASSUME SpecialistsInv, NEW a \in Attempt, ChatAnswers(a)
  PROVE  SpecialistsInv'
<1>1. /\ queue # <<>> /\ Head(queue) = a /\ At(a).pc = "chats" /\ queue' = Tail(queue)
      /\ UNCHANGED ollama
  BY DEF ChatAnswers, Holds, Release
<1>2. QueueStep(a, Over)
  BY <1>1, TryParts DEF QueueStep, Asking
<1>3. CASE Throws(a)
  BY <1>1, <1>2, <1>3, StepKeeps, OllamaStays, ThrowsEnds, TryParts
<1>4. ASSUME NEW types \in SUBSET Outputs[a[1]], Results(a, types) PROVE SpecialistsInv'
  <2>1. /\ attempt' = Put(a, Over) /\ NodeStep(a)
        /\ run' \in {"loop", "batch", "done", "failed"}
        /\ UNCHANGED cancelled /\ spent' \in 0 .. MaxTotalSteps + 1
    BY <1>4, ResultsEnds
  <2>2. QED
    BY <1>1, <1>2, <2>1, StepKeeps, OllamaStays, TryParts
<1>5. CASE /\ attempt' = Put(a, [At(a) EXCEPT !.pc = "tools"])
           /\ UNCHANGED <<run, cancelled, status, awaited, artifacts, spent>>
  <2> DEFINE r == [At(a) EXCEPT !.pc = "tools"]
  <2>1. attempt' = Put(a, r)
    BY <1>5
  <2>2. r \in Try /\ r.pc = "tools"
    BY TryParts DEF Try
  <2> HIDE DEF r
  <2>3. QueueStep(a, r) /\ NodeStep(a)
    BY <1>1, <1>5, <2>2 DEF QueueStep, NodeStep, Asking
  <2>4. QED
    BY <1>1, <1>5, <2>1, <2>2, <2>3, StepKeeps, OllamaStays, TryParts
<1>6. QED
  BY <1>3, <1>4, <1>5 DEF ChatAnswers

\* The first attempt of a node is created, or its budget refuses it.
LEMMA CreateKeeps ==
  ASSUME SpecialistsInv, NEW n \in Node, Create(n)
  PROVE  SpecialistsInv'
<1>1. /\ status[n] = "running" /\ attempt[n][1].pc = "none"
      /\ UNCHANGED <<cancelled, ollama, artifacts, spent>>
  BY DEF Create
<1>2. /\ TypeOK /\ QueueFits /\ \A m \in Node : NodeFits(m)
      /\ \A m \in Node : status[m] \in Status
  BY DEF SpecialistsInv, TypeOK
<1>3. /\ awaited[n] = 0 /\ Own(n) = {}
      /\ \A u \in 1 .. MaxTries : attempt[n][u].pc = "none"
  BY <1>1, <1>2 DEF NodeFits
<1>4. CASE Begins(n, 1) /\ UNCHANGED <<status, run>>
  <2>1. /\ awaited' \in [Node -> 0 .. MaxTries]
        /\ attempt' \in [Node -> [1 .. MaxTries -> Try]]
        /\ \A m \in Node : NodeFits(m)'
        /\ queue' \in Seq(Attempt) /\ QueueFits'
    BY <1>1, <1>2, <1>3, <1>4, Bounds, BeginsKeeps
  <2>2. TypeOK'
    BY <1>1, <1>2, <1>4, <2>1 DEF TypeOK
  <2>3. QED
    BY <1>1, <2>1, <2>2 DEF SpecialistsInv, LoadedFits
<1>5. CASE Fails(n) /\ UNCHANGED <<awaited, attempt, queue>>
  <2>1. /\ status' \in [Node -> Status] /\ run' \in {"loop", "batch", "done", "failed"}
        /\ status'[n] = "failed" /\ \A m \in Node : m # n => status'[m] = status[m]
    BY <1>2, <1>5 DEF Fails, TypeOK, Status
  <2>2. \A m \in Node : Own(m)' = Own(m)
    BY <1>1 DEF Own
  <2>3. ASSUME NEW m \in Node, m # n PROVE NodeFits(m)'
    BY <1>2, <1>5, <2>1, <2>2, <2>3, NodeStays
  <2>4. NodeFits(n)'
    BY <1>3, <1>5, <2>1, <2>2 DEF NodeFits
  <2>5. QueueFits'
    BY <1>2, <1>5 DEF QueueFits, At
  <2>6. TypeOK'
    BY <1>1, <1>2, <1>5, <2>1 DEF TypeOK
  <2>7. QED
    BY <1>1, <2>3, <2>4, <2>5, <2>6 DEF SpecialistsInv, LoadedFits
<1>6. QED
  BY <1>4, <1>5 DEF Create

\* The time of an attempt is over: the next try begins beside it, or the node has
\* failed.
LEMMA TimeoutKeeps ==
  ASSUME SpecialistsInv, NEW n \in Node, Timeout(n)
  PROVE  SpecialistsInv'
<1> DEFINE t == awaited[n]
<1>1. t # 0 /\ UNCHANGED <<cancelled, ollama, artifacts, spent>>
  BY DEF Timeout
<1>2. /\ TypeOK /\ QueueFits /\ \A m \in Node : NodeFits(m)
      /\ t \in 0 .. MaxTries /\ MaxTries \in Nat
  BY Bounds DEF SpecialistsInv, TypeOK
<1>3. /\ status[n] = "running" /\ attempt[n][1].pc # "none" /\ Own(n) = {}
      /\ \A u \in 1 .. MaxTries : u > t => attempt[n][u].pc = "none"
  BY <1>1, <1>2 DEF NodeFits
<1>4. CASE t < MaxTries
  <2>1. t + 1 \in 1 .. MaxTries /\ t + 1 # 1
        /\ \A u \in 1 .. MaxTries : u >= t + 1 => u > t
    BY <1>1, <1>2, <1>4
  <2>2. Begins(n, t + 1) /\ UNCHANGED <<status, run>>
    BY <1>1, <1>4 DEF Timeout
  <2>3. \A u \in 1 .. MaxTries : u >= t + 1 => attempt[n][u].pc = "none"
    BY <1>3, <2>1
  <2>4. /\ awaited' \in [Node -> 0 .. MaxTries]
        /\ attempt' \in [Node -> [1 .. MaxTries -> Try]]
        /\ \A m \in Node : NodeFits(m)'
        /\ queue' \in Seq(Attempt) /\ QueueFits'
    BY <1>1, <1>2, <1>3, <2>1, <2>2, <2>3, BeginsKeeps
  <2>5. TypeOK'
    BY <1>1, <1>2, <2>2, <2>4 DEF TypeOK
  <2>6. QED
    BY <1>1, <2>4, <2>5 DEF SpecialistsInv, LoadedFits
<1>5. CASE ~(t < MaxTries)
  <2>1. /\ awaited' = [awaited EXCEPT ![n] = 0] /\ Fails(n)
        /\ UNCHANGED <<attempt, queue>>
    BY <1>1, <1>5 DEF Timeout
  <2>2. /\ status' \in [Node -> Status] /\ run' \in {"loop", "batch", "done", "failed"}
        /\ awaited' \in [Node -> 0 .. MaxTries]
        /\ status'[n] = "failed" /\ awaited'[n] = 0
        /\ \A m \in Node : m # n => status'[m] = status[m] /\ awaited'[m] = awaited[m]
    BY <1>2, <2>1 DEF Fails, TypeOK, Status
  <2>3. \A m \in Node : Own(m)' = Own(m)
    BY <1>1 DEF Own
  <2>4. ASSUME NEW m \in Node, m # n PROVE NodeFits(m)'
    BY <1>2, <2>1, <2>2, <2>3, <2>4, NodeStays
  <2>5. NodeFits(n)'
    BY <1>3, <2>1, <2>2, <2>3 DEF NodeFits
  <2>6. QueueFits'
    BY <1>2, <2>1 DEF QueueFits, At
  <2>7. TypeOK'
    BY <1>1, <1>2, <2>1, <2>2 DEF TypeOK
  <2>8. QED
    BY <1>1, <2>4, <2>5, <2>6, <2>7 DEF SpecialistsInv, LoadedFits
<1>6. QED
  BY <1>4, <1>5

\* Refreshing changes only nodes that wait, and they go on waiting.
LEMMA Refreshed ==
  ASSUME status \in [Node -> Status]
  PROVE  LET st == RefreshReadiness(status) IN
         /\ st \in [Node -> Status]
         /\ \A n \in Node :
              IF status[n] \in {"pending", "blocked"}
              THEN st[n] \in {"pending", "blocked", "ready"} ELSE st[n] = status[n]
BY DEF RefreshReadiness, Status

\* The nodes of a batch are set running; an attempt whose lease is refused is over
\* before it began.
LEMMA StartBatchKeeps ==
  ASSUME SpecialistsInv, StartBatch
  PROVE  SpecialistsInv'
<1> DEFINE st == RefreshReadiness(status)
<1>1. UNCHANGED <<cancelled, awaited, queue, ollama, artifacts, spent>>
  BY DEF StartBatch
<1>2. /\ TypeOK /\ QueueFits /\ \A n \in Node : NodeFits(n)
      /\ attempt \in [Node -> [1 .. MaxTries -> Try]]
  BY DEF SpecialistsInv, TypeOK
<1>3. /\ st \in [Node -> Status]
      /\ \A n \in Node :
           IF status[n] \in {"pending", "blocked"}
           THEN st[n] \in {"pending", "blocked", "ready"} ELSE st[n] = status[n]
  <2>1. status \in [Node -> Status]
    BY <1>2 DEF TypeOK
  <2>2. QED
    BY <2>1, Refreshed
<1>4. \E B \in SUBSET Ready(st), D \in SUBSET Node :
        /\ D \subseteq B
        /\ status' = SetAll(st, B, "running")
        /\ attempt' = [n \in Node |-> IF n \in D THEN [attempt[n] EXCEPT ![1] = Over]
                                    ELSE attempt[n]]
        /\ run' \in {"loop", "batch", "done", "failed"}
  <2>1. CASE status' = st /\ UNCHANGED attempt /\ run' \in {"done", "failed"}
    <3>1. status' = SetAll(st, {}, "running")
      BY <1>3, <2>1 DEF SetAll
    <3>2. attempt' = [n \in Node |-> IF n \in {} THEN [attempt[n] EXCEPT ![1] = Over]
                                     ELSE attempt[n]]
      BY <1>2, <2>1
    <3>3. QED
      BY <2>1, <3>1, <3>2
  <2>2. ASSUME NEW B \in SUBSET Ready(st), NEW nested \in SUBSET MayNest,
               status' = SetAll(st, B, "running"), StartNodes(B, nested)
        PROVE  \E D \in SUBSET Node :
                 /\ D \subseteq B
                 /\ attempt' = [n \in Node |-> IF n \in D THEN [attempt[n] EXCEPT ![1] = Over]
                                             ELSE attempt[n]]
                 /\ run' \in {"loop", "batch", "done", "failed"}
    <3> DEFINE D == B \ Leased(B, nested)
    <3>1. /\ attempt' = [n \in Node |-> IF n \in D THEN [attempt[n] EXCEPT ![1] = Over]
                                      ELSE attempt[n]]
          /\ run' \in {"loop", "batch", "done", "failed"}
      BY <2>2 DEF StartNodes
    <3>2. D \subseteq B /\ D \in SUBSET Node
      BY DEF Ready
    <3> HIDE DEF D
    <3>3. QED
      BY <3>1, <3>2
  <2>3. QED
    <3>1. \/ status' = st /\ UNCHANGED attempt /\ run' \in {"done", "failed"}
          \/ \E B \in SUBSET Ready(st), nested \in SUBSET MayNest :
               status' = SetAll(st, B, "running") /\ StartNodes(B, nested)
      BY DEF StartBatch
    <3> HIDE DEF st
    <3>2. QED
      BY <2>1, <2>2, <3>1
<1> HIDE DEF st
<1>5. PICK B \in SUBSET Ready(st), D \in SUBSET Node :
        /\ D \subseteq B
        /\ status' = SetAll(st, B, "running")
        /\ attempt' = [n \in Node |-> IF n \in D THEN [attempt[n] EXCEPT ![1] = Over]
                                    ELSE attempt[n]]
        /\ run' \in {"loop", "batch", "done", "failed"}
  BY <1>4
<1>a. D \subseteq B
  BY <1>5
<1>6. \A n \in B : /\ n \in Node /\ st[n] = "ready" /\ attempt[n][1].pc = "none"
                   /\ awaited[n] = 0 /\ Own(n) = {}
                   /\ \A u \in 1 .. MaxTries : attempt[n][u].pc = "none"
  <2>1. \A n \in B : n \in Node /\ st[n] = "ready"
    BY DEF Ready
  <2>2. \A n \in B : status[n] \in {"pending", "ready", "blocked"}
    BY <1>3, <2>1
  <2>3. QED
    BY <1>2, <2>1, <2>2 DEF NodeFits
<1>7. /\ status' \in [Node -> Status]
      /\ \A n \in Node : status'[n] = IF n \in B THEN "running" ELSE st[n]
  BY <1>3, <1>5 DEF SetAll, Status
<1>8. Over \in Try /\ Over.pc = "over"
  BY Bounds DEF Over, Try
<1>9. /\ attempt' \in [Node -> [1 .. MaxTries -> Try]]
      /\ \A n \in Node, u \in 1 .. MaxTries :
           attempt'[n][u] = IF n \in D /\ u = 1 THEN Over ELSE attempt[n][u]
  BY <1>2, <1>5, <1>8
<1>10. \A n \in Node : Own(n)' = Own(n)
  BY <1>1 DEF Own
<1>11. ASSUME NEW n \in Node PROVE NodeFits(n)'
  <2>1. CASE n \in B
    <3>1. status'[n] = "running" /\ awaited'[n] = 0 /\ Own(n)' = {}
      BY <1>1, <1>6, <1>7, <1>10, <2>1
    <3>2. attempt'[n][1].pc = "none" => \A u \in 1 .. MaxTries : attempt'[n][u].pc = "none"
      BY <1>6, <1>8, <1>9, <2>1, Bounds
    <3>3. QED
      BY <3>1, <3>2 DEF NodeFits
  <2>2. CASE n \notin B
    <3>1. status'[n] = st[n] /\ awaited'[n] = awaited[n] /\ Own(n)' = Own(n)
      BY <1>1, <1>7, <1>10, <2>2
    <3>2. \A u \in 1 .. MaxTries : attempt'[n][u] = attempt[n][u]
      BY <1>a, <1>9, <2>2
    <3>3. NodeFits(n) /\ attempt'[n][1] = attempt[n][1]
      BY <1>2, <3>2, Bounds
    <3>4. QED
      BY <1>3, <3>1, <3>2, <3>3 DEF NodeFits
  <2>3. QED
    BY <2>1, <2>2
<1>12. QueueFits'
  <2>1. \A a \in Attempt : /\ a[1] \in Node /\ a[2] \in 1 .. MaxTries
                           /\ a[1] \in D => At(a).pc = "none"
    BY <1>a, <1>6, AttemptParts DEF At
  <2>2. ASSUME NEW a \in Attempt
        PROVE  \/ attempt'[a[1]][a[2]] = At(a)
               \/ attempt'[a[1]][a[2]].pc = "over" /\ At(a).pc = "none"
    BY <1>8, <1>9, <2>1 DEF At
  <2>3. \A i \in 1 .. Len(queue) : queue[i] \in Attempt
    BY <1>2, ElementOfSeq DEF TypeOK
  <2>4. \A a \in Attempt : /\ At(a).pc \in Asking => attempt'[a[1]][a[2]] = At(a)
                           /\ attempt'[a[1]][a[2]].pc \in Asking => attempt'[a[1]][a[2]] = At(a)
    BY <2>2 DEF Asking
  <2>5. \A i \in 1 .. Len(queue) : attempt'[queue[i][1]][queue[i][2]].pc \in Asking
    BY <1>2, <2>3, <2>4 DEF QueueFits
  <2>6. \A a \in Attempt : attempt'[a[1]][a[2]].pc \in Asking =>
                              \E i \in 1 .. Len(queue) : queue[i] = a
    BY <1>2, <2>4 DEF QueueFits
  <2>7. \A a \in Attempt : attempt'[a[1]][a[2]].pc \in {"unloads", "chats"} =>
                              queue # <<>> /\ Head(queue) = a
    BY <1>2, <2>4 DEF QueueFits, Asking
  <2>8. \A a \in Attempt : attempt'[a[1]][a[2]].pc \in {"waits", "unloads"} =>
                              attempt'[a[1]][a[2]].steps < MaxSteps
    BY <1>2, <2>4 DEF QueueFits, Asking
  <2>9. QED
    BY <1>1, <1>2, <2>5, <2>6, <2>7, <2>8 DEF QueueFits, At
<1>13. TypeOK'
  BY <1>1, <1>2, <1>5, <1>7, <1>9 DEF TypeOK
<1>14. QED
  BY <1>1, <1>11, <1>12, <1>13 DEF SpecialistsInv, LoadedFits

\* Steps that leave the nodes and the queue alone.
LEMMA OnlyRunKeeps ==
  ASSUME SpecialistsInv, run' \in {"loop", "batch", "done", "failed"}, cancelled' \in BOOLEAN,
         UNCHANGED <<status, awaited, attempt, queue, ollama, artifacts, spent>>
  PROVE  SpecialistsInv'
<1>1. TypeOK'
  BY DEF SpecialistsInv, TypeOK
<1>2. QueueFits' /\ LoadedFits'
  BY DEF SpecialistsInv, QueueFits, LoadedFits, At
<1>3. \A n \in Node : NodeFits(n)'
  BY DEF SpecialistsInv, NodeFits, Own
<1>4. QED
  BY <1>1, <1>2, <1>3 DEF SpecialistsInv

-----------------------------------------------------------------------------
(***************************************************************************)
(* The theorems.                                                           *)
(***************************************************************************)

\* SpecialistsInv holds initially.
LEMMA SpecialistsInvInit == Init => SpecialistsInv
<1> SUFFICES ASSUME Init PROVE SpecialistsInv
  OBVIOUS
<1> DEFINE none == [pc |-> "none", steps |-> 0]
<1>1. none \in Try /\ none.pc = "none"
  BY Bounds DEF Try
<1>2. attempt = [n \in Node |-> [t \in 1 .. MaxTries |-> none]]
  BY DEF Init
<1> HIDE DEF none
<1>3. /\ attempt \in [Node -> [1 .. MaxTries -> Try]]
      /\ \A n \in Node, u \in 1 .. MaxTries : attempt[n][u].pc = "none"
  BY <1>1, <1>2
<1>4. /\ status \in [Node -> Status] /\ \A n \in Node : status[n] = "pending"
      /\ awaited \in [Node -> 0 .. MaxTries] /\ \A n \in Node : awaited[n] = 0
  BY Bounds DEF Init, Status
<1>5. /\ run = "loop" /\ cancelled = FALSE /\ queue = <<>> /\ artifacts = {} /\ spent = 0
      /\ ollama = [active |-> NoModel, loaded |-> {}]
  BY DEF Init
<1>6. TypeOK
  <2>1. /\ queue \in Seq(Attempt) /\ artifacts \subseteq Artifact
        /\ ollama \in [active : Model \cup {NoModel}, loaded : SUBSET Model]
    BY <1>5
  <2>2. spent \in 0 .. MaxTotalSteps + 1
    BY <1>5, Bounds
  <2>3. QED
    BY <1>3, <1>4, <1>5, <2>1, <2>2 DEF TypeOK
<1>7. \A n \in Node : NodeFits(n)
  BY <1>3, <1>4, <1>5, Bounds DEF NodeFits, Own
<1>8. \A a \in Attempt : At(a).pc = "none"
  BY <1>3, AttemptParts DEF At
<1>9. QueueFits
  BY <1>5, <1>8 DEF QueueFits, Asking
<1>10. LoadedFits
  BY <1>5 DEF LoadedFits
<1>11. QED
  BY <1>6, <1>7, <1>9, <1>10 DEF SpecialistsInv

\* Every step keeps SpecialistsInv.
LEMMA SpecialistsInvNext == SpecialistsInv /\ [Next]_vars => SpecialistsInv'
<1> SUFFICES ASSUME SpecialistsInv, [Next]_vars PROVE SpecialistsInv'
  OBVIOUS
<1>1. CASE LoopStops
  BY <1>1, OnlyRunKeeps, TryParts DEF LoopStops, SpecialistsInv, TypeOK
<1>2. CASE StartBatch
  BY <1>2, StartBatchKeeps
<1>3. CASE Cancel
  BY <1>3, OnlyRunKeeps DEF Cancel, SpecialistsInv, TypeOK
<1>4. ASSUME NEW n \in Node, Create(n) PROVE SpecialistsInv'
  BY <1>4, CreateKeeps
<1>5. ASSUME NEW n \in Node, Timeout(n) PROVE SpecialistsInv'
  BY <1>5, TimeoutKeeps
<1>6. ASSUME NEW a \in Attempt, TakeSlot(a) PROVE SpecialistsInv'
  BY <1>6, TakeSlotKeeps
<1>7. ASSUME NEW a \in Attempt, Unloads(a) PROVE SpecialistsInv'
  BY <1>7, UnloadsKeeps
<1>8. ASSUME NEW a \in Attempt, UnloadFails(a) \/ ChatAborted(a) \/ ToolThrows(a)
      PROVE  SpecialistsInv'
  BY <1>8, ThrowingKeeps
<1>9. ASSUME NEW a \in Attempt, ToolsEnd(a) PROVE SpecialistsInv'
  BY <1>9, ToolsEndKeeps
<1>10. ASSUME NEW a \in Attempt, ChatAnswers(a) PROVE SpecialistsInv'
  BY <1>10, ChatAnswersKeeps
<1>11. CASE UNCHANGED vars
  BY <1>11, OnlyRunKeeps DEF vars, SpecialistsInv, TypeOK
<1>12. QED
  BY <1>1, <1>2, <1>3, <1>4, <1>5, <1>6, <1>7, <1>8, <1>9, <1>10, <1>11
     DEF Next, Working

\* SpecialistsInv holds in every reachable state.
LEMMA SpecialistsInvAlways == Spec => []SpecialistsInv
BY SpecialistsInvInit, SpecialistsInvNext, PTL DEF Spec

\* The values have their types: no node has more tries, and no attempt makes more
\* model calls, than the configuration allows.
THEOREM SpecialistsTypeCorrect == Spec => []TypeOK
<1>1. SpecialistsInv => TypeOK
  BY DEF SpecialistsInv
<1>2. QED
  BY <1>1, SpecialistsInvAlways, PTL

\* A completed node has every output it owes, all of one try: what dropped attempts
\* answer later, and what refused or half stored results leave, is never counted.
THEOREM CompletedIsWholeAlways == Spec => []CompletedIsWhole
<1>1. SpecialistsInv => CompletedIsWhole
  BY DEF SpecialistsInv, NodeFits, Own, CompletedIsWhole
<1>2. QED
  BY <1>1, SpecialistsInvAlways, PTL

\* With room for one model Ollama never holds two: the client unloads the one it
\* knows of first, and it is the only one there is.
THEOREM OneModelLoadedAlways == Spec => []OneModelLoaded
<1>1. SpecialistsInv => OneModelLoaded
  <2> SUFFICES ASSUME SpecialistsInv, OneModel PROVE Cardinality(ollama.loaded) <= 1
    BY DEF OneModelLoaded
  <2>1. ollama.loaded \in SUBSET {ollama.active}
    BY DEF SpecialistsInv, LoadedFits
  <2>2. CASE ollama.loaded = {}
    BY <2>2, FS_EmptySet
  <2>3. CASE ollama.loaded = {ollama.active}
    <3>1. Cardinality({ollama.active}) = 1
      BY FS_Singleton
    <3>2. QED
      BY <2>3, <3>1
  <2>4. QED
    BY <2>1, <2>2, <2>3
<1>2. QED
  BY <1>1, SpecialistsInvAlways, PTL

\* The attempts that ask for the model and the places in the queue of withModelSlot
\* are the same, each with one place; and the one that uses the model is the first.
SlotIsOrdered ==
    /\ \A a \in Attempt :
         At(a).pc \in {"waits", "unloads", "chats"} <=> \E i \in 1 .. Len(queue) : queue[i] = a
    /\ \A i, j \in 1 .. Len(queue) : queue[i] = queue[j] => i = j
    /\ \A a, b \in Attempt : {At(a).pc, At(b).pc} \subseteq {"unloads", "chats"} => a = b

\* Two attempts never use the model at once, and none is forgotten while it waits
\* for the slot, whatever times out, fails or is cancelled before it.
THEOREM SlotIsOrderedAlways == Spec => []SlotIsOrdered
<1>1. SpecialistsInv => SlotIsOrdered
  BY DEF SpecialistsInv, QueueFits, Asking, SlotIsOrdered
<1>2. QED
  BY <1>1, SpecialistsInvAlways, PTL
=============================================================================

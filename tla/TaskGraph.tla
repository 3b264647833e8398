----------------------------- MODULE TaskGraph -----------------------------
(***************************************************************************)
(* The task graph of an orchestration session and the batch selection of   *)
(* its scheduler (packages/task-graph).                                    *)
(*                                                                         *)
(* A graph object is represented by the function from its nodes to their   *)
(* status; the operators below are the methods of TaskGraph and            *)
(* GraphScheduler on such a function.  The shape of the graph (nodes,      *)
(* dependencies, priorities, files) never changes once the graph is built, *)
(* so it is given by constants.                                            *)
(***************************************************************************)
EXTENDS Integers, FiniteSets

CONSTANTS
  Node,         \* the task nodes of the plan
  Dep,          \* Dep[n]: the nodes that n depends on
  Rank,         \* Rank[n]: position of n in the (priority, id) order
  Writer,       \* the nodes whose accessMode is "prepare_changes"
  SharesFile,   \* SharesFile[m][n]: m and n name a common file
  MaxParallel   \* config.maxParallelAgents

ASSUME ShapeAssumption ==
  /\ IsFiniteSet(Node)
  /\ Dep \in [Node -> SUBSET Node]
  /\ Rank \in [Node -> Nat]
  /\ \A m, n \in Node : Rank[m] = Rank[n] => m = n
  /\ Writer \subseteq Node
  /\ SharesFile \in [Node -> [Node -> BOOLEAN]]
  /\ \A m, n \in Node : SharesFile[m][n] = SharesFile[n][m]
  /\ MaxParallel \in Nat \ {0}

Status == {"pending", "ready", "running", "blocked",
           "completed", "failed", "cancelled", "skipped"}

(***************************************************************************)
(* setStatus: the transitions a node's status may make.                    *)
(***************************************************************************)
AllowedStatus ==
  [pending   |-> {"ready", "blocked", "cancelled", "skipped"},
   ready     |-> {"running", "blocked", "cancelled"},
   running   |-> {"completed", "failed", "blocked", "cancelled"},
   blocked   |-> {"ready", "cancelled", "skipped"},
   completed |-> {},
   failed    |-> {"ready", "cancelled"},
   cancelled |-> {},
   skipped   |-> {}]

CanSet(st, n, s) == s \in AllowedStatus[st[n]]

\* The setStatus calls of one synchronous stretch, one for each node of S.
SetAll(st, S, s) == [n \in Node |-> IF n \in S THEN s ELSE st[n]]

(***************************************************************************)
(* refreshReadiness reads who has finished and who has failed before it    *)
(* changes anything, so one call is a simultaneous update.                 *)
(***************************************************************************)
Finished(st) == {n \in Node : st[n] \in {"completed", "skipped"}}

Dead(st) == {n \in Node : st[n] \in {"failed", "cancelled"}}

\* Wrong variant of RefreshReadiness: one finished dependency is enough.
RefreshOnAny(st) ==
  [n \in Node |->
     IF st[n] \notin {"pending", "blocked"} THEN st[n]
     ELSE IF Dep[n] \cap Dead(st) # {} THEN "blocked"
     ELSE IF Dep[n] = {} \/ Dep[n] \cap Finished(st) # {} THEN "ready"
     ELSE st[n]]

RefreshReadiness(st) ==
  [n \in Node |->
     IF st[n] \notin {"pending", "blocked"} THEN st[n]
     ELSE IF Dep[n] \cap Dead(st) # {} THEN "blocked"
     ELSE IF Dep[n] \subseteq Finished(st) THEN "ready"
     ELSE st[n]]

Ready(st) == {n \in Node : st[n] = "ready"}

\* What keeps the scheduler's loop going.
Unfinished(st) ==
  {n \in Node : st[n] \notin {"completed", "skipped", "cancelled"}}

(***************************************************************************)
(* selectBatch walks the ready nodes in (priority, id) order and takes     *)
(* each one that fits with those already taken.  IsBatch says of a set     *)
(* that it is the result of that walk: a ready node belongs to it exactly  *)
(* when it fits with the earlier members.                                  *)
(***************************************************************************)
Clash(m, n) ==
  \/ m \in Writer /\ n \in Writer
  \/ SharesFile[m][n] /\ (m \in Writer \/ n \in Writer)

Earlier(B, n) == {m \in B : Rank[m] < Rank[n]}

IsBatch(B, R) ==
  /\ B \subseteq R
  /\ \A n \in R :
       n \in B <=> /\ Cardinality(Earlier(B, n)) < MaxParallel
                   /\ \A m \in Earlier(B, n) : ~Clash(m, n)
=============================================================================

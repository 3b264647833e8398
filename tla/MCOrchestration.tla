-------------------------- MODULE MCOrchestration --------------------------
(***************************************************************************)
(* Instances of Orchestration for TLC.  The plan has the shape that        *)
(* initialDrafts and TaskGraphBuilder give it, its chain of analysis nodes *)
(* contracted into one: planning, then the performance and documentation   *)
(* specialists side by side, then the security and independent reviews.    *)
(***************************************************************************)
EXTENDS Orchestration

MCNode == {"planning", "performance", "documentation", "security", "review"}

\* The reviews depend on "planning" as well, which they reach through the
\* specialists of the first plan: a new plan has no specialists in between.
MCDep ==
  [planning |-> {},
   performance |-> {"planning"},
   documentation |-> {"planning"},
   security |-> {"planning", "performance", "documentation"},
   review |-> {"planning", "performance", "documentation", "security"}]

MCRank ==
  [planning |-> 1, performance |-> 2, documentation |-> 3,
   review |-> 4, security |-> 5]

MCWriter == {"documentation"}

MCSharesFile == [m \in MCNode |-> [n \in MCNode |-> FALSE]]

\* replan() asks for no optional specialist.
MCReplanned == {"planning", "security", "review"}

MCOutcomes ==
  [planning |-> {"done"}, performance |-> {"done"}, documentation |-> {"done"},
   security |-> {"pass", "stop"}, review |-> {"approve", "changes"}]

ASSUME MCOrchestrationAssumption == ReviewsComeLast
=============================================================================

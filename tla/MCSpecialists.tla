--------------------------- MODULE MCSpecialists ---------------------------
(***************************************************************************)
(* The end of a plan: verification, then the review of performance beside  *)
(* the documentation, which names none of the files the review reads.      *)
(***************************************************************************)
EXTENDS Specialists

CONSTANTS verification, performance, documentation, coder, general

MCNode == {verification, performance, documentation}
MCDep == [n \in MCNode |-> IF n = verification THEN {} ELSE {verification}]
MCRank == [n \in MCNode |-> IF n = verification THEN 1 ELSE IF n = performance THEN 2 ELSE 3]
MCSharesFile == [m \in MCNode |-> [n \in MCNode |-> m = n]]
MCModelOf == [n \in MCNode |-> IF n = verification THEN coder ELSE general]
MCOutputs ==
    [n \in MCNode |-> IF n = verification THEN {"test_plan", "verification_report"} ELSE {"report"}]
MCMayNest == {<<performance, documentation>>}
=============================================================================

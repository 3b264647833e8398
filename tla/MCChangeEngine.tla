--------------------------- MODULE MCChangeEngine ---------------------------
(***************************************************************************)
(* Instances of ChangeEngine for TLC: files that exist and a name that is  *)
(* free, so that every kind of operation is possible, and contents that    *)
(* tell the original file, the agent's and somebody else's apart.          *)
(***************************************************************************)
EXTENDS ChangeEngine

TwoPaths == 1 .. 2
ThreePaths == 1 .. 3

MCContent == {"absent", "old", "agent", "user"}

\* The last name is free.
MCInitialFiles ==
  [p \in Path |-> IF \E q \in Path : q > p THEN "old" ELSE "absent"]
=============================================================================

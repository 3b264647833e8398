------------------------- MODULE MCProjectVerifier -------------------------
(* A small instance of ProjectVerifier for TLC. *)
EXTENDS ProjectVerifier

Plain(category) ==
  [category |-> category, source |-> "detected_script", writes |-> FALSE,
   network |-> FALSE, traits |-> {}, detector |-> {}, home |-> Path]

\* The tests are those of a package in the workspace.
MCTest == [Plain("test") EXCEPT !.home = {1}]
MCLint == Plain("lint")
MCFormat ==
  [Plain("format") EXCEPT !.writes = TRUE, !.source = "user_config",
                          !.traits = {"shell_operator", "install"}]
MCTool == [Plain("diagnostic") EXCEPT !.source = "user_config"]

MCCommand == {MCTest, MCLint, MCFormat, MCTool}

MCSingle == {MCFormat, MCTool}

MCOptions ==
  [policy |-> "verification", mode |-> "readonly", network |-> FALSE,
   install |-> FALSE, scripts |-> TRUE, custom |-> FALSE, format |-> TRUE]

MCInput ==
  {[include |-> {"lint", "test"}, scope |-> "changed_files", told |-> TRUE],
   [include |-> {"test", "build"}, scope |-> "changed_files", told |-> FALSE]}

\* An error that the commands may print.
MCDiagnostic ==
  {[print |-> "f1", place |-> "p1", error |-> TRUE]}
=============================================================================

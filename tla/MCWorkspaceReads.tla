--------------------------- MODULE MCWorkspaceReads ---------------------------
(* A root with a folder of two files: one may be read, and one is sensitive,   *)
(* excluded by the root but not by its folder.  A hidden folder is empty.      *)
EXTENDS WorkspaceReads

MCParent == (1 :> 0) @@ (2 :> 1) @@ (3 :> 1) @@ (4 :> 1)
MCExcluded == (0 :> {2}) @@ (1 :> {}) @@ (4 :> {})
MCIncluded == (0 :> {}) @@ (1 :> {2}) @@ (4 :> {})
Callers == Permutations(Caller)
MCLimit == [list |-> 1, find |-> 2, search |-> 2]
=============================================================================

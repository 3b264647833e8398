-------------------------- MODULE AtomicWorkspace --------------------------
(***************************************************************************)
(* What the change engine promises about the user's files.  A change that  *)
(* is reported as done has happened as a whole, one that is reported as    *)
(* failed has not happened at all, a restore brings back a whole backup.   *)
(* Only when the process dies, or when undoing fails too, may a part of    *)
(* the files be new; each of them is then old or new, never anything else, *)
(* and the files of a change have been backed up as they were.             *)
(***************************************************************************)
CONSTANTS
  Path,       \* the files concerned
  Content     \* what a file may hold, its absence included

VARIABLES
  files,      \* the workspace
  backups,    \* the backups that can be restored: contents of some files
  change,     \* the change proposed: the new contents of some files
  outcome     \* what was reported last: "none", "done", "failed" or "torn"

\* The contents of some files.
Image == UNION {[D -> Content] : D \in SUBSET Path}

NoChange == [p \in {} |-> {}]

\* The workspace with the files of D as an image has them.
With(image, D) == [p \in Path |-> IF p \in D THEN image[p] ELSE files[p]]

\* There is a backup of the present contents of just the files of D.
BackedUp(D) == [p \in D |-> files[p]] \in backups

Init ==
  /\ files \in [Path -> Content]
  /\ backups = {}
  /\ change = NoChange
  /\ outcome = "none"

\* Somebody edits a file.
Edit ==
  /\ \E p \in Path, c \in Content : files' = [files EXCEPT ![p] = c]
  /\ UNCHANGED <<backups, change, outcome>>

\* Another change is proposed, or none.
Propose ==
  /\ change' \in Image
  /\ UNCHANGED <<files, backups, outcome>>

\* Some files are backed up; older backups may be dropped.
BackUp ==
  /\ \E D \in SUBSET Path, kept \in SUBSET backups :
       backups' = kept \cup {[p \in D |-> files[p]]}
  /\ UNCHANGED <<files, change, outcome>>

\* All of the change at once.
Commit ==
  /\ BackedUp(DOMAIN change)
  /\ files' = With(change, DOMAIN change)
  /\ outcome' = "done"
  /\ UNCHANGED <<backups, change>>

\* All of a backup at once.
Restore ==
  /\ \E b \in backups : files' = With(b, DOMAIN b)
  /\ outcome' = "done"
  /\ UNCHANGED <<backups, change>>

\* Nothing at all, because of a failure or because the user does not want it;
\* room may have been made for a backup.
Fail ==
  /\ backups' \in SUBSET backups
  /\ outcome' \in {"failed", "none"}
  /\ UNCHANGED <<files, change>>

\* A part of the change, or of a backup.
Tear ==
  /\ \/ /\ BackedUp(DOMAIN change)
        /\ \E D \in SUBSET DOMAIN change : files' = With(change, D)
     \/ \E b \in backups : \E D \in SUBSET DOMAIN b : files' = With(b, D)
  /\ outcome' = "torn"
  /\ change' \in {change, NoChange}
  /\ UNCHANGED backups

Next == Edit \/ Propose \/ BackUp \/ Commit \/ Restore \/ Fail \/ Tear

Spec == Init /\ [][Next]_<<files, backups, change, outcome>>
=============================================================================

--------------------------- MODULE WorkspaceReads ---------------------------
(***************************************************************************)
(* LocalWorkspaceService: the tools by which agents look at the workspace. *)
(* Several agents share one service, with its cache of files that were     *)
(* read and its cache of .gitignore rules; in the meantime the user, or an *)
(* apply, changes files.  A step is what happens between two awaits, so a  *)
(* file may change or vanish between its stat, the look at its first       *)
(* bytes, its reading and its hashing, and between the listing of a folder *)
(* and the stat of an entry.                                               *)
(*                                                                         *)
(* list_files stands for get_repository_map and detect_project_technologies  *)
(* too, which collect entries the same way; find_files is asked for a name   *)
(* every file has.                                                           *)
(***************************************************************************)
EXTENDS Integers, Sequences, SequencesExt

CONSTANTS
  Caller,       \* tool calls that may be in progress at once
  Folder, File, \* the paths, which are numbers: entries are visited in order
  Top,          \* the root of the workspace
  Parent,       \* the folder a path lies in
  Hidden,       \* what is never listed: build, dist..., names with a dot
  Excluded,     \* Excluded[d]: what the .gitignore of folder d excludes
  Included,     \* Included[d]: what its last matching line says not to ("!")
  Content,      \* what files hold; "match", "binary" and "large" are told apart
  Sensitive,    \* files no tool may read
  Limit,        \* how many entries each tool that collects them keeps
  MaxResults,   \* how many results search_text and find_files return
  MaxDepth,     \* maxDirectoryDepth
  CacheSize,    \* 32 files in the code
  MaxCalls,     \* bound: how many calls there are
  MaxEdits      \* bound: how often files are changed

Collectors == {"list", "find", "search"}

ASSUME ReadsAssumption ==
  /\ Folder \cup File \subseteq Nat /\ IsFiniteSet(Folder \cup File)
  /\ Folder \cap File = {}
  /\ Top \in Folder
  /\ Parent \in [(Folder \cup File) \ {Top} -> Folder]
  /\ Hidden \subseteq Folder \cup File
  /\ {Excluded, Included} \subseteq [Folder -> SUBSET (Folder \cup File)]
  /\ \A d \in Folder : Excluded[d] \cap Included[d] = {}
  /\ Sensitive \subseteq File
  /\ Limit \in [Collectors -> Nat \ {0}]
  /\ {MaxResults, MaxDepth, CacheSize} \subseteq Nat \ {0}
  /\ {MaxCalls, MaxEdits} \subseteq Nat

Gone == "gone"

VARIABLES
  file,    \* each file: its contents, and the size and time stat reports
  cache,   \* files that were read, oldest first
  rules,   \* folders whose .gitignore has been loaded, in that order
  call,    \* the calls: what each has come to
  stable,  \* history: the files nobody touched since the call began
  had,     \* history: what the file that is read has held since then
  calls, edits

vars == <<file, cache, rules, call, stable, had, calls, edits>>

NoCall ==
  [tool |-> "none", at |-> "done", path |-> Top, stamp |-> 0, shown |-> Gone,
   hash |-> Gone, dir |-> Top, stack |-> <<>>, found |-> {}, left |-> {},
   cut |-> FALSE]

Init ==
  /\ file \in [File -> [content : Content \ {"binary", "large"}, stamp : {0}]]
  /\ cache = <<>>
  /\ rules = <<>>
  /\ call = [c \in Caller |-> NoCall]
  /\ stable = [c \in Caller |-> {}]
  /\ had = [c \in Caller |-> {}]
  /\ calls = 0
  /\ edits = 0

Exists(f) == file[f].content # Gone

\* Every change gives a file a size and time it did not have before.
Edit(f, content) ==
  /\ edits < MaxEdits
  /\ edits' = edits + 1
  /\ content # file[f].content
  /\ file' = [file EXCEPT ![f] = [content |-> content, stamp |-> edits + 1]]
  /\ stable' = [c \in Caller |-> stable[c] \ {f}]
  /\ had' = [c \in Caller |-> IF call[c].path = f /\ call[c].at # "done"
                              THEN had[c] \cup {content} ELSE had[c]]
  /\ UNCHANGED <<cache, rules, call, calls>>

-----------------------------------------------------------------------------
(* Calls.                                                                  *)

Goes(c, next) ==
  /\ call' = [call EXCEPT ![c] = next]
  /\ UNCHANGED <<file, stable, had, calls, edits>>

\* An error of any kind: there is no such file any more, it may not be read.
Fails(c) ==
  Goes(c, [NoCall EXCEPT !.tool = "failed"]) /\ UNCHANGED <<cache, rules>>

At(c, tools, at) == call[c].tool \in tools /\ call[c].at = at

Begin(c, next) ==
  /\ call[c].at = "done"
  /\ calls < MaxCalls
  /\ calls' = calls + 1
  /\ call' = [call EXCEPT ![c] = next]
  /\ stable' = [stable EXCEPT ![c] = {f \in File : Exists(f)}]
  /\ had' = [had EXCEPT ![c] =
               IF next.path \in File THEN {file[next.path].content} ELSE {}]
  /\ UNCHANGED <<file, cache, rules, edits>>

\* read_file and read_file_range: the path is resolved and allowed.
BeginRead(c, tool, f) ==
  /\ Exists(f)
  /\ f \notin Sensitive
  /\ Begin(c, [NoCall EXCEPT !.tool = tool, !.at = "stat", !.path = f])

\* list_files, find_files and search_text: collectEntries of a folder.
BeginCollect(c, tool, d) ==
  Begin(c, [NoCall EXCEPT !.tool = tool, !.at = "enter", !.path = d,
                           !.dir = d])

-----------------------------------------------------------------------------
(* Reading one file.                                                       *)

Stat(c) ==
  LET f == call[c].path IN
  /\ At(c, {"read", "range"}, "stat")
  /\ IF Exists(f)
     THEN /\ Goes(c, [call[c] EXCEPT !.at = "sniff", !.stamp = file[f].stamp,
                                     !.cut = file[f].content = "large"])
          /\ UNCHANGED <<cache, rules>>
     ELSE Fails(c)

Cached(f) == {i \in DOMAIN cache : cache[i].path = f}

\* Wrong variant of Fresh: a file that was read once is not looked at again.
FreshForEver(entry, stamp) == TRUE

\* The cached text is that of the file stat has reported on.
Fresh(entry, stamp) == entry.stamp = stamp

IsBinary(f) == file[f].content = "binary"

\* isBinaryFile, and what read_file decides on it: a binary file is hashed, one
\* that is too large refused, a cached one not read again.
Sniff(c) ==
  LET f == call[c].path
      hits == {i \in Cached(f) : Fresh(cache[i], call[c].stamp)}
      whole == call[c].tool = "read"
  IN
  /\ At(c, {"read", "range"}, "sniff")
  /\ CASE ~Exists(f) -> Fails(c)
       [] Exists(f) /\ IsBinary(f) ->
            Goes(c, [call[c] EXCEPT !.at = "hash"]) /\ UNCHANGED <<cache, rules>>
       [] Exists(f) /\ ~IsBinary(f) /\ whole /\ call[c].cut ->
            Fails(c)
       [] OTHER ->
            /\ UNCHANGED <<cache, rules>>
            /\ IF whole /\ hits # {}
               THEN \E i \in hits :
                      Goes(c, [call[c] EXCEPT !.at = "done",
                                 !.shown = cache[i].content,
                                 !.hash = cache[i].content])
               ELSE Goes(c, [call[c] EXCEPT !.at = "bytes"])

\* A Map keeps its keys in the order they were set: one that is set again is
\* deleted first.
Remember(f, stamp, content) ==
  LET others == IF Cached(f) = {} THEN cache
                ELSE RemoveAt(cache, CHOOSE i \in Cached(f) : TRUE)
      longer == Append(others, [path |-> f, stamp |-> stamp, content |-> content])
  IN  IF Len(longer) > CacheSize THEN Tail(longer) ELSE longer

\* The bytes are read and decoded.  Those of a file that has become binary may
\* be no text; and read_file_range has yet to compute the hash.
ReadBytes(c) ==
  LET f == call[c].path
      now == file[f].content
  IN
  /\ At(c, {"read", "range"}, "bytes")
  /\ \/ /\ ~Exists(f) \/ now = "binary"
        /\ Fails(c)
     \/ /\ Exists(f)
        /\ IF call[c].tool = "read"
           THEN /\ cache' = Remember(f, call[c].stamp, now)
                /\ Goes(c, [call[c] EXCEPT !.at = "done", !.shown = now,
                                           !.hash = now])
           ELSE /\ Goes(c, [call[c] EXCEPT !.at = "hash", !.shown = now])
                /\ UNCHANGED cache
        /\ UNCHANGED rules

\* hashFile of a binary file, and of one of which a range was read.
Hash(c) ==
  LET f == call[c].path IN
  /\ At(c, {"read", "range"}, "hash")
  /\ IF Exists(f)
     THEN /\ Goes(c, [call[c] EXCEPT !.at = "done", !.hash = file[f].content])
          /\ UNCHANGED <<cache, rules>>
     ELSE Fails(c)

-----------------------------------------------------------------------------
(* Collecting entries: one frame of the stack for each folder that is being *)
(* visited, with the children that are still to come.                       *)

Children(d) ==
  {e \in (Folder \cup File) \ {Top} :
     Parent[e] = d /\ (e \in File => Exists(e))}

\* The folders an entry lies in: those that every set has which has its parent
\* and, with a folder, the parent of that.
FoldersAbove ==
  [e \in Folder \cup File |->
     {d \in Folder : e # Top /\ \A S \in SUBSET Folder :
        Parent[e] \in S /\ (\A x \in S \ {Top} : Parent[x] \in S) => d \in S}]

Above(e) == FoldersAbove[e]

\* No folder lies in itself.
ASSUME TreeAssumption == \A d \in Folder : d \notin Above(d)

\* Rules hold for what lies below their folder, once they are loaded.  Of those
\* that say something of an entry it is not the nearest that decides, but the one
\* loaded last: by whichever call got there.
Speaking(e) ==
  {i \in DOMAIN rules : /\ rules[i] \in Above(e)
                        /\ e \in Excluded[rules[i]] \cup Included[rules[i]]}

Ignored(e) ==
  \/ e \in Hidden
  \/ \E i \in Speaking(e) :
       e \in Excluded[rules[i]] /\ \A j \in Speaking(e) : j <= i

\* A folder's rules are loaded once.
Loaded(d) == IF d \in ToSet(rules) THEN rules ELSE Append(rules, d)

Full(c) == Cardinality(call[c].found) >= Limit[call[c].tool]

Coming(c) == Last(call[c].stack)

Return(c) == [call[c] EXCEPT !.stack = Front(@)]

\* visit: the limit, the rules of the folder, its entries.
Enter(c) ==
  LET d == call[c].dir IN
  /\ At(c, Collectors, "enter")
  /\ \/ /\ Full(c)
        /\ Goes(c, [call[c] EXCEPT !.at = "visit", !.cut = TRUE])
        /\ UNCHANGED rules
     \/ /\ ~Full(c)
        /\ Goes(c, [call[c] EXCEPT !.at = "visit",
                                   !.stack = Append(@, Children(d))])
        /\ rules' = Loaded(d)
  /\ UNCHANGED cache

\* Wrong variant of Cut: what does not fit is left out silently.
CutSilently(c) == Return(c)

\* No more entries fit: this folder is left, and the result says so.
Cut(c) == [Return(c) EXCEPT !.cut = TRUE]

\* A folder is an entry of list_files; it is visited, if it is not too deep.
VisitFolder(c, d, rest) ==
  LET noted == IF call[c].tool = "list"
               THEN [rest EXCEPT !.found = @ \cup {d}] ELSE rest
  IN  Goes(c, IF Len(call[c].stack) < MaxDepth
              THEN [noted EXCEPT !.at = "enter", !.dir = d] ELSE noted)

\* A file is an entry with the size stat tells, and makes the call fail when it
\* is gone by now.  search_text passes over what is sensitive or too large.
VisitFile(c, f, rest) ==
  IF ~Exists(f) THEN Goes(c, [NoCall EXCEPT !.tool = "failed"])
  ELSE Goes(c, [rest EXCEPT !.found = @ \cup {f},
                            !.left = IF f \in Sensitive
                                        \/ file[f].content = "large"
                                     THEN @ ELSE @ \cup {f}])

\* The next entry of the folder that is being visited.
Visit(c) ==
  LET e == Min(Coming(c))
      frames == call[c].stack
      rest == [call[c] EXCEPT
                 !.stack = [frames EXCEPT ![Len(frames)] = Coming(c) \ {e}]]
  IN
  /\ At(c, Collectors, "visit")
  /\ call[c].stack # <<>>
  /\ CASE Coming(c) = {} -> Goes(c, Return(c))
       [] Coming(c) # {} /\ Ignored(e) -> Goes(c, rest)
       [] Coming(c) # {} /\ ~Ignored(e) /\ Full(c) -> Goes(c, Cut(c))
       [] OTHER -> IF e \in File THEN VisitFile(c, e, rest)
                   ELSE VisitFolder(c, e, rest)
  /\ UNCHANGED <<cache, rules>>

\* find_files returns the first of the files.
Named(c) ==
  LET files == call[c].found IN
  [call[c] EXCEPT
     !.at = "done", !.left = {},
     !.found = {f \in files : Cardinality({g \in files : g < f}) < MaxResults},
     !.cut = @ \/ Cardinality(files) > MaxResults]

\* Every folder has been visited; search_text goes on with the files found.
Collected(c) ==
  /\ At(c, Collectors, "visit")
  /\ call[c].stack = <<>>
  /\ Goes(c, CASE call[c].tool = "list" -> [call[c] EXCEPT !.at = "done", !.left = {}]
               [] call[c].tool = "find" -> Named(c)
               [] OTHER -> [call[c] EXCEPT !.at = "search", !.found = {}])
  /\ UNCHANGED <<cache, rules>>

\* One file is resolved, looked at and read; one that is gone makes the search
\* fail.  This is one step: what becomes of the file meanwhile only leads to one
\* of these outcomes as well.
SearchFile(c) ==
  LET f == Min(call[c].left)
      hits == IF file[f].content = "match" THEN call[c].found \cup {f}
              ELSE call[c].found
      full == Cardinality(hits) >= MaxResults
  IN
  /\ At(c, {"search"}, "search")
  /\ call[c].left # {}
  /\ IF ~Exists(f) THEN Fails(c)
     ELSE /\ Goes(c, [call[c] EXCEPT !.found = hits,
                                     !.left = IF full THEN {} ELSE @ \ {f},
                                     !.cut = @ \/ full])
          /\ UNCHANGED <<cache, rules>>

Searched(c) ==
  /\ At(c, {"search"}, "search")
  /\ call[c].left = {}
  /\ Goes(c, [call[c] EXCEPT !.at = "done"])
  /\ UNCHANGED <<cache, rules>>

-----------------------------------------------------------------------------
Calls(c) ==
  \/ \E tool \in {"read", "range"}, f \in File : BeginRead(c, tool, f)
  \/ \E tool \in Collectors, d \in Folder : BeginCollect(c, tool, d)
  \/ Stat(c) \/ Sniff(c) \/ ReadBytes(c) \/ Hash(c)
  \/ Enter(c) \/ Visit(c) \/ Collected(c) \/ SearchFile(c) \/ Searched(c)

Next ==
  \/ \E c \in Caller : Calls(c)
  \/ \E f \in File, content \in Content \cup {Gone} : Edit(f, content)

Spec == Init /\ [][Next]_vars

-----------------------------------------------------------------------------
(* Properties.                                                             *)

Entry == (Folder \cup File) \ {Top}

FileType == [content : Content \cup {Gone}, stamp : 0 .. MaxEdits]

CachedType == [path : File, stamp : 0 .. MaxEdits, content : Content \ {Gone}]

CallType ==
  [tool : {"none", "failed", "read", "range"} \cup Collectors,
   at : {"stat", "sniff", "bytes", "hash", "enter", "visit", "search", "done"},
   path : Folder \cup File, stamp : 0 .. MaxEdits,
   shown : Content \cup {Gone}, hash : Content \cup {Gone},
   dir : Folder, stack : Seq(SUBSET Entry), found : SUBSET Entry,
   left : SUBSET File, cut : BOOLEAN]

\* The type invariant; and the cache stays within its size.
TypeOK ==
  /\ file \in [File -> FileType]
  /\ cache \in Seq(CachedType) /\ Len(cache) <= CacheSize
  /\ rules \in Seq(Folder)
  /\ call \in [Caller -> CallType]
  /\ stable \in [Caller -> SUBSET File]
  /\ had \in [Caller -> SUBSET (Content \cup {Gone})]
  /\ calls \in 0 .. MaxCalls /\ edits \in 0 .. MaxEdits

\* What a read shows, and what its sha256 is that of, is what the file held at
\* some moment of this very call: neither a cached text nor the order of stat,
\* look and read let an agent see an earlier state of the file.  And the hash
\* read_file gives, which a change is checked against, is of the text it shows;
\* that of read_file_range need not be.
ReadsWhatWasThere ==
  \A c \in Caller :
    call[c].tool \in {"read", "range"} /\ call[c].at = "done" =>
      /\ call[c].shown \in had[c] \cup {Gone}
      /\ call[c].hash \in had[c] \ {Gone}
      /\ call[c].tool = "read" => call[c].shown \in {Gone, call[c].hash}

\* The folders that are visited on the way to an entry.
Way(c, e) == Above(e) \ Above(call[c].path)

\* What a listing may leave out without a word: what is hidden, and what the
\* .gitignore of a folder above excludes.  Another may say the opposite: which
\* of them is heeded is a matter of when each was loaded.
Omissible(e) == e \in Hidden \/ \E d \in Above(e) : e \in Excluded[d]

\* An answer that does not say it was cut has every file that nobody touched in
\* the meantime, that is not too deep, and of which nothing on the way from the
\* folder asked about may be left out; that of a search, each of those that holds
\* what was searched for and may be read.
ListsWhatStays ==
  \A c \in Caller :
    call[c].tool \in Collectors /\ call[c].at = "done" /\ ~call[c].cut =>
      \A f \in stable[c] :
        /\ call[c].path \in Above(f)
        /\ Cardinality(Way(c, f)) <= MaxDepth
        /\ \A e \in (Way(c, f) \cup {f}) \ {call[c].path} : ~Omissible(e)
        /\ call[c].tool = "search" =>
             f \notin Sensitive /\ file[f].content = "match"
        => f \in call[c].found
=============================================================================

------------------------- MODULE WorkspaceReadsProofs -------------------------
(***************************************************************************)
(* Theorems about the tools that read the workspace, for every tree of     *)
(* folders, every set of callers, every limit and every size of the cache. *)
(***************************************************************************)
EXTENDS WorkspaceReads, SequenceTheorems, FiniteSetTheorems, WellFoundedInduction,
        TLAPS

-----------------------------------------------------------------------------
(***************************************************************************)
(* The tree.                                                               *)
(***************************************************************************)

\* An entry is a file or a folder, never both; it has a parent.
LEMMA Entries ==
  /\ File \subseteq Entry /\ Top \in Folder /\ Entry \subseteq Nat
  /\ \A e \in Entry : Parent[e] \in Folder
  /\ \A e \in Entry : e \in Folder <=> e \notin File
  /\ \A d \in Folder : d = Top \/ d \in Entry
  /\ IsFiniteSet(Folder) /\ IsFiniteSet(Folder \cup File) /\ IsFiniteSet(Entry)
<1>1. IsFiniteSet(Folder \cup File)
  BY ReadsAssumption
<1>2. Folder \in SUBSET (Folder \cup File) /\ Entry \in SUBSET (Folder \cup File)
  BY DEF Entry
<1>3. IsFiniteSet(Folder) /\ IsFiniteSet(Entry)
  BY <1>1, <1>2, FS_Subset
<1>4. QED
  BY <1>1, <1>3, ReadsAssumption DEF Entry

\* What Above stands for.
LEMMA AboveIs ==
  \A e \in Folder \cup File :
    Above(e) = {d \in Folder : e # Top /\ \A S \in SUBSET Folder :
                  Parent[e] \in S /\ (\A x \in S \ {Top} : Parent[x] \in S) => d \in S}
<1> TAKE e \in Folder \cup File
<1>1. QED
  BY Zenon DEF Above, FoldersAbove

\* The folders above an entry are its parent and those above that.
LEMMA AboveUp ==
  ASSUME NEW e \in Entry
  PROVE  Above(e) = {Parent[e]} \cup Above(Parent[e])
<1> DEFINE p == Parent[e]
           S == {p} \cup Above(p)
<1>1. p \in Folder /\ e # Top
  BY Entries DEF Entry
<1>2. p \in Above(e)
  BY <1>1, AboveIs, Entries
<1>3. Above(p) \subseteq Above(e)
  BY <1>1, AboveIs, Entries
<1>4. S \in SUBSET Folder
  BY <1>1, AboveIs, Entries
<1>5. ASSUME NEW x \in S, x # Top PROVE Parent[x] \in S
  <2>1. Parent[x] \in Folder
    BY <1>4, <1>5, Entries
  <2>2. CASE x = p
    BY <1>5, <2>1, <2>2, AboveIs, Entries
  <2>3. CASE x \in Above(p)
    <3>1. \A T \in SUBSET Folder :
            Parent[p] \in T /\ (\A y \in T \ {Top} : Parent[y] \in T) => Parent[x] \in T
      BY <1>5, <2>3, AboveIs, Entries
    <3>2. p # Top
      BY <2>3, AboveIs, Entries
    <3>3. QED
      BY <2>1, <3>1, <3>2, AboveIs, Entries
  <2>4. QED
    BY <1>5, <2>2, <2>3
<1>6. Above(e) \subseteq S
  <2>1. p \in S /\ \A x \in S \ {Top} : Parent[x] \in S
    BY <1>5
  <2> HIDE DEF S
  <2>2. QED
    BY <1>4, <2>1, AboveIs, Entries
<1>7. QED
  BY <1>2, <1>3, <1>6

\* Nothing lies above the top.
LEMMA AboveTop == Above(Top) = {}
BY AboveIs, Entries

\* What lies above a folder above an entry lies above the entry.
LEMMA AboveAbove ==
  ASSUME NEW e \in Entry \cup {Top}, NEW d \in Above(e)
  PROVE  d \in Folder /\ Above(d) \subseteq Above(e)
<1>1. e \in Entry /\ d \in Folder
  BY AboveIs, Entries
<1>2. ASSUME NEW x \in Above(e), x # Top PROVE Parent[x] \in Above(e)
  <2>1. x \in Folder /\ x \in Entry
    BY <1>2, AboveIs, Entries
  <2>2. Parent[x] \in Folder
    BY <2>1, Entries
  <2>3. \A T \in SUBSET Folder :
          Parent[e] \in T /\ (\A y \in T \ {Top} : Parent[y] \in T) => Parent[x] \in T
    BY <1>2, AboveIs, Entries
  <2>4. QED
    BY <1>1, <2>2, <2>3, AboveIs, Entries DEF Entry
<1>3. Above(e) \in SUBSET Folder
  BY AboveIs, Entries
<1>4. d # Top => Parent[d] \in Above(e)
  BY <1>2
<1>5. ASSUME NEW x \in Above(d) PROVE x \in Above(e)
  <2>1. d # Top
    BY <1>5, AboveIs, Entries
  <2>2. \A T \in SUBSET Folder :
          Parent[d] \in T /\ (\A y \in T \ {Top} : Parent[y] \in T) => x \in T
    BY <1>5, AboveIs, Entries
  <2>3. QED
    BY <1>2, <1>3, <1>4, <2>1, <2>2
<1>6. QED
  BY <1>1, <1>5

\* Below a folder above an entry is the entry, or one of its folders is.
LEMMA ChildOnTheWay ==
  ASSUME NEW f \in Entry, NEW d \in Above(f)
  PROVE  \E e \in Entry : Parent[e] = d /\ (e = f \/ e \in Above(f))
<1> DEFINE S == {x \in Above(f) : \E e \in Entry :
                   Parent[e] = x /\ (e = f \/ e \in Above(f))}
<1>1. Above(f) = {Parent[f]} \cup Above(Parent[f])
  BY AboveUp
<1>2. Parent[f] \in S
  BY <1>1
<1>3. ASSUME NEW x \in S, x # Top PROVE Parent[x] \in S
  <2>1. x \in Above(f) /\ x \in Folder
    BY <1>3, AboveAbove
  <2>2. x \in Entry
    BY <1>3, <2>1, Entries
  <2>3. Parent[x] \in Above(x) /\ Above(x) \subseteq Above(f)
    BY <2>1, <2>2, AboveUp, AboveAbove
  <2>4. QED
    BY <2>1, <2>2, <2>3
<1>4. S \in SUBSET Folder
  BY AboveAbove
<1> HIDE DEF S
<1>5. d \in S
  BY <1>2, <1>3, <1>4, AboveIs, Entries
<1>6. QED
  BY <1>5 DEF S

\* How deep an entry lies below a folder.
Depth(e, d) == Cardinality(Above(e) \ Above(d))

\* The folders above an entry can be counted.
LEMMA FiniteAbove ==
  ASSUME NEW e \in Folder \cup File, NEW T
  PROVE  IsFiniteSet(Above(e) \ T) /\ Cardinality(Above(e) \ T) \in Nat
<1>1. Above(e) \ T \in SUBSET Folder
  BY AboveIs, Entries
<1>2. QED
  BY <1>1, Entries, FS_Subset, FS_CardinalityType

\* A folder lies neither in itself nor in one of its own folders.
LEMMA NotAbove ==
  ASSUME NEW e \in Folder, NEW d \in Folder, e = d \/ d \in Above(e)
  PROVE  e \notin Above(d) /\ e \notin Above(e)
<1>1. e \notin Above(e)
  BY TreeAssumption
<1>2. d \in Above(e) => Above(d) \subseteq Above(e)
  BY AboveAbove, Entries
<1>3. QED
  BY <1>1, <1>2

\* What lies in a folder is neither that folder nor one it lies in.
LEMMA NotBelow ==
  ASSUME NEW e \in Entry, NEW d \in Folder, d \in Above(e)
  PROVE  e # d /\ e \notin Above(d)
<1>1. d \notin Above(d)
  BY TreeAssumption
<1>2. ASSUME e \in Above(d) PROVE FALSE
  BY <1>1, <1>2, AboveAbove, Entries
<1>3. QED
  BY <1>1, <1>2

\* A child of a folder lies one deeper.
LEMMA DepthOfChild ==
  ASSUME NEW d \in Folder, NEW path \in Folder, d = path \/ path \in Above(d),
         NEW e \in Entry, Parent[e] = d
  PROVE  path \in Above(e) /\ Depth(e, path) = Depth(d, path) + 1
<1>1. Above(e) = {d} \cup Above(d)
  BY AboveUp
<1>2. d \notin Above(path) /\ d \notin Above(d)
  BY NotAbove
<1>3. Above(e) \ Above(path) = (Above(d) \ Above(path)) \cup {d}
      /\ d \notin Above(d) \ Above(path)
  BY <1>1, <1>2
<1>4. QED
  BY <1>1, <1>3, FiniteAbove, FS_AddElement DEF Depth

\* What lies below an entry lies deeper.
LEMMA DepthBelow ==
  ASSUME NEW f \in Entry, NEW e \in Above(f), NEW path \in Folder, path \in Above(e)
  PROVE  Depth(e, path) + 1 <= Depth(f, path)
<1>1. e \in Folder /\ Above(e) \subseteq Above(f)
  BY AboveAbove
<1>2. e \notin Above(path) /\ e \notin Above(e)
  BY <1>1, NotAbove
<1> DEFINE S == (Above(e) \ Above(path)) \cup {e}
           T == Above(f) \ Above(path)
<1>3. S \in SUBSET T
  BY <1>1, <1>2
<1>4. Cardinality(S) = Depth(e, path) + 1
  BY <1>1, <1>2, FiniteAbove, FS_AddElement DEF Depth
<1>5. Cardinality(S) <= Cardinality(T)
  BY <1>3, Entries, FiniteAbove, FS_Subset
<1>6. QED
  BY <1>4, <1>5 DEF Depth

\* The first entry of those to come is one of them.
LEMMA FirstOne ==
  ASSUME NEW S \in SUBSET Entry, S # {}
  PROVE  Min(S) \in S
<1> DEFINE UpTo(x) == {y \in S : y <= x}
           T == {UpTo(x) : x \in S}
<1>1. S \subseteq Nat /\ IsFiniteSet(S)
  BY Entries, FS_Subset
<1>2. T \subseteq FiniteSubsetsOf(S) /\ T # {}
  <2>1. T \subseteq SUBSET S /\ T # {}
    OBVIOUS
  <2> HIDE DEF T
  <2>2. QED
    BY <1>1, <2>1, FS_FiniteSubsetsOfFinite
<1>3. IsWellFoundedOn(StrictSubsetOrdering(S), FiniteSubsetsOf(S))
  BY FS_StrictSubsetOrderingWellFounded
<1>4. \E t \in T : \A u \in T : <<u, t>> \notin StrictSubsetOrdering(S)
  BY <1>2, <1>3, WFMin
<1>5. PICK x \in S : \A y \in S : <<UpTo(y), UpTo(x)>> \notin StrictSubsetOrdering(S)
  BY <1>4
<1>6. ASSUME NEW y \in S, y < x PROVE FALSE
  <2>1. UpTo(y) \in SUBSET S /\ UpTo(x) \in SUBSET S
    OBVIOUS
  <2>2. ASSUME NEW z \in S, z <= y PROVE z <= x
    <3>1. x \in Nat /\ y \in Nat /\ z \in Nat
      BY <1>1
    <3>2. QED
      BY <1>6, <2>2, <3>1
  <2>3. x \in UpTo(x) /\ x \notin UpTo(y)
    BY <1>1, <1>6
  <2>a. UpTo(y) \subseteq UpTo(x)
    BY <2>2
  <2> HIDE DEF UpTo
  <2>4. <<UpTo(y), UpTo(x)>> \in StrictSubsetOrdering(S)
    BY <2>1, <2>a, <2>3 DEF StrictSubsetOrdering
  <2>5. QED
    BY <1>5, <2>4
<1>7. \A y \in S : x <= y
  BY <1>1, <1>6
<1>8. QED
  BY <1>7 DEF Min

-----------------------------------------------------------------------------
(***************************************************************************)
(* The cache.                                                              *)
(***************************************************************************)

\* A sequence without one of its elements has no others than before.
LEMMA WithoutOne ==
  ASSUME NEW S, NEW s \in Seq(S), NEW i \in 1 .. Len(s)
  PROVE  /\ RemoveAt(s, i) \in Seq(S) /\ Len(RemoveAt(s, i)) = Len(s) - 1
         /\ \A k \in 1 .. Len(RemoveAt(s, i)) :
              \E j \in 1 .. Len(s) : RemoveAt(s, i)[k] = s[j]
<1> DEFINE a == SubSeq(s, 1, i - 1)
           b == SubSeq(s, i + 1, Len(s))
<1>1. Len(s) \in Nat /\ \A j \in 1 .. Len(s) : s[j] \in S
  BY LenProperties, ElementOfSeq
<1>2. /\ a \in Seq(S) /\ Len(a) = i - 1
      /\ \A j \in 1 .. i - 1 : a[j] = s[j]
  <2>1. 1 \in Int /\ i - 1 \in Int /\ \A j \in 1 .. i - 1 : s[j] \in S
    BY <1>1
  <2>2. /\ a \in Seq(S)
        /\ Len(a) = IF 1 <= i - 1 THEN i - 1 - 1 + 1 ELSE 0
        /\ \A j \in 1 .. i - 1 - 1 + 1 : a[j] = s[1 + j - 1]
    BY <2>1, SubSeqProperties
  <2> HIDE DEF a
  <2>3. QED
    BY <1>1, <2>2
<1>3. /\ b \in Seq(S) /\ Len(b) = Len(s) - i
      /\ \A j \in 1 .. Len(s) - i : b[j] = s[i + j]
  <2>1. i + 1 \in Int /\ Len(s) \in Int /\ \A j \in i + 1 .. Len(s) : s[j] \in S
    BY <1>1
  <2>2. /\ b \in Seq(S)
        /\ Len(b) = IF i + 1 <= Len(s) THEN Len(s) - (i + 1) + 1 ELSE 0
        /\ \A j \in 1 .. Len(s) - (i + 1) + 1 : b[j] = s[i + 1 + j - 1]
    BY <2>1, SubSeqProperties
  <2> HIDE DEF b
  <2>3. QED
    BY <1>1, <2>2
<1> HIDE DEF a, b
<1>4. /\ a \o b \in Seq(S) /\ Len(a \o b) = Len(s) - 1
      /\ \A k \in 1 .. Len(a) + Len(b) :
           (a \o b)[k] = IF k <= Len(a) THEN a[k] ELSE b[k - Len(a)]
  <2>1. /\ a \o b \in Seq(S) /\ Len(a \o b) = Len(a) + Len(b)
        /\ \A k \in 1 .. Len(a) + Len(b) :
             (a \o b)[k] = IF k <= Len(a) THEN a[k] ELSE b[k - Len(a)]
    BY <1>2, <1>3, ConcatProperties
  <2>2. QED
    BY <1>1, <1>2, <1>3, <2>1
<1>5. ASSUME NEW k \in 1 .. Len(s) - 1
      PROVE  \E j \in 1 .. Len(s) : (a \o b)[k] = s[j]
  <2>1. CASE k <= i - 1
    <3>1. (a \o b)[k] = s[k] /\ k \in 1 .. Len(s)
      BY <1>1, <1>2, <1>3, <1>4, <2>1
    <3>2. QED
      BY <3>1
  <2>2. CASE ~(k <= i - 1)
    <3>1. (a \o b)[k] = b[k - (i - 1)]
      BY <1>1, <1>2, <1>3, <1>4, <2>2
    <3>2. k - (i - 1) \in 1 .. Len(s) - i
      BY <1>1, <2>2
    <3>3. (a \o b)[k] = s[i + (k - (i - 1))] /\ i + (k - (i - 1)) \in 1 .. Len(s)
      BY <1>1, <1>3, <3>1, <3>2
    <3>4. QED
      BY <3>3
  <2>3. QED
    BY <2>1, <2>2
<1>6. RemoveAt(s, i) = a \o b
  BY DEF RemoveAt, a, b
<1>7. QED
  BY <1>4, <1>5, <1>6

\* What is remembered is the new entry, and of the others what was there.
LEMMA RememberFits ==
  ASSUME TypeOK, NEW f \in File, NEW stamp \in 0 .. MaxEdits,
         NEW content \in Content \ {Gone}
  PROVE  LET new == [path |-> f, stamp |-> stamp, content |-> content]
             R == Remember(f, stamp, content)
         IN  /\ R \in Seq(CachedType) /\ Len(R) <= CacheSize
             /\ \A k \in 1 .. Len(R) :
                  R[k] = new \/ \E j \in 1 .. Len(cache) : R[k] = cache[j]
<1> DEFINE new == [path |-> f, stamp |-> stamp, content |-> content]
           others == IF Cached(f) = {} THEN cache
                     ELSE RemoveAt(cache, CHOOSE i \in Cached(f) : TRUE)
           longer == Append(others, new)
<1>1. /\ cache \in Seq(CachedType) /\ Len(cache) \in Nat /\ Len(cache) <= CacheSize
      /\ CacheSize \in Nat /\ DOMAIN cache = 1 .. Len(cache)
  BY LenProperties, ReadsAssumption DEF TypeOK
<1>2. /\ others \in Seq(CachedType) /\ Len(others) <= CacheSize
      /\ \A k \in 1 .. Len(others) : \E j \in 1 .. Len(cache) : others[k] = cache[j]
  <2>1. CASE Cached(f) = {}
    BY <1>1, <2>1
  <2>2. CASE Cached(f) # {}
    <3> DEFINE i == CHOOSE i \in Cached(f) : TRUE
    <3>1. i \in 1 .. Len(cache)
      BY <1>1, <2>2 DEF Cached
    <3>2. others = RemoveAt(cache, i)
      BY <2>2
    <3> HIDE DEF i, others
    <3>3. QED
      BY <1>1, <3>1, <3>2, WithoutOne
  <2>3. QED
    BY <2>1, <2>2
<1>3. new \in CachedType
  BY DEF CachedType
<1> HIDE DEF new, others
<1>4. Len(others) \in Nat
  BY <1>2, LenProperties
<1>5. /\ longer \in Seq(CachedType) /\ Len(longer) = Len(others) + 1
      /\ \A k \in 1 .. Len(longer) :
           longer[k] = new \/ \E j \in 1 .. Len(cache) : longer[k] = cache[j]
  BY <1>2, <1>3, <1>4, AppendProperties
<1> HIDE DEF longer
<1>6. longer # <<>>
  BY <1>4, <1>5
<1>7. /\ Tail(longer) \in Seq(CachedType) /\ Len(Tail(longer)) = Len(longer) - 1
      /\ \A k \in 1 .. Len(Tail(longer)) : Tail(longer)[k] = longer[k + 1]
  BY <1>5, <1>6, HeadTailProperties
<1>8. \A k \in 1 .. Len(Tail(longer)) :
        Tail(longer)[k] = new \/ \E j \in 1 .. Len(cache) : Tail(longer)[k] = cache[j]
  BY <1>4, <1>5, <1>7
<1>9. Remember(f, stamp, content) = IF Len(longer) > CacheSize THEN Tail(longer) ELSE longer
  BY DEF Remember, longer, others, new
<1>10. CASE Len(longer) > CacheSize
  BY <1>1, <1>2, <1>4, <1>5, <1>7, <1>8, <1>9, <1>10 DEF new
<1>11. CASE ~(Len(longer) > CacheSize)
  BY <1>1, <1>4, <1>5, <1>9, <1>11 DEF new
<1>12. QED
  BY <1>10, <1>11

-----------------------------------------------------------------------------
(***************************************************************************)
(* The invariant, said of values: k is what a call has come to, F the      *)
(* files, M the cache, H what the file held since the call began, S the    *)
(* files nobody touched since.                                             *)
(***************************************************************************)

\* What is remembered of a file is what it holds, as long as it is the one that
\* stat has reported on.
Remembered(M, F) ==
  \A i \in 1 .. Len(M) :
    /\ M[i].stamp <= F[M[i].path].stamp
    /\ M[i].stamp = F[M[i].path].stamp => M[i].content = F[M[i].path].content

\* A file that was stated during the call: whatever is remembered of it with
\* that size and time, it has held since.
Stated(k, F, M, H) ==
  /\ k.stamp <= F[k.path].stamp
  /\ \A i \in 1 .. Len(M) :
       M[i].path = k.path /\ M[i].stamp = k.stamp => M[i].content \in H

ReadFits(k, F, M, H) ==
  k.tool \in {"read", "range"} =>
    /\ k.path \in File /\ k.at \in {"stat", "sniff", "bytes", "hash", "done"}
    /\ k.at # "done" => F[k.path].content \in H
    /\ k.at \in {"sniff", "bytes"} => Stated(k, F, M, H)
    /\ k.shown \in H \cup {Gone}
    /\ k.at = "done" => k.hash \in H \ {Gone}
    /\ k.tool = "read" => k.shown = Gone \/ (k.at = "done" /\ k.shown = k.hash)

\* The files a listing below a folder must have.
Wanted(k, f) ==
  /\ k.path \in Above(f) /\ Depth(f, k.path) <= MaxDepth
  /\ \A e \in (Above(f) \cup {f}) \ (Above(k.path) \cup {k.path}) : ~Omissible(e)

Matches(f, F) == f \notin Sensitive /\ F[f].content = "match"

\* Each frame of the stack is as deep as the entries it holds.
Placed(k) ==
  /\ \A i \in 1 .. Len(k.stack) : \A e \in k.stack[i] :
       k.path \in Above(e) /\ Depth(e, k.path) = i
  /\ k.at = "enter" =>
       /\ k.dir = k.path \/ k.path \in Above(k.dir)
       /\ Depth(k.dir, k.path) = Len(k.stack)

\* The file, or a folder it lies in, is still to come.
Ahead(k, f) ==
  \/ \E i \in 1 .. Len(k.stack) : \E e \in k.stack[i] : e = f \/ e \in Above(f)
  \/ k.at = "enter" /\ k.dir \in Above(f)

Listed(k, F, f) ==
  /\ k.at \in {"enter", "visit"} =>
       Ahead(k, f) \/ (f \in k.found /\ (Matches(f, F) => f \in k.left))
  /\ k.at = "search" => (Matches(f, F) => f \in k.left \cup k.found)
  /\ k.at = "done" => ((k.tool = "search" => Matches(f, F)) => f \in k.found)

ListFits(k, F, S) ==
  /\ \A f \in S : F[f].content # Gone
  /\ k.tool \in Collectors =>
       /\ k.path \in Folder /\ k.at \in {"enter", "visit", "search", "done"}
       /\ ~k.cut =>
            /\ k.at \in {"enter", "visit"} => Placed(k)
            /\ \A f \in S : Wanted(k, f) => Listed(k, F, f)

ReadsInv ==
  /\ TypeOK
  /\ \A f \in File : file[f].stamp <= edits
  /\ Remembered(cache, file)
  /\ \A c \in Caller : ReadFits(call[c], file, cache, had[c])
  /\ \A c \in Caller : ListFits(call[c], file, stable[c])

-----------------------------------------------------------------------------
(***************************************************************************)
(* Steps of one call.                                                      *)
(***************************************************************************)

\* The parts of the state.
LEMMA Parts ==
  ASSUME ReadsInv
  PROVE  /\ file \in [File -> FileType] /\ cache \in Seq(CachedType)
         /\ Len(cache) \in Nat /\ Len(cache) <= CacheSize /\ DOMAIN cache = 1 .. Len(cache)
         /\ rules \in Seq(Folder)
         /\ call \in [Caller -> CallType] /\ stable \in [Caller -> SUBSET File]
         /\ had \in [Caller -> SUBSET (Content \cup {Gone})]
         /\ calls \in 0 .. MaxCalls /\ edits \in 0 .. MaxEdits
         /\ MaxEdits \in Nat /\ MaxCalls \in Nat
         /\ \A i \in 1 .. Len(cache) : cache[i] \in CachedType
BY LenProperties, ElementOfSeq, ReadsAssumption DEF ReadsInv, TypeOK

\* The call of c becomes k, and the cache what is allowed to it.
LEMMA CallGoes ==
  ASSUME ReadsInv, NEW c \in Caller, NEW k \in CallType, Goes(c, k),
         cache' \in Seq(CachedType), Len(cache') <= CacheSize, rules' \in Seq(Folder),
         Remembered(cache', file),
         \A d \in Caller \ {c} : ReadFits(call[d], file, cache', had[d]),
         ReadFits(k, file, cache', had[c]), ListFits(k, file, stable[c])
  PROVE  ReadsInv'
<1>1. /\ call' = [call EXCEPT ![c] = k]
      /\ UNCHANGED <<file, stable, had, calls, edits>>
  BY DEF Goes
<1>2. call' \in [Caller -> CallType]
  BY <1>1, Parts
<1>3. \A d \in Caller : call'[d] = IF d = c THEN k ELSE call[d]
  BY <1>1, Parts
<1>4. TypeOK'
  BY <1>1, <1>2 DEF ReadsInv, TypeOK
<1>5. \A d \in Caller : ReadFits(call'[d], file', cache', had'[d])
  BY <1>1, <1>3
<1>6. \A d \in Caller : ListFits(call'[d], file', stable'[d])
  BY <1>1, <1>3 DEF ReadsInv
<1>7. Remembered(cache', file') /\ \A f \in File : file'[f].stamp <= edits'
  BY <1>1 DEF ReadsInv
<1>8. QED
  BY <1>4, <1>5, <1>6, <1>7 DEF ReadsInv

\* The cache stays.
LEMMA CallOnly ==
  ASSUME ReadsInv, NEW c \in Caller, NEW k \in CallType, Goes(c, k),
         UNCHANGED cache, rules' \in Seq(Folder),
         ReadFits(k, file, cache, had[c]), ListFits(k, file, stable[c])
  PROVE  ReadsInv'
BY Parts, CallGoes DEF ReadsInv

\* A call that reads has no listing to keep whole, and a listing nothing to read.
LEMMA OtherTool ==
  ASSUME ReadsInv, NEW c \in Caller, NEW k
  PROVE  /\ k.tool \notin Collectors => ListFits(k, file, stable[c])
         /\ k.tool \in Collectors => ReadFits(k, file, cache, had[c])
BY DEF ReadsInv, ListFits, ReadFits, Collectors

\* A caller that calls nothing, or whose call has failed.
LEMMA NoCallType ==
  ASSUME TypeOK
  PROVE  NoCall \in CallType /\ [NoCall EXCEPT !.tool = "failed"] \in CallType
         /\ NoCall.tool = "none" /\ [NoCall EXCEPT !.tool = "failed"].tool = "failed"
<1>1. Top \in Folder /\ 0 \in 0 .. MaxEdits /\ <<>> \in Seq(SUBSET Entry)
  BY ReadsAssumption
<1>2. QED
  BY <1>1 DEF NoCall, CallType, Collectors

\* A call that fails has shown nothing.
LEMMA FailKeeps ==
  ASSUME ReadsInv, NEW c \in Caller, Goes(c, [NoCall EXCEPT !.tool = "failed"]),
         UNCHANGED <<cache, rules>>
  PROVE  ReadsInv'
<1> DEFINE k == [NoCall EXCEPT !.tool = "failed"]
<1>1. k \in CallType /\ k.tool = "failed"
  BY NoCallType DEF ReadsInv
<1>2. Goes(c, k)
  OBVIOUS
<1> HIDE DEF k
<1>3. ReadFits(k, file, cache, had[c]) /\ ListFits(k, file, stable[c])
  BY <1>1, OtherTool DEF ReadFits, Collectors
<1>4. QED
  BY <1>1, <1>2, <1>3, CallOnly, Parts

\* A call that is reading a file.
LEMMA ReadingCall ==
  ASSUME ReadsInv, NEW c \in Caller, call[c].tool \in {"read", "range"}
  PROVE  /\ call[c] \in CallType /\ call[c].path \in File
         /\ file[call[c].path] \in FileType
         /\ call[c].stamp \in 0 .. MaxEdits
         /\ had[c] \subseteq Content \cup {Gone}
         /\ ReadFits(call[c], file, cache, had[c])
<1>1. call[c] \in CallType /\ ReadFits(call[c], file, cache, had[c])
  BY Parts DEF ReadsInv
<1>2. call[c].path \in File
  BY <1>1 DEF ReadFits
<1>3. QED
  BY <1>1, <1>2, Parts DEF CallType

\* The size and the time of a file, asked for before anything is read.
LEMMA StatKeeps ==
  ASSUME ReadsInv, NEW c \in Caller, Stat(c)
  PROVE  ReadsInv'
<1> DEFINE f == call[c].path
           large == file[f].content = "large"
           k == [call[c] EXCEPT !.at = "sniff", !.stamp = file[f].stamp, !.cut = large]
<1>1. call[c].tool \in {"read", "range"} /\ call[c].at = "stat"
  BY DEF Stat, At
<1>2. CASE ~Exists(f)
  BY <1>2, FailKeeps DEF Stat, Fails
<1>3. CASE Exists(f)
  <2>1. Goes(c, k) /\ UNCHANGED <<cache, rules>>
    BY <1>3 DEF Stat
  <2>2. file[f].stamp \in 0 .. MaxEdits /\ large \in BOOLEAN
    BY <1>1, ReadingCall DEF FileType
  <2> HIDE DEF large
  <2>3. /\ k \in CallType /\ k.tool = call[c].tool /\ k.at = "sniff" /\ k.path = f
        /\ k.stamp = file[f].stamp /\ k.shown = call[c].shown
    BY <1>1, <2>2, ReadingCall DEF CallType
  <2>4. Stated(k, file, cache, had[c])
    <3>1. file[f].content \in had[c]
      BY <1>1, ReadingCall DEF ReadFits
    <3>2. \A i \in 1 .. Len(cache) :
            cache[i].path = f /\ cache[i].stamp = file[f].stamp => cache[i].content \in had[c]
      BY <3>1 DEF ReadsInv, Remembered
    <3>3. QED
      BY <2>2, <2>3, <3>2 DEF Stated
  <2> HIDE DEF k
  <2>5. ReadFits(k, file, cache, had[c])
    BY <1>1, <2>3, <2>4, ReadingCall DEF ReadFits
  <2>6. ListFits(k, file, stable[c])
    BY <1>1, <2>3, OtherTool DEF Collectors
  <2>7. QED
    BY <2>1, <2>3, <2>5, <2>6, CallOnly, Parts
<1>4. QED
  BY <1>2, <1>3

\* The first bytes decide whether it is text; the cache may answer at once.
LEMMA SniffKeeps ==
  ASSUME ReadsInv, NEW c \in Caller, Sniff(c)
  PROVE  ReadsInv'
<1> DEFINE f == call[c].path
           hits == {i \in Cached(f) : Fresh(cache[i], call[c].stamp)}
           whole == call[c].tool = "read"
<1>1. call[c].tool \in {"read", "range"} /\ call[c].at = "sniff"
  BY DEF Sniff, At
<1>2. /\ f \in File /\ file[f].content \in had[c]
      /\ Stated(call[c], file, cache, had[c]) /\ call[c].shown \in had[c] \cup {Gone}
      /\ whole => call[c].shown = Gone
  BY <1>1, ReadingCall DEF ReadFits
<1>3. CASE ~Exists(f) \/ (Exists(f) /\ ~IsBinary(f) /\ whole /\ call[c].cut)
  BY <1>3, FailKeeps DEF Sniff, Fails
<1>4. ASSUME NEW at \in {"hash", "bytes"}, Goes(c, [call[c] EXCEPT !.at = at]),
             UNCHANGED <<cache, rules>>
      PROVE  ReadsInv'
  <2> DEFINE k == [call[c] EXCEPT !.at = at]
  <2>1. /\ k \in CallType /\ k.tool = call[c].tool /\ k.at = at /\ k.path = f
        /\ k.stamp = call[c].stamp /\ k.shown = call[c].shown
    BY <1>1, ReadingCall DEF CallType
  <2>2. Goes(c, k)
    BY <1>4
  <2> HIDE DEF k
  <2>3. Stated(k, file, cache, had[c])
    BY <1>2, <2>1 DEF Stated
  <2>4. ReadFits(k, file, cache, had[c])
    BY <1>1, <1>2, <2>1, <2>3 DEF ReadFits
  <2>5. ListFits(k, file, stable[c])
    BY <1>1, <2>1, OtherTool DEF Collectors
  <2>6. QED
    BY <1>4, <2>1, <2>2, <2>4, <2>5, CallOnly, Parts
<1>5. ASSUME NEW i \in hits, whole,
             Goes(c, [call[c] EXCEPT !.at = "done", !.shown = cache[i].content,
                                     !.hash = cache[i].content]),
             UNCHANGED <<cache, rules>>
      PROVE  ReadsInv'
  <2> DEFINE k == [call[c] EXCEPT !.at = "done", !.shown = cache[i].content,
                                  !.hash = cache[i].content]
  <2>1. /\ i \in 1 .. Len(cache) /\ cache[i].path = f /\ cache[i].stamp = call[c].stamp
        /\ cache[i] \in CachedType
    BY Parts DEF Cached, Fresh
  <2>2. cache[i].content \in had[c] /\ cache[i].content \in Content \ {Gone}
    BY <1>2, <2>1 DEF Stated, CachedType
  <2>3. /\ k \in CallType /\ k.tool = call[c].tool /\ k.at = "done" /\ k.path = f
        /\ k.shown = cache[i].content /\ k.hash = cache[i].content
    BY <1>1, <2>2, ReadingCall DEF CallType
  <2>4. Goes(c, k)
    BY <1>5
  <2> HIDE DEF k
  <2>5. ReadFits(k, file, cache, had[c])
    BY <1>1, <1>2, <2>2, <2>3 DEF ReadFits
  <2>6. ListFits(k, file, stable[c])
    BY <1>1, <2>3, OtherTool DEF Collectors
  <2>7. QED
    BY <1>5, <2>3, <2>4, <2>5, <2>6, CallOnly, Parts
<1>6. CASE Exists(f) /\ IsBinary(f)
  BY <1>4, <1>6 DEF Sniff
<1>7. CASE Exists(f) /\ ~IsBinary(f) /\ ~(whole /\ call[c].cut)
  <2>1. /\ UNCHANGED <<cache, rules>>
        /\ IF whole /\ hits # {}
           THEN \E i \in hits :
                  Goes(c, [call[c] EXCEPT !.at = "done", !.shown = cache[i].content,
                                          !.hash = cache[i].content])
           ELSE Goes(c, [call[c] EXCEPT !.at = "bytes"])
    BY <1>7 DEF Sniff
  <2>2. QED
    BY <1>4, <1>5, <2>1
<1>8. QED
  BY <1>3, <1>6, <1>7

\* What is read now is remembered under the time that stat gave before.
LEMMA ReadBytesKeeps ==
  ASSUME ReadsInv, NEW c \in Caller, ReadBytes(c)
  PROVE  ReadsInv'
<1> DEFINE f == call[c].path
           now == file[f].content
<1>1. call[c].tool \in {"read", "range"} /\ call[c].at = "bytes"
  BY DEF ReadBytes, At
<1>2. /\ f \in File /\ now \in had[c] /\ now \in Content \cup {Gone}
      /\ Stated(call[c], file, cache, had[c])
      /\ call[c].stamp \in 0 .. MaxEdits
  BY <1>1, ReadingCall DEF ReadFits, FileType
<1>3. CASE Fails(c) /\ (~Exists(f) \/ now = "binary")
  BY <1>3, FailKeeps DEF Fails
<1>4. CASE Exists(f) /\ call[c].tool = "read" /\ UNCHANGED rules
           /\ cache' = Remember(f, call[c].stamp, now)
           /\ Goes(c, [call[c] EXCEPT !.at = "done", !.shown = now, !.hash = now])
  <2> DEFINE k == [call[c] EXCEPT !.at = "done", !.shown = now, !.hash = now]
             new == [path |-> f, stamp |-> call[c].stamp, content |-> now]
  <2>1. now \in Content \ {Gone}
    BY <1>2, <1>4 DEF Exists
  <2>2. /\ cache' \in Seq(CachedType) /\ Len(cache') <= CacheSize
        /\ \A i \in 1 .. Len(cache') :
             cache'[i] = new \/ \E j \in 1 .. Len(cache) : cache'[i] = cache[j]
    BY <1>2, <1>4, <2>1, RememberFits DEF ReadsInv
  <2>3. /\ k \in CallType /\ k.tool = "read" /\ k.at = "done" /\ k.path = f
        /\ k.shown = now /\ k.hash = now
    BY <1>1, <1>4, <2>1, ReadingCall DEF CallType
  <2>4. new.path = f /\ new.stamp = call[c].stamp /\ new.content = now
    OBVIOUS
  <2>5. Goes(c, k)
    BY <1>4
  <2> HIDE DEF k, new
  <2>6. Remembered(cache', file)
    BY <1>2, <2>2, <2>4 DEF Remembered, ReadsInv, Stated
  <2>7. ASSUME NEW d \in Caller PROVE ReadFits(call[d], file, cache', had[d])
    <3>1. ReadFits(call[d], file, cache, had[d])
      BY DEF ReadsInv
    <3>2. ASSUME call[d].tool \in {"read", "range"}, call[d].at \in {"sniff", "bytes"}
          PROVE  Stated(call[d], file, cache', had[d])
      <4>1. /\ file[call[d].path].content \in had[d]
            /\ Stated(call[d], file, cache, had[d])
        BY <3>1, <3>2 DEF ReadFits
      <4>2. QED
        BY <2>2, <2>4, <4>1 DEF Stated
    <3>3. QED
      BY <3>1, <3>2 DEF ReadFits
  <2>8. ReadFits(k, file, cache', had[c])
    BY <1>2, <2>1, <2>3 DEF ReadFits
  <2>9. ListFits(k, file, stable[c])
    BY <2>3, OtherTool DEF Collectors
  <2>10. QED
    BY <1>4, <2>2, <2>3, <2>5, <2>6, <2>7, <2>8, <2>9, CallGoes, Parts
<1>5. CASE Exists(f) /\ call[c].tool # "read" /\ UNCHANGED <<cache, rules>>
           /\ Goes(c, [call[c] EXCEPT !.at = "hash", !.shown = now])
  <2> DEFINE k == [call[c] EXCEPT !.at = "hash", !.shown = now]
  <2>1. /\ k \in CallType /\ k.tool = "range" /\ k.at = "hash" /\ k.path = f
        /\ k.shown = now
    BY <1>1, <1>2, <1>5, ReadingCall DEF CallType
  <2>2. Goes(c, k)
    BY <1>5
  <2> HIDE DEF k
  <2>3. ReadFits(k, file, cache, had[c])
    BY <1>2, <2>1 DEF ReadFits
  <2>4. ListFits(k, file, stable[c])
    BY <2>1, OtherTool DEF Collectors
  <2>5. QED
    BY <1>5, <2>1, <2>2, <2>3, <2>4, CallOnly, Parts
<1>6. QED
  BY <1>3, <1>4, <1>5 DEF ReadBytes

\* The hash of a range is of the file as it is after the lines were read.
LEMMA HashKeeps ==
  ASSUME ReadsInv, NEW c \in Caller, Hash(c)
  PROVE  ReadsInv'
<1> DEFINE f == call[c].path
           now == file[f].content
           k == [call[c] EXCEPT !.at = "done", !.hash = now]
<1>1. call[c].tool \in {"read", "range"} /\ call[c].at = "hash"
  BY DEF Hash, At
<1>2. CASE ~Exists(f)
  BY <1>2, FailKeeps DEF Hash, Fails
<1>3. CASE Exists(f)
  <2>1. now \in had[c] /\ now \in Content \ {Gone}
    BY <1>1, <1>3, ReadingCall DEF ReadFits, FileType, Exists
  <2>2. Goes(c, k) /\ UNCHANGED <<cache, rules>>
    BY <1>3 DEF Hash
  <2>3. /\ k \in CallType /\ k.tool = call[c].tool /\ k.at = "done" /\ k.path = f
        /\ k.shown = call[c].shown /\ k.hash = now
    BY <1>1, <2>1, ReadingCall DEF CallType
  <2> HIDE DEF k
  <2>4. ReadFits(k, file, cache, had[c])
    BY <1>1, <2>1, <2>3, ReadingCall DEF ReadFits
  <2>5. ListFits(k, file, stable[c])
    BY <1>1, <2>3, OtherTool DEF Collectors
  <2>6. QED
    BY <2>2, <2>3, <2>4, <2>5, CallOnly, Parts
<1>4. QED
  BY <1>2, <1>3

-----------------------------------------------------------------------------
(***************************************************************************)
(* Steps of a call that collects entries.                                  *)
(***************************************************************************)

\* A new call.
LEMMA BeginKeeps ==
  ASSUME ReadsInv, NEW c \in Caller, NEW k \in CallType, Begin(c, k),
         ReadFits(k, file, cache, IF k.path \in File THEN {file[k.path].content} ELSE {}),
         ListFits(k, file, {f \in File : Exists(f)})
  PROVE  ReadsInv'
<1> DEFINE H == IF k.path \in File THEN {file[k.path].content} ELSE {}
           S == {f \in File : Exists(f)}
<1>1. /\ calls < MaxCalls /\ calls' = calls + 1
      /\ call' = [call EXCEPT ![c] = k]
      /\ stable' = [stable EXCEPT ![c] = S]
      /\ had' = [had EXCEPT ![c] = H]
      /\ UNCHANGED <<file, cache, rules, edits>>
  BY DEF Begin
<1>2. H \subseteq Content \cup {Gone}
  BY Parts DEF FileType
<1>3. S \subseteq File
  OBVIOUS
<1>4. ReadFits(k, file, cache, H) /\ ListFits(k, file, S)
  OBVIOUS
<1> HIDE DEF H, S
<1>5. /\ call' \in [Caller -> CallType] /\ stable' \in [Caller -> SUBSET File]
      /\ had' \in [Caller -> SUBSET (Content \cup {Gone})]
      /\ \A d \in Caller : call'[d] = IF d = c THEN k ELSE call[d]
      /\ \A d \in Caller : stable'[d] = IF d = c THEN S ELSE stable[d]
      /\ \A d \in Caller : had'[d] = IF d = c THEN H ELSE had[d]
  BY <1>1, <1>2, <1>3, Parts
<1>6. calls' \in 0 .. MaxCalls
  BY <1>1, Parts
<1>7. TypeOK'
  BY <1>1, <1>5, <1>6 DEF ReadsInv, TypeOK
<1>8. \A d \in Caller : ReadFits(call'[d], file', cache', had'[d])
  BY <1>1, <1>4, <1>5 DEF ReadsInv
<1>9. \A d \in Caller : ListFits(call'[d], file', stable'[d])
  BY <1>1, <1>4, <1>5 DEF ReadsInv
<1>10. Remembered(cache', file') /\ \A f \in File : file'[f].stamp <= edits'
  BY <1>1 DEF ReadsInv
<1>11. QED
  BY <1>7, <1>8, <1>9, <1>10 DEF ReadsInv

\* A call that reads begins.
LEMMA BeginReadKeeps ==
  ASSUME ReadsInv, NEW c \in Caller, NEW tool \in {"read", "range"}, NEW f \in File,
         BeginRead(c, tool, f)
  PROVE  ReadsInv'
<1> DEFINE k == [NoCall EXCEPT !.tool = tool, !.at = "stat", !.path = f]
<1>1. Begin(c, k)
  BY DEF BeginRead
<1>2. k \in CallType /\ k.tool = tool /\ k.at = "stat" /\ k.path = f /\ k.shown = Gone
  BY NoCallType DEF ReadsInv, NoCall, CallType
<1> HIDE DEF k
<1>3. ReadFits(k, file, cache, {file[f].content})
  BY <1>2 DEF ReadFits
<1>4. ListFits(k, file, {g \in File : Exists(g)})
  BY <1>2 DEF ListFits, Collectors, Exists
<1>5. QED
  BY <1>1, <1>2, <1>3, <1>4, BeginKeeps

\* A call that lists or searches begins, with every file still ahead.
LEMMA BeginCollectKeeps ==
  ASSUME ReadsInv, NEW c \in Caller, NEW tool \in Collectors, NEW d \in Folder,
         BeginCollect(c, tool, d)
  PROVE  ReadsInv'
<1> DEFINE k == [NoCall EXCEPT !.tool = tool, !.at = "enter", !.path = d, !.dir = d]
<1>1. Begin(c, k)
  BY DEF BeginCollect
<1>2. /\ k \in CallType /\ k.tool = tool /\ k.at = "enter" /\ k.path = d /\ k.dir = d
      /\ k.stack = <<>>
  BY NoCallType DEF ReadsInv, NoCall, CallType
<1> HIDE DEF k
<1>3. d \notin File
  BY ReadsAssumption
<1>4. ReadFits(k, file, cache, {})
  BY <1>2 DEF ReadFits, Collectors
<1>5. Depth(d, d) = 0
  <2>1. Above(d) \ Above(d) = {}
    OBVIOUS
  <2>2. QED
    BY <2>1, FS_EmptySet DEF Depth
<1>6. Len(k.stack) = 0
  BY <1>2
<1>7. Placed(k)
  BY <1>2, <1>5, <1>6 DEF Placed
<1>8. \A f \in File : Wanted(k, f) => Listed(k, file, f)
  BY <1>2 DEF Wanted, Listed, Ahead
<1>9. ListFits(k, file, {f \in File : Exists(f)})
  BY <1>2, <1>7, <1>8 DEF ListFits, Exists
<1>10. QED
  BY <1>1, <1>2, <1>3, <1>4, <1>9, BeginKeeps

\* A call that is collecting entries.
LEMMA CollectingCall ==
  ASSUME ReadsInv, NEW c \in Caller, call[c].tool \in Collectors
  PROVE  /\ call[c] \in CallType /\ call[c].path \in Folder /\ call[c].dir \in Folder
         /\ call[c].stack \in Seq(SUBSET Entry) /\ Len(call[c].stack) \in Nat
         /\ \A i \in 1 .. Len(call[c].stack) : call[c].stack[i] \in SUBSET Entry
         /\ call[c].found \subseteq Entry /\ call[c].left \subseteq File
         /\ call[c].cut \in BOOLEAN
         /\ stable[c] \subseteq File /\ \A f \in stable[c] : Exists(f)
         /\ ListFits(call[c], file, stable[c])
<1>1. call[c] \in CallType /\ ListFits(call[c], file, stable[c])
  BY Parts DEF ReadsInv
<1>2. call[c].path \in Folder /\ \A f \in stable[c] : Exists(f)
  BY <1>1 DEF ListFits, Exists
<1>3. call[c].stack \in Seq(SUBSET Entry)
  BY <1>1 DEF CallType
<1>4. Len(call[c].stack) \in Nat
      /\ \A i \in 1 .. Len(call[c].stack) : call[c].stack[i] \in SUBSET Entry
  BY <1>3, LenProperties, ElementOfSeq
<1>5. QED
  BY <1>1, <1>2, <1>3, <1>4, Parts DEF CallType

\* What a step of it has to show: the frames stay in place, and a file that must
\* be listed is still ahead or found.
LEMMA CollectKeeps ==
  ASSUME ReadsInv, NEW c \in Caller, call[c].tool \in Collectors,
         NEW k \in CallType, Goes(c, k), UNCHANGED cache, rules' \in Seq(Folder),
         k.tool = call[c].tool, k.path = call[c].path,
         k.at \in {"enter", "visit", "search", "done"},
         ~k.cut =>
           /\ ~call[c].cut
           /\ k.at \in {"enter", "visit"} => Placed(k)
           /\ \A f \in stable[c] :
                Wanted(call[c], f) /\ Listed(call[c], file, f) => Listed(k, file, f)
  PROVE  ReadsInv'
<1>1. ListFits(call[c], file, stable[c]) /\ call[c].path \in Folder
  BY CollectingCall
<1>2. ASSUME ~k.cut, NEW f \in stable[c], Wanted(k, f) PROVE Listed(k, file, f)
  <2>1. Wanted(call[c], f)
    BY <1>2 DEF Wanted
  <2>2. Listed(call[c], file, f)
    BY <1>1, <1>2, <2>1 DEF ListFits
  <2>3. QED
    BY <1>2, <2>1, <2>2
<1>3. \A f \in stable[c] : file[f].content # Gone
  BY <1>1 DEF ListFits
<1>4. ListFits(k, file, stable[c])
  BY <1>1, <1>2, <1>3 DEF ListFits
<1>5. ReadFits(k, file, cache, had[c])
  BY OtherTool
<1>6. QED
  BY <1>4, <1>5, CallOnly

\* As long as nothing is cut, the frames of a call that visits are in place.
LEMMA PlacedNow ==
  ASSUME ReadsInv, NEW c \in Caller, call[c].tool \in Collectors, ~call[c].cut,
         call[c].at \in {"enter", "visit"}
  PROVE  Placed(call[c])
BY CollectingCall DEF ListFits

\* Entering a folder puts its entries in a frame of their own.
LEMMA EnterKeeps ==
  ASSUME ReadsInv, NEW c \in Caller, Enter(c)
  PROVE  ReadsInv'
<1> DEFINE d == call[c].dir
           path == call[c].path
           n == Len(call[c].stack)
<1>1. call[c].tool \in Collectors /\ call[c].at = "enter" /\ UNCHANGED cache
  BY DEF Enter, At
<1>2. /\ call[c] \in CallType /\ path \in Folder /\ d \in Folder /\ n \in Nat
      /\ call[c].stack \in Seq(SUBSET Entry)
  BY <1>1, CollectingCall
<1>3. CASE Goes(c, [call[c] EXCEPT !.at = "visit", !.cut = TRUE]) /\ UNCHANGED rules
  <2> DEFINE k == [call[c] EXCEPT !.at = "visit", !.cut = TRUE]
  <2>1. /\ k \in CallType /\ k.tool = call[c].tool /\ k.path = path /\ k.at = "visit"
        /\ k.cut
    BY <1>2 DEF CallType
  <2>2. Goes(c, k)
    BY <1>3
  <2> HIDE DEF k
  <2>3. QED
    BY <1>1, <1>3, <2>1, <2>2, CollectKeeps, Parts
<1>4. CASE /\ Goes(c, [call[c] EXCEPT !.at = "visit", !.stack = Append(@, Children(d))])
           /\ rules' = Loaded(d)
  <2> DEFINE s == Append(call[c].stack, Children(d))
             k == [call[c] EXCEPT !.at = "visit", !.stack = s]
  <2>1. Children(d) \in SUBSET Entry
    BY DEF Children, Entry
  <2>2. /\ s \in Seq(SUBSET Entry) /\ Len(s) = n + 1
        /\ \A i \in 1 .. n : s[i] = call[c].stack[i]
        /\ s[n + 1] = Children(d)
    BY <1>2, <2>1, AppendProperties
  <2>3. Goes(c, k)
    BY <1>4
  <2> HIDE DEF s
  <2>4. /\ k \in CallType /\ k.tool = call[c].tool /\ k.path = path /\ k.at = "visit"
        /\ k.cut = call[c].cut /\ k.stack = s /\ k.found = call[c].found
        /\ k.left = call[c].left
    BY <1>2, <2>2 DEF CallType
  <2> HIDE DEF k
  <2>5. ASSUME ~k.cut PROVE Placed(k)
    <3>1. Placed(call[c])
      BY <1>1, <2>4, <2>5, PlacedNow
    <3>2. (d = path \/ path \in Above(d)) /\ Depth(d, path) = n
      BY <1>1, <3>1 DEF Placed
    <3>3. \A e \in Children(d) : path \in Above(e) /\ Depth(e, path) = n + 1
      BY <1>2, <3>2, DepthOfChild DEF Children, Entry
    <3>4. \A i \in 1 .. n + 1 : i \in 1 .. n \/ i = n + 1
      BY <1>2
    <3>5. \A i \in 1 .. n : \A e \in call[c].stack[i] :
            path \in Above(e) /\ Depth(e, path) = i
      BY <3>1 DEF Placed
    <3>6. \A i \in 1 .. n + 1 : \A e \in s[i] : path \in Above(e) /\ Depth(e, path) = i
      BY <2>2, <3>3, <3>4, <3>5
    <3>7. QED
      BY <2>2, <2>4, <3>6 DEF Placed
  <2>6. ASSUME NEW f \in stable[c], Listed(call[c], file, f) PROVE Listed(k, file, f)
    <3>1. f \in File /\ f \in Entry /\ Exists(f)
      BY <1>1, CollectingCall, Entries
    <3>2. 1 .. n \subseteq 1 .. n + 1 /\ n + 1 \in 1 .. n + 1
      BY <1>2
    <3>3. CASE \E i \in 1 .. n : \E e \in call[c].stack[i] : e = f \/ e \in Above(f)
      <4>1. \E i \in 1 .. n + 1 : \E e \in s[i] : e = f \/ e \in Above(f)
        BY <2>2, <3>2, <3>3
      <4>2. Ahead(k, f)
        BY <2>2, <2>4, <4>1 DEF Ahead
      <4>3. QED
        BY <2>4, <4>2 DEF Listed
    <3>4. CASE d \in Above(f)
      <4>1. PICK e \in Entry : Parent[e] = d /\ (e = f \/ e \in Above(f))
        BY <3>1, <3>4, ChildOnTheWay
      <4>2. e \in File => Exists(e)
        BY <3>1, <4>1, AboveAbove, ReadsAssumption
      <4>3. e \in Children(d)
        BY <4>1, <4>2 DEF Children, Entry
      <4>4. \E i \in 1 .. n + 1 : \E x \in s[i] : x = f \/ x \in Above(f)
        BY <2>2, <3>2, <4>1, <4>3
      <4>5. Ahead(k, f)
        BY <2>2, <2>4, <4>4 DEF Ahead
      <4>6. QED
        BY <2>4, <4>5 DEF Listed
    <3>5. QED
      BY <1>1, <2>4, <2>6, <3>3, <3>4 DEF Listed, Ahead
  <2>7. rules' \in Seq(Folder)
    BY <1>2, <1>4, Parts, AppendProperties DEF Loaded
  <2>8. QED
    BY <1>1, <2>3, <2>4, <2>5, <2>6, <2>7, CollectKeeps
<1>5. QED
  BY <1>3, <1>4 DEF Enter

\* The frame on top of the stack, and what is left of it without its first entry.
LEMMA TopFrame ==
  ASSUME ReadsInv, NEW c \in Caller, At(c, Collectors, "visit"), call[c].stack # <<>>
  PROVE  LET s == call[c].stack  n == Len(s) IN
         /\ n \in Nat /\ n >= 1 /\ Coming(c) = s[n] /\ Coming(c) \in SUBSET Entry
         /\ Front(s) \in Seq(SUBSET Entry) /\ Len(Front(s)) = n - 1
         /\ \A i \in 1 .. n - 1 : Front(s)[i] = s[i]
         /\ \A e : LET r == [s EXCEPT ![n] = Coming(c) \ {e}] IN
              /\ r \in Seq(SUBSET Entry) /\ Len(r) = n
              /\ \A i \in 1 .. n : r[i] = IF i = n THEN Coming(c) \ {e} ELSE s[i]
<1> DEFINE s == call[c].stack
           n == Len(s)
<1>1. s \in Seq(SUBSET Entry) /\ n \in Nat /\ \A i \in 1 .. n : s[i] \in SUBSET Entry
  BY CollectingCall DEF At
<1>2. n # 0
  BY <1>1, EmptySeq
<1>3. n >= 1 /\ n \in 1 .. n /\ n - 1 \in Int
  BY <1>1, <1>2
<1>4. Coming(c) = s[n] /\ Coming(c) \in SUBSET Entry
  BY <1>1, <1>3 DEF Coming, Last
<1>5. /\ Front(s) \in Seq(SUBSET Entry) /\ Len(Front(s)) = n - 1
      /\ \A i \in 1 .. n - 1 : Front(s)[i] = s[i]
  <2> DEFINE a == SubSeq(s, 1, n - 1)
  <2>1. 1 \in Int /\ \A i \in 1 .. n - 1 : s[i] \in SUBSET Entry
    BY <1>1
  <2>2. /\ a \in Seq(SUBSET Entry)
        /\ Len(a) = IF 1 <= n - 1 THEN n - 1 - 1 + 1 ELSE 0
        /\ \A i \in 1 .. n - 1 - 1 + 1 : a[i] = s[1 + i - 1]
    BY <1>3, <2>1, SubSeqProperties
  <2>3. Front(s) = a
    BY DEF Front
  <2> HIDE DEF a, s, n
  <2>4. QED
    BY <1>1, <1>3, <2>2, <2>3
<1>6. ASSUME NEW e
      PROVE  LET r == [s EXCEPT ![n] = Coming(c) \ {e}] IN
             /\ r \in Seq(SUBSET Entry) /\ Len(r) = n
             /\ \A i \in 1 .. n : r[i] = IF i = n THEN Coming(c) \ {e} ELSE s[i]
  <2>1. Coming(c) \ {e} \in SUBSET Entry
    BY <1>4
  <2> HIDE DEF s, n
  <2>2. QED
    BY <1>1, <1>3, <2>1, ExceptSeq DEF n
<1>7. QED
  BY <1>1, <1>3, <1>4, <1>5, <1>6

\* Leaving a folder, with nothing of it to come or because no more fits.
LEMMA LeaveKeeps ==
  ASSUME ReadsInv, NEW c \in Caller, At(c, Collectors, "visit"), call[c].stack # <<>>,
         UNCHANGED <<cache, rules>>,
         \/ Goes(c, Return(c)) /\ Coming(c) = {}
         \/ Goes(c, Cut(c))
  PROVE  ReadsInv'
<1> DEFINE s == call[c].stack
           n == Len(s)
           path == call[c].path
           k == Return(c)
<1>1. call[c].tool \in Collectors /\ call[c].at = "visit"
  BY DEF At
<1>2. /\ n \in Nat /\ n >= 1 /\ Coming(c) = s[n]
      /\ Front(s) \in Seq(SUBSET Entry) /\ Len(Front(s)) = n - 1
      /\ \A i \in 1 .. n - 1 : Front(s)[i] = s[i]
  BY TopFrame
<1>3. call[c] \in CallType
  BY <1>1, CollectingCall
<1> HIDE DEF n
<1>4. /\ k \in CallType /\ k.tool = call[c].tool /\ k.path = path /\ k.at = "visit"
      /\ k.cut = call[c].cut /\ k.stack = Front(s) /\ k.found = call[c].found
      /\ k.left = call[c].left
  BY <1>1, <1>2, <1>3 DEF CallType, Return
<1> HIDE DEF k
<1>5. CASE Goes(c, Cut(c))
  <2> DEFINE z == Cut(c)
  <2>1. z = [k EXCEPT !.cut = TRUE]
    BY DEF Cut, k
  <2> HIDE DEF z
  <2>2. /\ z \in CallType /\ z.tool = call[c].tool /\ z.path = path /\ z.at = "visit"
        /\ z.cut
    BY <1>4, <2>1 DEF CallType
  <2>3. Goes(c, z)
    BY <1>5 DEF z
  <2>4. QED
    BY <1>1, <2>2, <2>3, CollectKeeps, Parts
<1>6. CASE Goes(c, Return(c)) /\ Coming(c) = {}
  <2>1. Goes(c, k)
    BY <1>6 DEF k
  <2>2. 1 .. n - 1 \subseteq 1 .. n /\ \A i \in 1 .. n : i \in 1 .. n - 1 \/ i = n
    BY <1>2
  <2>3. ASSUME ~k.cut PROVE Placed(k)
    <3>1. Placed(call[c])
      BY <1>1, <1>4, <2>3, PlacedNow
    <3>2. \A i \in 1 .. n : \A e \in s[i] : path \in Above(e) /\ Depth(e, path) = i
      BY <3>1 DEF Placed, n
    <3>3. QED
      BY <1>2, <1>4, <2>2, <3>2 DEF Placed
  <2>4. ASSUME NEW f \in stable[c], Listed(call[c], file, f) PROVE Listed(k, file, f)
    <3>1. CASE Ahead(call[c], f)
      <4>1. PICK i \in 1 .. n : \E e \in s[i] : e = f \/ e \in Above(f)
        BY <1>1, <3>1 DEF Ahead, n
      <4>2. i \in 1 .. n - 1 /\ Front(s)[i] = s[i]
        BY <1>2, <1>6, <2>2, <4>1
      <4>3. Ahead(k, f)
        BY <1>2, <1>4, <4>1, <4>2 DEF Ahead
      <4>4. QED
        BY <1>4, <4>3 DEF Listed
    <3>2. QED
      BY <1>1, <1>4, <2>4, <3>1 DEF Listed
  <2>5. QED
    BY <1>1, <1>4, <2>1, <2>3, <2>4, CollectKeeps, Parts
<1>7. QED
  BY <1>5, <1>6

\* What the step that takes the next entry has to show: a file that must be
\* listed and is that entry, or lies below it, is found or about to be visited.
LEMMA TakeKeeps ==
  ASSUME ReadsInv, NEW c \in Caller, At(c, Collectors, "visit"), call[c].stack # <<>>,
         Coming(c) # {}, UNCHANGED <<cache, rules>>,
         NEW e \in Coming(c), NEW k \in CallType, Goes(c, k),
         k.tool = call[c].tool, k.path = call[c].path, k.cut = call[c].cut,
         k.stack = [call[c].stack EXCEPT ![Len(call[c].stack)] = Coming(c) \ {e}],
         call[c].found \subseteq k.found, call[c].left \subseteq k.left,
         k.at = "visit" \/ (k.at = "enter" /\ k.dir = e),
         \A f \in stable[c] :
           Wanted(call[c], f) /\ ~call[c].cut /\ (e = f \/ e \in Above(f)) =>
             \/ k.at = "enter" /\ e \in Above(f)
             \/ f \in k.found /\ (Matches(f, file) => f \in k.left)
  PROVE  ReadsInv'
<1> DEFINE s == call[c].stack
           n == Len(s)
           path == call[c].path
<1>1. call[c].tool \in Collectors /\ call[c].at = "visit"
  BY DEF At
<1>2. /\ n \in Nat /\ n >= 1 /\ Coming(c) = s[n]
      /\ Len(k.stack) = n
      /\ \A i \in 1 .. n : k.stack[i] = IF i = n THEN Coming(c) \ {e} ELSE s[i]
  BY TopFrame
<1> HIDE DEF n
<1>3. n \in 1 .. n
  BY <1>2
<1>4. ASSUME ~k.cut PROVE Placed(k)
  <2>1. Placed(call[c])
    BY <1>1, <1>4, PlacedNow
  <2>2. \A i \in 1 .. n : \A x \in s[i] : path \in Above(x) /\ Depth(x, path) = i
    BY <2>1 DEF Placed, n
  <2>3. path \in Above(e) /\ Depth(e, path) = n
    BY <1>2, <1>3, <2>2
  <2>4. \A i \in 1 .. n : \A x \in k.stack[i] : path \in Above(x) /\ Depth(x, path) = i
    BY <1>2, <2>2
  <2>5. QED
    BY <1>2, <2>3, <2>4 DEF Placed
<1>5. ASSUME NEW f \in stable[c], ~k.cut, Wanted(call[c], f), Listed(call[c], file, f)
      PROVE  Listed(k, file, f)
  <2>1. k.at \in {"enter", "visit"} /\ k.at \notin {"search", "done"}
    OBVIOUS
  <2>2. CASE Ahead(call[c], f)
    <3>1. PICK i \in 1 .. n : \E x \in s[i] : x = f \/ x \in Above(f)
      BY <1>1, <2>2 DEF Ahead, n
    <3>2. PICK x \in s[i] : x = f \/ x \in Above(f)
      BY <3>1
    <3>3. CASE x \in k.stack[i]
      <4>1. Ahead(k, f)
        BY <1>2, <3>2, <3>3 DEF Ahead
      <4>2. QED
        BY <2>1, <4>1 DEF Listed
    <3>4. CASE x \notin k.stack[i]
      <4>1. x = e
        BY <1>2, <3>2, <3>4
      <4>2. \/ k.at = "enter" /\ e \in Above(f)
            \/ f \in k.found /\ (Matches(f, file) => f \in k.left)
        BY <1>5, <3>2, <4>1
      <4>3. Ahead(k, f) \/ (f \in k.found /\ (Matches(f, file) => f \in k.left))
        BY <4>2 DEF Ahead
      <4>4. QED
        BY <2>1, <4>3 DEF Listed
    <3>5. QED
      BY <3>3, <3>4
  <2>3. CASE f \in call[c].found /\ (Matches(f, file) => f \in call[c].left)
    BY <2>1, <2>3 DEF Listed
  <2>4. QED
    BY <1>1, <1>5, <2>2, <2>3 DEF Listed
<1>6. QED
  BY <1>1, <1>4, <1>5, CollectKeeps, Parts

\* The next entry is found, entered, ignored or too deep, or the frame is left.
LEMMA VisitKeeps ==
  ASSUME ReadsInv, NEW c \in Caller, Visit(c)
  PROVE  ReadsInv'
<1> DEFINE e == Min(Coming(c))
           frames == call[c].stack
           n == Len(frames)
           path == call[c].path
           r == [frames EXCEPT ![n] = Coming(c) \ {e}]
           rest == [call[c] EXCEPT !.stack = r]
<1>1. /\ At(c, Collectors, "visit") /\ frames # <<>> /\ UNCHANGED <<cache, rules>>
      /\ call[c].tool \in Collectors /\ call[c].at = "visit"
  BY DEF Visit, At
<1>2. CASE Coming(c) = {}
  BY <1>1, <1>2, LeaveKeeps DEF Visit
<1>3. CASE Coming(c) # {}
  <2>1. e \in Coming(c) /\ Coming(c) \in SUBSET Entry /\ e \in Entry
    BY <1>1, <1>3, TopFrame, FirstOne
  <2>2. r \in Seq(SUBSET Entry) /\ n \in Nat /\ n >= 1 /\ Coming(c) = frames[n]
    BY <1>1, TopFrame
  <2>3. call[c] \in CallType
    BY <1>1, CollectingCall
  <2>4. /\ Ignored(e) => Goes(c, rest)
        /\ ~Ignored(e) /\ Full(c) => Goes(c, Cut(c))
        /\ ~Ignored(e) /\ ~Full(c) /\ e \in File => VisitFile(c, e, rest)
        /\ ~Ignored(e) /\ ~Full(c) /\ e \notin File => VisitFolder(c, e, rest)
    BY <1>3 DEF Visit
  <2> HIDE DEF e, r, n
  <2>5. /\ rest \in CallType /\ rest.tool = call[c].tool /\ rest.path = path
        /\ rest.cut = call[c].cut /\ rest.stack = r /\ rest.at = "visit"
        /\ rest.found = call[c].found /\ rest.left = call[c].left
    BY <1>1, <2>2, <2>3 DEF CallType
  <2>6. r = [frames EXCEPT ![Len(frames)] = Coming(c) \ {e}]
    BY DEF r, n
  <2>7. \A f \in stable[c] : f \in File /\ f \in Entry
    BY <1>1, CollectingCall, Entries
  <2> HIDE DEF rest
  <2>8. CASE Ignored(e)
    <3>1. ASSUME NEW f \in stable[c], Wanted(call[c], f), ~call[c].cut,
                 e = f \/ e \in Above(f)
          PROVE  FALSE
      <4>1. Omissible(e)
        BY <2>8 DEF Ignored, Speaking, Omissible
      <4>2. path \in Above(e)
        BY <1>1, <2>1, <2>2, <3>1, PlacedNow DEF Placed, n
      <4>3. path \in Folder
        BY <1>1, CollectingCall
      <4>4. e # path /\ e \notin Above(path)
        BY <2>1, <4>2, <4>3, NotBelow
      <4>5. QED
        BY <3>1, <4>1, <4>4 DEF Wanted
    <3>2. QED
      BY <1>1, <1>3, <2>1, <2>4, <2>5, <2>6, <2>8, <3>1, TakeKeeps
  <2>9. CASE ~Ignored(e) /\ Full(c)
    BY <1>1, <2>4, <2>9, LeaveKeeps
  <2>10. CASE ~Ignored(e) /\ ~Full(c) /\ e \in File
    <3>1. CASE ~Exists(e)
      <4>1. Goes(c, [NoCall EXCEPT !.tool = "failed"])
        BY <2>4, <2>10, <3>1 DEF VisitFile
      <4>2. QED
        BY <1>1, <4>1, FailKeeps
    <3>2. CASE Exists(e)
      <4> DEFINE left == IF e \in Sensitive \/ file[e].content = "large"
                         THEN rest.left ELSE rest.left \cup {e}
                 found == rest.found \cup {e}
                 k == [rest EXCEPT !.found = found, !.left = left]
      <4>1. Goes(c, k)
        BY <2>4, <2>10, <3>2 DEF VisitFile
      <4>2. left \subseteq File /\ found \subseteq Entry /\ rest.left \subseteq left
        BY <1>1, <2>1, <2>5, <2>10, CollectingCall
      <4>3. Matches(e, file) => e \in left
        BY DEF Matches
      <4>4. e \in found /\ rest.found \subseteq found
        OBVIOUS
      <4> HIDE DEF left, found
      <4>5. /\ k \in CallType /\ k.tool = call[c].tool /\ k.path = path
            /\ k.cut = call[c].cut /\ k.stack = r /\ k.at = "visit"
            /\ k.found = found /\ k.left = left
        BY <2>5, <4>2 DEF CallType
      <4> HIDE DEF k
      <4>6. ASSUME NEW f \in stable[c], e = f \/ e \in Above(f)
            PROVE  f \in k.found /\ (Matches(f, file) => f \in k.left)
        <5>1. e = f
          BY <2>7, <2>10, <4>6, AboveAbove, ReadsAssumption
        <5>2. QED
          BY <4>3, <4>4, <4>5, <5>1
      <4>7. call[c].found \subseteq k.found /\ call[c].left \subseteq k.left
        BY <2>5, <4>2, <4>4, <4>5
      <4>8. QED
        BY <1>1, <1>3, <2>1, <2>6, <4>1, <4>5, <4>6, <4>7, TakeKeeps
    <3>3. QED
      BY <3>1, <3>2
  <2>11. CASE ~Ignored(e) /\ ~Full(c) /\ e \notin File
    <3> DEFINE noted == IF call[c].tool = "list"
                        THEN [rest EXCEPT !.found = rest.found \cup {e}] ELSE rest
               k == IF n < MaxDepth THEN [noted EXCEPT !.at = "enter", !.dir = e]
                    ELSE noted
    <3>1. Goes(c, k)
      BY <2>4, <2>11 DEF VisitFolder, n
    <3>2. e \in Folder
      BY <2>1, <2>11, Entries
    <3>3. /\ noted \in CallType /\ noted.tool = call[c].tool /\ noted.path = path
          /\ noted.cut = call[c].cut /\ noted.stack = r /\ noted.at = "visit"
          /\ call[c].found \subseteq noted.found /\ noted.left = call[c].left
      <4>1. CASE call[c].tool = "list"
        <5> DEFINE found == rest.found \cup {e}
        <5>1. found \subseteq Entry /\ call[c].found \subseteq found
          BY <1>1, <2>1, <2>5, CollectingCall
        <5> HIDE DEF found
        <5>2. noted = [rest EXCEPT !.found = found]
          BY <4>1 DEF found
        <5> HIDE DEF noted
        <5>3. QED
          BY <2>5, <5>1, <5>2 DEF CallType
      <4>2. CASE call[c].tool # "list"
        BY <2>5, <4>2
      <4>3. QED
        BY <4>1, <4>2
    <3> HIDE DEF noted
    <3>4. /\ k \in CallType /\ k.tool = call[c].tool /\ k.path = path
          /\ k.cut = call[c].cut /\ k.stack = r
          /\ call[c].found \subseteq k.found /\ call[c].left \subseteq k.left
      BY <3>2, <3>3 DEF CallType
    <3>5. IF n < MaxDepth THEN k.at = "enter" /\ k.dir = e ELSE k.at = "visit"
      BY <3>2, <3>3 DEF CallType
    <3> HIDE DEF k
    <3>6. ASSUME NEW f \in stable[c], Wanted(call[c], f), ~call[c].cut, e = f \/ e \in Above(f)
          PROVE  k.at = "enter" /\ e \in Above(f)
      <4>1. e \in Above(f)
        BY <2>7, <2>11, <3>6
      <4>2. Placed(call[c])
        BY <1>1, <3>6, PlacedNow
      <4>3. n \in 1 .. n
        BY <2>2
      <4>4. path \in Above(e) /\ Depth(e, path) = n
        BY <2>1, <2>2, <4>2, <4>3 DEF Placed, n
      <4>5. path \in Folder
        BY <1>1, CollectingCall
      <4>6. Depth(e, path) + 1 <= Depth(f, path)
        BY <2>7, <4>1, <4>4, <4>5, DepthBelow
      <4>7. Depth(f, path) <= MaxDepth /\ MaxDepth \in Nat
        BY <3>6, ReadsAssumption DEF Wanted
      <4>8. Depth(f, path) \in Nat
        BY <2>7, Entries, FiniteAbove DEF Depth
      <4>9. n < MaxDepth
        BY <2>2, <4>4, <4>6, <4>7, <4>8
      <4>10. QED
        BY <3>5, <4>1, <4>9
    <3>7. k.at = "visit" \/ (k.at = "enter" /\ k.dir = e)
      BY <3>5
    <3>8. QED
      BY <1>1, <1>3, <2>1, <2>6, <3>1, <3>4, <3>6, <3>7, TakeKeeps
  <2>12. QED
    BY <2>8, <2>9, <2>10, <2>11
<1>4. QED
  BY <1>2, <1>3

\* The end of the visit: what find_files leaves out, its result says it does.
LEMMA CollectedKeeps ==
  ASSUME ReadsInv, NEW c \in Caller, Collected(c)
  PROVE  ReadsInv'
<1> DEFINE files == call[c].found
           path == call[c].path
<1>1. /\ call[c].tool \in Collectors /\ call[c].at = "visit" /\ call[c].stack = <<>>
      /\ UNCHANGED <<cache, rules>>
  BY DEF Collected, At
<1>2. /\ call[c] \in CallType /\ files \subseteq Entry /\ call[c].cut \in BOOLEAN
      /\ call[c].left \subseteq File
  BY <1>1, CollectingCall
<1>3. \A f : Listed(call[c], file, f) => f \in files /\ (Matches(f, file) => f \in call[c].left)
  <2>1. Len(call[c].stack) = 0
    BY <1>1
  <2>2. QED
    BY <1>1, <2>1 DEF Listed, Ahead
<1>4. CASE call[c].tool = "list"
  <2> DEFINE k == [call[c] EXCEPT !.at = "done", !.left = {}]
  <2>1. Goes(c, k)
    BY <1>4 DEF Collected
  <2>2. /\ k \in CallType /\ k.tool = call[c].tool /\ k.path = path /\ k.at = "done"
        /\ k.cut = call[c].cut /\ k.found = files
    BY <1>2 DEF CallType
  <2> HIDE DEF k
  <2>3. \A f \in stable[c] : Listed(call[c], file, f) => Listed(k, file, f)
    BY <1>3, <2>2 DEF Listed
  <2>4. QED
    BY <1>1, <2>1, <2>2, <2>3, CollectKeeps, Parts
<1>5. CASE call[c].tool = "find"
  <2> DEFINE first == {f \in files : Cardinality({g \in files : g < f}) < MaxResults}
             cut == call[c].cut \/ Cardinality(files) > MaxResults
             k == [call[c] EXCEPT !.at = "done", !.left = {}, !.found = first, !.cut = cut]
  <2>1. Goes(c, k)
    BY <1>5 DEF Collected, Named
  <2>2. first \subseteq Entry /\ cut \in BOOLEAN
    BY <1>2
  <2>3. ASSUME ~cut, NEW f \in files PROVE f \in first
    <3> DEFINE T == {g \in files : g < f}
    <3>1. IsFiniteSet(files) /\ files \subseteq Nat
      BY <1>2, Entries, FS_Subset
    <3>2. IsFiniteSet(files \ {f}) /\ Cardinality(files \ {f}) = Cardinality(files) - 1
      BY <3>1, FS_RemoveElement
    <3>3. T \in SUBSET (files \ {f})
      BY <3>1
    <3> HIDE DEF T
    <3>4. Cardinality(T) <= Cardinality(files \ {f}) /\ Cardinality(T) \in Nat
      BY <3>2, <3>3, FS_Subset, FS_CardinalityType
    <3>5. Cardinality(files) \in Nat /\ MaxResults \in Nat
      BY <3>1, FS_CardinalityType, ReadsAssumption
    <3>6. Cardinality(T) < MaxResults
      BY <2>3, <3>2, <3>4, <3>5
    <3>7. QED
      BY <3>6 DEF T
  <2> HIDE DEF first, cut
  <2>4. /\ k \in CallType /\ k.tool = call[c].tool /\ k.path = path /\ k.at = "done"
        /\ k.cut = cut /\ k.found = first
    BY <1>2, <2>2 DEF CallType
  <2> HIDE DEF k
  <2>5. ~cut => ~call[c].cut
    BY DEF cut
  <2>6. \A f \in stable[c] : Listed(call[c], file, f) /\ ~k.cut => Listed(k, file, f)
    BY <1>3, <2>3, <2>4 DEF Listed
  <2>7. QED
    BY <1>1, <2>1, <2>4, <2>5, <2>6, CollectKeeps, Parts
<1>6. CASE call[c].tool = "search"
  <2> DEFINE k == [call[c] EXCEPT !.at = "search", !.found = {}]
  <2>1. Goes(c, k)
    BY <1>6 DEF Collected
  <2>2. /\ k \in CallType /\ k.tool = call[c].tool /\ k.path = path /\ k.at = "search"
        /\ k.cut = call[c].cut /\ k.left = call[c].left
    BY <1>2 DEF CallType
  <2> HIDE DEF k
  <2>3. \A f \in stable[c] : Listed(call[c], file, f) => Listed(k, file, f)
    BY <1>3, <2>2 DEF Listed
  <2>4. QED
    BY <1>1, <2>1, <2>2, <2>3, CollectKeeps, Parts
<1>7. QED
  BY <1>1, <1>4, <1>5, <1>6 DEF Collectors

\* One more file is searched.
LEMMA SearchFileKeeps ==
  ASSUME ReadsInv, NEW c \in Caller, SearchFile(c)
  PROVE  ReadsInv'
<1> DEFINE f == Min(call[c].left)
           hits == IF file[f].content = "match" THEN call[c].found \cup {f}
                   ELSE call[c].found
           full == Cardinality(hits) >= MaxResults
           left == IF full THEN {} ELSE call[c].left \ {f}
           cut == call[c].cut \/ full
           k == [call[c] EXCEPT !.found = hits, !.left = left, !.cut = cut]
<1>1. call[c].tool = "search" /\ call[c].at = "search" /\ call[c].left # {}
  BY DEF SearchFile, At
<1>2. call[c].tool \in Collectors
  BY <1>1 DEF Collectors
<1>3. /\ call[c] \in CallType /\ call[c].found \subseteq Entry /\ call[c].left \subseteq File
      /\ call[c].cut \in BOOLEAN
  BY <1>2, CollectingCall
<1>4. f \in call[c].left /\ f \in Entry
  BY <1>1, <1>3, Entries, FirstOne
<1>5. CASE ~Exists(f)
  BY <1>5, FailKeeps DEF SearchFile, Fails
<1>6. CASE Exists(f)
  <2>1. Goes(c, k) /\ UNCHANGED <<cache, rules>>
    BY <1>6 DEF SearchFile
  <2> HIDE DEF f
  <2>2. hits \subseteq Entry /\ call[c].found \subseteq hits
    BY <1>3, <1>4
  <2>3. Matches(f, file) => f \in hits
    BY DEF Matches
  <2>4. full \in BOOLEAN
    OBVIOUS
  <2> HIDE DEF hits, full
  <2>5. left \subseteq File /\ cut \in BOOLEAN /\ (~cut => ~call[c].cut /\ left = call[c].left \ {f})
    BY <1>3, <2>4
  <2> HIDE DEF left, cut
  <2>6. /\ k \in CallType /\ k.tool = "search" /\ k.path = call[c].path /\ k.at = "search"
        /\ k.cut = cut /\ k.found = hits /\ k.left = left
    BY <1>1, <1>3, <2>2, <2>5 DEF CallType
  <2> HIDE DEF k
  <2>7. \A g \in stable[c] : Listed(call[c], file, g) /\ ~k.cut => Listed(k, file, g)
    BY <1>1, <2>2, <2>3, <2>5, <2>6 DEF Listed
  <2>8. QED
    BY <1>1, <1>2, <2>1, <2>5, <2>6, <2>7, CollectKeeps, Parts
<1>7. QED
  BY <1>5, <1>6

\* No file is left to be searched.
LEMMA SearchedKeeps ==
  ASSUME ReadsInv, NEW c \in Caller, Searched(c)
  PROVE  ReadsInv'
<1> DEFINE k == [call[c] EXCEPT !.at = "done"]
<1>1. /\ call[c].tool = "search" /\ call[c].at = "search" /\ call[c].left = {}
      /\ Goes(c, k) /\ UNCHANGED <<cache, rules>>
  BY DEF Searched, At
<1>2. call[c].tool \in Collectors
  BY <1>1 DEF Collectors
<1>3. call[c] \in CallType
  BY <1>2, CollectingCall
<1>4. /\ k \in CallType /\ k.tool = "search" /\ k.path = call[c].path /\ k.at = "done"
      /\ k.cut = call[c].cut /\ k.found = call[c].found
  BY <1>1, <1>3 DEF CallType
<1> HIDE DEF k
<1>5. \A g \in stable[c] : Listed(call[c], file, g) => Listed(k, file, g)
  BY <1>1, <1>4 DEF Listed
<1>6. QED
  BY <1>1, <1>2, <1>4, <1>5, CollectKeeps, Parts

-----------------------------------------------------------------------------
(***************************************************************************)
(* A change of a file, and the theorems.                                   *)
(***************************************************************************)

\* A file that is changed has contents its cached text cannot pass for, and is
\* no longer one of those the calls must list.
LEMMA EditKeeps ==
  ASSUME ReadsInv, NEW f \in File, NEW content \in Content \cup {Gone}, Edit(f, content)
  PROVE  ReadsInv'
<1> DEFINE H(c) == IF call[c].path = f /\ call[c].at # "done"
                   THEN had[c] \cup {content} ELSE had[c]
           new == [content |-> content, stamp |-> edits + 1]
<1>1. /\ edits < MaxEdits /\ edits' = edits + 1
      /\ file' = [file EXCEPT ![f] = new]
      /\ stable' = [c \in Caller |-> stable[c] \ {f}]
      /\ had' = [c \in Caller |-> H(c)]
      /\ UNCHANGED <<cache, rules, call, calls>>
  BY DEF Edit
<1>2. edits \in Nat /\ edits + 1 \in 0 .. MaxEdits
  BY <1>1, Parts
<1>3. new \in FileType /\ new.content = content /\ new.stamp = edits + 1
  BY <1>2 DEF FileType
<1> HIDE DEF new
<1>4. /\ file' \in [File -> FileType]
      /\ file'[f] = new /\ \A g \in File \ {f} : file'[g] = file[g]
  BY <1>1, <1>3, Parts
<1>5. \A c \in Caller : /\ H(c) \subseteq Content \cup {Gone} /\ had[c] \subseteq H(c)
                        /\ call[c].path = f /\ call[c].at # "done" => content \in H(c)
  BY Parts
<1> HIDE DEF H
<1>6. TypeOK'
  BY <1>1, <1>2, <1>4, <1>5 DEF ReadsInv, TypeOK
<1>7. \A g \in File : file'[g].stamp <= edits'
  <2>1. \A g \in File : file[g].stamp <= edits /\ file[g].stamp \in Nat
    BY Parts DEF ReadsInv, FileType
  <2>2. ASSUME NEW g \in File, g # f PROVE file'[g].stamp <= edits + 1
    BY <1>2, <1>4, <2>1, <2>2
  <2>3. file'[f].stamp <= edits + 1
    BY <1>2, <1>3, <1>4
  <2>4. QED
    BY <1>1, <2>2, <2>3
<1>8. \A i \in 1 .. Len(cache) :
        /\ cache[i].path \in File /\ cache[i].stamp \in Nat
        /\ cache[i].path = f => cache[i].stamp < edits + 1
  <2>1. ASSUME NEW i \in 1 .. Len(cache)
        PROVE  /\ cache[i].path \in File /\ cache[i].stamp \in Nat
               /\ cache[i].stamp <= file[cache[i].path].stamp
    BY Parts DEF CachedType, ReadsInv, Remembered
  <2>2. file[f].stamp \in Nat /\ file[f].stamp <= edits
    BY Parts DEF FileType, ReadsInv
  <2>3. QED
    BY <1>2, <2>1, <2>2
<1>9. Remembered(cache, file')
  <2>1. ASSUME NEW i \in 1 .. Len(cache)
        PROVE  /\ cache[i].stamp <= file'[cache[i].path].stamp
               /\ cache[i].stamp = file'[cache[i].path].stamp =>
                    cache[i].content = file'[cache[i].path].content
    <3>1. CASE cache[i].path = f
      <4>1. cache[i].stamp < edits + 1 /\ cache[i].stamp \in Nat
        BY <1>8, <3>1
      <4>2. file'[cache[i].path].stamp = edits + 1
        BY <1>3, <1>4, <3>1
      <4>3. QED
        BY <1>2, <4>1, <4>2
    <3>2. CASE cache[i].path # f
      <4>1. file'[cache[i].path] = file[cache[i].path]
        BY <1>4, <1>8, <3>2
      <4>2. QED
        BY <4>1 DEF ReadsInv, Remembered
    <3>3. QED
      BY <3>1, <3>2
  <2>2. QED
    BY <2>1 DEF Remembered
<1>10. ASSUME NEW c \in Caller PROVE ReadFits(call[c], file', cache, H(c))
  <2>1. ReadFits(call[c], file, cache, had[c])
    BY DEF ReadsInv
  <2>2. SUFFICES ASSUME call[c].tool \in {"read", "range"}
                 PROVE  /\ call[c].at # "done" => file'[call[c].path].content \in H(c)
                        /\ call[c].at \in {"sniff", "bytes"} =>
                             Stated(call[c], file', cache, H(c))
    BY <1>5, <2>1 DEF ReadFits
  <2>3. call[c].path \in File /\ call[c].stamp \in 0 .. MaxEdits
    BY <2>2, ReadingCall
  <2>4. call[c].at # "done" => file'[call[c].path].content \in H(c)
    BY <1>3, <1>4, <1>5, <2>1, <2>2, <2>3 DEF ReadFits
  <2>5. ASSUME call[c].at \in {"sniff", "bytes"} PROVE Stated(call[c], file', cache, H(c))
    <3>1. Stated(call[c], file, cache, had[c])
      BY <2>1, <2>2, <2>5 DEF ReadFits
    <3>2. call[c].stamp <= file'[call[c].path].stamp
      <4>1. CASE call[c].path = f
        <5>1. call[c].stamp <= file[f].stamp
          BY <3>1, <4>1 DEF Stated
        <5>2. file[f].stamp \in Nat /\ file[f].stamp <= edits
          BY Parts DEF FileType, ReadsInv
        <5>3. file'[call[c].path].stamp = edits + 1
          BY <1>3, <1>4, <4>1
        <5>4. call[c].stamp \in Nat
          BY <2>3
        <5>5. QED
          BY <1>2, <5>1, <5>2, <5>3, <5>4
      <4>2. CASE call[c].path # f
        <5>1. file'[call[c].path] = file[call[c].path]
          BY <1>4, <2>3, <4>2
        <5>2. QED
          BY <3>1, <5>1 DEF Stated
      <4>3. QED
        BY <4>1, <4>2
    <3>3. QED
      BY <1>5, <3>1, <3>2 DEF Stated
  <2>6. QED
    BY <2>4, <2>5
<1>11. ASSUME NEW c \in Caller PROVE ListFits(call[c], file', stable[c] \ {f})
  <2>1. ListFits(call[c], file, stable[c]) /\ stable[c] \subseteq File
    BY Parts DEF ReadsInv
  <2>2. \A g \in stable[c] \ {f} : file'[g] = file[g]
    BY <1>4, <2>1
  <2>3. \A g \in stable[c] \ {f} : Listed(call[c], file, g) => Listed(call[c], file', g)
    BY <2>2 DEF Listed, Matches
  <2>4. QED
    BY <2>1, <2>2, <2>3 DEF ListFits
<1>12. /\ \A c \in Caller : ReadFits(call'[c], file', cache', had'[c])
       /\ \A c \in Caller : ListFits(call'[c], file', stable'[c])
  BY <1>1, <1>10, <1>11
<1>13. Remembered(cache', file')
  BY <1>1, <1>9
<1>14. QED
  BY <1>6, <1>7, <1>12, <1>13 DEF ReadsInv

\* ReadsInv holds initially.
LEMMA ReadsInvInit == Init => ReadsInv
<1> SUFFICES ASSUME Init PROVE ReadsInv
  OBVIOUS
<1>1. 0 \in 0 .. MaxEdits /\ 0 \in 0 .. MaxCalls /\ CacheSize \in Nat /\ 0 <= CacheSize
  BY ReadsAssumption
<1>2. \A f \in File : file[f].content \in Content \ {"binary", "large"} /\ file[f].stamp = 0
                      /\ file[f] \in FileType
  BY <1>1 DEF Init, FileType
<1>3. cache \in Seq(CachedType) /\ Len(cache) = 0
  BY DEF Init
<1>4. file \in [File -> FileType]
  BY <1>2 DEF Init
<1>5. NoCall \in CallType /\ NoCall.tool = "none"
  <2>1. Top \in Folder /\ <<>> \in Seq(SUBSET Entry)
    BY ReadsAssumption
  <2>2. QED
    BY <1>1, <2>1 DEF NoCall, CallType, Collectors
<1>6. TypeOK
  BY <1>1, <1>3, <1>4, <1>5 DEF Init, TypeOK
<1>7. \A c \in Caller : /\ ReadFits(call[c], file, cache, had[c])
                        /\ ListFits(call[c], file, stable[c])
  BY <1>5 DEF Init, ReadFits, ListFits, Collectors
<1>8. Remembered(cache, file)
  BY <1>3 DEF Remembered
<1>9. \A f \in File : file[f].stamp <= edits
  BY <1>2 DEF Init
<1>10. QED
  BY <1>6, <1>7, <1>8, <1>9 DEF ReadsInv

\* Every step keeps ReadsInv.
LEMMA ReadsInvNext == ReadsInv /\ [Next]_vars => ReadsInv'
<1> SUFFICES ASSUME ReadsInv, [Next]_vars PROVE ReadsInv'
  OBVIOUS
<1>1. ASSUME NEW c \in Caller, NEW tool \in {"read", "range"}, NEW f \in File,
             BeginRead(c, tool, f)
      PROVE  ReadsInv'
  BY <1>1, BeginReadKeeps
<1>2. ASSUME NEW c \in Caller, NEW tool \in Collectors, NEW d \in Folder,
             BeginCollect(c, tool, d)
      PROVE  ReadsInv'
  BY <1>2, BeginCollectKeeps
<1>3. ASSUME NEW c \in Caller, Stat(c) PROVE ReadsInv'
  BY <1>3, StatKeeps
<1>4. ASSUME NEW c \in Caller, Sniff(c) PROVE ReadsInv'
  BY <1>4, SniffKeeps
<1>5. ASSUME NEW c \in Caller, ReadBytes(c) PROVE ReadsInv'
  BY <1>5, ReadBytesKeeps
<1>6. ASSUME NEW c \in Caller, Hash(c) PROVE ReadsInv'
  BY <1>6, HashKeeps
<1>7. ASSUME NEW c \in Caller, Enter(c) PROVE ReadsInv'
  BY <1>7, EnterKeeps
<1>8. ASSUME NEW c \in Caller, Visit(c) PROVE ReadsInv'
  BY <1>8, VisitKeeps
<1>9. ASSUME NEW c \in Caller, Collected(c) PROVE ReadsInv'
  BY <1>9, CollectedKeeps
<1>10. ASSUME NEW c \in Caller, SearchFile(c) PROVE ReadsInv'
  BY <1>10, SearchFileKeeps
<1>11. ASSUME NEW c \in Caller, Searched(c) PROVE ReadsInv'
  BY <1>11, SearchedKeeps
<1>12. ASSUME NEW f \in File, NEW content \in Content \cup {Gone}, Edit(f, content)
       PROVE  ReadsInv'
  BY <1>12, EditKeeps
<1>13. CASE UNCHANGED vars
  BY <1>13 DEF vars, ReadsInv, TypeOK
<1>14. QED
  BY <1>1, <1>2, <1>3, <1>4, <1>5, <1>6, <1>7, <1>8, <1>9, <1>10, <1>11, <1>12, <1>13
     DEF Next, Calls

\* ReadsInv holds in every reachable state.
LEMMA ReadsInvAlways == Spec => []ReadsInv
<1>1. QED
  BY ReadsInvInit, ReadsInvNext, PTL DEF Spec

\* The values have their types, and the cache of files that were read never
\* outgrows its size.
THEOREM ReadsTypeCorrect == Spec => []TypeOK
<1>1. ReadsInv => TypeOK
  BY DEF ReadsInv
<1>2. QED
  BY <1>1, ReadsInvAlways, PTL

\* read_file and read_file_range show, and hash, what the file held during the
\* call: neither the cache nor the order of stat, look and read lets an agent see
\* an earlier state of it.
THEOREM ReadsWhatWasThereAlways == Spec => []ReadsWhatWasThere
<1>1. ReadsInv => ReadsWhatWasThere
  <2> SUFFICES ASSUME ReadsInv, NEW c \in Caller, call[c].tool \in {"read", "range"},
                      call[c].at = "done"
               PROVE  /\ call[c].shown \in had[c] \cup {Gone}
                      /\ call[c].hash \in had[c] \ {Gone}
                      /\ call[c].tool = "read" => call[c].shown \in {Gone, call[c].hash}
    BY DEF ReadsWhatWasThere
  <2>1. QED
    BY ReadingCall DEF ReadFits
<1>2. QED
  BY <1>1, ReadsInvAlways, PTL

\* An answer of list_files, find_files or search_text that does not say it was cut
\* has every file that stayed as it was, except below what is hidden or excluded by
\* some .gitignore: no other entry is lost when a folder is entered or left, at a
\* limit or at the greatest depth, in whatever order the calls load the rules.
THEOREM ListsWhatStaysAlways == Spec => []ListsWhatStays
<1>1. ReadsInv => ListsWhatStays
  <2> SUFFICES ASSUME ReadsInv, NEW c \in Caller, call[c].tool \in Collectors,
                      call[c].at = "done", ~call[c].cut, NEW f \in stable[c],
                      /\ call[c].path \in Above(f)
                      /\ Cardinality(Way(c, f)) <= MaxDepth
                      /\ \A e \in (Way(c, f) \cup {f}) \ {call[c].path} :
                           ~Omissible(e)
                      /\ call[c].tool = "search" =>
                           f \notin Sensitive /\ file[f].content = "match"
               PROVE  f \in call[c].found
    BY DEF ListsWhatStays
  <2>1. call[c].path \in Folder /\ f \in Entry
    BY CollectingCall, Entries
  <2>2. f \notin Above(call[c].path)
    BY <2>1, NotBelow
  <2>3. Wanted(call[c], f)
    BY <2>2 DEF Wanted, Way, Depth
  <2>4. Listed(call[c], file, f)
    BY <2>3, CollectingCall DEF ListFits
  <2>5. QED
    BY <2>4 DEF Listed, Matches
<1>2. QED
  BY <1>1, ReadsInvAlways, PTL
=============================================================================

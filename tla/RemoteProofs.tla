---------------------------- MODULE RemoteProofs ----------------------------
(***************************************************************************)
(* Theorems about the publication of a task, for every number of requests, *)
(* logins, commits and steps of other people, and whatever agents prepare. *)
(***************************************************************************)
EXTENDS Remote, SequenceTheorems, FiniteSetTheorems, TLAPS

\* The bounds are numbers, and there is at least one commit and one login.
LEMMA Bounds ==
  /\ MaxRequests \in Nat /\ MaxOthers \in Nat /\ MaxPolls \in Nat
  /\ MaxCommits \in Nat \ {0} /\ MaxLogins \in Nat \ {0}
BY RemoteAssumption

-----------------------------------------------------------------------------
(***************************************************************************)
(* The invariant, said of values: A are the approvals, P the pull requests *)
(* on GitHub, m a manifest.                                                *)
(***************************************************************************)

\* The user has approved the publication of this commit.
Approved(commit, A) ==
  \E i \in 1 .. Len(A) :
    A[i].action = "publish" /\ A[i].status = "consumed" /\ A[i].content = commit

\* What a manifest says is true: its published head was approved, and its pull
\* request exists.
Truthful(m, A, P) ==
  /\ m.published # NoCommit => Approved(m.published, A)
  /\ m.pull \in 0 .. Len(P)

\* Whoever has read that there is a pull request holds the one of the manifest.
Pulled(seen, m) == seen.pull = 1 /\ m.pull = 1

\* A request that has the user's decision.
Deciding(k) ==
  k.step \in {"check", "write", "verify"} \/ (k.step = "save" /\ k.op \in Writing)

\* It comes from the user, stands for the approval it names, and what it has
\* done so far fits its place.
Decided(w, k, A, P, m) ==
  /\ w = "user" /\ k.id \in 1 .. Len(A) /\ A[k.id].action = k.op
  /\ k.step = "write" => A[k.id].status = "consumed" /\ A[k.id].written = <<>>
  /\ k.step = "write" /\ k.op = "create" => P = <<>>
  /\ k.step = "verify" => k.op = "publish" /\ A[k.id].status = "consumed"
  /\ k.step = "save" /\ k.op = "publish" =>
       A[k.id].status = "consumed" /\ k.seen.pull = m.pull
  /\ k.step = "save" /\ k.op = "create" => k.seen.pull = 1

Fits(w, k, A, P, m) ==
  /\ Truthful(k.seen, A, P)
  /\ k.op \in {"update", "checks"} => Pulled(k.seen, m)
  /\ k.step = "save" => k.op \in {"publish", "create", "update", "checks"}
  /\ Deciding(k) => Decided(w, k, A, P, m)

Kept(p, A, P, m) ==
  /\ Truthful(p.manifest, A, P)
  /\ A[p.id].action = "update" => Pulled(p.manifest, m)

\* Nothing has been written under an approval, or one thing, and then it cannot
\* be used again.
Used(a) ==
  a.written = <<>> \/
    (/\ Len(a.written) = 1 /\ a.status = "consumed"
     /\ a.action # "publish" => a.written = <<a.content>>)

\* The approvals under which something has been written.
Spent(A) == {i \in 1 .. Len(A) : A[i].written # <<>>}

\* Only a thread that was answered is resolved.
Heard == \A w \in Worker : At(w, {"resolve"}, "write") => github.thread.comments >= 2

RemoteInv ==
  /\ TypeOK
  /\ Heard
  /\ github.thread.comments <= Cardinality(Spent(approvals)) + 2
  /\ Len(github.pulls) <= 1
  /\ \A i \in 1 .. Len(approvals) : Used(approvals[i])
  /\ Truthful(manifest, approvals, github.pulls)
  /\ \A p \in prepared : Kept(p, approvals, github.pulls, manifest)
  /\ \A w \in Worker : Fits(w, calls[w], approvals, github.pulls, manifest)

-----------------------------------------------------------------------------
(***************************************************************************)
(* What is true stays true.                                                *)
(***************************************************************************)

\* Approvals are added and used up, never changed or forgotten.
Grown(A, B) ==
  /\ Len(A) <= Len(B)
  /\ \A i \in 1 .. Len(A) :
       /\ B[i].action = A[i].action /\ B[i].content = A[i].content
       /\ A[i].status = "consumed" => B[i].status = "consumed"

\* The world may have gone on from A, P and m to B, Q and n.
Later(A, P, m, B, Q, n) ==
  /\ Len(A) \in Nat /\ Len(B) \in Nat /\ Len(P) \in Nat /\ Len(Q) \in Nat
  /\ Grown(A, B) /\ Len(P) <= Len(Q) /\ (m.pull = 1 => n.pull = 1)

\* Nobody has touched what a request that is decided relies on.
Beside(A, P, m, B, Q, n) ==
  /\ \A i \in 1 .. Len(A) : B[i] = A[i]
  /\ (P = <<>> => Q = <<>>) /\ n.pull = m.pull

\* What a manifest says is not made false by what happens later.
LEMMA TruthStays ==
  ASSUME NEW A, NEW P, NEW m, NEW B, NEW Q, NEW n, Later(A, P, m, B, Q, n),
         NEW s, Truthful(s, A, P)
  PROVE  Truthful(s, B, Q)
BY DEF Later, Grown, Truthful, Approved

\* Nor is what a prepared request was prepared on.
LEMMA KeptStays ==
  ASSUME NEW A, NEW P, NEW m, NEW B, NEW Q, NEW n, Later(A, P, m, B, Q, n),
         NEW p, p.id \in 1 .. Len(A), Kept(p, A, P, m)
  PROVE  Kept(p, B, Q, n)
<1>1. Truthful(p.manifest, B, Q)
  BY TruthStays DEF Kept
<1>2. B[p.id].action = A[p.id].action
  BY DEF Later, Grown
<1>3. QED
  BY <1>1, <1>2 DEF Kept, Pulled, Later

\* A request goes on fitting its place; one that has its decision only if nobody
\* touches what it relies on.
LEMMA FitStays ==
  ASSUME NEW A, NEW P, NEW m, NEW B, NEW Q, NEW n, Later(A, P, m, B, Q, n),
         NEW w, NEW k, Fits(w, k, A, P, m),
         ~Deciding(k) \/ Beside(A, P, m, B, Q, n)
  PROVE  Fits(w, k, B, Q, n)
<1>1. Truthful(k.seen, B, Q)
  BY TruthStays DEF Fits
<1>2. k.op \in {"update", "checks"} => Pulled(k.seen, n)
  BY DEF Fits, Later, Pulled
<1>3. ASSUME Deciding(k) PROVE Decided(w, k, B, Q, n)
  <2>1. Decided(w, k, A, P, m) /\ Beside(A, P, m, B, Q, n)
    BY <1>3 DEF Fits
  <2>2. k.id \in 1 .. Len(B) /\ B[k.id] = A[k.id]
    BY <2>1 DEF Decided, Beside, Later, Grown
  <2>3. QED
    BY <2>1, <2>2 DEF Decided, Beside
<1>4. QED
  BY <1>1, <1>2, <1>3 DEF Fits

-----------------------------------------------------------------------------
(***************************************************************************)
(* What a step may do to the calls and to the approvals.                   *)
(***************************************************************************)

\* Nothing has been published, and nobody is busy, at the beginning.
LEMMA Basics ==
  /\ NoCommit \in Commits /\ NoText \in Contents /\ NoManifest \in ManifestType
  /\ Idle \in CallType /\ ~Deciding(Idle) /\ Idle.op = "none" /\ Idle.step = "idle"
  /\ Idle.seen = NoManifest
  /\ \A A, P : Len(P) \in Nat => Truthful(NoManifest, A, P)
<1>1. NoCommit \in Commits
  BY Bounds DEF NoCommit, Commits
<1>2. NoText \in Contents
  BY <1>1 DEF NoText, NoCommit, Contents
<1>3. NoManifest \in ManifestType
  BY <1>1, Bounds DEF NoManifest, Manifest, ManifestType
<1>4. Idle \in CallType
  BY <1>2, <1>3, Bounds DEF Idle, CallType
<1>5. \A A, P : Len(P) \in Nat => Truthful(NoManifest, A, P)
  BY DEF NoManifest, Manifest, Truthful, NoCommit
<1>6. QED
  BY <1>1, <1>2, <1>3, <1>4, <1>5 DEF Idle, Deciding

\* The fields of what is kept.
LEMMA Lengths ==
  ASSUME TypeOK
  PROVE  /\ Len(approvals) \in Nat /\ Len(github.pulls) \in Nat
         /\ \A i \in 1 .. Len(approvals) : approvals[i] \in ApprovalType
         /\ github.pulls \in Seq([title : Contents, open : BOOLEAN, by : {"agent"}])
<1>1. /\ approvals \in Seq(ApprovalType)
      /\ github.pulls \in Seq([title : Contents, open : BOOLEAN, by : {"agent"}])
  BY DEF TypeOK, GithubType
<1>2. QED
  BY <1>1, LenProperties, ElementOfSeq

\* The call of w becomes k while the world goes on.  Only the user's may touch
\* what another call relies on, and then there is none.
LEMMA CallGoes ==
  ASSUME RemoteInv, NEW w \in Worker, NEW k \in CallType,
         calls' = [calls EXCEPT ![w] = k],
         Later(approvals, github.pulls, manifest,
               approvals', github'.pulls, manifest'),
         Fits(w, k, approvals', github'.pulls, manifest'),
         w = "user" \/ Beside(approvals, github.pulls, manifest,
                              approvals', github'.pulls, manifest')
  PROVE  /\ calls' \in [Worker -> CallType]
         /\ \A v \in Worker :
              Fits(v, calls'[v], approvals', github'.pulls, manifest')
<1>1. calls \in [Worker -> CallType]
  BY DEF RemoteInv, TypeOK
<1>2. ASSUME NEW v \in Worker \ {w}
      PROVE  Fits(v, calls[v], approvals', github'.pulls, manifest')
  <2>1. Fits(v, calls[v], approvals, github.pulls, manifest)
    BY DEF RemoteInv
  <2>2. w = "user" => ~Deciding(calls[v])
    BY <2>1 DEF Fits, Decided
  <2>3. QED
    BY <2>1, <2>2, FitStays
<1>3. QED
  BY <1>1, <1>2

\* No call changes.
LEMMA CallsStay ==
  ASSUME RemoteInv, UNCHANGED calls,
         Later(approvals, github.pulls, manifest,
               approvals', github'.pulls, manifest'),
         \/ calls["user"] = Idle
         \/ Beside(approvals, github.pulls, manifest,
                   approvals', github'.pulls, manifest')
  PROVE  \A v \in Worker :
           Fits(v, calls'[v], approvals', github'.pulls, manifest')
<1>1. ASSUME NEW v \in Worker
      PROVE  Fits(v, calls[v], approvals', github'.pulls, manifest')
  <2>1. Fits(v, calls[v], approvals, github.pulls, manifest)
    BY DEF RemoteInv
  <2>2. calls["user"] = Idle => ~Deciding(calls[v])
    BY <2>1, Basics DEF Fits, Decided
  <2>3. QED
    BY <2>1, <2>2, FitStays
<1>2. QED
  BY <1>1

\* What the server keeps goes on to fit.
LEMMA PreparedStay ==
  ASSUME RemoteInv, prepared' \subseteq prepared,
         Later(approvals, github.pulls, manifest,
               approvals', github'.pulls, manifest')
  PROVE  /\ prepared' \subseteq PreparedType
         /\ \A p \in prepared' :
              p.id <= Len(approvals') /\ Kept(p, approvals', github'.pulls, manifest')
<1>1. ASSUME NEW p \in prepared
      PROVE  p.id <= Len(approvals') /\ Kept(p, approvals', github'.pulls, manifest')
  <2>1. p.id \in 1 .. Len(approvals)
    BY Bounds DEF RemoteInv, TypeOK, PreparedType, Later
  <2>2. Kept(p, approvals, github.pulls, manifest)
    BY DEF RemoteInv
  <2>3. Kept(p, approvals', github'.pulls, manifest')
    BY <2>1, <2>2, KeptStays
  <2>4. p.id <= Len(approvals')
    BY <2>1 DEF Later, Grown
  <2>5. QED
    BY <2>3, <2>4
<1>2. QED
  BY <1>1 DEF RemoteInv, TypeOK

\* There are no more of them than approvals.
LEMMA SpentBounded ==
  ASSUME NEW A, Len(A) \in Nat
  PROVE  /\ IsFiniteSet(Spent(A)) /\ Cardinality(Spent(A)) \in Nat
         /\ Cardinality(Spent(A)) <= Len(A)
<1>1. 1 \in Int /\ Len(A) \in Int
  OBVIOUS
<1>2. /\ IsFiniteSet(1 .. Len(A))
      /\ Cardinality(1 .. Len(A)) = IF 1 > Len(A) THEN 0 ELSE Len(A) - 1 + 1
  BY <1>1, FS_Interval
<1>3. Cardinality(1 .. Len(A)) = Len(A)
  BY <1>2
<1>4. Spent(A) \in SUBSET (1 .. Len(A))
  BY DEF Spent
<1>5. QED
  BY <1>2, <1>3, <1>4, FS_Subset, FS_CardinalityType

\* One approval is decided, used up or written under.
LEMMA ApprovalAltered ==
  ASSUME RemoteInv, NEW i \in 1 .. Len(approvals), NEW e \in ApprovalType,
         approvals' = [approvals EXCEPT ![i] = e], Used(e),
         e.action = approvals[i].action, e.content = approvals[i].content,
         approvals[i].status = "consumed" => e.status = "consumed"
  PROVE  /\ approvals' \in Seq(ApprovalType) /\ Len(approvals') = Len(approvals)
         /\ approvals'[i] = e
         /\ Grown(approvals, approvals')
         /\ \A j \in 1 .. Len(approvals') : Used(approvals'[j])
         /\ e.written = approvals[i].written => Spent(approvals') = Spent(approvals)
         /\ approvals[i].written = <<>> /\ e.written # <<>> =>
              Cardinality(Spent(approvals')) = Cardinality(Spent(approvals)) + 1
<1>1. approvals \in Seq(ApprovalType) /\ Len(approvals) \in Nat
  BY Lengths DEF RemoteInv, TypeOK
<1>2. /\ approvals' \in Seq(ApprovalType) /\ Len(approvals') = Len(approvals)
      /\ \A j \in 1 .. Len(approvals) :
           approvals'[j] = IF j = i THEN e ELSE approvals[j]
  BY <1>1, ExceptSeq
<1>3. Grown(approvals, approvals')
  BY <1>1, <1>2 DEF Grown
<1>4. e.written = approvals[i].written => Spent(approvals') = Spent(approvals)
  BY <1>2 DEF Spent
<1>5. ASSUME approvals[i].written = <<>>, e.written # <<>>
      PROVE  Cardinality(Spent(approvals')) = Cardinality(Spent(approvals)) + 1
  <2>1. Spent(approvals') = Spent(approvals) \cup {i} /\ i \notin Spent(approvals)
    BY <1>2, <1>5 DEF Spent
  <2>2. QED
    BY <1>1, <2>1, SpentBounded, FS_AddElement
<1>6. QED
  BY <1>2, <1>3, <1>4, <1>5 DEF RemoteInv

\* One is opened.
LEMMA ApprovalOpened ==
  ASSUME RemoteInv, NEW e \in ApprovalType, e.written = <<>>,
         approvals' = Append(approvals, e)
  PROVE  /\ approvals' \in Seq(ApprovalType)
         /\ Len(approvals') = Len(approvals) + 1
         /\ approvals'[Len(approvals')] = e
         /\ \A j \in 1 .. Len(approvals) : approvals'[j] = approvals[j]
         /\ Grown(approvals, approvals')
         /\ \A j \in 1 .. Len(approvals') : Used(approvals'[j])
         /\ Spent(approvals') = Spent(approvals)
<1>1. approvals \in Seq(ApprovalType) /\ Len(approvals) \in Nat
  BY Lengths DEF RemoteInv, TypeOK
<1>2. /\ approvals' \in Seq(ApprovalType)
      /\ Len(approvals') = Len(approvals) + 1
      /\ approvals'[Len(approvals) + 1] = e
      /\ \A j \in 1 .. Len(approvals) : approvals'[j] = approvals[j]
  BY <1>1, AppendProperties
<1>3. Grown(approvals, approvals')
  BY <1>1, <1>2 DEF Grown
<1>4. \A j \in 1 .. Len(approvals') : Used(approvals'[j])
  BY <1>1, <1>2 DEF RemoteInv, Used
<1>5. Spent(approvals') = Spent(approvals)
  BY <1>1, <1>2 DEF Spent
<1>6. QED
  BY <1>2, <1>3, <1>4, <1>5

-----------------------------------------------------------------------------
(***************************************************************************)
(* The steps, one lemma each.                                              *)
(***************************************************************************)

\* A step of which neither the approvals nor the pull requests nor the
\* manifest notice anything.
LEMMA Alike ==
  ASSUME RemoteInv, UNCHANGED <<approvals, manifest>>, github'.pulls = github.pulls
  PROVE  /\ Later(approvals, github.pulls, manifest,
                  approvals', github'.pulls, manifest')
         /\ Beside(approvals, github.pulls, manifest,
                   approvals', github'.pulls, manifest')
<1>1. Len(approvals) \in Nat /\ Len(github.pulls) \in Nat
  BY Lengths DEF RemoteInv
<1>2. QED
  BY <1>1 DEF Later, Beside, Grown

\* Comments are only added.
LEMMA HeardStays ==
  ASSUME RemoteInv, NEW w \in Worker, NEW k, calls' = [calls EXCEPT ![w] = k],
         k.step # "write" \/ k.op # "resolve" \/ github.thread.comments >= 2,
         github'.thread.comments \in Int,
         github.thread.comments <= github'.thread.comments
  PROVE  Heard'
<1>1. github.thread.comments \in Int
  BY Bounds DEF RemoteInv, TypeOK, GithubType
<1>2. calls \in [Worker -> CallType] /\ Heard
  BY DEF RemoteInv, TypeOK
<1>3. QED
  BY <1>1, <1>2 DEF Heard, At

\* Only the call of w goes on.
LEMMA CallOnly ==
  ASSUME RemoteInv, NEW w \in Worker, NEW k \in CallType, k.step # "write",
         calls' = [calls EXCEPT ![w] = k],
         Fits(w, k, approvals, github.pulls, manifest),
         UNCHANGED <<login, approvals, prepared, manifest, worktree, github, others>>
  PROVE  RemoteInv'
<1>1. /\ calls' \in [Worker -> CallType]
      /\ \A v \in Worker : Fits(v, calls'[v], approvals', github'.pulls, manifest')
  BY Alike, CallGoes
<1>2. TypeOK'
  BY <1>1 DEF RemoteInv, TypeOK
<1>3. Heard'
  <2>1. github'.thread.comments \in Int /\ github'.thread.comments = github.thread.comments
    BY Bounds DEF RemoteInv, TypeOK, GithubType
  <2>2. github.thread.comments <= github'.thread.comments
    BY <2>1
  <2>3. QED
    BY <2>1, <2>2, HeardStays
<1>4. QED
  BY <1>1, <1>2, <1>3 DEF RemoteInv

\* What a call is made of.
LEMMA CallFields ==
  ASSUME RemoteInv, NEW w \in Worker
  PROVE  /\ calls[w] \in CallType /\ calls[w].op \in Operation \cup {"none"}
         /\ calls[w].login \in 0 .. MaxLogins /\ calls[w].text \in Contents
         /\ calls[w].seen \in ManifestType
         /\ calls[w].seen.head \in Commits
         /\ Fits(w, calls[w], approvals, github.pulls, manifest)
<1>1. calls[w] \in CallType /\ Fits(w, calls[w], approvals, github.pulls, manifest)
  BY DEF RemoteInv, TypeOK
<1>2. QED
  BY <1>1 DEF CallType, ManifestType

\* A call without a decision that only takes its next step.
LEMMA StepFits ==
  ASSUME RemoteInv, NEW w \in Worker, NEW k \in CallType,
         k.op = calls[w].op, k.seen = calls[w].seen,
         ~Deciding(k), k.step # "save"
  PROVE  Fits(w, k, approvals, github.pulls, manifest)
BY CallFields DEF Fits

\* Who is idle fits anywhere.
LEMMA IdleFits ==
  ASSUME NEW w, NEW A, NEW P, NEW m, Len(P) \in Nat
  PROVE  Fits(w, Idle, A, P, m)
BY Basics DEF Fits, Idle

\* A request that fails changes nothing else.
LEMMA FailKeeps ==
  ASSUME RemoteInv, NEW w \in Worker, Fail(w)
  PROVE  RemoteInv'
BY CallOnly, IdleFits, Basics, Lengths DEF Fail, Answer, RemoteInv

\* What is shown to the user is a commit or a text.
LEMMA TextsFit ==
  /\ \A op : Texts(op) \subseteq Contents /\ Texts(op) # {}
  /\ \A op \in Operation : Shown(op) \subseteq Contents
<1>1. \A op : Texts(op) \subseteq Contents /\ Texts(op) # {}
  BY Basics, RemoteAssumption DEF Texts, Contents
<1>2. QED
  BY <1>1 DEF Shown

\* A request begins with the manifest as it is.
LEMMA LoadKeeps ==
  ASSUME RemoteInv, NEW w \in Worker, NEW op \in Operation, NEW text \in Contents,
         Load(w, op, text)
  PROVE  RemoteInv'
<1> DEFINE k == [op |-> op, login |-> login, id |-> 0, text |-> text, seen |-> manifest,
                 polls |-> 0, step |-> FirstStep(op)]
<1>1. k \in CallType
  <2>1. login \in 0 .. MaxLogins /\ manifest \in ManifestType
    BY Bounds DEF RemoteInv, TypeOK
  <2>2. 0 \in 0 .. MaxPolls + 1 /\ 0 \in 0 .. MaxRequests
    BY Bounds
  <2>3. FirstStep(op) \in {"prepare", "poll", "save"}
    BY DEF FirstStep
  <2>4. QED
    BY <2>1, <2>2, <2>3 DEF CallType
<1>2. Fits(w, k, approvals, github.pulls, manifest)
  <2>1. Truthful(manifest, approvals, github.pulls)
    BY DEF RemoteInv
  <2>2. op \in {"update", "checks"} => Pulled(manifest, manifest)
    <3>1. op \in {"update", "checks"} => manifest.pull # 0
      BY DEF Load, Ready
    <3>2. manifest.pull \in 0 .. Len(github.pulls) /\ Len(github.pulls) <= 1
          /\ Len(github.pulls) \in Nat
      BY <2>1, Lengths DEF Truthful, RemoteInv
    <3>3. QED
      BY <3>1, <3>2 DEF Pulled
  <2>3. FirstStep(op) = "save" => op = "checks"
    BY DEF FirstStep
  <2>4. ~Deciding(k)
    BY <2>3 DEF Deciding, FirstStep, Writing
  <2>5. QED
    BY <2>1, <2>2, <2>3, <2>4 DEF Fits
<1>3. k.step # "write"
  BY DEF FirstStep
<1>4. QED
  BY <1>1, <1>2, <1>3, CallOnly DEF Load

\* A watch polls on, or is over.
LEMMA WatchKeeps ==
  ASSUME RemoteInv, NEW w \in Worker, Watch(w)
  PROVE  RemoteInv'
<1>1. CASE Answer(w)
  BY <1>1, CallOnly, IdleFits, Basics, Lengths DEF Watch, Answer, RemoteInv
<1>2. CASE ~WatchOver(w)
           /\ calls' = [calls EXCEPT ![w].polls = IF @ > MaxPolls THEN @ - 1 ELSE @ + 1]
  <2> DEFINE n == IF calls[w].polls > MaxPolls
                  THEN calls[w].polls - 1 ELSE calls[w].polls + 1
             k == [calls[w] EXCEPT !.polls = n]
  <2>1. calls[w] \in CallType /\ calls[w].polls \in 0 .. MaxPolls + 1
    BY CallFields DEF CallType
  <2>2. n \in 0 .. MaxPolls + 1
    BY <2>1, Bounds
  <2>3. calls' = [calls EXCEPT ![w] = k]
    BY <1>2
  <2> HIDE DEF n
  <2>4. k \in CallType /\ k.op = "watch" /\ k.step = "poll" /\ k.seen = calls[w].seen
    BY <2>1, <2>2 DEF CallType, Watch, At
  <2>5. ~Deciding(k)
    BY <2>4 DEF Deciding
  <2>6. Fits(w, k, approvals, github.pulls, manifest)
    BY <2>4, <2>5, StepFits DEF Watch, At
  <2>7. QED
    BY <2>3, <2>4, <2>6, CallOnly DEF Watch
<1>3. QED
  BY <1>1, <1>2 DEF Watch

\* A call with a decision.
LEMMA DecidedCall ==
  ASSUME RemoteInv, NEW w \in Worker, Deciding(calls[w])
  PROVE  /\ w = "user" /\ calls[w].id \in 1 .. Len(approvals)
         /\ Decided(w, calls[w], approvals, github.pulls, manifest)
         /\ Approval(w) \in ApprovalType /\ Approval(w).action = calls[w].op
         /\ Approval(w).content \in Contents
         /\ calls[w].op = "publish" => Approval(w).content \in Commits
         /\ Used(Approval(w))
<1>1. /\ Decided(w, calls[w], approvals, github.pulls, manifest)
  BY CallFields DEF Fits
<1>2. calls[w].id \in 1 .. Len(approvals) /\ Approval(w).action = calls[w].op
  BY <1>1 DEF Decided, Approval
<1>3. Approval(w) \in ApprovalType /\ Used(Approval(w))
  BY <1>2, Lengths DEF RemoteInv, Approval
<1>4. QED
  BY <1>1, <1>2, <1>3 DEF Decided, ApprovalType

\* A pull request that is already as approved is not written.
LEMMA UpdateNothingKeeps ==
  ASSUME RemoteInv, NEW w \in Worker, UpdateNothing(w)
  PROVE  RemoteInv'
<1> DEFINE k == [calls[w] EXCEPT !.step = "save"]
<1>1. calls' = [calls EXCEPT ![w] = k]
  BY DEF UpdateNothing, Step
<1>2. k \in CallType /\ k.op = "update" /\ k.step = "save"
      /\ k.seen = calls[w].seen /\ k.id = calls[w].id
  BY CallFields DEF CallType, UpdateNothing, At
<1>3. Deciding(calls[w]) /\ calls[w].op = "update"
  BY DEF UpdateNothing, At, Deciding
<1>4. Decided(w, k, approvals, github.pulls, manifest)
  BY <1>2, <1>3, DecidedCall DEF Decided
<1>5. Fits(w, k, approvals, github.pulls, manifest)
  BY <1>2, <1>3, <1>4, CallFields DEF Fits
<1>6. QED
  BY <1>1, <1>2, <1>5, CallOnly DEF UpdateNothing

\* A push that GitHub confirms is saved on the manifest as it is by then.
LEMMA VerifyKeeps ==
  ASSUME RemoteInv, NEW w \in Worker, Verify(w)
  PROVE  RemoteInv'
<1> DEFINE k == [calls[w] EXCEPT !.step = "save", !.seen = manifest]
<1>1. calls' = [calls EXCEPT ![w] = k]
  BY DEF Verify
<1>2. k \in CallType /\ k.op = "publish" /\ k.step = "save"
      /\ k.seen = manifest /\ k.id = calls[w].id
  BY CallFields DEF CallType, Verify, At, RemoteInv, TypeOK
<1>3. Deciding(calls[w]) /\ calls[w].op = "publish" /\ calls[w].step = "verify"
  BY DEF Verify, At, Deciding
<1>4. Decided(w, k, approvals, github.pulls, manifest)
  BY <1>2, <1>3, DecidedCall DEF Decided
<1>5. Fits(w, k, approvals, github.pulls, manifest)
  BY <1>2, <1>4 DEF Fits, RemoteInv
<1>6. QED
  BY <1>1, <1>2, <1>5, CallOnly DEF Verify

\* A decided call of the user spends its approval: what is left to show when
\* the call becomes k, and the approval e.
LEMMA Spends ==
  ASSUME RemoteInv, NEW w \in Worker, Deciding(calls[w]),
         NEW e \in ApprovalType, Used(e),
         approvals' = [approvals EXCEPT ![calls[w].id] = e],
         e.action = Approval(w).action, e.content = Approval(w).content,
         Approval(w).status = "consumed" => e.status = "consumed",
         NEW k \in CallType, calls' = [calls EXCEPT ![w] = k], Heard',
         UNCHANGED <<login, prepared, manifest, worktree, others>>,
         Len(github.pulls) <= Len(github'.pulls), Len(github'.pulls) \in Nat,
         Fits(w, k, approvals', github'.pulls, manifest),
         Len(github'.pulls) <= 1,
         github' \in GithubType,
         github'.thread.resolved => github'.thread.comments >= 2,
         github'.thread.comments <= Cardinality(Spent(approvals')) + 2
  PROVE  RemoteInv'
<1>1. calls[w].id \in 1 .. Len(approvals) /\ Approval(w) = approvals[calls[w].id]
      /\ w = "user"
  BY DecidedCall DEF Approval
<1>2. /\ approvals' \in Seq(ApprovalType) /\ Len(approvals') = Len(approvals)
      /\ Grown(approvals, approvals')
      /\ \A j \in 1 .. Len(approvals') : Used(approvals'[j])
  BY <1>1, ApprovalAltered
<1>3. Later(approvals, github.pulls, manifest, approvals', github'.pulls, manifest')
  BY <1>2, Lengths DEF Later, RemoteInv
<1>4. /\ calls' \in [Worker -> CallType]
      /\ \A v \in Worker : Fits(v, calls'[v], approvals', github'.pulls, manifest')
  BY <1>1, <1>3, CallGoes
<1>5. /\ prepared' \subseteq PreparedType
      /\ \A p \in prepared' :
           p.id <= Len(approvals') /\ Kept(p, approvals', github'.pulls, manifest')
  BY <1>3, PreparedStay
<1>6. TypeOK'
  BY <1>2, <1>4, <1>5 DEF RemoteInv, TypeOK
<1>7. Truthful(manifest', approvals', github'.pulls)
  BY <1>3, TruthStays DEF RemoteInv
<1>8. QED
  BY <1>2, <1>4, <1>5, <1>6, <1>7 DEF RemoteInv

\* An approval is used up before anything is written under it.
LEMMA CheckKeeps ==
  ASSUME RemoteInv, NEW w \in Worker, Check(w)
  PROVE  RemoteInv'
<1> DEFINE e == [Approval(w) EXCEPT !.status = "consumed"]
           k == [calls[w] EXCEPT !.step = "write"]
<1>1. Deciding(calls[w]) /\ calls[w].op \in Writing /\ calls[w].step = "check"
  BY DEF Check, At, Deciding
<1>2. Approval(w).status = "approved" /\ Approval(w).written = <<>>
  BY <1>1, DecidedCall DEF Check, Consumable, Used
<1>3. /\ e \in ApprovalType /\ e.action = Approval(w).action
      /\ e.content = Approval(w).content /\ e.status = "consumed" /\ e.written = <<>>
  BY <1>1, <1>2, DecidedCall DEF ApprovalType
<1>4. approvals' = [approvals EXCEPT ![calls[w].id] = e]
  BY DEF Check, Consume, Approval
<1>5. calls[w].id \in 1 .. Len(approvals) /\ Approval(w) = approvals[calls[w].id]
  BY <1>1, DecidedCall DEF Approval
<1>a. Used(e) /\ e.written = approvals[calls[w].id].written
      /\ e.action = approvals[calls[w].id].action
      /\ e.content = approvals[calls[w].id].content
  BY <1>2, <1>3, <1>5 DEF Used
<1> HIDE DEF e
<1>6. /\ approvals'[calls[w].id] = e /\ Len(approvals') = Len(approvals)
      /\ Spent(approvals') = Spent(approvals) /\ Grown(approvals, approvals')
  BY <1>3, <1>4, <1>5, <1>a, ApprovalAltered
<1>7. calls' = [calls EXCEPT ![w] = k]
  BY DEF Check, Step
<1>8. k \in CallType /\ k.op = calls[w].op /\ k.step = "write"
      /\ k.seen = calls[w].seen /\ k.id = calls[w].id
  BY CallFields DEF CallType
<1> HIDE DEF k
<1>9. k.op = "create" => github.pulls = <<>>
  <2>1. ASSUME k.op = "create" PROVE Len(github.pulls) = 0
    <3>1. 1 .. Len(github.pulls) = {}
      BY <1>8, <2>1 DEF Check, Allowed, CanCreate, FindByHead
    <3>2. Len(github.pulls) \in Nat
      BY Lengths DEF RemoteInv
    <3>3. QED
      BY <3>1, <3>2
  <2>2. QED
    BY <2>1, Lengths, EmptySeq DEF RemoteInv
<1>10. Fits(w, k, approvals', github.pulls, manifest)
  <2>1. Decided(w, k, approvals', github.pulls, manifest)
    <3>1. w = "user" /\ k.id \in 1 .. Len(approvals') /\ approvals'[k.id] = e
      BY <1>1, <1>6, <1>8, DecidedCall
    <3>2. e.action = k.op
      BY <1>1, <1>3, <1>8, DecidedCall
    <3>3. QED
      BY <1>3, <1>8, <1>9, <3>1, <3>2 DEF Decided
  <2>2. Later(approvals, github.pulls, manifest, approvals', github.pulls, manifest)
    BY <1>6, Lengths DEF Later, RemoteInv
  <2>3. Truthful(k.seen, approvals', github.pulls)
    BY <1>8, <2>2, CallFields, TruthStays DEF Fits
  <2>4. QED
    BY <1>8, <2>1, <2>3, CallFields DEF Fits
<1>12. /\ Len(github'.pulls) \in Nat /\ github' \in GithubType
       /\ Len(github'.pulls) <= 1 /\ Len(github.pulls) <= Len(github'.pulls)
       /\ github'.thread.resolved => github'.thread.comments >= 2
       /\ github'.thread.comments <= Cardinality(Spent(approvals')) + 2
  BY <1>6, Lengths DEF Check, RemoteInv, TypeOK
<1>b. Heard'
  <2>1. k.op = "resolve" => github.thread.comments >= 2
    BY <1>8 DEF Check, Allowed, CanResolve
  <2>2. github'.thread.comments \in Int /\ github.thread.comments = github'.thread.comments
    BY Bounds DEF RemoteInv, TypeOK, GithubType, Check
  <2>3. github.thread.comments <= github'.thread.comments
    BY <2>2
  <2>4. k.step # "write" \/ k.op # "resolve" \/ github.thread.comments >= 2
    BY <2>1
  <2>5. QED
    BY <1>7, <2>2, <2>3, <2>4, HeardStays
<1>13. github' = github /\ UNCHANGED <<login, prepared, manifest, worktree, others>>
  BY DEF Check
<1>14. QED
  BY <1>1, <1>3, <1>4, <1>7, <1>8, <1>10, <1>a, <1>12, <1>13, <1>b, Spends

\* What a request may write: what was shown, and a push anything.
Writes(w) ==
  \E c \in Contents :
    /\ Written(w, c)
    /\ calls[w].op # "publish" => c = Content(w)

\* What was shown may be written.
LEMMA ShownIsWritten ==
  ASSUME RemoteInv, NEW w \in Worker, calls[w].step = "write", Written(w, Content(w))
  PROVE  Writes(w)
BY DecidedCall DEF Deciding, Content, Writes

\* Whoever writes holds an approval that was used up for it, and writes once.
LEMMA WritesOnce ==
  ASSUME RemoteInv, NEW w \in Worker, calls[w].step = "write", Writes(w)
  PROVE  /\ w = "user" /\ calls[w].id \in 1 .. Len(approvals)
         /\ Approval(w) = approvals[calls[w].id]
         /\ approvals'[calls[w].id] \in ApprovalType /\ Used(approvals'[calls[w].id])
         /\ approvals'[calls[w].id].action = calls[w].op
         /\ approvals'[calls[w].id].action = Approval(w).action
         /\ approvals'[calls[w].id].content = Approval(w).content
         /\ approvals'[calls[w].id].status = "consumed"
         /\ approvals' = [approvals EXCEPT ![calls[w].id] = approvals'[calls[w].id]]
         /\ Len(approvals') = Len(approvals)
         /\ Grown(approvals, approvals')
         /\ Cardinality(Spent(approvals')) = Cardinality(Spent(approvals)) + 1
         /\ Cardinality(Spent(approvals)) \in Nat
         /\ Cardinality(Spent(approvals')) <= MaxRequests
<1>1. PICK c \in Contents :
        /\ Written(w, c)
        /\ calls[w].op # "publish" => c = Content(w)
  BY DEF Writes
<1> DEFINE a == Approval(w)
           e == [a EXCEPT !.written = <<c>>]
<1>2. /\ w = "user" /\ calls[w].id \in 1 .. Len(approvals)
      /\ a = approvals[calls[w].id] /\ a.action = calls[w].op
      /\ a \in ApprovalType /\ a.status = "consumed" /\ a.written = <<>>
  BY DecidedCall DEF Approval, Decided, Deciding
<1>3. Append(a.written, c) = <<c>>
  <2>1. Append(<<>>, c) = <<c>>
    OBVIOUS
  <2>2. QED
    BY <1>2, <2>1
<1>4. /\ e \in ApprovalType /\ e.action = a.action /\ e.content = a.content
      /\ e.status = "consumed" /\ e.written = <<c>>
  <2>1. <<c>> \in Seq(Contents)
    OBVIOUS
  <2>2. QED
    BY <1>2, <2>1 DEF ApprovalType
<1>5. approvals' = [approvals EXCEPT ![calls[w].id] = e]
  <2>1. approvals' = [approvals EXCEPT ![calls[w].id].written = Append(@, c)]
    BY <1>1 DEF Written
  <2>2. approvals' =
          [approvals EXCEPT ![calls[w].id] =
             [approvals[calls[w].id] EXCEPT !.written =
                Append(approvals[calls[w].id].written, c)]]
    BY <2>1
  <2>3. QED
    BY <1>2, <1>3, <2>2
<1>6. Used(e) /\ e.written # <<>>
  <2>1. a.action # "publish" => c = a.content
    BY <1>1, <1>2 DEF Content
  <2>2. QED
    BY <1>4, <2>1 DEF Used
<1>a. /\ e.action = approvals[calls[w].id].action
      /\ e.content = approvals[calls[w].id].content
      /\ approvals[calls[w].id].written = <<>>
  BY <1>2, <1>4
<1> HIDE DEF e, a
<1>7. /\ Len(approvals') = Len(approvals) /\ approvals'[calls[w].id] = e
      /\ Grown(approvals, approvals')
      /\ Cardinality(Spent(approvals')) = Cardinality(Spent(approvals)) + 1
  BY <1>2, <1>4, <1>5, <1>6, <1>a, ApprovalAltered
<1>8. /\ Cardinality(Spent(approvals)) \in Nat
      /\ Cardinality(Spent(approvals')) <= Len(approvals')
  BY <1>7, Lengths, SpentBounded DEF RemoteInv
<1>9. Cardinality(Spent(approvals')) <= MaxRequests
  BY <1>7, <1>8, Lengths, Bounds DEF RemoteInv, TypeOK
<1>10. QED
  BY <1>2, <1>4, <1>5, <1>6, <1>7, <1>8, <1>9 DEF a

\* After the write the call goes on to k; what GitHub holds is of its type.
LEMMA WriteGoesOn ==
  ASSUME RemoteInv, NEW w \in Worker, calls[w].step = "write", Writes(w),
         NEW k \in CallType, calls' = [calls EXCEPT ![w] = k], k.step # "write",
         UNCHANGED <<login, prepared, manifest, worktree, others>>,
         Len(github.pulls) <= Len(github'.pulls), Len(github'.pulls) \in Nat,
         Len(github'.pulls) <= 1,
         Fits(w, k, approvals', github'.pulls, manifest),
         github' \in GithubType,
         github'.thread.resolved => github'.thread.comments >= 2,
         github.thread.comments <= github'.thread.comments,
         github'.thread.comments <= github.thread.comments + 1
  PROVE  RemoteInv'
<1>1. github'.thread.comments <= Cardinality(Spent(approvals')) + 2
  <2>1. github.thread.comments \in Int /\ github'.thread.comments \in Int
    BY Bounds DEF RemoteInv, TypeOK, GithubType
  <2>2. github.thread.comments <= Cardinality(Spent(approvals)) + 2
    BY DEF RemoteInv
  <2>3. QED
    BY <2>1, <2>2, WritesOnce
<1>2. Deciding(calls[w])
  BY DEF Deciding
<1>3. Heard'
  <2>1. github'.thread.comments \in Int
    BY Bounds DEF GithubType
  <2>2. QED
    BY <2>1, HeardStays
<1>4. QED
  BY <1>1, <1>2, <1>3, WritesOnce, Spends

\* A call that has written and now looks at the result.
LEMMA WrittenFits ==
  ASSUME RemoteInv, NEW w \in Worker, calls[w].step = "write", Writes(w),
         NEW P, Len(P) \in Nat, Len(github.pulls) <= Len(P),
         NEW k, k.op = calls[w].op, k.id = calls[w].id,
         Truthful(k.seen, approvals', P),
         k.seen = calls[w].seen \/ (k.op = "create" /\ k.seen.pull = 1),
         \/ k.op = "publish" /\ k.step = "verify"
         \/ k.op = "update" /\ k.step = "save"
         \/ k.op = "create" /\ k.step = "save" /\ k.seen.pull = 1
  PROVE  Fits(w, k, approvals', P, manifest)
<1>1. /\ w = "user" /\ k.id \in 1 .. Len(approvals')
      /\ approvals'[k.id].action = k.op /\ approvals'[k.id].status = "consumed"
  BY WritesOnce
<1>2. Decided(w, k, approvals', P, manifest)
  BY <1>1 DEF Decided
<1>3. QED
  BY <1>2, CallFields DEF Fits

\* What the writer has read before stays true.
LEMMA SeenStays ==
  ASSUME RemoteInv, NEW w \in Worker, calls[w].step = "write", Writes(w),
         NEW P, Len(P) \in Nat, Len(github.pulls) <= Len(P)
  PROVE  Truthful(calls[w].seen, approvals', P)
<1>1. Later(approvals, github.pulls, manifest, approvals', P, manifest)
  BY WritesOnce, Lengths DEF Later, RemoteInv
<1>2. QED
  BY <1>1, CallFields, TruthStays DEF Fits

\* A comment is written under its approval.
LEMMA ReplyKeeps ==
  ASSUME RemoteInv, NEW w \in Worker, Reply(w)
  PROVE  RemoteInv'
<1>1. calls[w].step = "write" /\ Writes(w)
  BY ShownIsWritten DEF Reply, At
<1>2. /\ github \in GithubType /\ github.thread.comments \in 1 .. MaxRequests + 2
      /\ github.thread.comments <= Cardinality(Spent(approvals)) + 2
      /\ Len(github.pulls) \in Nat /\ Len(github.pulls) <= 1
      /\ github.thread.resolved => github.thread.comments >= 2
  BY Lengths DEF RemoteInv, TypeOK, GithubType
<1>3. github' = [github EXCEPT !.thread =
                   [github.thread EXCEPT !.comments = github.thread.comments + 1]]
  BY DEF Reply
<1>4. github.thread.comments + 1 \in 1 .. MaxRequests + 2
  BY <1>1, <1>2, WritesOnce, Bounds
<1>5. /\ github' \in GithubType /\ github'.pulls = github.pulls
      /\ github'.thread.comments = github.thread.comments + 1
      /\ github'.thread.resolved = github.thread.resolved
  BY <1>2, <1>3, <1>4 DEF GithubType
<1>6. calls' = [calls EXCEPT ![w] = Idle]
  BY DEF Reply, Answer
<1>7. Fits(w, Idle, approvals', github'.pulls, manifest)
  BY <1>2, <1>5, IdleFits
<1>8. UNCHANGED <<login, prepared, manifest, worktree, others>>
  BY DEF Reply
<1>9. /\ Len(github.pulls) <= Len(github'.pulls)
      /\ Len(github'.pulls) \in Nat /\ Len(github'.pulls) <= 1
      /\ github.thread.comments <= github'.thread.comments
      /\ github'.thread.comments <= github.thread.comments + 1
      /\ github'.thread.resolved => github'.thread.comments >= 2
  BY <1>2, <1>5
<1>10. QED
  BY <1>1, <1>5, <1>6, <1>7, <1>8, <1>9, Basics, WriteGoesOn

\* A thread is resolved under its approval, after an answer to it.
LEMMA ResolveKeeps ==
  ASSUME RemoteInv, NEW w \in Worker, Resolve(w)
  PROVE  RemoteInv'
<1>1. calls[w].step = "write" /\ Writes(w)
  BY ShownIsWritten DEF Resolve, At
<1>2. /\ github \in GithubType /\ github.thread.comments \in 1 .. MaxRequests + 2
      /\ Len(github.pulls) \in Nat /\ Len(github.pulls) <= 1
  BY Lengths DEF RemoteInv, TypeOK, GithubType
<1>3. github.thread.comments >= 2
  BY DEF Resolve, At, RemoteInv, Heard
<1>4. github' = [github EXCEPT !.thread = [github.thread EXCEPT !.resolved = TRUE]]
  BY DEF Resolve
<1>5. /\ github' \in GithubType /\ github'.pulls = github.pulls
      /\ github'.thread.comments = github.thread.comments
  BY <1>2, <1>4 DEF GithubType
<1>6. calls' = [calls EXCEPT ![w] = Idle]
  BY DEF Resolve, Answer
<1>7. Fits(w, Idle, approvals', github'.pulls, manifest)
  BY <1>2, <1>5, IdleFits
<1>8. UNCHANGED <<login, prepared, manifest, worktree, others>>
  BY DEF Resolve
<1>9. /\ Len(github.pulls) <= Len(github'.pulls)
      /\ Len(github'.pulls) \in Nat /\ Len(github'.pulls) <= 1
      /\ github.thread.comments <= github'.thread.comments
      /\ github'.thread.comments <= github.thread.comments + 1
      /\ github'.thread.resolved => github'.thread.comments >= 2
  BY <1>2, <1>3, <1>5, Bounds
<1>10. QED
  BY <1>1, <1>5, <1>6, <1>7, <1>8, <1>9, Basics, WriteGoesOn


\* A commit is pushed under its approval.
LEMMA PushKeeps ==
  ASSUME RemoteInv, NEW w \in Worker, Push(w)
  PROVE  RemoteInv'
<1>1. calls[w].step = "write" /\ Writes(w) /\ calls[w].op = "publish"
  BY DEF Push, At, Writes, Contents, RemoteInv, TypeOK
<1>2. /\ github \in GithubType /\ worktree \in Commits
      /\ github.thread.comments \in Int
      /\ Len(github.pulls) \in Nat /\ Len(github.pulls) <= 1
      /\ github.thread.resolved => github.thread.comments >= 2
  BY Lengths, Bounds DEF RemoteInv, TypeOK, GithubType
<1>3. /\ github' \in GithubType /\ github'.pulls = github.pulls
      /\ github'.thread = github.thread
  BY <1>2 DEF Push, GithubType
<1>4. UNCHANGED <<login, prepared, manifest, worktree, others>>
  BY DEF Push
<1>a. /\ Len(github.pulls) <= Len(github'.pulls)
      /\ Len(github'.pulls) \in Nat /\ Len(github'.pulls) <= 1
      /\ github.thread.comments <= github'.thread.comments
      /\ github'.thread.comments <= github.thread.comments + 1
      /\ github'.thread.resolved => github'.thread.comments >= 2
  BY <1>2, <1>3
<1>5. CASE Answer(w)
  <2>1. Fits(w, Idle, approvals', github'.pulls, manifest)
    BY <1>2, <1>3, IdleFits
  <2>2. calls' = [calls EXCEPT ![w] = Idle] /\ Idle \in CallType
        /\ Idle.step # "write"
    BY <1>5, Basics DEF Answer
  <2>3. QED
    BY <1>1, <1>3, <1>4, <1>a, <2>1, <2>2, WriteGoesOn
<1>6. CASE Step(w, "verify")
  <2> DEFINE k == [calls[w] EXCEPT !.step = "verify"]
  <2>1. calls' = [calls EXCEPT ![w] = k]
    BY <1>6 DEF Step
  <2>2. k \in CallType /\ k.op = "publish" /\ k.step = "verify"
        /\ k.seen = calls[w].seen /\ k.id = calls[w].id
    BY <1>1, CallFields DEF CallType
  <2> HIDE DEF k
  <2>3. Truthful(k.seen, approvals', github'.pulls)
    BY <1>1, <1>2, <1>3, <2>2, SeenStays
  <2>4. Fits(w, k, approvals', github'.pulls, manifest)
    BY <1>1, <1>2, <1>3, <2>2, <2>3, WrittenFits
  <2>5. QED
    BY <1>1, <1>3, <1>4, <1>a, <2>1, <2>2, <2>4, WriteGoesOn
<1>7. QED
  BY <1>5, <1>6 DEF Push, Then

\* A pull request is changed under its approval.
LEMMA UpdateKeeps ==
  ASSUME RemoteInv, NEW w \in Worker, Update(w)
  PROVE  RemoteInv'
<1>1. calls[w].step = "write" /\ Writes(w) /\ calls[w].op = "update"
  BY ShownIsWritten DEF Update, At
<1>2. /\ github \in GithubType /\ Content(w) \in Contents
      /\ github.thread.comments \in Int
      /\ Len(github.pulls) \in Nat /\ Len(github.pulls) <= 1
      /\ github.thread.resolved => github.thread.comments >= 2
  BY <1>1, Lengths, Bounds, DecidedCall DEF RemoteInv, TypeOK, GithubType, Deciding, Content
<1>3. calls[w].seen.pull \in 1 .. Len(github.pulls)
  BY <1>1, <1>2, CallFields DEF Fits, Truthful, Pulled
<1> DEFINE n == calls[w].seen.pull
           pull == [github.pulls[n] EXCEPT !.title = Content(w)]
<1>4. github' = [github EXCEPT !.pulls = [github.pulls EXCEPT ![n] = pull]]
  BY DEF Update
<1>5. pull \in [title : Contents, open : BOOLEAN, by : {"agent"}]
  <2>1. github.pulls[n] \in [title : Contents, open : BOOLEAN, by : {"agent"}]
    BY <1>3, Lengths, ElementOfSeq DEF RemoteInv
  <2>2. QED
    BY <1>2, <2>1
<1> HIDE DEF pull, n
<1>6. /\ [github.pulls EXCEPT ![n] = pull]
           \in Seq([title : Contents, open : BOOLEAN, by : {"agent"}])
      /\ Len([github.pulls EXCEPT ![n] = pull]) = Len(github.pulls)
  BY <1>3, <1>5, Lengths, ExceptSeq DEF n, RemoteInv
<1>7. /\ github' \in GithubType /\ Len(github'.pulls) = Len(github.pulls)
      /\ github'.thread = github.thread
  BY <1>2, <1>4, <1>6 DEF GithubType
<1>8. UNCHANGED <<login, prepared, manifest, worktree, others>>
  BY DEF Update
<1>a. /\ Len(github.pulls) <= Len(github'.pulls)
      /\ Len(github'.pulls) \in Nat /\ Len(github'.pulls) <= 1
      /\ github.thread.comments <= github'.thread.comments
      /\ github'.thread.comments <= github.thread.comments + 1
      /\ github'.thread.resolved => github'.thread.comments >= 2
  BY <1>2, <1>7
<1>9. CASE Answer(w)
  <2>1. Fits(w, Idle, approvals', github'.pulls, manifest)
    BY <1>2, <1>7, IdleFits
  <2>2. calls' = [calls EXCEPT ![w] = Idle] /\ Idle \in CallType
        /\ Idle.step # "write"
    BY <1>9, Basics DEF Answer
  <2>3. QED
    BY <1>1, <1>7, <1>8, <1>a, <2>1, <2>2, WriteGoesOn
<1>10. CASE Step(w, "save")
  <2> DEFINE k == [calls[w] EXCEPT !.step = "save"]
  <2>1. calls' = [calls EXCEPT ![w] = k]
    BY <1>10 DEF Step
  <2>2. k \in CallType /\ k.op = "update" /\ k.step = "save"
        /\ k.seen = calls[w].seen /\ k.id = calls[w].id
    BY <1>1, CallFields DEF CallType
  <2> HIDE DEF k
  <2>3. Truthful(k.seen, approvals', github'.pulls)
    BY <1>1, <1>2, <1>7, <2>2, SeenStays
  <2>4. Fits(w, k, approvals', github'.pulls, manifest)
    BY <1>1, <1>2, <1>7, <2>2, <2>3, WrittenFits
  <2>5. QED
    BY <1>1, <1>7, <1>8, <1>a, <2>1, <2>2, <2>4, WriteGoesOn
<1>11. QED
  BY <1>9, <1>10 DEF Update, Then

\* A pull request is created under its approval, and only where there was none.
LEMMA CreateKeeps ==
  ASSUME RemoteInv, NEW w \in Worker, Create(w)
  PROVE  RemoteInv'
<1> DEFINE pull == [title |-> Content(w), open |-> TRUE, by |-> "agent"]
<1>1. /\ calls[w].step = "write" /\ Writes(w) /\ calls[w].op = "create"
      /\ Deciding(calls[w])
  BY ShownIsWritten DEF Create, At, Deciding
<1>2. /\ github \in GithubType /\ Content(w) \in Contents
      /\ github.thread.comments \in Int
      /\ github.thread.resolved => github.thread.comments >= 2
  BY <1>1, Bounds, DecidedCall DEF RemoteInv, TypeOK, GithubType, Content
<1>3. github.pulls = <<>>
  BY <1>1, DecidedCall DEF Decided
<1>4. github' = [github EXCEPT !.pulls = <<pull>>]
  BY <1>3 DEF Create
<1>5. <<pull>> \in Seq([title : Contents, open : BOOLEAN, by : {"agent"}])
  BY <1>2
<1>6. /\ github' \in GithubType /\ Len(github'.pulls) = 1 /\ Len(github.pulls) = 0
      /\ github'.thread = github.thread
  BY <1>2, <1>3, <1>4, <1>5 DEF GithubType
<1>7. UNCHANGED <<login, prepared, manifest, worktree, others>>
  BY DEF Create
<1>a. /\ Len(github.pulls) <= Len(github'.pulls)
      /\ Len(github'.pulls) \in Nat /\ Len(github'.pulls) <= 1
      /\ github.thread.comments <= github'.thread.comments
      /\ github'.thread.comments <= github.thread.comments + 1
      /\ github'.thread.resolved => github'.thread.comments >= 2
  BY <1>2, <1>6
<1>8. CASE Answer(w)
  <2>1. Fits(w, Idle, approvals', github'.pulls, manifest)
    BY <1>6, IdleFits
  <2>2. calls' = [calls EXCEPT ![w] = Idle] /\ Idle \in CallType
        /\ Idle.step # "write"
    BY <1>8, Basics DEF Answer
  <2>3. QED
    BY <1>1, <1>6, <1>7, <1>a, <2>1, <2>2, WriteGoesOn
<1>9. CASE calls' = [calls EXCEPT ![w].step = "save", ![w].seen.pull = Len(github'.pulls)]
  <2> DEFINE seen == [calls[w].seen EXCEPT !.pull = 1]
             k == [calls[w] EXCEPT !.step = "save", !.seen = seen]
  <2>1. calls' = [calls EXCEPT ![w] = k]
    BY <1>6, <1>9, CallFields DEF RemoteInv, TypeOK, CallType, ManifestType
  <2>2. seen \in ManifestType /\ seen.pull = 1 /\ seen.published = calls[w].seen.published
    <3>1. 1 \in 0 .. MaxRequests
      BY <1>1, WritesOnce, Bounds, Lengths DEF RemoteInv, TypeOK
    <3>2. QED
      BY <3>1, CallFields DEF ManifestType
  <2>3. Truthful(seen, approvals', github'.pulls)
    BY <1>1, <1>6, <2>2, SeenStays DEF Truthful
  <2> HIDE DEF seen
  <2>4. k \in CallType /\ k.op = "create" /\ k.step = "save"
        /\ k.seen = seen /\ k.id = calls[w].id
    BY <1>1, <2>2, CallFields DEF CallType
  <2> HIDE DEF k
  <2>5. Fits(w, k, approvals', github'.pulls, manifest)
    BY <1>1, <1>6, <2>2, <2>3, <2>4, WrittenFits
  <2>6. QED
    BY <1>1, <1>6, <1>7, <1>a, <2>1, <2>4, <2>5, WriteGoesOn
<1>10. QED
  BY <1>8, <1>9 DEF Create

\* What is saved replaces the manifest and loses nothing of it.
Saved(w) == IF calls[w].op = "publish" THEN Published(w) ELSE calls[w].seen

\* What a request saves is true: it was approved and is on GitHub.
LEMMA SavedIsTrue ==
  ASSUME RemoteInv, NEW w \in Worker, Save(w)
  PROVE  /\ manifest' = Saved(w) /\ Saved(w) \in ManifestType
         /\ Truthful(Saved(w), approvals, github.pulls)
         /\ manifest.pull = 1 => Saved(w).pull = 1
         /\ w = "user" \/ Saved(w).pull = manifest.pull
<1>1. /\ calls[w].step = "save" /\ calls[w].seen \in ManifestType
      /\ Truthful(calls[w].seen, approvals, github.pulls)
      /\ calls[w].op \in {"publish", "create", "update", "checks"}
      /\ calls[w].op \in {"update", "checks"} => Pulled(calls[w].seen, manifest)
  BY CallFields DEF Save, At, Fits
<1>2. manifest' = Saved(w)
  BY DEF Save, Saves, Saved
<1>3. CASE calls[w].op = "publish"
  <2>1. Deciding(calls[w])
    BY <1>1, <1>3 DEF Deciding, Writing
  <2>2. /\ Decided(w, calls[w], approvals, github.pulls, manifest)
        /\ Approval(w).action = "publish" /\ Approval(w).content \in Commits
    BY <1>3, <2>1, DecidedCall
  <2>3. /\ calls[w].id \in 1 .. Len(approvals)
        /\ approvals[calls[w].id].status = "consumed"
        /\ calls[w].seen.pull = manifest.pull /\ w = "user"
    BY <1>1, <1>3, <2>2 DEF Decided
  <2>4. Approved(Approval(w).content, approvals)
    BY <2>2, <2>3 DEF Approved, Approval
  <2>5. Saved(w) = [calls[w].seen EXCEPT !.published = Approval(w).content]
    BY <1>3 DEF Saved, Published, Content
  <2>6. /\ Saved(w) \in ManifestType /\ Saved(w).published = Approval(w).content
        /\ Saved(w).pull = calls[w].seen.pull
    BY <1>1, <2>2, <2>5 DEF ManifestType
  <2>7. Truthful(Saved(w), approvals, github.pulls)
    BY <1>1, <2>4, <2>6 DEF Truthful
  <2>8. QED
    BY <1>2, <2>3, <2>6, <2>7
<1>4. CASE calls[w].op = "create"
  <2>1. Deciding(calls[w])
    BY <1>1, <1>4 DEF Deciding, Writing
  <2>2. calls[w].seen.pull = 1 /\ w = "user"
    BY <1>1, <1>4, <2>1, DecidedCall DEF Decided
  <2>3. QED
    BY <1>1, <1>2, <1>4, <2>2 DEF Saved
<1>5. CASE calls[w].op \in {"update", "checks"}
  BY <1>1, <1>2, <1>5 DEF Saved, Pulled
<1>6. QED
  BY <1>1, <1>3, <1>4, <1>5

\* The manifest that is saved replaces the one that was read, and loses no pull
\* request by it.
LEMMA SaveKeeps ==
  ASSUME RemoteInv, NEW w \in Worker, Save(w)
  PROVE  RemoteInv'
<1>1. /\ calls' = [calls EXCEPT ![w] = Idle]
      /\ UNCHANGED <<login, approvals, prepared, worktree, github, others>>
  BY DEF Save, Answer
<1>2. Later(approvals, github.pulls, manifest, approvals', github'.pulls, manifest')
  BY <1>1, SavedIsTrue, Lengths DEF Later, Grown, RemoteInv
<1>3. w = "user" \/ Beside(approvals, github.pulls, manifest,
                           approvals', github'.pulls, manifest')
  BY <1>1, SavedIsTrue DEF Beside
<1>4. Fits(w, Idle, approvals', github'.pulls, manifest')
  BY <1>1, IdleFits, Lengths DEF RemoteInv
<1>5. /\ calls' \in [Worker -> CallType]
      /\ \A v \in Worker : Fits(v, calls'[v], approvals', github'.pulls, manifest')
  BY <1>1, <1>2, <1>3, <1>4, Basics, CallGoes
<1>6. /\ prepared' \subseteq PreparedType
      /\ \A p \in prepared' :
           p.id <= Len(approvals') /\ Kept(p, approvals', github'.pulls, manifest')
  BY <1>1, <1>2, PreparedStay
<1>7. TypeOK'
  BY <1>1, <1>5, <1>6, SavedIsTrue DEF RemoteInv, TypeOK
<1>8. Heard'
  BY <1>1, Basics DEF Heard, At, RemoteInv, TypeOK
<1>9. Truthful(manifest', approvals', github'.pulls)
  BY <1>1, SavedIsTrue
<1>10. QED
  BY <1>1, <1>5, <1>6, <1>7, <1>8, <1>9 DEF RemoteInv

\* A step that no call takes: other people, the task itself, a login.
LEMMA OtherStep ==
  ASSUME RemoteInv, UNCHANGED <<approvals, calls>>, prepared' \subseteq prepared,
         login' \in 1 .. MaxLogins, others' \in 0 .. MaxOthers, worktree' \in Commits,
         manifest' \in ManifestType, manifest'.published = manifest.published,
         manifest'.pull = manifest.pull,
         github' \in GithubType, Len(github'.pulls) = Len(github.pulls),
         github.pulls = <<>> => github'.pulls = <<>>,
         github.thread.comments <= github'.thread.comments,
         github'.thread.comments <= Cardinality(Spent(approvals)) + 2,
         github'.thread.resolved => github'.thread.comments >= 2
  PROVE  RemoteInv'
<1>1. /\ Later(approvals, github.pulls, manifest, approvals', github'.pulls, manifest')
      /\ Beside(approvals, github.pulls, manifest, approvals', github'.pulls, manifest')
  BY Lengths DEF Later, Grown, Beside, RemoteInv
<1>2. \A v \in Worker : Fits(v, calls'[v], approvals', github'.pulls, manifest')
  BY <1>1, CallsStay
<1>3. /\ prepared' \subseteq PreparedType
      /\ \A p \in prepared' :
           p.id <= Len(approvals') /\ Kept(p, approvals', github'.pulls, manifest')
  BY <1>1, PreparedStay
<1>4. Truthful(manifest', approvals', github'.pulls)
  <2>1. Truthful(manifest, approvals', github'.pulls)
    BY <1>1, TruthStays DEF RemoteInv
  <2>2. QED
    BY <2>1 DEF Truthful
<1>5. Heard'
  <2>1. github.thread.comments \in Int /\ github'.thread.comments \in Int
    BY Bounds DEF RemoteInv, TypeOK, GithubType
  <2>2. QED
    BY <2>1 DEF Heard, At, RemoteInv
<1>6. TypeOK'
  BY <1>3 DEF RemoteInv, TypeOK
<1>7. QED
  BY <1>2, <1>3, <1>4, <1>5, <1>6 DEF RemoteInv

\* What such a step leaves alone fits as it did.
LEMMA SameFits ==
  ASSUME RemoteInv
  PROVE  /\ login \in 1 .. MaxLogins /\ others \in 0 .. MaxOthers /\ worktree \in Commits
         /\ manifest \in ManifestType /\ github \in GithubType
         /\ github.thread.comments \in Int
         /\ github.thread.comments <= Cardinality(Spent(approvals)) + 2
         /\ github.thread.resolved => github.thread.comments >= 2
         /\ Cardinality(Spent(approvals)) \in Nat
         /\ github.pulls \in Seq([title : Contents, open : BOOLEAN, by : {"agent"}])
         /\ Len(github.pulls) \in Nat
<1>1. TypeOK
  BY DEF RemoteInv
<1>2. Cardinality(Spent(approvals)) \in Nat
  BY <1>1, Lengths, SpentBounded
<1>3. github.thread.comments \in Int
  BY <1>1, Bounds DEF TypeOK, GithubType
<1>4. QED
  BY <1>1, <1>2, <1>3, Lengths DEF RemoteInv, TypeOK

\* A new login makes older approvals undecidable, and nothing else.
LEMMA LoginKeeps ==
  ASSUME RemoteInv, Authenticate
  PROVE  RemoteInv'
<1>1. login' \in 1 .. MaxLogins
  BY SameFits, Bounds DEF Authenticate
<1>2. github.thread.comments <= github'.thread.comments
  BY SameFits DEF Authenticate
<1>3. QED
  BY <1>1, <1>2, SameFits, OtherStep DEF Authenticate

\* What was prepared is gone when the task cannot be read again.
LEMMA ContextKeeps ==
  ASSUME RemoteInv, NEW p \in prepared, ContextFails(p)
  PROVE  RemoteInv'
<1>1. github.thread.comments <= github'.thread.comments
  BY SameFits DEF ContextFails
<1>2. QED
  BY <1>1, SameFits, OtherStep DEF ContextFails

\* A commit more, within the bound.
LEMMA Grows ==
  ASSUME NEW s \in Commits, Len(s) < MaxCommits, NEW a \in Author
  PROVE  Append(s, a) \in Commits
<1>1. s \in Seq(Author)
  BY DEF Commits
<1>2. Append(s, a) \in Seq(Author) /\ Len(Append(s, a)) = Len(s) + 1 /\ Len(s) \in Nat
  BY <1>1, AppendProperties, LenProperties
<1>3. QED
  BY <1>2, Bounds DEF Commits

\* A new or a rewritten commit in the worktree is published by nobody.
LEMMA CommitKeeps ==
  ASSUME RemoteInv, Commit \/ Amend
  PROVE  RemoteInv'
<1>1. others' \in 0 .. MaxOthers
  BY SameFits, Bounds DEF Commit, Amend, Disturb
<1>2. worktree' \in Commits
  <2>1. CASE Commit
    BY <2>1, SameFits, Grows DEF Commit, Author
  <2>2. CASE Amend
    <3>1. <<"amended">> \in Seq(Author) /\ Len(<<"amended">>) = 1
      BY DEF Author
    <3>2. QED
      BY <2>2, <3>1, Bounds DEF Amend, Commits
  <2>3. QED
    BY <2>1, <2>2
<1>3. /\ manifest' \in ManifestType /\ manifest'.published = manifest.published
      /\ manifest'.pull = manifest.pull
  BY <1>2, SameFits DEF Commit, Amend, ManifestType
<1>4. github.thread.comments <= github'.thread.comments
  BY SameFits DEF Commit, Amend
<1>5. UNCHANGED <<login, approvals, prepared, github, calls>>
  BY DEF Commit, Amend
<1>6. QED
  BY <1>1, <1>2, <1>3, <1>4, <1>5, SameFits, OtherStep

\* Other people push to the branch.
LEMMA OthersPushKeeps ==
  ASSUME RemoteInv, OthersPush
  PROVE  RemoteInv'
<1>1. others' \in 0 .. MaxOthers
  BY SameFits, Bounds DEF OthersPush, Disturb
<1>2. github' = [github EXCEPT !.branch = Append(github.branch, "other")]
  BY DEF OthersPush
<1>3. Append(github.branch, "other") \in Commits
  BY SameFits, Grows DEF OthersPush, GithubType, Author
<1>4. /\ github' \in GithubType /\ github'.pulls = github.pulls
      /\ github'.thread = github.thread
  BY <1>2, <1>3, SameFits DEF GithubType
<1>5. github.thread.comments <= github'.thread.comments
  BY <1>4, SameFits
<1>6. UNCHANGED <<login, approvals, prepared, manifest, worktree, calls>>
  BY DEF OthersPush
<1>7. QED
  BY <1>1, <1>4, <1>5, <1>6, SameFits, OtherStep

\* Other people comment on the pull request, change or close it.
LEMMA OthersOnPullKeeps ==
  ASSUME RemoteInv, OthersOnPull
  PROVE  RemoteInv'
<1> DEFINE Pull == [title : Contents, open : BOOLEAN, by : {"agent"}]
<1>1. others' \in 0 .. MaxOthers
  BY SameFits, Bounds DEF OthersOnPull, Disturb
<1>2. UNCHANGED <<login, approvals, prepared, manifest, worktree, calls>>
      /\ github.pulls # <<>>
  BY DEF OthersOnPull
<1>3. ASSUME NEW n \in 1 .. Len(github.pulls), NEW pull \in Pull,
             github' = [github EXCEPT !.pulls = [github.pulls EXCEPT ![n] = pull]]
      PROVE  RemoteInv'
  <2>1. /\ [github.pulls EXCEPT ![n] = pull] \in Seq(Pull)
        /\ Len([github.pulls EXCEPT ![n] = pull]) = Len(github.pulls)
    BY SameFits, ExceptSeq
  <2>2. /\ github' \in GithubType /\ Len(github'.pulls) = Len(github.pulls)
        /\ github'.thread = github.thread
    BY <1>3, <2>1, SameFits DEF GithubType
  <2>3. github.thread.comments <= github'.thread.comments
    BY <2>2, SameFits
  <2>4. QED
    BY <1>1, <1>2, <2>2, <2>3, SameFits, OtherStep
<1>4. ASSUME NEW n \in 1 .. Len(github.pulls)
      PROVE  github.pulls[n] \in Pull
  BY SameFits, ElementOfSeq
<1>5. ASSUME NEW n \in 1 .. Len(github.pulls),
             github' = [github EXCEPT !.pulls[n].open = FALSE]
      PROVE  RemoteInv'
  <2>1. [github.pulls[n] EXCEPT !.open = FALSE] \in Pull
    BY <1>4
  <2>2. github' = [github EXCEPT !.pulls =
           [github.pulls EXCEPT ![n] = [github.pulls[n] EXCEPT !.open = FALSE]]]
    BY <1>5
  <2>3. QED
    BY <2>1, <2>2, <1>3
<1>6. ASSUME NEW n \in 1 .. Len(github.pulls),
             github' = [github EXCEPT !.pulls[n].title = AnotherTitle(@)]
      PROVE  RemoteInv'
  <2> DEFINE title == AnotherTitle(github.pulls[n].title)
  <2>1. title \in Contents
    BY RemoteAssumption DEF AnotherTitle, Texts, Textual, Contents
  <2>2. [github.pulls[n] EXCEPT !.title = title] \in Pull
    BY <1>4, <2>1
  <2>3. github' = [github EXCEPT !.pulls =
           [github.pulls EXCEPT ![n] = [github.pulls[n] EXCEPT !.title = title]]]
    BY <1>6
  <2>4. QED
    BY <2>2, <2>3, <1>3
<1>7. ASSUME github.thread.comments = 1, github' = [github EXCEPT !.thread.comments = 2]
      PROVE  RemoteInv'
  <2>1. github' = [github EXCEPT !.thread = [github.thread EXCEPT !.comments = 2]]
    BY <1>7
  <2>2. /\ github' \in GithubType /\ github'.pulls = github.pulls
        /\ github'.thread.comments = 2
    <3>1. 2 \in 1 .. MaxRequests + 2
      BY Bounds
    <3>2. [github.thread EXCEPT !.comments = 2]
            \in [comments : 1 .. MaxRequests + 2, resolved : BOOLEAN]
      BY <3>1, SameFits DEF GithubType
    <3>3. QED
      BY <2>1, <3>2, SameFits DEF GithubType
  <2>3. /\ github.thread.comments <= github'.thread.comments
        /\ github'.thread.comments <= Cardinality(Spent(approvals)) + 2
        /\ github'.thread.comments >= 2
    BY <1>7, <2>2, SameFits
  <2>4. QED
    BY <1>1, <1>2, <2>2, <2>3, SameFits, OtherStep
<1>8. QED
  BY <1>5, <1>6, <1>7 DEF OthersOnPull

\* A crash loses the requests and what was prepared; approvals and manifest stay.
LEMMA CrashKeeps ==
  ASSUME RemoteInv, Crash
  PROVE  RemoteInv'
<1>1. \A w \in Worker : calls'[w] = Idle
  BY DEF Crash
<1>2. calls' \in [Worker -> CallType]
  BY Basics DEF Crash
<1>3. UNCHANGED <<approvals, manifest, worktree, github, others>> /\ prepared' = {}
  BY DEF Crash
<1>4. login' \in 1 .. MaxLogins
  BY SameFits, Bounds DEF Crash
<1>5. \A w \in Worker : Fits(w, calls'[w], approvals', github'.pulls, manifest')
  BY <1>1, <1>3, IdleFits, SameFits
<1>6. TypeOK'
  BY <1>2, <1>3, <1>4 DEF RemoteInv, TypeOK
<1>7. Heard'
  BY <1>1, Basics DEF Heard, At
<1>8. QED
  BY <1>3, <1>5, <1>6, <1>7 DEF RemoteInv

\* Nothing happens.
LEMMA StutterKeeps ==
  ASSUME RemoteInv, UNCHANGED vars
  PROVE  RemoteInv'
BY DEF vars, RemoteInv, TypeOK, Heard, At

\* What is prepared is true of the manifest the call has read.
LEMMA PreparationFits ==
  ASSUME RemoteInv, NEW w \in Worker, At(w, Writing, "prepare"), NEW p \in Preparations(w)
  PROVE  /\ p.manifest \in ManifestType /\ Truthful(p.manifest, approvals, github.pulls)
         /\ p.content \in Contents
         /\ calls[w].op = "publish" => p.content \in Commits
         /\ calls[w].op = "update" => Pulled(p.manifest, manifest)
<1>1. /\ calls[w].seen \in ManifestType /\ calls[w].seen.head \in Commits
      /\ calls[w].text \in Contents /\ calls[w].op \in Writing
      /\ Truthful(calls[w].seen, approvals, github.pulls)
      /\ calls[w].op = "update" => Pulled(calls[w].seen, manifest)
  BY CallFields DEF Fits, At
<1>2. NoManifest \in ManifestType /\ NoText \in Contents
      /\ Truthful(NoManifest, approvals, github.pulls)
  BY Basics, SameFits
<1>3. CASE calls[w].op = "publish"
  <2>1. p.content = calls[w].seen.head /\ p.manifest = calls[w].seen
    BY <1>3 DEF Preparations, PreparedPublish
  <2>2. QED
    BY <1>1, <1>3, <2>1 DEF Contents
<1>4. CASE calls[w].op \in {"create", "update"}
  <2>1. p \in PreparedUpdate(w)
    BY <1>4 DEF Preparations
  <2>2. p.content = calls[w].text /\ p.manifest = calls[w].seen
    BY <2>1 DEF PreparedUpdate, PreparedPullRequest
  <2>3. QED
    BY <1>1, <1>4, <2>2
<1>5. CASE calls[w].op = "reply"
  <2>1. p.content = calls[w].text /\ p.manifest = NoManifest
    BY <1>5 DEF Preparations, PreparedReply
  <2>2. QED
    BY <1>1, <1>2, <1>5, <2>1
<1>6. CASE calls[w].op = "resolve"
  <2>1. p.content = NoText /\ p.manifest = NoManifest
    BY <1>6 DEF Preparations, PreparedResolution
  <2>2. QED
    BY <1>2, <1>6, <2>1
<1>7. QED
  BY <1>1, <1>3, <1>4, <1>5, <1>6 DEF Writing

\* A request asks for an approval; the user's waits for the decision with the
\* manifest it was prepared on.
LEMMA PrepareKeeps ==
  ASSUME RemoteInv, NEW w \in Worker, Prepare(w)
  PROVE  RemoteInv'
<1>1. PICK p \in Preparations(w) :
        /\ Request(w, p)
        /\ prepared' = IF w = "user"
                       THEN prepared \cup {[id |-> Len(approvals'), manifest |-> p.manifest]}
                       ELSE prepared
  BY DEF Prepare
<1>2. /\ p.manifest \in ManifestType /\ Truthful(p.manifest, approvals, github.pulls)
      /\ p.content \in Contents
      /\ calls[w].op = "publish" => p.content \in Commits
      /\ calls[w].op = "update" => Pulled(p.manifest, manifest)
  BY PreparationFits DEF Prepare
<1> DEFINE e == PendingApproval(calls[w].op, p.content, calls[w].login)
           q == [id |-> Len(approvals'), manifest |-> p.manifest]
<1>3. e \in ApprovalType /\ e.written = <<>> /\ e.action = calls[w].op
  <2>1. calls[w].op \in Writing /\ calls[w].login \in 0 .. MaxLogins
    BY CallFields DEF Prepare, At
  <2>2. <<>> \in Seq(Contents)
    OBVIOUS
  <2>3. QED
    BY <1>2, <2>1, <2>2 DEF PendingApproval, ApprovalType
<1>4. approvals' = Append(approvals, e)
  BY <1>1 DEF Request
<1> HIDE DEF e
<1>5. /\ approvals' \in Seq(ApprovalType) /\ Len(approvals') = Len(approvals) + 1
      /\ approvals'[Len(approvals')] = e
      /\ \A j \in 1 .. Len(approvals) : approvals'[j] = approvals[j]
      /\ Grown(approvals, approvals')
      /\ \A j \in 1 .. Len(approvals') : Used(approvals'[j])
      /\ Spent(approvals') = Spent(approvals)
  BY <1>3, <1>4, ApprovalOpened
<1>6. /\ calls' = [calls EXCEPT ![w] = Idle]
      /\ UNCHANGED <<login, manifest, worktree, github, others>>
  BY DEF Prepare, Answer
<1>7. Len(approvals) \in Nat /\ Len(approvals') \in 1 .. MaxRequests
  <2>1. Len(approvals) \in Nat /\ Len(approvals) < MaxRequests
    BY Lengths DEF RemoteInv, Prepare
  <2>2. QED
    BY <1>5, <2>1, Bounds
<1>8. /\ Later(approvals, github.pulls, manifest, approvals', github'.pulls, manifest')
      /\ Beside(approvals, github.pulls, manifest, approvals', github'.pulls, manifest')
  BY <1>5, <1>6, <1>7, SameFits DEF Later, Beside
<1>9. /\ calls' \in [Worker -> CallType]
      /\ \A v \in Worker : Fits(v, calls'[v], approvals', github'.pulls, manifest')
  <2>1. Fits(w, Idle, approvals', github'.pulls, manifest')
    BY <1>6, IdleFits, SameFits
  <2>2. QED
    BY <1>6, <1>8, <2>1, Basics, CallGoes
<1>10. /\ q \in PreparedType /\ q.id <= Len(approvals')
       /\ Kept(q, approvals', github'.pulls, manifest')
  <2>1. q \in PreparedType /\ q.id <= Len(approvals')
    BY <1>2, <1>7 DEF PreparedType
  <2>2. Truthful(p.manifest, approvals', github'.pulls)
    BY <1>2, <1>8, TruthStays
  <2>3. approvals'[q.id].action = calls[w].op
    BY <1>3, <1>5
  <2>4. QED
    BY <1>2, <1>6, <2>1, <2>2, <2>3 DEF Kept
<1> HIDE DEF q
<1>11. \A r \in prepared :
         /\ r \in PreparedType /\ r.id <= Len(approvals')
         /\ Kept(r, approvals', github'.pulls, manifest')
  <2>1. ASSUME NEW r \in prepared
        PROVE  r \in PreparedType /\ r.id \in 1 .. Len(approvals)
               /\ Kept(r, approvals, github.pulls, manifest)
    BY Bounds, <1>7 DEF RemoteInv, TypeOK, PreparedType
  <2>2. QED
    BY <1>5, <1>7, <1>8, <2>1, KeptStays DEF PreparedType
<1>12. \A r \in prepared' : r \in prepared \/ r = q
  BY <1>1 DEF q
<1>13. TypeOK'
  BY <1>5, <1>6, <1>7, <1>9, <1>10, <1>11, <1>12 DEF RemoteInv, TypeOK
<1>14. Heard'
  BY <1>6, Basics DEF Heard, At, RemoteInv, TypeOK
<1>15. Truthful(manifest', approvals', github'.pulls)
  BY <1>6, <1>8, TruthStays DEF RemoteInv
<1>16. QED
  BY <1>5, <1>6, <1>9, <1>10, <1>11, <1>12, <1>13, <1>14, <1>15 DEF RemoteInv

\* A text other than the one shown is a text.
LEMMA OtherTextFits ==
  ASSUME RemoteInv, NEW id \in 1 .. Len(approvals)
  PROVE  OtherText(id) \in Contents
<1>1. approvals[id].action \in Textual =>
        \E text \in Texts(approvals[id].action) : text # approvals[id].content
  <2>1. PICK s, t \in Text : s # t
    BY RemoteAssumption
  <2>2. \A c : <<s>> # c \/ <<t>> # c
    BY <2>1
  <2>3. ASSUME approvals[id].action \in Textual
        PROVE  <<s>> \in Texts(approvals[id].action) /\ <<t>> \in Texts(approvals[id].action)
    BY <2>3 DEF Texts
  <2>4. QED
    BY <2>2, <2>3
<1>2. QED
  BY <1>1, Basics, TextsFit DEF OtherText

\* The decision: a request goes on with the manifest and the approval it was
\* prepared with, or is dropped.
LEMMA ExecuteKeeps ==
  ASSUME RemoteInv, NEW p \in prepared, NEW text \in Contents, NEW approved \in BOOLEAN,
         Execute(p, text, approved)
  PROVE  RemoteInv'
<1> DEFINE id == p.id
<1>1. /\ id \in 1 .. Len(approvals) /\ p \in PreparedType /\ p.manifest \in ManifestType
      /\ Kept(p, approvals, github.pulls, manifest)
  BY Bounds, Lengths DEF RemoteInv, TypeOK, PreparedType
<1>2. /\ calls["user"] = Idle /\ prepared' \subseteq prepared
      /\ UNCHANGED <<login, manifest, worktree, github, others>>
  BY DEF Execute
<1>3. CASE UNCHANGED <<approvals, calls>>
  <2>1. github.thread.comments <= github'.thread.comments
    BY <1>2, SameFits
  <2>2. QED
    BY <1>2, <1>3, <2>1, SameFits, OtherStep
<1>4. CASE Decidable(id) /\ ~UNCHANGED <<approvals, calls>>
  <2> DEFINE a == approvals[id]
             e == [a EXCEPT !.status = IF approved THEN "approved" ELSE "denied"]
             k == IF ~approved THEN Idle
                  ELSE [op |-> a.action, step |-> "check", login |-> login,
                        id |-> id, text |-> text, seen |-> p.manifest, polls |-> 0]
  <2>1. a \in ApprovalType /\ a.status = "pending" /\ a.written = <<>>
    BY <1>1, <1>4, Lengths DEF Decidable, RemoteInv, Used
  <2>2. approvals' = [approvals EXCEPT ![id] = e]
    BY <1>4 DEF Execute
  <2>3. calls' = [calls EXCEPT !["user"] = k]
    BY <1>4 DEF Execute
  <2>4. /\ e \in ApprovalType /\ e.action = a.action /\ e.content = a.content
        /\ e.written = <<>> /\ Used(e)
    BY <2>1 DEF ApprovalType, Used
  <2>a. /\ e.action = approvals[id].action /\ e.content = approvals[id].content
        /\ e.written = approvals[id].written /\ approvals[id].status # "consumed"
    BY <2>1, <2>4
  <2> HIDE DEF e, a
  <2>5. /\ approvals' \in Seq(ApprovalType) /\ Len(approvals') = Len(approvals)
        /\ approvals'[id] = e
        /\ Grown(approvals, approvals')
        /\ \A j \in 1 .. Len(approvals') : Used(approvals'[j])
        /\ Spent(approvals') = Spent(approvals)
    BY <1>1, <2>2, <2>4, <2>a, ApprovalAltered
  <2>6. Later(approvals, github.pulls, manifest, approvals', github'.pulls, manifest')
    BY <1>2, <2>5, Lengths DEF Later, RemoteInv
  <2>7. k \in CallType /\ k.step # "write" /\ Fits("user", k, approvals', github'.pulls, manifest')
    <3>1. CASE ~approved
      BY <1>2, <3>1, IdleFits, Basics, SameFits
    <3>2. CASE approved
      <4>1. /\ k.op = a.action /\ k.step = "check" /\ k.id = id /\ k.seen = p.manifest
            /\ k = [op |-> a.action, step |-> "check", login |-> login,
                    id |-> id, text |-> text, seen |-> p.manifest, polls |-> 0]
        BY <3>2
      <4>2. a.action \in Writing /\ login \in 0 .. MaxLogins /\ id \in 0 .. MaxRequests
            /\ 0 \in 0 .. MaxPolls + 1
        BY <1>1, <2>1, SameFits, Bounds DEF ApprovalType, PreparedType
      <4> HIDE DEF k
      <4>3. k \in CallType
        BY <1>1, <4>1, <4>2 DEF CallType, Operation
      <4>4. Truthful(k.seen, approvals', github'.pulls)
        BY <1>1, <2>6, <4>1, TruthStays DEF Kept
      <4>5. k.op = "update" => Pulled(k.seen, manifest')
        BY <1>1, <1>2, <4>1 DEF Kept, a
      <4>6. Decided("user", k, approvals', github'.pulls, manifest')
        BY <1>1, <2>4, <2>5, <4>1 DEF Decided
      <4>7. k.op # "checks"
        BY <4>1, <4>2 DEF Writing
      <4>8. QED
        BY <4>1, <4>3, <4>4, <4>5, <4>6, <4>7 DEF Fits
    <3>3. QED
      BY <3>1, <3>2
  <2> HIDE DEF k
  <2>8. /\ calls' \in [Worker -> CallType]
        /\ \A v \in Worker : Fits(v, calls'[v], approvals', github'.pulls, manifest')
    BY <2>3, <2>6, <2>7, CallGoes DEF Worker
  <2>9. /\ prepared' \subseteq PreparedType
        /\ \A r \in prepared' :
             r.id <= Len(approvals') /\ Kept(r, approvals', github'.pulls, manifest')
    BY <1>2, <2>6, PreparedStay
  <2>10. TypeOK'
    BY <1>2, <2>5, <2>8, <2>9 DEF RemoteInv, TypeOK
  <2>11. Heard'
    BY <1>2, <2>3, <2>7 DEF Heard, At, RemoteInv, TypeOK
  <2>12. Truthful(manifest', approvals', github'.pulls)
    BY <1>2, <2>6, TruthStays DEF RemoteInv
  <2>13. QED
    BY <1>2, <2>5, <2>8, <2>9, <2>10, <2>11, <2>12 DEF RemoteInv
<1>5. QED
  BY <1>3, <1>4 DEF Execute

-----------------------------------------------------------------------------
(***************************************************************************)
(* The invariant, and what follows from it.                                *)
(***************************************************************************)

\* RemoteInv holds initially.
LEMMA RemoteInvInit == Init => RemoteInv
<1> SUFFICES ASSUME Init PROVE RemoteInv
  OBVIOUS
<1>1. <<"agent">> \in Commits
  <2>1. <<"agent">> \in Seq(Author) /\ Len(<<"agent">>) = 1
    BY DEF Author
  <2>2. QED
    BY <2>1, Bounds DEF Commits
<1>2. manifest \in ManifestType /\ worktree \in Commits
  BY <1>1, Basics, Bounds DEF Init, Manifest, ManifestType
<1>3. /\ github \in GithubType /\ github.pulls = <<>>
      /\ github.thread = [comments |-> 1, resolved |-> FALSE]
  BY Basics, Bounds DEF Init, GithubType
<1>4. approvals = <<>> /\ approvals \in Seq(ApprovalType) /\ prepared = {}
  BY DEF Init
<1>5. calls \in [Worker -> CallType] /\ \A w \in Worker : calls[w] = Idle
  BY Basics DEF Init
<1>6. TypeOK
  BY <1>2, <1>3, <1>4, <1>5, Bounds DEF Init, TypeOK
<1>7. Heard
  BY <1>5, Basics DEF Heard, At
<1>8. github.thread.comments <= Cardinality(Spent(approvals)) + 2
  BY <1>3, <1>6, Lengths, SpentBounded
<1>9. Truthful(manifest, approvals, github.pulls)
  BY <1>3 DEF Init, Manifest, Truthful
<1>10. \A w \in Worker : Fits(w, calls[w], approvals, github.pulls, manifest)
  <2>1. Len(github.pulls) \in Nat
    BY <1>3
  <2>2. QED
    BY <1>5, <2>1, IdleFits
<1>11. QED
  BY <1>3, <1>4, <1>6, <1>7, <1>8, <1>9, <1>10 DEF RemoteInv

\* Every step keeps RemoteInv.
LEMMA RemoteInvNext == RemoteInv /\ [Next]_vars => RemoteInv'
<1> SUFFICES ASSUME RemoteInv, [Next]_vars PROVE RemoteInv'
  OBVIOUS
<1>1. CASE Authenticate
  BY <1>1, LoginKeeps
<1>2. CASE Crash
  BY <1>2, CrashKeeps
<1>3. ASSUME NEW op \in Operation, NEW text \in Shown(op), Load("user", op, text)
      PROVE  RemoteInv'
  BY <1>3, TextsFit, LoadKeeps DEF Worker
<1>4. ASSUME NEW op \in AgentTools, NEW text \in Shown(op), Load("agent", op, text)
      PROVE  RemoteInv'
  <2>1. op \in Operation
    BY RemoteAssumption DEF AgentTools, Operation, Writing
  <2>2. QED
    BY <1>4, <2>1, TextsFit, LoadKeeps DEF Worker
<1>5. ASSUME NEW p \in prepared, NEW approved \in BOOLEAN,
             Execute(p, OtherText(p.id), approved)
      PROVE  RemoteInv'
  <2>1. p.id \in 1 .. Len(approvals)
    BY Bounds, Lengths DEF RemoteInv, TypeOK, PreparedType
  <2>2. QED
    BY <1>5, <2>1, OtherTextFits, ExecuteKeeps
<1>6. ASSUME NEW p \in prepared, ContextFails(p) PROVE RemoteInv'
  BY <1>6, ContextKeeps
<1>7. ASSUME NEW w \in Worker, Progress(w) \/ Fail(w) PROVE RemoteInv'
  BY <1>7, PrepareKeeps, CheckKeeps, UpdateNothingKeeps, PushKeeps, CreateKeeps,
     UpdateKeeps, ReplyKeeps, ResolveKeeps, VerifyKeeps, SaveKeeps, WatchKeeps, FailKeeps
     DEF Progress
<1>8. CASE Commit \/ Amend
  BY <1>8, CommitKeeps
<1>9. CASE OthersPush
  BY <1>9, OthersPushKeeps
<1>10. CASE OthersOnPull
  BY <1>10, OthersOnPullKeeps
<1>11. CASE UNCHANGED vars
  BY <1>11, StutterKeeps
<1>12. QED
  BY <1>1, <1>2, <1>3, <1>4, <1>5, <1>6, <1>7, <1>8, <1>9, <1>10, <1>11 DEF Next

\* RemoteInv holds in every reachable state.
LEMMA RemoteInvAlways == Spec => []RemoteInv
BY RemoteInvInit, RemoteInvNext, PTL DEF Spec

\* Every variable keeps its type, and a thread is resolved only after an answer.
THEOREM RemoteTypeCorrect == Spec => []TypeOK
<1>1. RemoteInv => TypeOK
  BY DEF RemoteInv
<1>2. QED
  BY <1>1, RemoteInvAlways, PTL

-----------------------------------------------------------------------------
(***************************************************************************)
(* What a push carries: a, the approval of the call k, asked for a commit, *)
(* and the branch goes from tree to branch, never back.                    *)
(***************************************************************************)

Pushing(k, a, tree, branch) ==
  /\ k.step = "write" => Len(a.content) <= Len(tree)
  /\ k.step = "verify" =>
       \E s \in Commits :
         a.written = <<s>> /\ Len(a.content) <= Len(s) /\ IsPrefix(s, branch)
  /\ k.step = "save" => a.written = <<a.content>>

PushInv ==
  \A w \in Worker : Deciding(calls[w]) /\ calls[w].op = "publish" =>
    Pushing(calls[w], Approval(w), worktree, github.branch)

\* A prefix of a prefix is one, and one that is as long as the whole is the whole.
LEMMA PrefixesCompose ==
  ASSUME NEW s \in Commits, NEW t \in Commits, NEW u \in Commits, IsPrefix(s, t)
  PROVE  /\ IsPrefix(s, s) /\ Len(s) \in Nat
         /\ IsPrefix(t, u) => IsPrefix(s, u)
         /\ Len(t) <= Len(s) => s = t
<1>1. /\ s \in Seq(Author) /\ t \in Seq(Author) /\ u \in Seq(Author)
      /\ Len(s) \in Nat /\ Len(t) \in Nat /\ Len(u) \in Nat
  BY LenProperties DEF Commits
<1>2. /\ Len(s) <= Len(t) /\ SubSeq(s, 1, Len(s)) = s
      /\ s = SubSeq(t, 1, Len(s))
  BY <1>1, SubSeqFull DEF IsPrefix
<1>3. \A i \in 1 .. Len(s) : s[i] = t[i]
  <2>1. \A i \in 1 .. Len(s) : SubSeq(t, 1, Len(s))[i] = t[i]
    BY <1>1, <1>2
  <2>2. QED
    BY <1>2, <2>1
<1>4. ASSUME IsPrefix(t, u) PROVE IsPrefix(s, u)
  <2>1. /\ Len(t) <= Len(u) /\ t = SubSeq(u, 1, Len(t))
    BY <1>1, <1>4, SubSeqFull DEF IsPrefix
  <2>2. \A i \in 1 .. Len(t) : SubSeq(u, 1, Len(t))[i] = u[i]
    BY <1>1, <2>1
  <2>3. \A i \in 1 .. Len(s) : s[i] = u[i]
    BY <1>1, <1>2, <1>3, <2>1, <2>2
  <2>4. /\ SubSeq(u, 1, Len(s)) \in Seq(Author) /\ Len(SubSeq(u, 1, Len(s))) = Len(s)
        /\ \A i \in 1 .. Len(s) : SubSeq(u, 1, Len(s))[i] = u[i]
    BY <1>1, <1>2, <2>1
  <2>5. s = SubSeq(u, 1, Len(s))
    BY <1>1, <2>3, <2>4, SeqEqual
  <2>6. QED
    BY <1>1, <1>2, <2>1, <2>5 DEF IsPrefix
<1>5. ASSUME Len(t) <= Len(s) PROVE s = t
  BY <1>1, <1>2, <1>5, SubSeqFull
<1>6. IsPrefix(s, s)
  BY <1>1 DEF IsPrefix
<1>7. QED
  BY <1>1, <1>4, <1>5, <1>6

\* A push is not disturbed by what only lets histories grow, and is not there
\* when the user's call is another one.
LEMMA PushStays ==
  ASSUME RemoteInv, RemoteInv', PushInv,
         \/ /\ calls'["user"] = calls["user"]
            /\ \A i \in 1 .. Len(approvals) : approvals'[i] = approvals[i]
            /\ Len(worktree) <= Len(worktree')
            /\ IsPrefix(github.branch, github'.branch)
         \/ calls'["user"].op # "publish" \/ calls'["user"].step = "check"
  PROVE  PushInv'
<1> SUFFICES ASSUME NEW w \in Worker, Deciding(calls'[w]), calls'[w].op = "publish"
             PROVE  Pushing(calls'[w], Approval(w)', worktree', github'.branch)
  BY DEF PushInv
<1>1. w = "user"
  BY DEF RemoteInv, Fits, Decided
<1>2. CASE calls'["user"].step = "check"
  BY <1>1, <1>2 DEF Pushing
<1>3. CASE /\ calls'["user"] = calls["user"]
           /\ \A i \in 1 .. Len(approvals) : approvals'[i] = approvals[i]
           /\ Len(worktree) <= Len(worktree')
           /\ IsPrefix(github.branch, github'.branch)
  <2>1. /\ Approval(w)' = Approval(w) /\ Approval(w).content \in Commits
        /\ Pushing(calls[w], Approval(w), worktree, github.branch)
    BY <1>1, <1>3, DecidedCall DEF PushInv, Approval
  <2>2. /\ worktree \in Commits /\ worktree' \in Commits
        /\ github.branch \in Commits /\ github'.branch \in Commits
    BY DEF RemoteInv, TypeOK, GithubType
  <2>3. \A s \in Commits : Len(s) \in Nat
    BY LenProperties DEF Commits
  <2>4. \A s \in Commits :
          IsPrefix(s, github.branch) => IsPrefix(s, github'.branch)
    BY <1>3, <2>2, PrefixesCompose
  <2>5. QED
    BY <1>1, <1>3, <2>1, <2>2, <2>3, <2>4 DEF Pushing
<1>4. QED
  BY <1>1, <1>2, <1>3

\* What is checked is in the worktree.
LEMMA CheckPushes ==
  ASSUME RemoteInv, RemoteInv', PushInv, NEW w \in Worker, Check(w)
  PROVE  PushInv'
<1>1. /\ w = "user" /\ calls \in [Worker -> CallType] /\ Deciding(calls[w])
      /\ calls' = [calls EXCEPT !["user"].step = "write"]
      /\ calls[w].id \in 1 .. Len(approvals)
      /\ approvals \in Seq(ApprovalType)
  BY DecidedCall DEF Check, Step, At, Deciding, RemoteInv, TypeOK
<1>2. /\ calls'["user"].step = "write" /\ calls'["user"].op = calls[w].op
      /\ calls'["user"].id = calls[w].id
  BY <1>1 DEF CallType, Worker
<1>3. CASE calls[w].op # "publish"
  BY <1>2, <1>3, PushStays
<1>4. CASE calls[w].op = "publish"
  <2>1. worktree = Content(w) /\ worktree' = worktree /\ worktree \in Commits
    BY <1>4 DEF Check, Allowed, CanPush, RemoteInv, TypeOK
  <2>2. approvals'[calls[w].id].content = approvals[calls[w].id].content
    BY <1>1 DEF Check, Consume, ApprovalType
  <2>3. ASSUME NEW v \in Worker, Deciding(calls'[v]), calls'[v].op = "publish"
        PROVE  Pushing(calls'[v], Approval(v)', worktree', github'.branch)
    <3>1. v = "user"
      BY <2>3 DEF RemoteInv, Fits, Decided
    <3>2. Approval(v)'.content = worktree'
      BY <1>1, <1>2, <2>1, <2>2, <3>1 DEF Approval, Content
    <3>3. Len(worktree') \in Nat
      BY <2>1, LenProperties DEF Commits
    <3>4. QED
      BY <1>2, <3>1, <3>2, <3>3 DEF Pushing
  <2>4. QED
    BY <2>3 DEF PushInv
<1>5. QED
  BY <1>3, <1>4

\* What is pushed is no shorter than what was approved.
LEMMA PushPushes ==
  ASSUME RemoteInv, RemoteInv', PushInv, NEW w \in Worker, Push(w)
  PROVE  PushInv'
<1>1. /\ w = "user" /\ calls \in [Worker -> CallType] /\ Deciding(calls[w])
      /\ calls[w].op = "publish" /\ calls[w].step = "write"
      /\ calls[w].id \in 1 .. Len(approvals)
      /\ approvals \in Seq(ApprovalType) /\ Approval(w).written = <<>>
      /\ worktree \in Commits /\ worktree' = worktree
      /\ github \in GithubType
  BY DecidedCall DEF Push, At, Deciding, Decided, Approval, RemoteInv, TypeOK
<1>2. github'.branch = worktree /\ IsPrefix(worktree, worktree)
  <2>1. github'.branch = worktree
    BY <1>1 DEF Push, GithubType
  <2>2. Len(worktree) \in Nat
    BY <1>1, LenProperties DEF Commits
  <2>3. QED
    BY <2>1, <2>2 DEF IsPrefix
<1>3. CASE Answer(w)
  <2>1. calls'["user"].op # "publish"
    BY <1>1, <1>3, Basics DEF Answer
  <2>2. QED
    BY <2>1, PushStays
<1>4. CASE Step(w, "verify")
  <2>1. /\ calls'["user"].step = "verify" /\ calls'["user"].id = calls[w].id
    BY <1>1, <1>4 DEF Step, CallType
  <2>2. /\ approvals'[calls[w].id].content = approvals[calls[w].id].content
        /\ approvals'[calls[w].id].written = <<worktree>>
    <3>1. Append(<<>>, worktree) = <<worktree>>
      OBVIOUS
    <3>2. approvals[calls[w].id] \in ApprovalType
      BY <1>1, Lengths DEF RemoteInv
    <3>3. QED
      BY <1>1, <3>1, <3>2 DEF Push, Written, ApprovalType, Approval
  <2>3. Len(approvals[calls[w].id].content) <= Len(worktree)
    BY <1>1 DEF PushInv, Pushing, Approval
  <2>4. ASSUME NEW v \in Worker, Deciding(calls'[v]), calls'[v].op = "publish"
        PROVE  Pushing(calls'[v], Approval(v)', worktree', github'.branch)
    <3>1. v = "user"
      BY <2>4 DEF RemoteInv, Fits, Decided
    <3>2. QED
      BY <1>1, <1>2, <2>1, <2>2, <2>3, <3>1 DEF Pushing, Approval
  <2>5. QED
    BY <2>4 DEF PushInv
<1>5. QED
  BY <1>3, <1>4 DEF Push, Then

\* The branch that is found to be the approved commit is what was pushed.
LEMMA VerifyPushes ==
  ASSUME RemoteInv, RemoteInv', PushInv, NEW w \in Worker, Verify(w)
  PROVE  PushInv'
<1>1. /\ w = "user" /\ calls \in [Worker -> CallType] /\ Deciding(calls[w])
      /\ calls[w].op = "publish" /\ calls[w].step = "verify"
      /\ Approval(w).content \in Commits /\ github.branch = Approval(w).content
      /\ approvals' = approvals
  BY DecidedCall DEF Verify, At, Deciding, Content, RemoteInv, TypeOK
<1>2. calls'["user"].step = "save" /\ calls'["user"].id = calls[w].id
  BY <1>1 DEF Verify, CallType
<1>3. Approval(w).written = <<Approval(w).content>>
  <2>1. PICK s \in Commits :
          /\ Approval(w).written = <<s>> /\ Len(Approval(w).content) <= Len(s)
          /\ IsPrefix(s, github.branch)
    BY <1>1 DEF PushInv, Pushing
  <2>2. s = Approval(w).content
    BY <1>1, <2>1, PrefixesCompose
  <2>3. QED
    BY <2>1, <2>2
<1>4. ASSUME NEW v \in Worker, Deciding(calls'[v]), calls'[v].op = "publish"
      PROVE  Pushing(calls'[v], Approval(v)', worktree', github'.branch)
  <2>1. v = "user"
    BY <1>4 DEF RemoteInv, Fits, Decided
  <2>2. QED
    BY <1>1, <1>2, <1>3, <2>1 DEF Pushing, Approval
<1>5. QED
  BY <1>4 DEF PushInv

\* The histories in the worktree and on GitHub as they may be found.
LEMMA Histories ==
  ASSUME RemoteInv
  PROVE  /\ worktree \in Commits /\ github.branch \in Commits
         /\ Len(worktree) \in Nat /\ Len(worktree) <= Len(worktree)
         /\ IsPrefix(github.branch, github.branch)
<1>1. worktree \in Commits /\ github.branch \in Commits
  BY DEF RemoteInv, TypeOK, GithubType
<1>2. Len(worktree) \in Nat /\ Len(github.branch) \in Nat
  BY <1>1, LenProperties DEF Commits
<1>3. QED
  BY <1>1, <1>2 DEF IsPrefix

\* People only add to a history or rewrite it at its length.
LEMMA PeoplePush ==
  ASSUME RemoteInv, RemoteInv', PushInv,
         Commit \/ Amend \/ OthersPush \/ OthersOnPull
  PROVE  PushInv'
<1>1. calls' = calls /\ approvals' = approvals
  BY DEF Commit, Amend, OthersPush, OthersOnPull
<1>2. Len(worktree) <= Len(worktree')
  <2>1. CASE Commit
    <3>1. worktree' = Append(worktree, "agent") /\ worktree \in Seq(Author)
      BY <2>1, Histories DEF Commit, Commits
    <3>2. Len(worktree') = Len(worktree) + 1
      BY <3>1 DEF Author
    <3>3. QED
      BY <3>2, Histories
  <2>2. CASE Amend
    BY <2>2 DEF Amend
  <2>3. CASE OthersPush \/ OthersOnPull
    BY <2>3, Histories DEF OthersPush, OthersOnPull
  <2>4. QED
    BY <2>1, <2>2, <2>3
<1>3. IsPrefix(github.branch, github'.branch)
  <2>1. CASE OthersPush
    <3>1. /\ github'.branch = Append(github.branch, "other")
          /\ github.branch \in Seq(Author) /\ Len(github.branch) \in Nat
      BY <2>1, Histories, LenProperties DEF OthersPush, Commits, RemoteInv, TypeOK, GithubType
    <3> DEFINE s == github.branch
               t == Append(s, "other")
    <3>2. /\ t \in Seq(Author) /\ Len(t) = Len(s) + 1
          /\ \A i \in 1 .. Len(s) : t[i] = s[i]
      BY <3>1, AppendProperties DEF Author
    <3>3. /\ SubSeq(t, 1, Len(s)) \in Seq(Author) /\ Len(SubSeq(t, 1, Len(s))) = Len(s)
          /\ \A i \in 1 .. Len(s) : SubSeq(t, 1, Len(s))[i] = t[i]
      BY <3>1, <3>2
    <3>4. SubSeq(t, 1, Len(s)) = s
      BY <3>1, <3>2, <3>3, SeqEqual
    <3>5. SubSeq(s, 1, Len(s)) = s
      BY <3>1, SubSeqFull
    <3>6. Len(s) <= Len(t)
      BY <3>1, <3>2
    <3>7. QED
      BY <3>1, <3>4, <3>5, <3>6 DEF IsPrefix
  <2>2. CASE Commit \/ Amend \/ OthersOnPull
    <3>1. github'.branch = github.branch
      BY <2>2 DEF Commit, Amend, OthersOnPull, RemoteInv, TypeOK, GithubType
    <3>2. QED
      BY <3>1, Histories
  <2>3. QED
    BY <2>1, <2>2
<1>4. QED
  BY <1>1, <1>2, <1>3, PushStays

\* Every step keeps it.
LEMMA PushInvNext == RemoteInv /\ RemoteInv' /\ PushInv /\ [Next]_vars => PushInv'
<1> SUFFICES ASSUME RemoteInv, RemoteInv', PushInv, [Next]_vars PROVE PushInv'
  OBVIOUS
<1>1. calls \in [Worker -> CallType] /\ Idle.op # "publish"
  BY Basics DEF RemoteInv, TypeOK
<1>2. ASSUME UNCHANGED <<approvals, worktree, github>>, calls'["user"] = calls["user"]
      PROVE  PushInv'
  BY <1>2, Histories, PushStays
<1>3. CASE Authenticate \/ UNCHANGED vars \/ \E p \in prepared : ContextFails(p)
  BY <1>2, <1>3 DEF Authenticate, ContextFails, vars
<1>4. CASE Crash
  <2>1. calls'["user"] = Idle
    BY <1>4 DEF Crash, Worker
  <2>2. QED
    BY <1>1, <2>1, PushStays
<1>5. ASSUME NEW w \in Worker, NEW op \in Operation, NEW text, Load(w, op, text)
      PROVE  PushInv'
  <2>1. CASE w = "agent"
    <3>1. calls'["user"] = calls["user"]
      BY <1>1, <1>5, <2>1 DEF Load
    <3>2. QED
      BY <1>2, <1>5, <3>1 DEF Load
  <2>2. CASE w = "user"
    <3>1. /\ calls'["user"].op = op /\ calls'["user"].step = FirstStep(op)
      BY <1>1, <1>5, <2>2 DEF Load, Worker
    <3>2. ~Deciding(calls'["user"])
      BY <3>1 DEF Deciding, FirstStep, Operation, Writing
    <3>3. ASSUME NEW v \in Worker PROVE ~Deciding(calls'[v])
      BY <3>2 DEF RemoteInv, Fits, Decided
    <3>4. QED
      BY <3>3 DEF PushInv
  <2>3. QED
    BY <2>1, <2>2 DEF Worker
<1>6. ASSUME NEW p \in prepared, NEW approved \in BOOLEAN,
             Execute(p, OtherText(p.id), approved)
      PROVE  PushInv'
  <2>1. calls["user"] = Idle
    BY <1>6 DEF Execute
  <2>2. \/ calls'["user"] = Idle
        \/ calls'["user"].step = "check"
    BY <1>1, <1>6, <2>1 DEF Execute, Worker
  <2>3. QED
    BY <1>1, <2>2, PushStays
<1>7. ASSUME NEW w \in Worker, Answer(w), \A i \in 1 .. Len(approvals) : approvals'[i] = approvals[i],
             UNCHANGED <<worktree, github>>
      PROVE  PushInv'
  <2>1. CASE w = "agent"
    <3>1. calls'["user"] = calls["user"]
      BY <1>1, <1>7, <2>1 DEF Answer
    <3>2. QED
      BY <1>7, <3>1, Histories, PushStays
  <2>2. CASE w = "user"
    <3>1. calls'["user"] = Idle
      BY <1>1, <1>7, <2>2 DEF Answer
    <3>2. QED
      BY <1>1, <3>1, PushStays
  <2>3. QED
    BY <2>1, <2>2 DEF Worker
<1>8. ASSUME NEW w \in Worker, Prepare(w) PROVE PushInv'
  <2>1. PICK p \in Preparations(w) : Request(w, p)
    BY <1>8 DEF Prepare
  <2>2. \A i \in 1 .. Len(approvals) : approvals'[i] = approvals[i]
    BY <2>1, AppendProperties DEF Request, RemoteInv, TypeOK
  <2>3. QED
    BY <1>7, <1>8, <2>2 DEF Prepare
<1>9. ASSUME NEW w \in Worker, Save(w) \/ Fail(w) PROVE PushInv'
  BY <1>7, <1>9 DEF Save, Fail
<1>10. ASSUME NEW w \in Worker, Watch(w) PROVE PushInv'
  <2>1. CASE Answer(w)
    BY <1>7, <1>10, <2>1 DEF Watch
  <2>2. CASE ~Answer(w)
    <3>1. /\ calls' = [calls EXCEPT ![w].polls = IF @ > MaxPolls THEN @ - 1 ELSE @ + 1]
          /\ calls[w].op = "watch"
      BY <1>10, <2>2 DEF Watch, At
    <3>2. calls'["user"] = calls["user"] \/ calls'["user"].op # "publish"
      BY <1>1, <3>1 DEF Worker, CallType
    <3>3. QED
      BY <1>2, <1>10, <3>2, PushStays DEF Watch
  <2>3. QED
    BY <2>1, <2>2
<1>11. ASSUME NEW w \in Worker,
              UpdateNothing(w) \/ Create(w) \/ Update(w) \/ Reply(w) \/ Resolve(w)
       PROVE  PushInv'
  <2>1. Deciding(calls[w]) /\ calls[w].op # "publish"
    BY <1>11 DEF UpdateNothing, Create, Update, Reply, Resolve, At, Deciding, Writing
  <2>2. w = "user"
    BY <2>1, DecidedCall
  <2>3. calls'["user"].op # "publish"
    BY <1>1, <1>11, <2>1, <2>2 DEF UpdateNothing, Create, Update, Reply, Resolve, Step, Then,
       Answer, CallType
  <2>4. QED
    BY <2>3, PushStays
<1>12. QED
  <2>1. ASSUME NEW w \in Worker, Progress(w) \/ Fail(w) PROVE PushInv'
    BY <1>8, <1>9, <1>10, <1>11, <2>1, CheckPushes, PushPushes, VerifyPushes DEF Progress
  <2>2. AgentTools \subseteq Operation /\ {"user", "agent"} \subseteq Worker
    BY RemoteAssumption DEF AgentTools, Operation, Writing, Worker
  <2>3. QED
    BY <1>3, <1>4, <1>5, <1>6, <2>1, <2>2, PeoplePush DEF Next

\* It holds in every reachable state.
LEMMA PushInvAlways == Spec => []PushInv
<1>1. Init => PushInv
  BY Basics DEF Init, PushInv
<1>2. QED
  BY <1>1, RemoteInvAlways, PushInvNext, PTL DEF Spec

\* An approval stands for one write, of what was shown unless it is a push; and
\* the push that goes on to be recorded has carried the approved commit: however
\* requests, decisions, lost answers, commits and the pushes of others interleave.
THEOREM WrittenOnceAlways == Spec => []WrittenOnce
<1>1. ASSUME RemoteInv, PushInv PROVE WrittenOnce
  <2>1. ASSUME NEW w \in Worker, At(w, {"publish"}, "save")
        PROVE  Approval(w).written = <<Content(w)>>
    <3>1. Deciding(calls[w]) /\ calls[w].op = "publish" /\ calls[w].step = "save"
      BY <2>1 DEF At, Deciding, Writing
    <3>2. QED
      BY <1>1, <3>1 DEF PushInv, Pushing, Content
  <2>2. \A i \in 1 .. Len(approvals) : Used(approvals[i])
    BY <1>1 DEF RemoteInv
  <2>3. QED
    BY <2>1, <2>2 DEF Used, WrittenOnce
<1>2. QED
  BY <1>1, RemoteInvAlways, PushInvAlways, PTL

\* The head that the manifest calls published is one whose publication the user
\* approved.
THEOREM PublishedWasApprovedAlways == Spec => []PublishedWasApproved
<1>1. RemoteInv => PublishedWasApproved
  BY DEF RemoteInv, Truthful, Approved, PublishedWasApproved
<1>2. QED
  BY <1>1, RemoteInvAlways, PTL

\* The runtime never opens a second pull request for the branch.
THEOREM OnePullRequestAlways == Spec => []OnePullRequest
<1>1. ASSUME RemoteInv PROVE OnePullRequest
  <2> DEFINE Own == {n \in 1 .. Len(github.pulls) : github.pulls[n].by = "agent"}
  <2>1. Len(github.pulls) \in Nat /\ Len(github.pulls) <= 1
    BY <1>1, SameFits DEF RemoteInv
  <2>2. Own \in SUBSET {1}
    BY <2>1
  <2>3. IsFiniteSet({1}) /\ Cardinality({1}) = 1
    BY FS_Singleton
  <2>4. Cardinality(Own) <= Cardinality({1})
    BY <2>2, <2>3, FS_Subset
  <2>5. QED
    BY <2>3, <2>4 DEF OnePullRequest
<1>2. QED
  BY <1>1, RemoteInvAlways, PTL

\* Once the manifest has the pull request of its task, no step takes it away.
THEOREM PullRequestIsKeptAlways == Spec => PullRequestIsKept
<1>1. ASSUME RemoteInv, [Next]_vars, manifest.pull # 0
      PROVE  manifest'.pull = manifest.pull
  <2>1. manifest.pull = 1
    <3>1. manifest.pull \in 0 .. Len(github.pulls) /\ Len(github.pulls) <= 1
      BY <1>1 DEF RemoteInv, Truthful
    <3>2. QED
      BY <1>1, <3>1, SameFits
  <2>2. ASSUME NEW w \in Worker, Save(w) PROVE manifest'.pull = manifest.pull
    BY <1>1, <2>1, <2>2, SavedIsTrue
  <2>3. ASSUME Commit PROVE manifest'.pull = manifest.pull
    <3>1. manifest \in ManifestType
      BY <1>1, SameFits
    <3>2. QED
      BY <2>3, <3>1 DEF Commit, ManifestType
  <2>4. CASE UNCHANGED manifest
    BY <2>4
  <2>5. (\E w \in Worker : Save(w)) \/ Commit \/ UNCHANGED manifest
    BY <1>1 DEF Next, Progress, Authenticate, Crash, Load, Execute, ContextFails, Prepare,
       Check, UpdateNothing, Push, Create, Update, Reply, Resolve, Verify, Watch, Fail,
       Amend, OthersPush, OthersOnPull, vars
  <2>6. QED
    BY <2>2, <2>3, <2>4, <2>5
<1>2. QED
  BY <1>1, RemoteInvAlways, PTL DEF Spec, PullRequestIsKept

=============================================================================

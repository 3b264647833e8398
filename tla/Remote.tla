------------------------------- MODULE Remote -------------------------------
(***************************************************************************)
(* Publishing a finished task on GitHub: RemoteRuntimeService (apps/       *)
(* agent-runtime/src/remote), the GitHubProvider and its services          *)
(* (packages/github-provider), the approvals and the policy of packages/   *)
(* remote-repository, and the handlers of RuntimeServer that keep a        *)
(* prepared operation until the user's decision arrives.                   *)
(*                                                                         *)
(* Every write takes two requests: the first prepares it and opens an      *)
(* approval, the second carries the user's decision and executes it.  The  *)
(* runtime handles the user's requests one at a time; an agent's tools run *)
(* beside them, can only read and prepare, and share the task's manifest.  *)
(* One task, one branch, one repository.  A commit is the sequence of the  *)
(* authors of its history, so that an ancestor is a prefix.                *)
(***************************************************************************)
EXTENDS Integers, Sequences, FiniteSets, SequencesExt

CONSTANTS
    AgentRequests, \* what an agent's tools prepare
    Permissions,   \* what GitHub lets the account do in the repository
    Text,          \* titles, bodies and labels the requests may carry
    MaxRequests,   \* bound on the approvals opened
    MaxCommits,    \* bound on the length of a history
    MaxLogins,     \* bound on the logins
    MaxOthers,     \* bound on the steps of other people
    MaxPolls       \* ciMaxWaitMs, in polls of the checks

ASSUME RemoteAssumption ==
    /\ AgentRequests \subseteq {"publish", "create", "update", "reply", "resolve"}
    /\ Permissions \subseteq {"read", "write", "canPush", "canCreatePullRequest",
                              "canComment", "canResolveReviewThreads"}
    /\ \E s, t \in Text : s # t
    /\ {MaxRequests, MaxOthers, MaxPolls} \subseteq Nat
    /\ {MaxCommits, MaxLogins} \subseteq Nat \ {0}

VARIABLES
    login,      \* which login the current GitHubProvider was made by
    approvals,  \* every approval opened, in the order of their ids
    prepared,   \* the operations the server keeps, with the manifest they read
    manifest,   \* the task's manifest file
    worktree,   \* the head of the task's branch in its worktree
    github,     \* what GitHub holds: the branch, pull requests, a review thread
    others,     \* steps of other people so far
    calls       \* the request in progress of the user and of the agent

vars == <<login, approvals, prepared, manifest, worktree, github, others, calls>>

Worker == {"user", "agent"}
Writing == {"publish", "create", "update", "reply", "resolve"}
\* Of the requests that only read, those that save the manifest they have read
\* (checks) or keep the server waiting (watch); the others change nothing.
Operation == Writing \cup {"checks", "watch"}
Author == {"agent", "amended", "other"}
NoCommit == <<>>
NoText == <<>>  \* a text is a sequence of one, to be compared with a commit

\* The texts a request of each kind may carry.
Textual == {"create", "update", "reply"}
Texts(op) == IF op \in Textual THEN {<<t>> : t \in Text} ELSE {NoText}

-----------------------------------------------------------------------------
(* The manifest, the approvals and a request in progress.                  *)

Manifest(head, published, pull) == [head |-> head, published |-> published, pull |-> pull]

NoManifest == Manifest(NoCommit, NoCommit, 0)

\* loadTaskManifest: the task is finished and has a commit.
Publishable(m) == m.head # NoCommit

\* saveTaskManifest: a temporary file and its renaming.
Saves(m) == manifest' = m

\* What an operation starts from: taskContext loads the manifest; a pull request
\* needs a published branch first, and all else needs a pull request.
Ready(op, m) ==
    /\ Publishable(m)
    /\ CASE op = "publish" -> TRUE
         [] op = "create" -> m.published # NoCommit
         [] OTHER -> m.pull # 0

Idle == [op |-> "none", step |-> "idle", login |-> 0, id |-> 0, text |-> NoText,
         seen |-> NoManifest, polls |-> 0]

Step(w, step) == calls' = [calls EXCEPT ![w].step = step]
Answer(w) == calls' = [calls EXCEPT ![w] = Idle]
At(w, op, step) == calls[w].op \in op /\ calls[w].step = step
Approval(w) == approvals[calls[w].id]

\* What is to be written is what was prepared; the text of the second request
\* is not looked at.
Content(w) == Approval(w).content

\* RemoteOperationPolicy: reading needs a permission too.  That the repository is
\* verified holds here, since every request but the second of a publication, a
\* creation or an update verifies it, and these have one before them.
PermissionFor(op) ==
    CASE op = "publish" -> "canPush"
      [] op = "create" -> "canCreatePullRequest"
      [] op = "update" -> "write"
      [] op = "reply" -> "canComment"
      [] op = "resolve" -> "canResolveReviewThreads"
      [] OTHER -> "read"

Authorized(w) == PermissionFor(calls[w].op) \in Permissions

\* approvals.consume
Consume(w) == approvals' = [approvals EXCEPT ![calls[w].id].status = "consumed"]

Consumable(w) == Approval(w).status = "approved" /\ Approval(w).action = calls[w].op

-----------------------------------------------------------------------------
(* Logging in and out.                                                     *)

\* Every login makes a new provider with no approvals; the operations the
\* server keeps stay.  It may follow remote.disconnect or a change of workspace
\* or settings, which drop the provider; without one requests change nothing.
Authenticate ==
    /\ calls["user"] = Idle
    /\ login < MaxLogins
    /\ login' = login + 1
    /\ UNCHANGED <<approvals, prepared, manifest, worktree, github, others, calls>>

\* The runtime dies with what it was doing, and the next one logs in; GitHub
\* and the manifest stay.
Crash ==
    /\ login < MaxLogins
    /\ login' = login + 1
    /\ prepared' = {}
    /\ calls' = [w \in Worker |-> Idle]
    /\ UNCHANGED <<approvals, manifest, worktree, github, others>>

-----------------------------------------------------------------------------
(* The first request: an operation is prepared.                            *)

\* listChecks saves the manifest it has read, watchChecks polls.
FirstStep(op) ==
    CASE op = "checks" -> "save" [] op = "watch" -> "poll" [] OTHER -> "prepare"

Load(w, op, text) ==
    /\ calls[w] = Idle
    /\ Ready(op, manifest)
    /\ calls' = [calls EXCEPT ![w] =
          [op |-> op, login |-> login, id |-> 0, text |-> text, seen |-> manifest,
           polls |-> 0, step |-> FirstStep(op)]]
    /\ UNCHANGED <<login, approvals, prepared, manifest, worktree, github, others>>

\* What the approval asks for.  A push is of the last commit of the manifest,
\* onto the head the manifest says was published.
PreparedPublish(w) == [content |-> calls[w].seen.head, manifest |-> calls[w].seen]
PreparedPullRequest(w) == [content |-> calls[w].text, manifest |-> calls[w].seen]
PreparedReply(w) == [content |-> calls[w].text, manifest |-> NoManifest]
PreparedResolution(w) == [content |-> NoText, manifest |-> NoManifest]

PreparedUpdate(w) ==
    IF calls[w].op = "update" /\ github.pulls[calls[w].seen.pull].title = calls[w].text
    THEN {}
    ELSE {PreparedPullRequest(w)}

Preparations(w) ==
    CASE calls[w].op = "publish" -> {PreparedPublish(w)}
      [] calls[w].op = "reply" -> {PreparedReply(w)}
      [] calls[w].op = "resolve" -> {PreparedResolution(w)}
      [] OTHER -> PreparedUpdate(w)

\* What is known of an approval; of the provider that keeps it, the login.
\* written is history: what was written under it.
PendingApproval(action, content, by) ==
    [action |-> action, content |-> content, login |-> by, status |-> "pending",
     written |-> <<>>]

Request(w, p) ==
    approvals' = Append(approvals,
        PendingApproval(calls[w].op, p.content, calls[w].login))

\* The server keeps what the user prepared; a tool of an agent only returns
\* the id, and no request can execute it.
Prepare(w) ==
    /\ At(w, Writing, "prepare")
    /\ Authorized(w)
    /\ Len(approvals) < MaxRequests
    /\ \E p \in Preparations(w) :
          /\ Request(w, p)
          /\ prepared' = IF w = "user"
                         THEN prepared \cup {[id |-> Len(approvals'), manifest |-> p.manifest]}
                         ELSE prepared
    /\ Answer(w)
    /\ UNCHANGED <<login, manifest, worktree, github, others>>

-----------------------------------------------------------------------------
(* The second request: the decision, and the checks made again.            *)

\* approvals.decide: the provider of this login must know the approval.
Decidable(id) == approvals[id].login = login /\ approvals[id].status = "pending"

Execute(p, text, approved) ==
    LET id == p.id IN
    /\ calls["user"] = Idle
    /\ prepared' = prepared \ {p}
    /\ \/ ~ Decidable(id) /\ UNCHANGED <<approvals, calls>>
       \/ /\ Decidable(id)
          /\ approvals' =
                [approvals EXCEPT ![id].status = IF approved THEN "approved" ELSE "denied"]
          /\ calls' = [calls EXCEPT !["user"] =
                IF ~ approved THEN Idle
                ELSE [op |-> approvals[id].action, step |-> "check", login |-> login,
                      id |-> id, text |-> text, seen |-> p.manifest, polls |-> 0]]
    /\ UNCHANGED <<login, manifest, worktree, github, others>>

\* A reply and a resolution read the task again before they look at the
\* decision: when that fails the operation is gone and never decided.
ContextFails(p) ==
    /\ calls["user"] = Idle
    /\ approvals[p.id].action \in {"reply", "resolve"}
    /\ prepared' = prepared \ {p}
    /\ UNCHANGED <<login, approvals, manifest, worktree, github, calls, others>>

\* GitHubBranchPublisher.publish, up to the consumption of the approval.
CanPush(w) ==
    /\ worktree = Content(w)
    /\ github.branch # Content(w)
    /\ github.branch # NoCommit => github.branch = calls[w].seen.published
    /\ IsPrefix(github.branch, Content(w))

\* Wrong variant of FindByHead: only for the open ones, which is what GitHub
\* answers by default.
FindByHeadOpen == {n \in 1 .. Len(github.pulls) : github.pulls[n].open}

\* findByHead asks for pull requests in every state.
FindByHead == 1 .. Len(github.pulls)

CanCreate(w) == github.branch # NoCommit /\ FindByHead = {}

CanUpdate(w) == github.pulls[calls[w].seen.pull].title # Content(w)

\* Whether the thread is outdated is not kept: the check then fails.
CanReply(w) == github.pulls # <<>>

CanResolve(w) == ~ github.thread.resolved /\ github.thread.comments >= 2

Allowed(w) ==
    CASE calls[w].op = "publish" -> CanPush(w)
      [] calls[w].op = "create" -> CanCreate(w)
      [] calls[w].op = "update" -> CanUpdate(w)
      [] calls[w].op = "reply" -> CanReply(w)
      [] OTHER -> CanResolve(w)

Check(w) ==
    /\ At(w, Writing, "check")
    /\ Authorized(w)
    /\ Allowed(w)
    /\ Consumable(w)
    /\ Consume(w)
    /\ Step(w, "write")
    /\ UNCHANGED <<login, prepared, manifest, worktree, github, others>>

\* An update that would change nothing any more writes nothing, and its
\* approval stays approved.
UpdateNothing(w) ==
    /\ At(w, {"update"}, "check")
    /\ Authorized(w)
    /\ ~ CanUpdate(w)
    /\ Step(w, "save")
    /\ UNCHANGED <<login, approvals, prepared, manifest, worktree, github, others>>

-----------------------------------------------------------------------------
(* The write itself.  Its answer may be lost: the call then fails although *)
(* GitHub has done what it was asked.                                      *)

Written(w, content) ==
    approvals' = [approvals EXCEPT ![calls[w].id].written = Append(@, content)]

\* Wrong variant of Then: a write whose answer is lost is made again, as a
\* request that only reads is.
ThenRetry(w, step) == Step(w, step) \/ Answer(w) \/ UNCHANGED calls

Then(w, step) == Step(w, step) \/ Answer(w)

\* git push <remote> ref:ref moves the remote branch to what the local branch
\* is by now, which may be more than was approved, or something else; git
\* refuses what is not a fast-forward.
Push(w) ==
    /\ At(w, {"publish"}, "write")
    /\ IsPrefix(github.branch, worktree)
    /\ github' = [github EXCEPT !.branch = worktree]
    /\ Written(w, worktree)
    /\ Then(w, "verify")
    /\ UNCHANGED <<login, prepared, manifest, worktree, others>>

\* POST pulls; GitHub refuses a second open one.  The labels are set by a
\* further request before the manifest is saved, here and in an update: when
\* that fails, so does the call.
Create(w) ==
    /\ At(w, {"create"}, "write")
    /\ \A n \in 1 .. Len(github.pulls) : ~ github.pulls[n].open
    /\ github' = [github EXCEPT !.pulls = Append(@,
          [title |-> Content(w), open |-> TRUE, by |-> "agent"])]
    /\ Written(w, Content(w))
    /\ \/ Answer(w)
       \/ calls' = [calls EXCEPT ![w].step = "save", ![w].seen.pull = Len(github'.pulls)]
    /\ UNCHANGED <<login, prepared, manifest, worktree, others>>

Update(w) ==
    /\ At(w, {"update"}, "write")
    /\ github' = [github EXCEPT !.pulls[calls[w].seen.pull].title = Content(w)]
    /\ Written(w, Content(w))
    /\ Then(w, "save")
    /\ UNCHANGED <<login, prepared, manifest, worktree, others>>

Reply(w) ==
    /\ At(w, {"reply"}, "write")
    /\ github' = [github EXCEPT !.thread.comments = @ + 1]
    /\ Written(w, Content(w))
    /\ Answer(w)
    /\ UNCHANGED <<login, prepared, manifest, worktree, others>>

Resolve(w) ==
    /\ At(w, {"resolve"}, "write")
    /\ github' = [github EXCEPT !.thread.resolved = TRUE]
    /\ Written(w, Content(w))
    /\ Answer(w)
    /\ UNCHANGED <<login, prepared, manifest, worktree, others>>

-----------------------------------------------------------------------------
(* After the write.                                                        *)

\* Wrong variant of Verify: the manifest read when the push was prepared is the
\* one that is saved, as the other operations do.
VerifyKeepingPrepared(w) ==
    /\ At(w, {"publish"}, "verify")
    /\ github.branch = Content(w)
    /\ Step(w, "save")
    /\ UNCHANGED <<login, approvals, prepared, manifest, worktree, github, others>>

\* The head is read again after the push: only the approved commit counts as
\* published.  Then the manifest is read again too.
Verify(w) ==
    /\ At(w, {"publish"}, "verify")
    /\ github.branch = Content(w)
    /\ calls' = [calls EXCEPT ![w].step = "save", ![w].seen = manifest]
    /\ UNCHANGED <<login, approvals, prepared, manifest, worktree, github, others>>

\* Wrong variant of Published: the head GitHub holds at that moment.
PublishedRemoteHead(w) == [calls[w].seen EXCEPT !.published = github.branch]

\* What a publication leaves in the manifest.
Published(w) == [calls[w].seen EXCEPT !.published = Content(w)]

\* Everything else saves the manifest the operation started from.
Save(w) ==
    /\ At(w, Operation, "save")
    /\ Authorized(w)
    /\ Saves(IF calls[w].op = "publish" THEN Published(w) ELSE calls[w].seen)
    /\ Answer(w)
    /\ UNCHANGED <<login, approvals, prepared, worktree, github, others>>

-----------------------------------------------------------------------------
(* Reading the checks.                                                     *)

\* Wrong variant of WatchOver: only the checks end a watch (polls stay bounded).
WatchOverNever(w) == FALSE

\* The watch ends when every check is completed or the time is over.
WatchOver(w) == calls[w].polls >= MaxPolls

Watch(w) ==
    /\ At(w, {"watch"}, "poll")
    /\ Authorized(w)
    /\ \/ Answer(w)
       \/ /\ ~ WatchOver(w)
          /\ calls' = [calls EXCEPT ![w].polls = IF @ > MaxPolls THEN @ - 1 ELSE @ + 1]
    /\ UNCHANGED <<login, approvals, prepared, manifest, worktree, github, others>>

\* Any request to GitHub, git or the disk may fail, and so may a check: the
\* handler throws, and what has been written so far stays.
Fail(w) ==
    /\ calls[w] # Idle
    /\ Answer(w)
    /\ UNCHANGED <<login, approvals, prepared, manifest, worktree, github, others>>

-----------------------------------------------------------------------------
(* The task's worktree and the people on GitHub.                           *)

Disturb == others < MaxOthers /\ others' = others + 1

\* Whoever runs the task commits and records the commit in its manifest.
Commit ==
    /\ Disturb
    /\ Len(worktree) < MaxCommits
    /\ worktree' = Append(worktree, "agent")
    /\ manifest' = [manifest EXCEPT !.head = worktree']
    /\ UNCHANGED <<login, approvals, prepared, github, calls>>

\* The user rewrites the first commit.
Amend ==
    /\ Disturb
    /\ worktree = <<"agent">>
    /\ worktree' = <<"amended">>
    /\ UNCHANGED <<login, approvals, prepared, manifest, github, calls>>

OthersPush ==
    /\ Disturb
    /\ github.branch # NoCommit /\ Len(github.branch) < MaxCommits
    /\ github' = [github EXCEPT !.branch = Append(@, "other")]
    /\ UNCHANGED <<login, approvals, prepared, manifest, worktree, calls>>

AnotherTitle(title) == CHOOSE t \in Texts("update") : t # title

OthersOnPull ==
    /\ Disturb
    /\ \/ \E n \in 1 .. Len(github.pulls) :
            /\ github.pulls[n].open
            /\ github' = [github EXCEPT !.pulls[n].open = FALSE]
       \/ \E n \in 1 .. Len(github.pulls) :
            github' = [github EXCEPT !.pulls[n].title = AnotherTitle(@)]
       \/ github.thread.comments = 1 /\ github' = [github EXCEPT !.thread.comments = 2]
    /\ github.pulls # <<>>
    /\ UNCHANGED <<login, approvals, prepared, manifest, worktree, calls>>

-----------------------------------------------------------------------------
Init ==
    /\ login = 1 /\ others = 0 /\ approvals = <<>> /\ prepared = {}
    /\ worktree = <<"agent">>
    /\ manifest = Manifest(worktree, NoCommit, 0)
    /\ github = [branch |-> NoCommit, pulls |-> <<>>,
                 thread |-> [comments |-> 1, resolved |-> FALSE]]
    /\ calls = [w \in Worker |-> Idle]

\* The tools of an agent: the same operations, prepared only.
AgentTools == {"checks"} \cup AgentRequests

Progress(w) ==
    \/ Prepare(w) \/ Check(w) \/ UpdateNothing(w)
    \/ Push(w) \/ Create(w) \/ Update(w) \/ Reply(w) \/ Resolve(w)
    \/ Verify(w) \/ Save(w) \/ Watch(w)

\* One text is enough for what is created; an update needs another.
Shown(op) == IF op = "update" THEN Texts(op) ELSE {CHOOSE text \in Texts(op) : TRUE}

\* The text that comes with the decision is never the prepared one.
OtherText(id) ==
    IF approvals[id].action \in Textual
    THEN CHOOSE text \in Texts(approvals[id].action) : text # approvals[id].content
    ELSE NoText

Next ==
    \/ Authenticate \/ Crash
    \/ \E op \in Operation : \E text \in Shown(op) : Load("user", op, text)
    \/ \E op \in AgentTools : \E text \in Shown(op) : Load("agent", op, text)
    \/ \E p \in prepared, approved \in BOOLEAN : Execute(p, OtherText(p.id), approved)
    \/ \E p \in prepared : ContextFails(p)
    \/ \E w \in Worker : Progress(w) \/ Fail(w)
    \/ Commit \/ Amend \/ OthersPush \/ OthersOnPull

\* A request goes on until it is answered: every await of GitHub, git or the
\* disk has a time limit of its own.  A watch is only made to poll on.
Fairness ==
    /\ WF_vars(Watch("user") \/ (~ Authorized("user") /\ Fail("user")))
    /\ WF_vars(calls["user"].op # "watch" /\ (Progress("user") \/ Fail("user")))

Spec == Init /\ [][Next]_vars /\ Fairness

-----------------------------------------------------------------------------
Commits == {s \in Seq(Author) : Len(s) <= MaxCommits}
Contents == Commits \cup {<<t>> : t \in Text}
ManifestType == [head : Commits, published : Commits, pull : 0 .. MaxRequests]
PreparedType == [id : 1 .. MaxRequests, manifest : ManifestType]

ApprovalType ==
    {a \in [action : Writing, content : Contents, login : 0 .. MaxLogins,
            status : {"pending", "approved", "denied", "consumed"},
            written : Seq(Contents)] :
        a.action = "publish" => a.content \in Commits}

GithubType ==
    [branch : Commits,
     pulls : Seq([title : Contents, open : BOOLEAN, by : {"agent"}]),
     thread : [comments : 1 .. MaxRequests + 2, resolved : BOOLEAN]]

CallType ==
    [op : Operation \cup {"none"},
     step : {"idle", "prepare", "poll", "check", "write", "verify", "save"},
     login : 0 .. MaxLogins, id : 0 .. MaxRequests, text : Contents,
     seen : ManifestType, polls : 0 .. MaxPolls + 1]

\* The type invariant; and a thread is resolved only once it was answered.
TypeOK ==
    /\ login \in 1 .. MaxLogins /\ others \in 0 .. MaxOthers
    /\ approvals \in Seq(ApprovalType) /\ Len(approvals) <= MaxRequests
    /\ prepared \subseteq PreparedType
    /\ \A p \in prepared : p.id <= Len(approvals)
    /\ manifest \in ManifestType
    /\ worktree \in Commits
    /\ github \in GithubType
    /\ github.thread.resolved => github.thread.comments >= 2
    /\ calls \in [Worker -> CallType]

\* An approval stands for one write, also when the answer to the write is lost,
\* and none but a push writes anything else than the user was shown.  A push
\* goes by the name of the branch, so that it may carry commits of later; the
\* request then fails, and never goes on to record a publication.
WrittenOnce ==
    /\ \A i \in 1 .. Len(approvals) :
          LET a == approvals[i] IN
          a.written # <<>> =>
              /\ Len(a.written) = 1 /\ a.status = "consumed"
              /\ a.action # "publish" => a.written = <<a.content>>
    /\ \A w \in Worker :
          At(w, {"publish"}, "save") => Approval(w).written = <<Content(w)>>

\* The head the manifest gives for the published branch was approved by the
\* user for publication, whatever was committed, amended or pushed by others
\* while git was pushing the branch by its name.
PublishedWasApproved ==
    manifest.published # NoCommit =>
        \E i \in 1 .. Len(approvals) :
            /\ approvals[i].action = "publish" /\ approvals[i].status = "consumed"
            /\ approvals[i].content = manifest.published

\* The runtime never opens a second pull request for the task's branch, also
\* when the answer to the first was lost, the runtime was restarted or
\* somebody has closed it.
OnePullRequest ==
    Cardinality({n \in 1 .. Len(github.pulls) : github.pulls[n].by = "agent"}) <= 1

\* The manifest never loses the pull request of its task: it could not be
\* found again, and a new one is refused while the first exists.
PullRequestIsKept ==
    [][manifest.pull # 0 => manifest'.pull = manifest.pull]_vars

\* Every request of the user is answered, so that the runtime takes the next one: also a
\* watch of checks that never complete.
Answered == calls["user"] # Idle ~> calls["user"] = Idle
=============================================================================

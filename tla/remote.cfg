SPECIFICATION Spec
CHECK_DEADLOCK FALSE
CONSTANTS
    AgentRequests = {"resolve"}
    Permissions = {"read", "write", "canPush", "canCreatePullRequest", "canComment", "canResolveReviewThreads"}
    Text = {"t1", "t2"}
    MaxRequests = 3
    MaxCommits = 2
    MaxLogins = 2
    MaxOthers = 2
    MaxPolls = 1
INVARIANTS
    WrittenOnce
    PublishedWasApproved
    OnePullRequest
PROPERTIES
    PullRequestIsKept
    Answered

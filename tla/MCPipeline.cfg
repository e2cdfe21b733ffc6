SPECIFICATION ComponentsSpec
CONSTANTS
    Parts = {"runs", "ends", "restarts", "walks", "heads", "lists", "account"}
    RunActions = {"RepositoryAdded", "MonitorRepository", "RepositoryPush", "PullRequestUpdate", "PushCheck", "PullRequestCheck"}
    NumPulls = 2
    e1 = e1
    e2 = e2
    e3 = e3
    repo = repo
    user = user
INVARIANTS OutcomeTold CancelJustified
PROPERTIES ReadyFollowsPrediction StagesFollowSuccess WorkEnds WalksEnd
CHECK_DEADLOCK FALSE

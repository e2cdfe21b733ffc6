SPECIFICATION ComponentsSpec
CONSTANTS
    Parts = {"lists"}
    N = 4
    MaxHead = 2
    MaxEvents = 4
    MaxAgain = 1
    MaxToggles = 1
    MaxDeliveries = 3
    MaxActs = 2
    MaxHandlers = 2
    PerPage = 2
    MaxChanges = 2
    Commits <- MCCommits
    Graphs <- MCGraphs
    Registered <- MCCommits
    WalkGraphs <- MCGraphs
    Entries <- MCEntries
    Repos <- MCRepos
    Users <- MCUsers
    e1 = e1
    e2 = e2
    e3 = e3
    e4 = e4
    e5 = e5
    r1 = r1
    r2 = r2
    u = u
INVARIANTS UsersReached
CHECK_DEADLOCK FALSE

SPECIFICATION RepositorySpec
CONSTANTS
    Parts = {"tags"}
    main = main
    dev = dev
    Branches = {main, dev}
    Commits = {1, 2, 3, 4}
    Histories <- MCHistories
    Pulls <- MCPulls
    Inducing <- MCInducing
    NoCommit = NoCommit
    MaxJobs = 2
    f1 = f1
    f2 = f2
    ann = ann
    bob = bob
    MaxMeasuringJobs = 2
INVARIANTS AncestorsIncludeBranches
CHECK_DEADLOCK FALSE

SPECIFICATION Spec
CONSTANTS
    r1 = r1
    r2 = r2
    j1 = j1
    j2 = j2
    j3 = j3
    j4 = j4
    j5 = j5
    NoJob = NoJob
    Repos = {r1, r2}
    Jobs = {j1, j2, j3, j4, j5}
    RepoOf <- MCRepoOf
    ActionOf <- MCActionOf
    DefaultQueueWorkersCount = 1
    DefaultManagerWorkersCount = 2
INVARIANTS TypeOK WorkersCounted JobsPlaced NoIdleWorker EntryIsActive
PROPERTIES JobsKept
CHECK_DEADLOCK FALSE

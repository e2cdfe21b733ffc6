SPECIFICATION ComponentsSpec
CONSTANTS
    Parts = {"serial", "stops", "providers"}
    r1 = r1
    r2 = r2
    r3 = r3
    j1 = j1
    j2 = j2
    j3 = j3
    j4 = j4
    j5 = j5
    NoJob = NoJob
    c1 = c1
    c2 = c2
    hub = hub
    jira = jira
    bare = bare
    none = none
    NoProvider = NoProvider
PROPERTIES ImplementsSerialJobs JobLeaves CallsReturn
CHECK_DEADLOCK FALSE

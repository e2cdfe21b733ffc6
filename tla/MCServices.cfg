SPECIFICATION ComponentsSpec
CONSTANTS
    Parts = {"transports", "providers", "accounts", "pages", "entries", "stops", "tokens", "models"}
    Callers = {c1, c2, c3}
    Ids = {i1, i2, i3}
    Limit = 2
    NoId = NoId
    None = None
    Requesters = {r1, r2}
    hub = hub
    jira = jira
    bare = bare
    none = none
    Providers = {hub, jira, bare, none}
    KindOf <- MCKindOf
    NoProvider = NoProvider
    MaxClients = 3
    Subscribers = {v1, v2}
    viewer = v1
    JobKinds = {"update", "check"}
    MaxJobs = 3
    MaxTicks = 1
    MaxNotifiers = 2
    Stops = TRUE
    Nil = Nil
    Identities = {g1, g2}
    MaxLogins = 3
    MaxRefreshes = 2
    Accounts = {a, b}
    NoAccount = NoAccount
    MaxFetches = 5
    MaxRequests = 3
    MaxBeside = 2
INVARIANTS TransportsAgree ClientsFit AccountsKept  SessionKept ModelsAgree
PROPERTIES RefreshTells
CHECK_DEADLOCK FALSE

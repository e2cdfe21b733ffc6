----------------------------- MODULE MCPipeline -----------------------------
(* The run of a job, and everything else that must come to an end: the     *)
(* work of a repository across a restart, a walk over the pages of a list  *)
(* of the API or of GitHub, the deliveries of a pull request and of an     *)
(* account. They share no state: a behaviour chooses one in the beginning  *)
(* and the others do not move.                                             *)
EXTENDS Pipeline

CONSTANTS
    Parts,              \* the components a behaviour may choose
    e1, e2, e3,         \* entries of a list
    repo, user

(* Whether a run ends is checked of an update and of a check.              *)
FairActions == {"RepositoryAdded", "PushCheck"}

VARIABLES
    part,  \* the component that runs; the others stay as they are
    stored_jobs, stored_status, commitJob, predicted, heads, pull, version,
    model, pushed, base, fetched, up, mem, recovery_pc, engine_known,
    engine_linked, start_points, include_after, events, crashes, orphans, skipped, taken,
    found_docs, query_changes, at_query, is_walk, q, once, page_edges, hasNext,
    at, told, seen, query_stayed,
    sameOrigin, pull_head, open, pull_sent, pull_mail, again, runs, checks,
    toggles, pull_handlers, src, analyzed, marked, pull_stored, pull_jobs,
    job, excuse,
    kind, list, entry_version, list_changes, list_state, page, page_fetched,
    next_page, last_page, result, source_stored, list_stayed, overtaken,
    shifted,
    inst, installs, selected, slug, sent, mail, org, docs, monitors,
    repos_with_commits, lastId, account_jobs, account_stopping, handlers, acts,
    verifications, calm, overlap, written_late, unread, linked

Restart == INSTANCE Recovery WITH MaxPushes <- 1, MaxEvents <- 1,
    MaxCrashes <- 1, ChecksEnabled <- FALSE, Upgrade <- FALSE, Stops <- TRUE,
    pc <- recovery_pc, jobs <- stored_jobs, status <- stored_status,
    known <- engine_known, linked <- engine_linked,
    start <- start_points, includeAfter <- include_after
Walks == INSTANCE Connection WITH Keys <- 1 .. 3, Limit <- 2, MaxChanges <- 1,
    pc <- at_query, edges <- page_edges, walk <- is_walk,
    changes <- query_changes, docs <- found_docs, stayed <- query_stayed
Heads == INSTANCE PullRequestEvents WITH MaxHead <- 2, MaxEvents <- 3,
    MaxAgain <- 0, MaxToggles <- 0, head <- pull_head, sent <- pull_sent,
    mail <- pull_mail, handlers <- pull_handlers, stored <- pull_stored,
    jobs <- pull_jobs
List == INSTANCE Paging WITH Entries <- {e1, e2, e3}, PerPage <- 1,
    MaxChanges <- 2, fetched <- page_fetched, version <- entry_version,
    stayed <- list_stayed, state <- list_state, stored <- source_stored,
    next <- next_page, last <- last_page, changes <- list_changes
Account == INSTANCE Installations WITH Repos <- {repo}, Users <- {user},
    MaxEvents <- 2, MaxActs <- 0, MaxHandlers <- 2, jobs <- account_jobs,
    late <- written_late, stopping <- account_stopping,
    commits <- repos_with_commits

WalkNext ==
    \/ \E dir \in {"asc", "desc"}, n \in 0 .. 2, forward \in BOOLEAN :
          Walks!Walk(dir, n, forward)
    \/ Walks!Client
    \/ \E k \in 1 .. 3 : Walks!Insert(k) \/ Walks!Delete(k)

ASSUME ComponentsAssumption ==
    /\ PipelineAssumption
    /\ Restart!RecoveryAssumption
    /\ Walks!ConnectionAssumption
    /\ Heads!EventsAssumption
    /\ List!PagingAssumption
    /\ Account!InstallationsAssumption

RecoveryVars == <<stored_jobs, stored_status, commitJob, predicted, heads,
                  pull, version, model, pushed, base, fetched, up, mem,
                  recovery_pc, engine_known, engine_linked, start_points,
                  include_after, events, crashes, orphans, skipped, taken>>
QueryVars == <<found_docs, query_changes, at_query, is_walk, q, once,
               page_edges, hasNext, at, told, seen, query_stayed>>
EventsVars == <<sameOrigin, pull_head, open, pull_sent, pull_mail, again, runs,
                checks, toggles, pull_handlers, src, analyzed, marked,
                pull_stored, pull_jobs, job, excuse>>
ListsVars == <<kind, list, entry_version, list_changes, list_state, page,
               page_fetched, next_page, last_page, result, source_stored,
               list_stayed, overtaken, shifted>>
AccountVars == <<inst, installs, selected, slug, sent, mail, org, docs,
                 monitors, repos_with_commits, lastId, account_jobs,
                 account_stopping, handlers, acts, verifications, calm,
                 overlap, written_late, unread, linked>>

(* A run that does not begin.                                              *)
RunOff == Init /\ action = "RepositoryAdded" /\ ~startPoints /\ ~includeAfter
RecoveryOff ==
    /\ stored_jobs = "off" /\ stored_status = "off" /\ commitJob = "off"
    /\ predicted = "off" /\ heads = "off" /\ pull = "off" /\ version = "off"
    /\ model = "off" /\ pushed = "off" /\ base = "off" /\ fetched = "off"
    /\ up = "off" /\ mem = "off" /\ recovery_pc = "off"
    /\ engine_known = "off" /\ engine_linked = "off" /\ start_points = "off"
    /\ include_after = "off" /\ events = "off" /\ crashes = "off"
    /\ orphans = "off" /\ skipped = "off" /\ taken = "off"
QueryOff ==
    /\ found_docs = "off" /\ query_changes = "off" /\ at_query = "off"
    /\ is_walk = "off" /\ q = "off" /\ once = "off" /\ page_edges = "off"
    /\ hasNext = "off" /\ at = "off" /\ told = "off" /\ seen = "off"
    /\ query_stayed = "off"
EventsOff ==
    /\ sameOrigin = "off" /\ pull_head = "off" /\ open = "off" /\ pull_sent = "off"
    /\ pull_mail = "off" /\ again = "off" /\ runs = "off" /\ checks = "off"
    /\ toggles = "off" /\ pull_handlers = "off" /\ src = "off"
    /\ analyzed = "off" /\ marked = "off" /\ pull_stored = "off"
    /\ pull_jobs = "off" /\ job = "off" /\ excuse = "off"
ListsOff ==
    /\ kind = "off" /\ list = "off" /\ entry_version = "off"
    /\ list_changes = "off" /\ list_state = "off" /\ page = "off"
    /\ page_fetched = "off" /\ next_page = "off" /\ last_page = "off"
    /\ result = "off" /\ source_stored = "off" /\ list_stayed = "off"
    /\ overtaken = "off" /\ shifted = "off"
AccountOff ==
    /\ inst = "off" /\ installs = "off" /\ selected = "off" /\ slug = "off"
    /\ sent = "off" /\ mail = "off" /\ org = "off" /\ docs = "off"
    /\ monitors = "off" /\ repos_with_commits = "off" /\ lastId = "off"
    /\ account_jobs = "off" /\ account_stopping = "off" /\ handlers = "off"
    /\ acts = "off" /\ verifications = "off" /\ calm = "off" /\ overlap = "off"
    /\ written_late = "off" /\ unread = "off" /\ linked = "off"

ComponentsInit ==
    /\ part \in Parts
    /\ CASE part = "runs" -> Init
         [] part = "ends" -> Init /\ action \in FairActions
         [] OTHER -> RunOff
    /\ CASE part = "restarts" -> Restart!Init
         [] OTHER -> RecoveryOff
    /\ CASE part = "walks" -> Walks!Init
         [] OTHER -> QueryOff
    /\ CASE part = "heads" -> Heads!Init
         [] OTHER -> EventsOff
    /\ CASE part = "lists" -> List!Init
         [] OTHER -> ListsOff
    /\ CASE part = "account" -> Account!Init
         [] OTHER -> AccountOff

ComponentsNext ==
    \/ /\ part \in {"runs", "ends"} /\ Next
       /\ UNCHANGED <<part, RecoveryVars, QueryVars, EventsVars, ListsVars, AccountVars>>
    \/ /\ part = "restarts" /\ Restart!Next
       /\ UNCHANGED <<part, vars, QueryVars, EventsVars, ListsVars, AccountVars>>
    \/ /\ part = "walks" /\ WalkNext
       /\ UNCHANGED <<part, vars, RecoveryVars, EventsVars, ListsVars, AccountVars>>
    \/ /\ part = "heads" /\ Heads!Next
       /\ UNCHANGED <<part, vars, RecoveryVars, QueryVars, ListsVars, AccountVars>>
    \/ /\ part = "lists" /\ List!Next
       /\ UNCHANGED <<part, vars, RecoveryVars, QueryVars, EventsVars, AccountVars>>
    \/ /\ part = "account" /\ Account!Next
       /\ UNCHANGED <<part, vars, RecoveryVars, QueryVars, EventsVars, ListsVars>>

all == <<part, vars, RecoveryVars, QueryVars, EventsVars, ListsVars,
         AccountVars>>

(* The fairness of each component, where it runs.                          *)
ComponentsFairness ==
    /\ WF_vars(part = "ends" /\ Goroutines)
    /\ WF_vars(part = "ends" /\ RunStep)
    /\ WF_RecoveryVars(part = "restarts" /\ Restart!Work)
    /\ WF_RecoveryVars(part = "restarts" /\ Restart!Boot)
    /\ WF_QueryVars(part = "walks" /\ Walks!Client)
    /\ WF_EventsVars(part = "heads" /\ Heads!Service)
    /\ WF_ListsVars(part = "lists" /\ List!Step)
    /\ WF_AccountVars(part = "account" /\ Account!Handling)

ComponentsSpec == ComponentsInit /\ [][ComponentsNext]_all /\ ComponentsFairness

----------------------------------------------------------------------------
(* What must come to an end; the other properties of the run of a job are  *)
(* stated in its module.                                                   *)

Running == part = "ends" /\ ~(pc = "reported" \/ \E t \in Tasks : tpc[t] = "gone")
Busy == part = "restarts" /\ Restart!Unfinished(stored_status.repo)

(* Every run ends and reports to the manager, unless a task of a           *)
(* concurrent stage panics. The work on a repository ends, with a crash    *)
(* and failures on the way.                                                *)
WorkEnds ==
    /\ Running ~> ~Running
    /\ Busy ~> (~Busy \/ "repo" \in orphans)

Asking == part = "walks" /\ at_query = "asking"
Fetching == part = "lists" /\ List!Walking
Delivering ==
    \/ part = "heads" /\ ~Heads!Settled
    \/ part = "account" /\ ~Account!Settled

(* A walk over a list of the API or of GitHub ends, also if the list       *)
(* changes under it. The deliveries of a pull request and of an account    *)
(* are dealt with, and the service comes to rest.                          *)
WalksEnd ==
    /\ Asking ~> at_query = "ended"
    /\ Fetching ~> ~Fetching
    /\ Delivering ~> ~Delivering
=============================================================================

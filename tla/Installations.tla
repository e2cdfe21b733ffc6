--------------------------- MODULE Installations ---------------------------
(***************************************************************************)
(* The organizations and repositories of a GitHub account as its           *)
(* installation events, pushes, monitoring users and the site admin leave  *)
(* them: src/ingest/pkg/ghapp/handlers.go and ghapp.go, DeleteRepository   *)
(* and AddRepository of src/ingest/pkg/manage/manage.go, the mutations of  *)
(* src/ingest/graph/schema.resolvers.go. Handlers run at the same time;    *)
(* one access to the database is one step. One account, an organization.   *)
(***************************************************************************)
EXTENDS Integers, Sequences, FiniteSets

CONSTANTS
    Repos, Users,
    MaxEvents,    \* bound: deliveries of GitHub
    MaxActs,      \* bound: what users do
    MaxHandlers   \* bound: handlers at work at once

(* Assumed of the constants by every module that instantiates this one.    *)
InstallationsAssumption ==
    /\ IsFiniteSet(Repos) /\ IsFiniteSet(Users)
    /\ {MaxEvents, MaxActs} \subseteq Nat /\ MaxHandlers \in Nat \ {0}

VARIABLES
    \* GitHub
    inst, installs,       \* the installation, 0 for none, and how many there were
    selected, slug,       \* the repositories it sees, the account's name
    sent, mail,           \* the deliveries made and those on their way
    \* the database
    org,                  \* [id, inst, jira, slug, members]
    docs,                 \* repositories: [id, org, slug, monitored]
    monitors,             \* <<user, repository id>>
    commits,              \* the repository ids that have commits
    lastId,
    \* the server
    jobs, stopping,       \* ids with a process, and with one that is to stop
    handlers, acts,
    verifications,        \* the organizations whose link is under way
    \* history
    calm,                 \* deliveries were handled alone, in order, without failure
    overlap,              \* an uninstallation ran while others were at work
    late,                 \* ids a process might still write for
    unread,               \* ids whose monitors left or never came
    linked                \* the organization the user linked, until an installation

github == <<inst, installs, selected, slug, sent>>
server == <<jobs, stopping>>
database == <<org, docs, monitors, commits, lastId>>
acting == <<acts, verifications>>
history == <<calm, overlap, late, unread, linked>>
vars == <<github, mail, database, server, handlers, acting, history>>

NoOrg == [id |-> 0, inst |-> 0, jira |-> FALSE, slug |-> 0, members |-> FALSE]
NoDoc == [id |-> 0, org |-> 0, slug |-> 0, monitored |-> FALSE]
Present(r) == docs[r].id # 0
DocIds == {docs[r].id : r \in Repos} \ {0}

Init ==
    /\ inst = 0 /\ installs = 0 /\ selected = {} /\ slug = 1
    /\ sent = <<>> /\ mail = {}
    /\ org = NoOrg
    /\ docs = [r \in Repos |-> NoDoc]
    /\ monitors = {} /\ commits = {} /\ lastId = 0
    /\ jobs = {} /\ stopping = {}
    /\ handlers = {} /\ acts = 0 /\ verifications = {}
    /\ calm = TRUE /\ overlap = FALSE /\ late = {} /\ unread = {} /\ linked = 0

----------------------------------------------------------------------------
(* GitHub (external). *)

Deliver(kind, by, repos) ==
    /\ Len(sent) < MaxEvents
    /\ sent' = Append(sent, [kind |-> kind, inst |-> by, slug |-> slug, repos |-> repos])
    /\ mail' = mail \cup {Len(sent) + 1}
    /\ UNCHANGED <<database, server, handlers, acting, history>>

Install(repos) ==
    /\ inst = 0 /\ repos # {}
    /\ installs' = installs + 1 /\ inst' = installs + 1
    /\ selected' = repos
    /\ Deliver("add", installs + 1, repos)
    /\ UNCHANGED slug

Uninstall ==
    /\ inst # 0
    /\ inst' = 0 /\ selected' = {}
    /\ Deliver("uninstall", inst, {})
    /\ UNCHANGED <<installs, slug>>

Select(r) ==
    /\ inst # 0 /\ r \notin selected
    /\ selected' = selected \cup {r}
    /\ Deliver("add", inst, {r})
    /\ UNCHANGED <<inst, installs, slug>>

Unselect(r) ==
    /\ r \in selected
    /\ selected' = selected \ {r}
    /\ Deliver("remove", inst, {r})
    /\ UNCHANGED <<inst, installs, slug>>

Push(r) ==
    /\ r \in selected
    /\ Deliver("push", inst, {r})
    /\ UNCHANGED <<inst, installs, selected, slug>>

(* The account gets another name; no handler hears of it.                  *)
Rename ==
    /\ slug = 1 /\ slug' = 2
    /\ UNCHANGED <<inst, installs, selected, sent, mail, database, server, handlers, acting,
                   history>>

----------------------------------------------------------------------------
(* A handler: its event, the step it is at, the repositories it has to add *)
(* or look for, the organization it was given and the ids to delete.       *)

Event(h) == IF h.n > 0 THEN sent[h.n] ELSE h.act
Handler(n, act, step, repos, ids) ==
    [n |-> n, act |-> act, step |-> step, repos |-> repos, org |-> NoOrg, ids |-> ids]
NoAct == [kind |-> "none", inst |-> 0, slug |-> 0, repos |-> {}]
FirstStep(kind) == CASE kind = "add" -> "org" [] kind = "push" -> "find"
                     [] kind \in {"remove", "uninstall"} -> "list"

Enters(h) ==
    /\ Cardinality(handlers) < MaxHandlers
    /\ handlers' = handlers \cup {h}
    /\ overlap' = (overlap \/ (handlers # {} /\
                     \E o \in handlers \cup {h} : Event(o).kind = "uninstall"))

Goes(h, next) == handlers' = (handlers \ {h}) \cup {next}
Leaves(h) == handlers' = handlers \ {h}

Handle(n) ==
    /\ n \in mail
    /\ mail' = mail \ {n}
    /\ Enters(Handler(n, NoAct, FirstStep(sent[n].kind), sent[n].repos, {}))
    /\ calm' = (calm /\ handlers = {} /\ \A m \in mail : n <= m)
    /\ UNCHANGED <<github, database, server, acting, late, unread, linked>>

(* Any call of a handler fails; nothing is undone.                         *)
Fails(h) ==
    /\ Leaves(h)
    /\ calm' = FALSE
    /\ unread' = IF h.step = "monitor" THEN unread \cup h.ids ELSE unread
    /\ UNCHANGED <<github, mail, database, server, acting, overlap, late, linked>>

(* repoEntity: a repository that is not known is added.                    *)
Find(h) ==
    /\ h.step \in {"find", "findAgain"}
    /\ LET r == CHOOSE x \in Event(h).repos : TRUE
       IN  IF Present(r) THEN Goes(h, [h EXCEPT !.step = "process", !.ids = {docs[r].id}])
           ELSE IF h.step = "find" THEN Goes(h, [h EXCEPT !.step = "org"])
           ELSE Leaves(h)
    /\ UNCHANGED <<github, mail, database, server, acting, history>>

AfterOwner(o) == IF o.members THEN "repos" ELSE "members"

(* mutant: no configuration is written as an empty one                     *)
FoundOrCreatedBare(e) ==
    IF org.id = 0 THEN [NoOrg EXCEPT !.id = lastId + 1, !.inst = e.inst, !.slug = e.slug]
    ELSE [org EXCEPT !.inst = e.inst, !.jira = FALSE]

(* FindOrCreate: the configuration of the installation replaces all        *)
(* configurations, the one of the issue tracker too; monitoring has none   *)
(* and leaves them.                                                        *)
FoundOrCreated(e) ==
    IF org.id = 0 THEN [NoOrg EXCEPT !.id = lastId + 1, !.inst = e.inst, !.slug = e.slug]
    ELSE IF e.inst # 0 THEN [org EXCEPT !.inst = e.inst, !.jira = FALSE]
    ELSE org

FindOrCreate(h) ==
    /\ h.step = "org"
    /\ LET e == Event(h)
           o == FoundOrCreated(e)
       IN  /\ org' = o
           /\ lastId' = IF org.id = 0 THEN lastId + 1 ELSE lastId
           /\ linked' = IF e.inst # 0 THEN 0 ELSE linked
           /\ Goes(h, [h EXCEPT !.org = [o EXCEPT !.slug = e.slug],
                                !.step = IF o.slug # e.slug THEN "owner"
                                         ELSE IF e.kind = "monitor" THEN "repos" ELSE AfterOwner(o)])
    /\ UNCHANGED <<github, mail, docs, monitors, commits, server, acting, calm, overlap, late,
                   unread>>

(* UpdateOwner, of the organization and then of its repositories.          *)
UpdateOwner(h) ==
    /\ h.step = "owner"
    /\ org' = IF org.id = h.org.id THEN [org EXCEPT !.slug = h.org.slug] ELSE org
    /\ Goes(h, [h EXCEPT !.step = "owners"])
    /\ UNCHANGED <<github, mail, docs, monitors, commits, lastId, server, acting, history>>

UpdateOwners(h) ==
    /\ h.step = "owners"
    /\ docs' = [r \in Repos |-> IF Present(r) /\ docs[r].org = h.org.id
                                  THEN [docs[r] EXCEPT !.slug = h.org.slug] ELSE docs[r]]
    /\ Goes(h, [h EXCEPT !.step = IF Event(h).kind = "monitor" THEN "repos" ELSE AfterOwner(h.org)])
    /\ UNCHANGED <<github, mail, org, monitors, commits, lastId, server, acting, history>>

UpdateMembers(h) ==
    /\ h.step = "members"
    /\ org' = IF org.id = h.org.id THEN [org EXCEPT !.members = TRUE] ELSE org
    /\ Goes(h, [h EXCEPT !.step = "repos"])
    /\ UNCHANGED <<github, mail, docs, monitors, commits, lastId, server, acting, history>>

(* mutant: the filter misses the id of the source                          *)
StoredByProvider(r, h) ==
    LET id == IF DocIds = {} THEN lastId + 1 ELSE CHOOSE i \in DocIds : TRUE
    IN  [id |-> id, org |-> h.org.id, slug |-> h.org.slug, monitored |-> Event(h).kind = "monitor"]

(* The document InsertOrUpdate leaves.                                     *)
Stored(r, h) ==
    IF Present(r)
      THEN [docs[r] EXCEPT !.org = h.org.id, !.slug = h.org.slug,
                           !.monitored = @ /\ Event(h).kind = "monitor"]
      ELSE [id |-> lastId + 1, org |-> h.org.id, slug |-> h.org.slug,
            monitored |-> Event(h).kind = "monitor"]

(* mutant: the monitor is entered later                                    *)
InsertOrUpdateAlone(h) ==
    /\ h.step = "repos"
    /\ \E r \in h.repos :
         /\ docs' = [docs EXCEPT ![r] = Stored(r, h)]
         /\ lastId' = IF Present(r) THEN lastId ELSE lastId + 1
         /\ Goes(h, [h EXCEPT !.repos = @ \ {r}, !.ids = {Stored(r, h).id}, !.step = "process"])
    /\ UNCHANGED <<github, mail, org, monitors, commits, server, acting, history>>

InsertOrUpdate(h) ==
    /\ h.step = "repos"
    /\ \E r \in h.repos :
         /\ docs' = [docs EXCEPT ![r] = Stored(r, h)]
         /\ lastId' = IF Present(r) THEN lastId ELSE lastId + 1
         /\ Goes(h, [h EXCEPT !.repos = @ \ {r}, !.ids = {Stored(r, h).id},
                              !.step = IF Event(h).kind = "monitor" THEN "monitor" ELSE "process"])
    /\ UNCHANGED <<github, mail, org, monitors, commits, server, acting, history>>

(* A user who monitors the repository already gets no job.                 *)
InsertMonitor(h) ==
    /\ h.step = "monitor"
    /\ LET m == {<<h.act.user, id>> : id \in h.ids}
       IN  /\ monitors' = monitors \cup m
           /\ IF m \subseteq monitors THEN Leaves(h) ELSE Goes(h, [h EXCEPT !.step = "process"])
    /\ UNCHANGED <<github, mail, org, docs, commits, lastId, server, acting, history>>

Deleting == {h.org.id : h \in {o \in handlers : o.step \in {"deleteCommits", "delete"}}}

(* ProcessRepository, for an entity that may be gone by now.               *)
ProcessRepository(h) ==
    /\ h.step = "process"
    /\ jobs' = jobs \cup h.ids
    /\ late' = late \cup (h.ids \ (DocIds \ Deleting))
    /\ IF h.repos # {} /\ Event(h).kind = "add" THEN Goes(h, [h EXCEPT !.step = "repos"])
       ELSE IF Event(h).kind = "push" /\ h.org # NoOrg
              THEN Goes(h, [h EXCEPT !.step = "findAgain", !.org = NoOrg])
       ELSE Leaves(h)
    /\ UNCHANGED <<github, mail, database, stopping, acting, calm, overlap, unread, linked>>

----------------------------------------------------------------------------
(* Deletion. *)

(* mutant: an uninstallation names its repositories                        *)
ListNamed(h) ==
    /\ h.step = "list"
    /\ Goes(h, [h EXCEPT !.step = "stop", !.ids = {docs[r].id : r \in h.repos} \ {0}])
    /\ UNCHANGED <<github, mail, database, server, acting, history>>

(* mutant: the organization is deleted first                               *)
ListDropping(h) ==
    /\ h.step = "list"
    /\ LET all == Event(h).kind = "uninstall"
           ids == {docs[r].id : r \in IF all THEN Repos ELSE h.repos} \ {0}
       IN  /\ Goes(h, [h EXCEPT !.step = "stop", !.ids = ids])
           /\ org' = IF all THEN NoOrg ELSE org
    /\ UNCHANGED <<github, mail, docs, monitors, commits, lastId, server, acting, history>>

List(h) ==
    /\ h.step = "list"
    /\ LET all == Event(h).kind = "uninstall"
           ids == {docs[r].id : r \in IF all THEN Repos ELSE h.repos} \ {0}
       IN  Goes(h, [h EXCEPT !.step = "stop", !.ids = ids])
    /\ UNCHANGED <<github, mail, database, server, acting, history>>

(* mutant: a process is left to end by itself                              *)
StopNothing(id) ==
    UNCHANGED <<jobs, stopping, late>>

(* StopRepository does not wait for the process.                           *)
StopRepository(id) ==
    /\ jobs' = jobs \ {id}
    /\ stopping' = IF id \in jobs THEN stopping \cup {id} ELSE stopping
    /\ late' = IF id \in jobs \cup stopping THEN late \cup {id} ELSE late

Stop(h) ==
    /\ h.step = "stop"
    /\ \E id \in h.ids :
         /\ StopRepository(id)
         /\ Goes(h, [h EXCEPT !.step = "deleteCommits", !.org = [NoOrg EXCEPT !.id = id]])
    /\ UNCHANGED <<github, mail, database, acting, calm, overlap, unread, linked>>

DeleteRepoCommits(h) ==
    /\ h.step = "deleteCommits"
    /\ commits' = commits \ {h.org.id}
    /\ Goes(h, [h EXCEPT !.step = "delete"])
    /\ UNCHANGED <<github, mail, org, docs, monitors, lastId, server, acting, history>>

(* The document; it is an error if another handler was faster.             *)
Delete(h) ==
    /\ h.step = "delete"
    /\ docs' = [r \in Repos |-> IF docs[r].id = h.org.id THEN NoDoc ELSE docs[r]]
    /\ IF h.org.id \in DocIds
         THEN Goes(h, [h EXCEPT !.step = "stop", !.ids = @ \ {h.org.id}])
         ELSE Leaves(h)
    /\ UNCHANGED <<github, mail, org, monitors, commits, lastId, server, acting, history>>

(* mutant: the list is read again                                          *)
DeletedAgain(h) ==
    /\ h.step = "stop" /\ h.ids = {}
    /\ Goes(h, [h EXCEPT !.step = "list"])
    /\ UNCHANGED <<github, mail, database, server, acting, history>>

(* All are deleted; an uninstallation deletes the organization, too.       *)
Deleted(h) ==
    /\ h.step = "stop" /\ h.ids = {}
    /\ org' = IF Event(h).kind = "uninstall" THEN NoOrg ELSE org
    /\ Leaves(h)
    /\ UNCHANGED <<github, mail, docs, monitors, commits, lastId, server, acting, history>>

----------------------------------------------------------------------------
(* Users. *)

Acts == acts < MaxActs /\ acts' = acts + 1

(* AddPublicRepository.                                                    *)
Monitor(u, r) ==
    /\ Acts
    /\ Enters(Handler(0, [kind |-> "monitor", inst |-> 0, slug |-> slug, repos |-> {r}, user |-> u],
                      "org", {r}, {}))
    /\ calm' = (calm /\ handlers = {})
    /\ UNCHANGED <<github, mail, database, server, late, unread, linked, verifications>>

StopRepositoryMonitoring(m) ==
    /\ Acts
    /\ m \in monitors
    /\ monitors' = monitors \ {m}
    /\ unread' = IF \A o \in monitors : o = m \/ o[2] # m[2] THEN unread \cup {m[2]} ELSE unread
    /\ UNCHANGED <<github, mail, org, docs, commits, lastId, server, handlers, calm, overlap,
                   late, linked, verifications>>

(* MonitorRepository, for a repository that is known.                      *)
MonitorKnown(u, id) ==
    /\ Acts
    /\ id \in DocIds
    /\ monitors' = monitors \cup {<<u, id>>}
    /\ UNCHANGED <<github, mail, org, docs, commits, lastId, server, handlers, history,
                   verifications>>

(* The site admin.                                                         *)
AdminDeletes(r) ==
    /\ Acts
    /\ Present(r)
    /\ Enters(Handler(0, [NoAct EXCEPT !.kind = "admin"], "stop", {}, {docs[r].id}))
    /\ calm' = FALSE
    /\ UNCHANGED <<github, mail, database, server, late, unread, linked, verifications>>

(* The issue tracker: the organization is noted with the request token     *)
(* until it expires, and linked when the user comes back; the organization *)
(* may be another by then.                                                 *)
HandleOrganisationLinking ==
    /\ Acts
    /\ org.id # 0
    /\ verifications' = verifications \cup {org.id}
    /\ UNCHANGED <<github, mail, database, server, handlers, history>>

LinkingCallback(id) ==
    /\ id \in verifications
    /\ org' = IF org.id = id THEN [org EXCEPT !.jira = TRUE] ELSE org
    /\ linked' = IF org.id = id THEN id ELSE linked
    /\ UNCHANGED <<github, mail, docs, monitors, commits, lastId, server, handlers, acts,
                   verifications, calm, overlap, late, unread>>

Expire(id) ==
    /\ id \in verifications
    /\ verifications' = verifications \ {id}
    /\ UNCHANGED <<github, mail, database, server, handlers, acts, history>>

DeleteIntegration ==
    /\ Acts
    /\ org.jira
    /\ org' = [org EXCEPT !.jira = FALSE]
    /\ linked' = 0
    /\ UNCHANGED <<github, mail, docs, monitors, commits, lastId, server, handlers,
                   verifications,
                   calm, overlap, late, unread>>

(* A job, running or told to stop, stores commits; it ends.                *)
Write(id) ==
    /\ id \in jobs \cup stopping
    /\ commits' = commits \cup {id}
    /\ UNCHANGED <<github, mail, org, docs, monitors, lastId, server, handlers, acting,
                   history>>

End(id) ==
    /\ id \in jobs \cup stopping
    /\ IF id \in stopping THEN stopping' = stopping \ {id} /\ UNCHANGED jobs
                          ELSE jobs' = jobs \ {id} /\ UNCHANGED stopping
    /\ UNCHANGED <<github, mail, database, handlers, acting, history>>

Step(h) ==
    \/ Find(h) \/ FindOrCreate(h) \/ UpdateOwner(h) \/ UpdateOwners(h) \/ UpdateMembers(h)
    \/ InsertOrUpdate(h) \/ InsertMonitor(h) \/ ProcessRepository(h)
    \/ List(h) \/ Stop(h) \/ DeleteRepoCommits(h) \/ Delete(h) \/ Deleted(h)

Handling ==
    \/ \E n \in mail : Handle(n)
    \/ \E h \in handlers : Step(h) \/ Fails(h)

Acting ==
    \/ \E u \in Users : \E r \in Repos : Monitor(u, r)
    \/ \E u \in Users : \E id \in DocIds : MonitorKnown(u, id)
    \/ \E m \in monitors : StopRepositoryMonitoring(m)
    \/ \E r \in Repos : AdminDeletes(r)
    \/ HandleOrganisationLinking \/ DeleteIntegration
    \/ \E id \in verifications : LinkingCallback(id) \/ Expire(id)

Next ==
    \/ \E repos \in SUBSET Repos : Install(repos)
    \/ Uninstall \/ Rename
    \/ \E r \in Repos : Select(r) \/ Unselect(r) \/ Push(r)
    \/ Handling \/ Acting
    \/ \E id \in jobs \cup stopping : Write(id) \/ End(id)

Spec == Init /\ [][Next]_vars

(* Deliveries arrive and the calls of handlers return.                     *)
FairSpec == Spec /\ WF_vars(Handling)

----------------------------------------------------------------------------
(* Properties. *)

Settled == mail = {} /\ handlers = {}

(* Every variable has its type; no two documents share an id.              *)
TypeOK ==
    /\ inst \in 0 .. installs /\ installs \in 0 .. MaxEvents
    /\ selected \subseteq Repos /\ slug \in 1 .. 2
    /\ mail \subseteq DOMAIN sent
    /\ org.id \in 0 .. lastId /\ org.inst \in 0 .. installs
    /\ \A r \in Repos : docs[r].id \in 0 .. lastId /\ docs[r].org \in 0 .. lastId
    /\ \A r, s \in Repos : Present(r) /\ docs[r].id = docs[s].id => r = s
    /\ org.id # 0 => org.id \notin DocIds
    /\ \A m \in monitors : m[1] \in Users /\ m[2] \in 1 .. lastId
    /\ commits \cup jobs \cup stopping \subseteq 1 .. lastId
    /\ Cardinality(handlers) <= MaxHandlers
    /\ verifications \subseteq 1 .. lastId

(* When the deliveries were handled one after the other, the repositories  *)
(* that are not merely monitored are those GitHub lets the installation    *)
(* see, and the organization has that installation.                        *)
InstalledAgree ==
    Settled /\ calm =>
        /\ {r \in Repos : Present(r) /\ ~docs[r].monitored} = selected
        /\ selected # {} => org.inst = inst

(* A repository belongs to the organization that is stored, and to its     *)
(* owner, unless an uninstallation ran at the same time as another handler.*)
RepoHasOrganization ==
    ~overlap => \A r \in Repos : Present(r) => docs[r].org = org.id

(* Commits of a repository that was deleted are left only by a process     *)
(* that was running then or was started for it afterwards.                 *)
NoOrphanCommits == commits \subseteq DocIds \cup late

(* A repository in monitor mode has a monitor with whose token it is read, *)
(* unless the last one left or the first one's entry failed.               *)
MonitoredIsRead ==
    \A r \in Repos : docs[r].monitored =>
        \/ \E m \in monitors : m[2] = docs[r].id
        \/ docs[r].id \in unread
        \/ \E h \in handlers : h.step = "monitor" /\ docs[r].id \in h.ids

(* The link to the issue tracker outlives monitoring and renaming; only an *)
(* installation event takes it away.                                       *)
LinkKept == linked # 0 /\ linked = org.id => org.jira

(* Every delivery is dealt with.                                           *)
Settles == ~Settled ~> Settled
=============================================================================

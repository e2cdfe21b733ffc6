------------------------------- MODULE Source -------------------------------
(***************************************************************************)
(* What the service asks GitHub for besides commits: lists that come in    *)
(* pages, and the repositories of an account, which its installations      *)
(* select. They share no state: a behaviour chooses one in the beginning   *)
(* and the other does not move.                                            *)
(***************************************************************************)

CONSTANTS
    Entries, PerPage, MaxChanges,                  \* of the lists
    Repos, Users,                                  \* of the account
    MaxDeliveries, MaxActs, MaxHandlers

VARIABLES
    asks,  \* the component that runs; the other stays as it is
    kind, list, version, list_changes, state, page, fetched, next_page,
    last_page, result, source_stored, stayed, overtaken, shifted,
    inst, installs, selected, slug, inst_sent, inst_mail, org, docs, monitors,
    repos_with_commits, lastId, inst_jobs, stopping, inst_handlers, acts, verifications,
    calm, overlap, written_late, unread, linked

Walk == INSTANCE Paging WITH stored <- source_stored, next <- next_page,
    last <- last_page, changes <- list_changes
Account == INSTANCE Installations WITH MaxEvents <- MaxDeliveries,
    commits <- repos_with_commits, late <- written_late, sent <- inst_sent,
    mail <- inst_mail, jobs <- inst_jobs, handlers <- inst_handlers

ASSUME SourceAssumption == Walk!PagingAssumption /\ Account!InstallationsAssumption

ListsVars == <<kind, list, version, list_changes, state, page, fetched,
               next_page, last_page, result, source_stored, stayed, overtaken,
               shifted>>
AccountVars == <<inst, installs, selected, slug, inst_sent, inst_mail, org, docs,
                 monitors, repos_with_commits, lastId, inst_jobs, stopping,
                 inst_handlers, acts, verifications, calm, overlap, written_late,
                 unread, linked>>

ListsOff ==
    /\ kind = "off" /\ list = "off" /\ version = "off" /\ list_changes = "off"
    /\ state = "off" /\ page = "off" /\ fetched = "off" /\ next_page = "off"
    /\ last_page = "off" /\ result = "off" /\ source_stored = "off"
    /\ stayed = "off" /\ overtaken = "off" /\ shifted = "off"
AccountOff ==
    /\ inst = "off" /\ installs = "off" /\ selected = "off" /\ slug = "off"
    /\ inst_sent = "off" /\ inst_mail = "off" /\ org = "off" /\ docs = "off"
    /\ monitors = "off" /\ repos_with_commits = "off" /\ lastId = "off"
    /\ inst_jobs = "off" /\ stopping = "off" /\ inst_handlers = "off" /\ acts = "off"
    /\ verifications = "off" /\ calm = "off" /\ overlap = "off"
    /\ written_late = "off" /\ unread = "off" /\ linked = "off"

SourceVars == <<asks, ListsVars, AccountVars>>

(* The component of the behaviour begins, the other stays off.             *)
SourceInit ==
    /\ IF asks = "lists" THEN Walk!Init ELSE ListsOff
    /\ IF asks = "account" THEN Account!Init ELSE AccountOff

SourceNext ==
    \/ asks = "lists" /\ Walk!Next /\ UNCHANGED <<asks, AccountVars>>
    \/ asks = "account" /\ Account!Next /\ UNCHANGED <<asks, ListsVars>>

SourceSpec == SourceInit /\ [][SourceNext]_SourceVars

-----------------------------------------------------------------------------
(* The properties of each, with the comments of their own modules.         *)

(* A walk reaches every pull request that was open throughout, and leaves  *)
(* the heads that GitHub has.                                              *)
ListsReached ==
    asks = "lists" =>
        Walk!TypeOK /\ Walk!EveryPullReached /\ Walk!DocumentsAreFresh

(* The walks over members and collaborators reach all of them.             *)
UsersReached == asks = "lists" => Walk!UsersReached

(* Deliveries handled one by one leave the repositories GitHub selected.   *)
InstalledAgree == asks = "account" => Account!TypeOK /\ Account!InstalledAgree

(* A repository belongs to the organization that is stored, in monitor     *)
(* mode it has a monitor, only a late process leaves commits without their *)
(* repository, and the link to the issue tracker is not lost unnoticed.    *)
NothingOrphaned ==
    asks = "account" =>
        /\ Account!RepoHasOrganization /\ Account!NoOrphanCommits
        /\ Account!MonitoredIsRead /\ Account!LinkKept
=============================================================================

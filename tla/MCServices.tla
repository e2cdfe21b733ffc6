----------------------------- MODULE MCServices -----------------------------
(* The services of Services, and the progress that pages show, with one of *)
(* three bounds. A behaviour chooses a part in the beginning.              *)
EXTENDS Services, Progress, TLC

CONSTANTS
    Parts,                   \* the components a behaviour may choose
    hub, jira, bare, none,   \* one provider of each kind that matters
    viewer                   \* the client that is there when there is one

MCKindOf == hub :> "github" @@ jira :> "jira" @@ bare :> "bare" @@ none :> "missing"

(* Two clients and one update; or one client, whose repository has updates *)
(* and checks one after the other; or one client and a user who stops one  *)
(* update, so that it runs next to another.                                *)
UpdatesOnly == \A j \in DOMAIN jobs' : jobs'[j].kind = "update"
OneViewer == \A c \in Subscribers \ {viewer} : client'[c].pc = "away"
Bounded ==
    \/ /\ part = "pages"
       /\ UpdatesOnly /\ Len(jobs') <= 1 /\ detached' = {}
    \/ /\ part = "entries"
       /\ OneViewer /\ Len(notifiers') <= 1 /\ detached' = {}
    \/ /\ part = "stops"
       /\ UpdatesOnly /\ OneViewer
       /\ Len(jobs') <= 2 /\ Len(notifiers') <= 1 /\ ticks' = 0

(* arg is set before it is read.                                           *)
ComponentsInit ==
    /\ part \in Parts
    /\ arg = [c \in Callers |-> CHOOSE id \in Ids : TRUE]
    /\ Starts
    /\ ProgressInit

ComponentsNext ==
    \/ ServicesNext /\ UNCHANGED progress
    \/ /\ part \in {"pages", "entries", "stops"}
       /\ ProgressNext /\ Bounded
       /\ UNCHANGED services

ComponentsSpec == ComponentsInit /\ [][ComponentsNext]_<<services, progress>>
=============================================================================

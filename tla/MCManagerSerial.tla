-------------------------- MODULE MCManagerSerial --------------------------
(* What must happen in the end when goroutines share locks and workers: a  *)
(* manager nobody stops, which implements SerialJobs; a smaller one with   *)
(* stops; and the map of clients of providers. A behaviour chooses one in  *)
(* the beginning; the variables of the others do not move.                 *)
EXTENDS Integers, Sequences, TLC

CONSTANTS
    Parts,                        \* "serial", "stops" and "providers"
    r1, r2, r3, j1, j2, j3, j4, j5, NoJob,
    c1, c2,                       \* callers that need clients
    hub, jira, bare, none, NoProvider

VARIABLES
    part,
    run, created, queued, items, processing, processes, chain, pc, ctxDone,
    ended, cur, agenda, stopping,
    integrations, made, at_provider, asked, step, repo, scm, its, result

RepoOf == (j1 :> r1) @@ (j2 :> r1) @@ (j3 :> r1) @@ (j4 :> r2) @@ (j5 :> r3)
ActionOf == (j1 :> "RepositoryPush") @@ (j2 :> "PullRequestUpdate")
    @@ (j3 :> "RepositoryAdded") @@ (j4 :> "PushCheck") @@ (j5 :> "RepositoryRecovering")

(* Two repositories that share one worker.                                 *)
StopsRepoOf == (j1 :> r1) @@ (j2 :> r1) @@ (j3 :> r2) @@ (j4 :> r2)
StopsActionOf == (j1 :> "RepositoryPush") @@ (j2 :> "PushCheck")
    @@ (j3 :> "PullRequestUpdate") @@ (j4 :> "RepositoryRecovering")

KindOf == hub :> "github" @@ jira :> "jira" @@ bare :> "bare" @@ none :> "missing"

Repos == {r1, r2, r3}
Large == INSTANCE ManagerSerial WITH Jobs <- {j1, j2, j3, j4, j5},
    DefaultQueueWorkersCount <- 1, DefaultManagerWorkersCount <- 2
Small == INSTANCE Manager WITH Repos <- {r1, r2}, Jobs <- {j1, j2, j3, j4},
    RepoOf <- StopsRepoOf, ActionOf <- StopsActionOf,
    DefaultQueueWorkersCount <- 1, DefaultManagerWorkersCount <- 1
Client == INSTANCE ServiceProviders WITH Callers <- {c1, c2},
    Providers <- {hub, jira, bare, none}, MaxClients <- 3, pc <- at_provider

ManagerVars == <<run, created, queued, items, processing, processes, chain, pc,
                 ctxDone, ended, cur, agenda, stopping>>
ProviderVars == <<integrations, made, at_provider, asked, step, repo, scm, its,
                  result>>
all == <<part, ManagerVars, ProviderVars>>

ProviderOff ==
    /\ integrations = "off" /\ made = "off" /\ at_provider = "off" /\ asked = "off"
    /\ step = "off" /\ repo = "off" /\ scm = "off" /\ its = "off"
    /\ result = "off"

ComponentsInit ==
    /\ part \in Parts
    /\ IF part = "stops" THEN Small!Init ELSE Large!Init
    /\ IF part = "providers" THEN Client!Init ELSE ProviderOff

ComponentsNext ==
    \/ part = "serial" /\ Large!NextNoStop /\ UNCHANGED <<part, ProviderVars>>
    \/ part = "stops" /\ Small!Next /\ UNCHANGED <<part, ProviderVars>>
    \/ part = "providers" /\ Client!Next /\ UNCHANGED <<part, ManagerVars>>

(* The fairness of each component, where it runs.                          *)
LargeFairness ==
    /\ WF_ManagerVars(part = "serial" /\ Large!Run)
    /\ WF_ManagerVars(part = "serial" /\ Large!StartNext)
    /\ WF_ManagerVars(part = "serial" /\ Large!QueueDone)
    /\ \A q \in Large!QueueIDs : WF_ManagerVars(part = "serial" /\ Large!NextQueue(q))
    /\ \A p \in {j1, j2, j3, j4, j5} :
          /\ WF_ManagerVars(part = "serial" /\ Large!Begin(p))
          /\ WF_ManagerVars(part = "serial" /\ Large!RunNext(p))
          /\ WF_ManagerVars(part = "serial" /\ \E failed \in BOOLEAN : Large!Finish(p, failed))

SmallFairness ==
    /\ WF_ManagerVars(part = "stops" /\ Small!Run)
    /\ WF_ManagerVars(part = "stops" /\ Small!StartNext)
    /\ WF_ManagerVars(part = "stops" /\ Small!QueueDone)
    /\ \A q \in Small!QueueIDs : WF_ManagerVars(part = "stops" /\ Small!NextQueue(q))
    /\ \A p \in {j1, j2, j3, j4} :
          /\ WF_ManagerVars(part = "stops" /\ Small!Begin(p))
          /\ WF_ManagerVars(part = "stops" /\ Small!RunNext(p))
          /\ WF_ManagerVars(part = "stops" /\ \E failed \in BOOLEAN : Small!Finish(p, failed))

ClientFairness ==
    \A c \in {c1, c2} :
        /\ SF_ProviderVars(part = "providers" /\ Client!Lock(c))
        /\ WF_ProviderVars(part = "providers" /\ Client!Proceed(c))

ComponentsSpec ==
    /\ ComponentsInit /\ [][ComponentsNext]_all
    /\ LargeFairness /\ SmallFairness /\ ClientFairness

ASSUME ComponentsAssumption == Client!ProviderAssumption

-----------------------------------------------------------------------------
(* Properties. *)

(* Where jobs are not followed the abstract manager has none.              *)
Serial == INSTANCE SerialJobs WITH
    Jobs <- {j1, j2, j3, j4, j5},
    submitted <- IF part = "serial" THEN created ELSE {},
    waiting <- IF part = "serial" THEN Large!waitingJobs ELSE [r \in Repos |-> <<>>],
    active <- IF part = "serial" THEN Large!activeJob ELSE [r \in Repos |-> NoJob]

(* Without stops the jobs of a repository are run one at a time and in     *)
(* order, whatever queues they go through, and all of them leave: the      *)
(* manager implements SerialJobs under the mapping of ManagerSerial, which *)
(* looks at the process the map names: a repository has no other.          *)
ImplementsSerialJobs ==
    /\ [](part = "serial" => Large!OneProcessPerRepo)
    /\ Serial!FairSpec

InSystem(j) == part = "stops" /\ Small!InSystem(j)

(* Every job that was accepted is run, or dropped by a stop or a failure.  *)
JobLeaves == \A j \in {j1, j2, j3, j4} : InSystem(j) ~> ~InSystem(j)

Calling(c) == part = "providers" /\ at_provider[c] # "idle"

(* Every call for a client ends, whatever fails while the lock is held.    *)
CallsReturn == \A c \in {c1, c2} : Calling(c) ~> ~Calling(c)
=============================================================================

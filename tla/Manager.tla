------------------------------ MODULE Manager ------------------------------
(***************************************************************************)
(* The job manager of the ingest service (src/ingest/pkg/manage): which    *)
(* repository waits in which queue, which process runs its jobs, and what  *)
(* the goroutines of the manager, of the processes and of the HTTP         *)
(* handlers may do to each other.                                          *)
(*                                                                         *)
(* A step is either the code between two releases of mgr.mu, or one        *)
(* iteration of a loop run under it (then cur and agenda say what the      *)
(* holder still has to do and every other locked step waits), or a step of *)
(* a process goroutine, which runs without the lock.                       *)
(***************************************************************************)
EXTENDS Integers, Sequences, FiniteSets, Functions

CONSTANTS
    Repos,      \* repository ids
    Jobs,       \* job ids; CreateJob never returns one twice
    RepoOf,     \* JobInfo.RepoID of each job
    ActionOf,   \* JobInfo.Action of each job
    NoJob,      \* "no entry" in the processes map
    DefaultQueueWorkersCount,   \* Queue.NumWorkers
    DefaultManagerWorkersCount  \* Manager.numWorkers

(* The actions (package invoke) some caller of ProcessRepository uses. *)
Actions == {"RepositoryAdded", "RepositoryPush", "RepositoryRecovering",
            "RepositoryAdminTrigger", "PullRequestAdded", "PullRequestUpdate",
            "PushCheck", "PullRequestCheck", "MonitorRepository"}

(* No job is ever sent to QueuePullRequests. *)
QueueIDs == {"QueueNewRepos", "QueueNewCommits", "QueueRecovered"}
NoQueue == "QueueNotSpecify"

ASSUME ManagerAssumption ==
    /\ RepoOf \in [Jobs -> Repos]
    /\ ActionOf \in [Jobs -> Actions]
    /\ NoJob \notin Jobs
    /\ DefaultQueueWorkersCount \in Nat \ {0}
    /\ DefaultManagerWorkersCount \in Nat \ {0}

VARIABLES
    run,        \* Manager.run
    created,    \* jobs that CreateJob has inserted
    queued,     \* Manager.queued: the waiting job of a repository and its followers
    items,      \* Queue.items: the repositories waiting in a queue
    processing, \* Queue.processing
    processes,  \* Manager.processes; a process is named by its first job
    chain,      \* process.JobInfo and, through its next field, its followers
    pc,         \* the goroutine of a process: idle, spawned, running or reported
    ctxDone,    \* the context of the job a process runs is done
    ended,      \* jobs whose run is over
    cur,        \* the queue processJobsFromQueue is working on
    agenda,     \* the queues processQueuedRepositories has still to visit
    stopping    \* repositories whose REST Stop handler waits for Progress = nil

locked == <<cur, agenda>>
vars == <<run, created, queued, items, processing, processes, chain, pc,
          ctxDone, ended, cur, agenda, stopping>>

----------------------------------------------------------------------------
(* Queues and workers. *)

(* mutant: the jobs of pull requests go to QueuePullRequests, which        *)
(* NewManager never creates                                                *)
FindQueueIDPullRequests(j) ==
    CASE ActionOf[j] = "RepositoryRecovering" -> "QueueRecovered"
      [] ActionOf[j] \in {"PullRequestAdded", "PullRequestUpdate"} -> "QueuePullRequests"
      [] ActionOf[j] \in {"RepositoryAdded", "MonitorRepository"} -> "QueueNewRepos"
      [] OTHER -> "QueueNewCommits"

FindQueueID(j) ==
    CASE ActionOf[j] = "RepositoryRecovering" -> "QueueRecovered"
      [] ActionOf[j] \in {"RepositoryAdded", "MonitorRepository"} -> "QueueNewRepos"
      [] OTHER -> "QueueNewCommits"

NumProcessing == processing["QueueNewRepos"] + processing["QueueNewCommits"]
                    + processing["QueueRecovered"]

QueueHasFreeWorkers(q) == DefaultQueueWorkersCount > processing[q]
HasFreeWorkers == DefaultManagerWorkersCount > NumProcessing

(* mutant: the limit of the manager is not looked at *)
CanStartQueueLimitOnly(q) == QueueHasFreeWorkers(q) /\ items[q] # <<>>

(* The condition of the loop in processJobsFromQueue. *)
CanStart(q) == QueueHasFreeWorkers(q) /\ items[q] # <<>> /\ HasFreeWorkers

(* mutant: the sweep at the end of runNext is forgotten *)
QueuesOfQueuedNone == {}

(* The queues processQueuedRepositories visits, in an order the map picks. *)
QueuesOfQueued == {FindQueueID(Head(queued[r])) : r \in {x \in Repos : queued[x] # <<>>}}

(* mgr.mu is free: its last holder has finished its loops. *)
Unlocked == cur = NoQueue /\ agenda = {}

(* mutant: the entry stays in the map *)
deleteProcessKept(r) == processes

deleteProcess(r) == [processes EXCEPT ![r] = NoJob]

----------------------------------------------------------------------------
(* ProcessRepository: create the job, then append it to the process of its *)
(* repository, or to the waiting job, or push the repository on a queue.   *)
(* IsEqual is nil at every call site, so Append never refuses a job.       *)

(* mutant: the new job is linked right behind the head of the list *)
appendAfterHead(info, j) == <<Head(info), j>> \o Tail(info)

(* JobInfo.Append *)
append(info, j) == Append(info, j)

AppendToProcess(j, r) ==
    /\ processes[r] # NoJob
    /\ chain' = [chain EXCEPT ![processes[r]] = append(@, j)]
    /\ UNCHANGED <<queued, items, cur>>

AppendToQueued(j, r) ==
    /\ processes[r] = NoJob
    /\ queued[r] # <<>>
    /\ queued' = [queued EXCEPT ![r] = append(@, j)]
    /\ UNCHANGED <<chain, items, cur>>

PushOnQueue(j, r) ==
    /\ processes[r] = NoJob
    /\ queued[r] = <<>>
    /\ queued' = [queued EXCEPT ![r] = <<j>>]
    /\ items' = [items EXCEPT ![FindQueueID(j)] = Append(@, r)]
    /\ cur' = IF run THEN FindQueueID(j) ELSE NoQueue
    /\ UNCHANGED chain

ProcessRepository(j) ==
    /\ Unlocked
    /\ j \notin created
    /\ created' = created \cup {j}
    /\ \/ AppendToProcess(j, RepoOf[j])
       \/ AppendToQueued(j, RepoOf[j])
       \/ PushOnQueue(j, RepoOf[j])
    /\ UNCHANGED <<run, processing, processes, pc, ctxDone, ended, agenda, stopping>>

----------------------------------------------------------------------------
(* processJobsFromQueue and processQueuedRepositories. *)

(* mutant: the waiting entry is not deleted when its process is added *)
unqueueKept(r) == queued

(* delete(mgr.queued, repoID) *)
unqueue(r) == [queued EXCEPT ![r] = <<>>]

(* addProcess and, when it succeeds, "go process.run" and processStarted.  *)
(* Its two errors leave the worker free: the repository is not queued, or  *)
(* has a process already, to which the job is then appended.               *)
addProcess(q, r) ==
    LET p == Head(queued[r]) IN
    IF queued[r] = <<>>
    THEN UNCHANGED <<queued, processes, chain, pc, ctxDone, processing>>
    ELSE /\ queued' = unqueue(r)
         /\ IF processes[r] # NoJob
            THEN /\ chain' = [chain EXCEPT ![processes[r]] = @ \o queued[r]]
                 /\ UNCHANGED <<processes, pc, ctxDone, processing>>
            ELSE /\ processes' = [processes EXCEPT ![r] = p]
                 /\ chain' = [chain EXCEPT ![p] = queued[r]]
                 /\ pc' = [pc EXCEPT ![p] = "spawned"]
                 /\ ctxDone' = [ctxDone EXCEPT ![p] = FALSE]
                 /\ processing' = [processing EXCEPT ![q] = @ + 1]

(* One iteration of processJobsFromQueue. *)
StartNext ==
    /\ cur # NoQueue
    /\ CanStart(cur)
    /\ items' = [items EXCEPT ![cur] = Tail(@)]
    /\ addProcess(cur, Head(items[cur]))
    /\ UNCHANGED <<run, created, ended, cur, agenda, stopping>>

(* processJobsFromQueue leaves its loop. *)
QueueDone ==
    /\ cur # NoQueue
    /\ ~CanStart(cur)
    /\ cur' = NoQueue
    /\ UNCHANGED <<run, created, queued, items, processing, processes, chain,
                   pc, ctxDone, ended, agenda, stopping>>

(* processQueuedRepositories goes on with the next queue. *)
NextQueue(q) ==
    /\ cur = NoQueue
    /\ q \in agenda
    /\ cur' = q
    /\ agenda' = agenda \ {q}
    /\ UNCHANGED <<run, created, queued, items, processing, processes, chain,
                   pc, ctxDone, ended, stopping>>

(* The first part of Run: until then jobs wait, whoever submits them. *)
Run ==
    /\ Unlocked
    /\ ~run
    /\ run' = TRUE
    /\ agenda' = QueuesOfQueued
    /\ UNCHANGED <<created, queued, items, processing, processes, chain, pc,
                   ctxDone, ended, cur, stopping>>

----------------------------------------------------------------------------
(* The goroutine of a process. *)

(* Only these pipelines never reach a stage of several tasks. *)
HasParallelStage(j) ==
    ActionOf[j] \notin {"PullRequestAdded", "PullRequestUpdate", "PullRequestCheck"}

(* process.run creates the context of the job and sets p.cancel. *)
Begin(p) ==
    /\ pc[p] = "spawned"
    /\ pc' = [pc EXCEPT ![p] = "running"]
    /\ UNCHANGED <<run, created, queued, items, processing, processes, chain,
                   ctxDone, ended, cur, agenda, stopping>>

(* mutant: the context is cancelled before it is looked at *)
FinishCancelFirst(p, stageFailed) ==
    /\ pc[p] = "running"
    /\ stageFailed => HasParallelStage(Head(chain[p]))
    /\ pc' = [pc EXCEPT ![p] = "reported"]
    /\ ended' = ended \cup {Head(chain[p])}
    /\ chain' = [chain EXCEPT ![p] = <<Head(@)>>]
    /\ UNCHANGED <<run, created, queued, items, processing, processes,
                   ctxDone, cur, agenda, stopping>>

(* The pipeline is over and the deferred function of run has reported it.  *)
(* If the context is done, by Stop or because a task of a parallel stage   *)
(* failed and cancelled it, CancelNext drops the followers.                *)
Finish(p, stageFailed) ==
    /\ pc[p] = "running"
    /\ stageFailed => HasParallelStage(Head(chain[p]))
    /\ pc' = [pc EXCEPT ![p] = "reported"]
    /\ ended' = ended \cup {Head(chain[p])}
    /\ chain' = IF ctxDone[p] \/ stageFailed
                THEN [chain EXCEPT ![p] = <<Head(@)>>]
                ELSE chain
    /\ UNCHANGED <<run, created, queued, items, processing, processes,
                   ctxDone, cur, agenda, stopping>>

(* mutant: the follower does not count as processing *)
handOverUncounted(done, started) == [processing EXCEPT ![done] = @ - 1]

(* processDone on the queue of the job that is over, processStarted on the *)
(* queue of its follower.                                                  *)
handOver(done, started) ==
    LET p == [processing EXCEPT ![done] = @ - 1] IN [p EXCEPT ![started] = @ + 1]

(* runNext: the manager receives p from the channel done. deleteProcess    *)
(* removes whatever process the map has for the repository, p or not.      *)
RunNextLast(p) ==
    LET q == FindQueueID(Head(chain[p])) IN
    /\ Tail(chain[p]) = <<>>
    /\ processing' = [processing EXCEPT ![q] = @ - 1]
    /\ processes' = deleteProcess(RepoOf[p])
    /\ chain' = [chain EXCEPT ![p] = <<>>]
    /\ pc' = [pc EXCEPT ![p] = "idle"]
    /\ cur' = q

(* mutant: the process keeps its job *)
RunNextFollowerSameJob(p) ==
    /\ Tail(chain[p]) # <<>>
    /\ processing' = handOver(FindQueueID(Head(chain[p])), FindQueueID(Head(chain[p])))
    /\ pc' = [pc EXCEPT ![p] = "spawned"]
    /\ UNCHANGED <<chain, processes, cur>>

(* mutant: the entry is deleted before the follower is looked for *)
RunNextFollowerDeletes(p) ==
    /\ Tail(chain[p]) # <<>>
    /\ processing' = handOver(FindQueueID(Head(chain[p])),
                              FindQueueID(Head(Tail(chain[p]))))
    /\ processes' = deleteProcess(RepoOf[p])
    /\ chain' = [chain EXCEPT ![p] = Tail(@)]
    /\ pc' = [pc EXCEPT ![p] = "spawned"]
    /\ UNCHANGED cur

RunNextFollower(p) ==
    /\ Tail(chain[p]) # <<>>
    /\ processing' = handOver(FindQueueID(Head(chain[p])),
                              FindQueueID(Head(Tail(chain[p]))))
    /\ chain' = [chain EXCEPT ![p] = Tail(@)]
    /\ pc' = [pc EXCEPT ![p] = "spawned"]
    /\ UNCHANGED <<processes, cur>>

RunNext(p) ==
    /\ Unlocked
    /\ run
    /\ pc[p] = "reported"
    /\ RunNextLast(p) \/ RunNextFollower(p)
    /\ ctxDone' = [ctxDone EXCEPT ![p] = FALSE]
    /\ agenda' = QueuesOfQueued
    /\ UNCHANGED <<run, created, queued, items, ended, stopping>>

----------------------------------------------------------------------------
(* Stopping a repository. *)

(* Queue.removeRepository on a list where the repository occurs once. *)
removeRepository(s, r) ==
    IF \E i \in DOMAIN s : s[i] = r
    THEN LET k == CHOOSE i \in DOMAIN s : s[i] = r
         IN  [i \in 1..(Len(s) - 1) |-> IF i < k THEN s[i] ELSE s[i + 1]]
    ELSE s

(* Its loop runs over the length the list had before the removal, and      *)
(* panics with an index out of range unless the last item was removed.     *)
removePanics(s, r) == \E i \in DOMAIN s : s[i] = r /\ i # Len(s)

(* The repository is not the last of its queue: the panic unwinds the      *)
(* handler of the request, which is then over.                             *)
StopPanicsInQueue(r) ==
    queued[r] # <<>> /\ \E q \in QueueIDs : removePanics(items[q], r)

(* p.Stop calls p.cancel: nil, and a panic, before the first run has set   *)
(* it, and the context of the previous job in a process that is spawned    *)
(* again or has reported; only a running job is cancelled.                 *)
StopPanicsInProcess(p) == pc[p] = "spawned" /\ Head(chain[p]) = p

StopRepository(r) ==
    LET p == processes[r] IN
    /\ Unlocked
    /\ IF queued[r] # <<>>
       THEN /\ queued' = unqueue(r)
            /\ items' = [q \in QueueIDs |-> removeRepository(items[q], r)]
       ELSE UNCHANGED <<queued, items>>
    /\ IF p # NoJob /\ ~StopPanicsInQueue(r)
       THEN /\ processes' = deleteProcess(r)
            /\ ctxDone' = IF pc[p] = "running" THEN [ctxDone EXCEPT ![p] = TRUE] ELSE ctxDone
       ELSE UNCHANGED <<processes, ctxDone>>
    /\ UNCHANGED <<run, created, processing, chain, pc, ended, cur, agenda>>

StopPanics(r) ==
    \/ StopPanicsInQueue(r)
    \/ processes[r] # NoJob /\ StopPanicsInProcess(processes[r])

(* The REST handler Stop: after StopRepository it polls Progress. *)
Stop(r) ==
    /\ r \notin stopping
    /\ StopRepository(r)
    /\ stopping' = IF StopPanics(r) THEN stopping ELSE stopping \cup {r}

(* Progress returns nil, or the request is cancelled. *)
StopReturns(r) ==
    /\ r \in stopping
    /\ stopping' = stopping \ {r}
    /\ UNCHANGED <<run, created, queued, items, processing, processes, chain,
                   pc, ctxDone, ended, cur, agenda>>

----------------------------------------------------------------------------

Init ==
    /\ run = FALSE
    /\ created = {}
    /\ queued = [r \in Repos |-> <<>>]
    /\ items = [q \in QueueIDs |-> <<>>]
    /\ processing = [q \in QueueIDs |-> 0]
    /\ processes = [r \in Repos |-> NoJob]
    /\ chain = [p \in Jobs |-> <<>>]
    /\ pc = [p \in Jobs |-> "idle"]
    /\ ctxDone = [p \in Jobs |-> FALSE]
    /\ ended = {}
    /\ cur = NoQueue
    /\ agenda = {}
    /\ stopping = {}

(* The manager as long as nobody stops a repository. *)
NextNoStop ==
    \/ \E j \in Jobs : ProcessRepository(j)
    \/ Run
    \/ StartNext
    \/ QueueDone
    \/ \E q \in QueueIDs : NextQueue(q)
    \/ \E p \in Jobs : Begin(p) \/ RunNext(p)
    \/ \E p \in Jobs, stageFailed \in BOOLEAN : Finish(p, stageFailed)

Next ==
    \/ NextNoStop
    \/ \E r \in Repos : Stop(r) \/ StopReturns(r)

SpecNoStop == Init /\ [][NextNoStop]_vars
Spec == Init /\ [][Next]_vars

(* Goroutines are scheduled, the tasks of a pipeline return, the manager   *)
(* keeps receiving from done and a locked loop goes on to its end.         *)
Fairness ==
    /\ WF_vars(Run)
    /\ WF_vars(StartNext)
    /\ WF_vars(QueueDone)
    /\ \A q \in QueueIDs : WF_vars(NextQueue(q))
    /\ \A p \in Jobs : WF_vars(Begin(p)) /\ WF_vars(RunNext(p))
    /\ \A p \in Jobs : WF_vars(\E stageFailed \in BOOLEAN : Finish(p, stageFailed))

FairSpec == Spec /\ Fairness

----------------------------------------------------------------------------
(* Properties. *)

Active(p) == pc[p] # "idle"

(* Every variable has its type. *)
TypeOK ==
    /\ run \in BOOLEAN
    /\ created \in SUBSET Jobs
    /\ queued \in [Repos -> Seq(Jobs)]
    /\ items \in [QueueIDs -> Seq(Repos)]
    /\ processing \in [QueueIDs -> Int]
    /\ processes \in [Repos -> Jobs \cup {NoJob}]
    /\ chain \in [Jobs -> Seq(Jobs)]
    /\ pc \in [Jobs -> {"idle", "spawned", "running", "reported"}]
    /\ ctxDone \in [Jobs -> BOOLEAN]
    /\ ended \in SUBSET Jobs
    /\ cur \in QueueIDs \cup {NoQueue}
    /\ agenda \in SUBSET QueueIDs
    /\ stopping \in SUBSET Repos

(* At most numWorkers process goroutines exist, although runNext hands a   *)
(* worker over to a follower without looking at any limit.                 *)
WorkerBound == Cardinality({p \in Jobs : Active(p)}) <= DefaultManagerWorkersCount

(* The counter of a queue is the number of goroutines whose current job    *)
(* belongs to the queue, whatever queue their first job came through: no   *)
(* worker slot is leaked or freed twice.                                   *)
ProcessingCounts ==
    \A q \in QueueIDs :
        processing[q] = Cardinality({p \in Jobs : Active(p) /\ FindQueueID(Head(chain[p])) = q})

(* A repository is in a queue exactly when it has a waiting job, in the    *)
(* queue of that job, once; and then the map has no process for it. So     *)
(* neither error of addProcess can happen.                                 *)
QueuedAgreement ==
    /\ \A q \in QueueIDs, r \in Repos :
          r \in Range(items[q]) <=> queued[r] # <<>> /\ FindQueueID(Head(queued[r])) = q
    /\ \A q \in QueueIDs : IsInjective(items[q])
    /\ \A r \in Repos : queued[r] # <<>> => processes[r] = NoJob

(* The limits hold and the counters are right, over all hand-overs.        *)
WorkersCounted == WorkerBound /\ ProcessingCounts

(* Once the manager runs, nobody waits in a queue that has a free worker   *)
(* while the manager has one too.                                          *)
NoIdleWorker == run /\ Unlocked => \A q \in QueueIDs : ~CanStart(q)

(* The processes map never names a goroutine that is over, even though     *)
(* runNext deletes entries that are not its own: a job that is appended to *)
(* a process is appended to one that will look at its followers again.     *)
EntryIsActive ==
    \A r \in Repos : processes[r] # NoJob => Active(processes[r]) /\ RepoOf[processes[r]] = r

(* A job is in one place: in one chain or one waiting list, at one         *)
(* position, and not at all once its run is over and handed back.          *)
JobInOnePlace ==
    /\ \A p1, p2 \in Jobs : \A i \in DOMAIN chain[p1], k \in DOMAIN chain[p2] :
          chain[p1][i] = chain[p2][k] => p1 = p2 /\ i = k
    /\ \A r \in Repos : IsInjective(queued[r])
    /\ \A r \in Repos, p \in Jobs : Range(queued[r]) \cap (Range(chain[p]) \cup ended) = {}

(* A job is in the one place where the next step will look for it.         *)
JobsPlaced == QueuedAgreement /\ JobInOnePlace

(* No job is run twice. *)
NoJobTwice ==
    [][\A p \in Jobs : pc[p] = "spawned" /\ pc'[p] = "running" => Head(chain[p]) \notin ended]_vars

(* Somebody holds the job and will come back to it. *)
InSystem(j) ==
    \/ \E r \in Repos : j \in Range(queued[r])
    \/ \E p \in Jobs : j \in Range(chain[p])

(* Every job that was accepted is run, or dropped by a cancellation: none  *)
(* stays in a queue or behind another job for ever.                        *)
JobLeaves == \A j \in Jobs : InSystem(j) ~> ~InSystem(j)

(* An accepted job is given up without having been run only by stopping    *)
(* its repository while it waits, or when the job before it ended with its *)
(* context done: it was stopped, or failed in a stage of several tasks.    *)
DropOnlyOnCancel ==
    [][\A j \in Jobs : InSystem(j) /\ ~InSystem(j)' /\ j \notin ended =>
          \/ queued[RepoOf[j]] # <<>> /\ UNCHANGED <<run, chain, pc>>
          \/ \E p \in Jobs : /\ pc[p] = "running" /\ pc'[p] = "reported"
                             /\ j \in Range(chain[p])
                             /\ ctxDone[p] \/ HasParallelStage(Head(chain[p]))]_vars

(* No job is run twice, and none is lost but by a cancellation.            *)
JobsKept == NoJobTwice /\ DropOnlyOnCancel

(* While no one stops a repository, it has at most one process goroutine,  *)
(* and the map names it.                                                   *)
OneProcessPerRepo == \A p \in Jobs : Active(p) => processes[RepoOf[p]] = p

(* addProcess: "if the repository has a process, the job should be         *)
(* appended and not queued". After StopRepository the process goes on      *)
(* until it notices, and a new job of the repository is queued.            *)
AppendedNotQueued ==
    \A r \in Repos : queued[r] # <<>> => ~\E p \in Jobs : Active(p) /\ RepoOf[p] = r
=============================================================================

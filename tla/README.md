# TLA+ models of Repofuel

Repofuel watches Git repositories, analyses their commits and predicts which of
them are likely to introduce bugs. It has three Go services (`accounts`,
`ingest`, `ml`) and a web client. The core is the **ingest** service: it
receives webhooks and API calls, turns them into *jobs*, and runs each job as a
pipeline of tasks (clone or fetch, read the new commits, analyse, predict,
report to GitHub). This directory holds TLA+ models of its logic, the TLC runs
that check them on small instances and the proofs that TLAPS checks for all
instances.

All paths below are relative to `src/`.

## 1. Inventory

| Component | State | Operations | Hard behaviour | What makes it correct |
|---|---|---|---|---|
| Job manager, `ingest/pkg/manage/manage.go`, `queue.go`, `ingest/pkg/jobinfo` | `Manager.queued`, `processes`, the queues' `items` and `processing`, the `next` lists of jobs | `ProcessRepository`, `Run`, `runNext`, `StopRepository`, `DeleteRepository`, `Progress` | handlers, webhooks and process goroutines meet under `mgr.mu`; process goroutines change their job list without it | jobs of a repository run one at a time in order, limits hold, no slot leaks, no job is lost or run twice |
| Process and pipelines, `ingest/pkg/manage/job.go`, `strategy.go`, `tasks.go` | the process record, its context, job and repository status in the database | `run`, `runPipeline`, `checkErrors`, `saveStatus`, the tasks | tasks of a stage run in parallel and share `err`, panics, cancellation | the recorded outcome is the real one, every run reports |
| Crash recovery, `Manager.Recover`, `RecoverFromLastPredicting`, the migration | the logs of jobs, the statuses of repositories and pull requests | restart, upgrade | the queues live in memory only; a status is saved in two writes | interrupted work is taken up, analysed commits are predicted |
| Commit graph, `ingest/pkg/engine` | commits with parents and children, roots, branch tags in memory | `IngestHead`, `UnseenRoots`, `AncestorsList`..., `TagBranchesOnCommits` | incremental ingestion after a partial one, merges, several roots | walks return what is reachable, start points cover what is new |
| Branches, analysis and stored commits, `job.go` (`ingestLocalBranches`, `analyze`...), `brancher`, `analysis`, `entity/mongosrc` | commit documents with their branches and pull requests, branch heads recorded as analysed | `Rearrange`, `InsertOrReplace`, `SaveBranches`, `ReTagBranch`, `Prune` | force pushes, deleted branches, failures half way, two kinds of jobs on the same documents | analysed heads never run ahead of the stored commits, no stale tags |
| Progress observables, `manage/progress.go` and the `changeProgress` subscription | registry, subscriber channels | `GetOrCreate`, `RemoveEmpty`, subscribe, `SetNewStage` | registry read without its lock, lossy notification | a subscriber sees the last stage |
| Integration manager, `manage/integrations.go` | cache of service providers | `ServiceProvider` | double-checked locking | one provider per platform |
| GitHub application, `ingest/pkg/ghapp` | installation transports (ring of 20), documents of repositories, organisations and pull requests | webhook handlers, paging, check runs | webhooks are repeated and reordered | documents converge to the platform's state |
| Jira linking, `ingest/pkg/atlassian` | verifications, provider configurations of an organisation | `HandleOrganisationLinking`, callback | other writers of the same configurations | the link stays until it is changed |
| Monitoring, `GithubApp.MonitorRepository`, `monitorauth` | monitors of public repositories | add and remove | concurrent with jobs | a repository is monitored while somebody monitors it |
| ML models, `ml/pkg/ml`, `ml/internal/entity` | model versions and their status | `Predict`, training | two predictions for one repository | a prediction uses a model that is ready; versions are unique |
| Accounts, `accounts/` | users, providers, refresh tokens | login, linking, `RefreshAccessToken` | two-step updates | a provider account belongs to one user |
| GraphQL and REST API, `ingest/graph`, `ingest/internal/rest`, `accesscontrol` | none of their own | queries, mutations | | permission checks |
| Lists of the API, `entity/mongosrc/connection*.go` | one query for each request | `ItemConnection` and its resolvers, cursors | resolvers run at once; documents come and go between pages | a page is the range asked for, a walk misses nothing and ends |
| Data sources, `entity/mongosrc`, `pkg/mongocon` | MongoDB collections | queries and updates | single-document atomicity | |
| Text classification and insights, `classify`, `commitmsg`, `insights`, `insightgen` | none | pure functions | | |
| Shared code, `pkg/` (credentials, codec, metrics, client) | none | | | |
| Web client, `web/` | the tokens of the session, pages | login, refresh, logout | answers that come late | the page has the session the user began last |

How they interact: the webhook handlers (`ghapp`), the REST handlers and the
GraphQL mutations call `Manager.ProcessRepository` with a new job;
`cmd/http-server/main.go` calls `Recover`, migrates the data, starts
`Manager.Run` and then the server. The manager starts one goroutine per process,
`process.run`; when it has reported its job on the channel `done`, `Manager.Run`
receives it and calls `runNext`. Tasks read and write the database, call the Git
engine, GitHub, and the ML service over HTTP. Progress is pushed through the
observables to GraphQL subscriptions.

## 2. Modules

| Part | Modules | Composition |
|---|---|---|
| Job manager | `Manager`, `SerialJobs` (abstract), `ManagerSerial` (refinement), `ManagerProofs` | |
| A run of a job | `Pipeline`, `PipelineProofs` | |
| Commit graph | `Traversal`, `SourceProofs`, `CommitGraph`, `IngestHead` | `RepositoryAnalysis`, `BugMarks` and `Measures` use `CommitGraph`; with `Recovery` they take a call of `IngestHead` as one step, with any end `IngestHead` can have |
| Stored commits | `RepositoryAnalysis`, `BugMarks`, `RepositoryAnalysisProofs`, `Measures` | `BugMarks` extends the steps of `RepositoryAnalysis` |
| Restarts and predictions | `Recovery`, `RecoveryProofs`, `Models` | jobs of one repository in order, as `SerialJobs` promises |
| What clients see | `Progress`, `ProgressProofs`, `Connection`, `Lists`, `TokenStore` | `Lists` is `Connection` as a component of its own, which `RecoveryProofs` is also about |
| GitHub, Jira, accounts | `PullRequestEvents`, `Paging`, `Installations`, `TransportCache`, `ServiceProviders`, `Accounts` | handlers and the jobs they start |
| Services together | `Services`, `ServicesProofs` | `TransportCache` and instances of `ServiceProviders`, `Accounts`, `TokenStore` and `Models`: the behaviours the proofs are about |
| GitHub together | `Github`, `GithubProofs` | `PullRequestEvents` and an instance of `IngestHead`, likewise |
| Lists and accounts together | `Source`, `SourceProofs` | instances of `Paging` and `Installations`, likewise; `SourceProofs` also has the proofs about `Traversal` |

The modules named `MC...` give the constants values for TLC. Components that
share no state are checked in one run: the MC module declares the variables of
all of them, `part` says which one a behaviour is about (chosen in the initial
state from the constant `Parts`), and those of the others do not move: they
keep the value `"off"` or an initial state. A component may appear in several
instances. `MCPipeline`, `MCRecovery`, `MCRepositoryAnalysis` and `MCManager`
extend their component, whose constants get the values of the largest instance
and whose properties are checked under the names the theorems use. In
`MCPipeline` and `MCRecovery` the other instances are `INSTANCE`s with smaller
constants; in `MCRepositoryAnalysis` and `MCGithub`, for the lists of
`MCRecovery` and the pages of `MCServices`, a behaviour keeps within bounds
(`WithinBounds`, `Bounded`), which let one
dimension grow at a time. `MCServices` extends `Services`, `MCGithub` extends
`Github`, `Source` and `Traversal`, and `MCRecovery` extends `Lists`, which compose what
`ServicesProofs`, `GithubProofs`, `SourceProofs` and `RecoveryProofs` are about:
in `ServicesSpec`, `GithubSpec`, `SourceSpec` and `ListsSpec` one component moves
and the others stand still, and the properties say what holds while that
component is the one. `MCServices` extends `Progress` as well, whose variables
keep their initial values in the other parts.
In the other modules a property of a run conjoins named properties of the
components, `part = "..." => Instance!Property`; the table of each section names
them. The type invariant of an instance is a conjunct of its first property, or
a property of the run. What the modules assume of their constants is an operator
(`PipelineAssumption`...), asserted for every instance by an `ASSUME` of the MC
module.

| MC module | Runs | Instances |
|---|---|---|
| `MCManager` | `manager`, `manager_append` | 2 repositories, 5 jobs, 1 worker for each queue, 2 in all |
| `MCManagerSerial` | `manager_serial` | `serial`: 3 repositories, 5 jobs, no stops; `stops`: 2 repositories, 4 jobs, 1 worker; `providers`: 2 callers, 4 providers |
| `MCPipeline` | `pipeline` | `runs`: all six pipelines, 2 pull requests; `ends`: the liveness of two of them; `restarts`, `walks`, `heads`, `lists`, `account`: the liveness of `Recovery`, `Connection`, `PullRequestEvents`, `Paging`, `Installations` |
| `MCRepositoryAnalysis` | `repository_analysis`, `ancestors_branches`, `measures_merged` | `tags`: 3 histories of 4 commits, 2 jobs; `cut`: the same, 3 jobs, with calls of `IngestHead` that fail half way; `moves`, `pulls`: 3 commits, 3 jobs; `bugs`, `again`: with fixes; `measures`: 4 histories of 5 commits |
| `MCRecovery` | `recovery` | `stopped`, `crashed`, `checked`, `predicted`, `migrated`, `upgraded`; the lists `requests`, `walks` |
| `MCGithub` | `github`, `users_paged` | `ancestors`: every history of 4 commits and every one or two heads; `commits`; `events` with the bounds `heads`, `repeats`, `toggled`; `lists`; `account` with the bounds `alone`, `overlap`, `acting`, `monitoring` |
| `MCServices` | `services`, `accounts_login` | `transports`; `providers`; `accounts`; `pages`, `entries`, `stops`; `tokens`; `models` |

Behaviours end when the jobs, events, logins or changes of an instance run out,
and the parts of a run end at different times, so TLC's deadlock check is off
everywhere. That nobody waits for nothing is stated instead: `NoIdleWorker` and
`JobLeaves` for the manager, `CallsReturn` for the lock of the providers,
`WorkEnds` and `WalksEnd` for tasks and handlers, `WaitsForSomething` for the
web client.

All of the modules above are written. What is worth proving next: of `Measures`
that no count is too high.

## 3. The job manager

`Manager.tla` is `manage.go`, `queue.go` and `jobinfo.go`. A step is the code
between two releases of `mgr.mu`, except that the loops `processJobsFromQueue`
and `processQueuedRepositories` take one step per iteration: `cur` is the queue
the first is working on and `agenda` the queues the second has still to visit,
and every other step that takes the lock waits until both are empty
(`Unlocked`).

| Variable | Code |
|---|---|
| `run` | `Manager.run` |
| `created` | the jobs `CreateJob` has inserted; an id is never returned twice |
| `queued[r]` | `Manager.queued[r]` and the jobs linked behind it by `next` |
| `items[q]`, `processing[q]` | fields of `Queue` |
| `processes[r]` | `Manager.processes[r]`, a process being named by its first job |
| `chain[p]` | `process.JobInfo` and the jobs behind it |
| `pc[p]` | `spawned` after `go p.run`, `running` once `p.cancel` is set, `reported` when it is sending on `done` |
| `ctxDone[p]` | the context of the current job is cancelled |
| `ended` | jobs whose run is over |
| `stopping` | repositories whose `Stop` handler polls `Progress` |

| Action | Code |
|---|---|
| `ProcessRepository` | the three ways a job is accepted: `AppendToProcess`, `AppendToQueued`, `PushOnQueue` |
| `StartNext`, `QueueDone` | an iteration of `processJobsFromQueue` with `addProcess`, and its exit |
| `NextQueue` | the next queue of `processQueuedRepositories`; the code visits only queues of waiting jobs, in map order |
| `Run`, `RunNext` | the two parts of `Manager.Run` |
| `Begin`, `Finish` | `process.run`: the context is made; the pipeline is over and the deferred function decides whether to drop the followers |
| `Stop`, `StopReturns` | the REST handler with `StopRepository` |

`StopRepository` can panic in two ways, and both are in the model. `Stop` on a
process that has not made its first context calls a nil function: the entry is
already deleted, so only the handler is lost. `removeRepository` runs past the
end of the list it has shortened unless the repository was last: the waiting job
is gone, the process of the repository, if any, is left alone.

### Runs

| Run | Property | What it says |
|---|---|---|
| `manager` | `WorkersCounted` | `WorkerBound`: no more processes than the limits of the queue and of the manager; `ProcessingCounts`: `processing` counts the processes, so that no slot leaks |
| | `JobsPlaced` | `QueuedAgreement`: the queues' lists and `queued` name the same repositories; `JobInOnePlace`: a job is in one list, once |
| | `NoIdleWorker` | nothing waits while a worker could take it |
| | `EntryIsActive` | the map never names a goroutine that is over |
| | `JobsKept` | `NoJobTwice`: no job is begun twice; `DropOnlyOnCancel`: a job that leaves unbegun was stopped or its predecessor failed |
| `manager_serial` | `ImplementsSerialJobs` | without stops the manager implements `SerialJobs`, safety and liveness, and a repository has no process but the one the map names |
| | `JobLeaves` | every accepted job leaves, even with stops and one worker for all |
| | `CallsReturn` | section 8, `ServiceProviders` |
| `manager_append` | `AppendedNotQueued` | **violated**: after a stop a second process of a repository runs next to the first, against the rule the error of `addProcess` states |

A second disagreement is seen in the same model: the comment of the stop handler
says it waits until the process has stopped, but `Progress` finds no entry as
soon as `StopRepository` has deleted it, so the handler returns while the
process still runs (`StopReturns` needs only the entry to be gone).

Bounds. Two or three repositories and four or five jobs are enough for each way
the parties meet: a repository with three jobs that go to three different
queues, followers that change queue at a hand-over, two repositories waiting in
one queue (so that `removeRepository` finds one that is not last), a stopped
process whose repository gets a second and a third one. One worker per queue and
two for the manager make both limits bind, where the code has 4 and 8; the
proofs are for any. Jobs are the only unbounded thing: each is created once, so
`Jobs` bounds a behaviour. A run ends when all jobs are over, so deadlock is not
checked.

Fairness. `FairSpec` has weak fairness for each step of the manager and of the
process goroutines: the Go scheduler runs every goroutine, a task returns, `Run`
keeps receiving from `done`. Nothing is assumed of those who submit jobs or stop
repositories.

### Proofs

`ManagerProofs.tla` proves, for any repositories, jobs and limits:

* `TypeCorrect`, `EntriesAreActive`: `[]TypeOK`, `[]EntryIsActive`;
* `JobsArePlaced`: `[]JobsPlaced`;
* `JobsAreKept`: the action property `JobsKept`;
* `WorkersAreCounted`: `[]WorkersCounted`;
* `NoWorkerIdles`: `[]NoIdleWorker`;
* `NoStopOneProcess`, `SerialSafety`: under `SpecNoStop`, `[]OneProcessPerRepo`,
  and the manager implements `SerialJobs` without its liveness.

The invariants are built on one another.

`TypeInv`: `TypeOK`, an idle process has an empty chain and the others do not
(`Head(chain[p])` is used everywhere), the jobs of a waiting list belong to its
repository, and `EntryIsActive`. The last needs the second and third: the
process that `StartNext` enters for `r` is named by a waiting job of `r`; and it
is inductive because the only step that makes a process idle, `RunNextLast`,
deletes the entry of its repository whoever it names.

`JobInv` adds `QueuedAgreement` and `Places`. `JobsPlaced` alone is not
inductive: `Places` says in addition that no list holds a job that was not
created (else `ProcessRepository` would add it twice), that a job whose run is
over is left in no list but that of a process about to report it, and that a
process is named by its first job or one that is over (else `StartNext` could
start a job under the name of a process that is at work). `JobsKept` follows step by step: a job leaves a list
only by `Finish`, by a stop, or into another list.

`WorkersInv`: for each queue, `processing` is the number of processes that are
not idle and whose current job is of that queue, and the three together keep the
limit of the manager. A follower takes the slot of the job before it without a
look at the limits and may change queue, so that their sum (`CountersAddUp`),
not each counter, is what a step keeps.

`WillBeVisited`: a queue with a waiting repository, below its limit while the
manager is below its own, is the one being worked on or in `agenda`; outside the
lock it is `NoIdleWorker`.

`StepRefines` is the step of the refinement: each action is one of `SerialJobs`
or a stutter under `activeJob`, `waitingJobs` of `ManagerSerial`. It needs
`OneProcessPerRepo`, which a stop breaks: a second process would be a second
active job. That the abstract actions eventually happen (`ImplementsSerialJobs`
with its fairness, `JobLeaves`) is liveness and is checked by TLC.

## 4. A run of a job

`Pipeline.tla` is `process.run`, `runPipeline`, `checkErrors`, `saveStatus` and
the control of the tasks (`job.go`, `strategy.go`, `tasks.go`). The tables of
stages are the module's; `ProcessCheckRun`, which runs a pipeline inside a task,
is laid out as one list of stages, and `InCheckRun` says where its error path
applies.

| Variable | Code |
|---|---|
| `action`, `idx`, `pc` | the action, the stage `runPipeline` is at, and where `run` is after it |
| `tpc[t]`, `res[t]` | how far the goroutine of task `t` is, what it returned |
| `err`, `ctxDone` | the shared `err` of `runPipeline`; the context of the job |
| `jobStatus`, `status` | the last entry of the job's log; the status of the repository (0) and of the pull requests |
| `checkRun` | the check run on GitHub |
| `startPoints`, `includeAfter` | the fields of the process, which a previous job may have set |
| `dropped`, `lost` | `CancelNext` was called; a last write failed |

A task saves its status in the log (`LogStatus`), then for its target
(`SaveStatus`), works and returns (`Finish`, `Fail`, `Panic`). The goroutines of
a concurrent stage look at `err` (`LookAtErr`), cancel the context (`CancelCtx`)
and assign `err` (`AssignErr`) in three steps, since nothing orders them in the
code. What tasks compute is reduced to whether there is something new. `Stop`
may come at every step.

| Run | Property | What it says |
|---|---|---|
| `pipeline` | `OutcomeTold` | `OutcomeRecorded`: the outcome is in the log and in the status unless a last write failed; `CheckRunClosed` |
| | `CancelJustified` | a job is canceled, and followers dropped, only with a reason |
| | `StagesFollowSuccess` | a stage begins only when every task of the last one has ended and succeeded: no failure is lost between the unlocked look at `err`, the cancelling and the assignment |
| | `ReadyFollowsPrediction` | a job with new commits becomes `Ready` right after it predicted |
| | `WorkEnds` | every run reports, except after a panic in a concurrent stage, which never calls `wg.Done`; the work on a repository ends, over a crash (section 6) |
| | `WalksEnd` | walks over lists of the API and of GitHub end, and deliveries are dealt with (sections 7 and 8) |

Bounds. There is one run and one process: what a process inherits from its
previous job is in `Init`. A check has two pull requests, so that the second
meets what the first has left. The part `runs` has all six pipelines; `ends`
those of `FairActions`, the one with two concurrent stages and the one with
check runs.

Fairness. Weak fairness is assumed of all steps of tasks and goroutines together
(`Goroutines`) and of the steps of `run` (`RunStep`): goroutines are scheduled,
calls to services, to the database and to git return. Each takes finitely many
steps, so that none starves another. Stopping a job and panics are not assumed
to happen. For the other parts of the run the fairness is that of their modules'
`FairSpec`: jobs return and a server that died is started again (`Work`,
`Boot`), resolvers are run and the client goes on (`Client`), handlers and jobs
return and deliveries arrive or are lost (`Service`, `Handling`), requests are
answered or fail (`Step`).

`CheckRunClosed` lists exactly when a check run stays open: the context was
done, the request failed, a task panicked, or the report itself failed.

### Proofs

`PipelineProofs.tla` proves, for any set of actions and any number of pull
requests, `OutcomesAreTold` (`[]OutcomeTold`), `CancelsAreJustified`
(`[]CancelJustified`), and the action
properties `SuccessBeforeNextStage` (`StagesFollowSuccess`) and
`PredictedBeforeReady` (`ReadyFollowsPrediction`). The pipeline
of a check is as long as there are pull requests, so `PipeShape` first says
which stage is at which place; it rests on `FlattenCopies`, what `FlattenSeq`
makes of equal parts.

The inductive invariant `IInv` is `TypeOK` and

* `TaskInv`: where the tasks of the stage are, and that a task that did not
  return `ok` is what set `err`;
* `CancelInv`: who may have cancelled the context. `CancelJustified` is about a
  status, which is written two steps after the reason for it came up;
* `StageInv`: a task of a concurrent stage that is done and did not return `ok`
  has found or left an error in `err`, and all of them are done when the run has
  left the stage; `StagesFollowSuccess` needs the first part, because the
  goroutine that fails first may find `err` still empty and assign it last;
* `CheckInv`: while a check run is open the run is behind the stage that opened
  it and, once it writes its outcome, one of the reasons of `CheckRunClosed` is
  there already;
* `PredictInv`: a job with something new reaches `StatusIsReady` with
  `Predicting` as its last status;
* `OutcomeInv`: what has been written of the outcome when `run` is past a write,
  for each of the targets of a check.

## 5. The commit graph and the stored commits

`Traversal.tla` is the loop that `AncestorsList`, `SuccessorList`,
`AncestorsListUntil`, `UnseenAncestors` and `IsAncestor` share: `stack` and
`seen` are its locals, `skip`, `until` and `base` the arguments that make the
difference (named `walk_stack` and `walk_heads` where `stack` and `heads` belong
to `IngestHead`), and each action is one way through an iteration (`Skip`, `Found`,
`Visit`).

`CommitGraph.tla` gives these functions, `UnseenRoots` and `FindCommonAncestor`
as operators on a history, where a function of the code returns what can be
reached, which is what `Traversal` is checked and proved to compute.
`FindCommonAncestor` returns the first parent, because the queue its loop
extends is a new variable of the body.

`RepositoryAnalysis.tla` follows the jobs of one repository: `Fetch` brings any
new heads of the branches, `IngestHead` and `IngestFails` are the calls for one
head after the other (below), `FindStartPoints`, `TagAndRearrange` (tags on the new
commits, `NewRearrange` and its look at merges), `RemoveBranch`, `Prune`,
`SaveBranchesEarly`, `Retag` (`Rearrange.Finish`), `LoadFiles`, `AnalyzeCommit`
and `SkipSeen` (`RunForwardAnalysis`), `SaveBranches`, and `Succeed`
(`MarkPullRequestCommits`, `SaveAnalyzedHead`). `Fail` may come at every step. A
job may start with a new engine or, as a follower, with that of the job before,
whatever it has left there. The database is `analyzed`, `stored`, `tags`, `pulled` and
`analyzedHead`. Nondeterministic: which document `RepositoryEngineFiles` hands
out (its `ForEach` returns after the first), the order of sets on the stack.

The engine is `known` (the registered commits), `read` (those whose object was
read), `links` (the parents they have in memory) and `mem` (their branches).
`IngestHead` registers the head, then reads commit by commit and links each to
its parents, which it registers first; a head that is registered already is
taken for ingested. A call that goes well is one step: it adds all that is not
registered. A call that fails or is cancelled leaves a part (`IngestFails`): any
set of commits that hangs together from the head (`ReadInPart`) was read, the
parents of one of them (`cut`) were linked up to some place, the parents linked
so far are registered, unread. The job fails, and the calls of a follower stop
at what is registered. That these are the states the loop of `IngestHead` can
leave is the module `IngestHead`'s subject, below. What walks over the engine
(`EngineAnc`, `UnseenRoots`...) walks over `links`, what a property says of the
history over `parents`.

| Run | Property | What it says |
|---|---|---|
| `github` | `WalkTyped`, `WalksExact` | `ReturnsReachable`: the walks return exactly what is reachable; `IsAncestorExact`: `IsAncestor` is right both ways; on all histories of four commits |
| `repository_analysis` | `DocumentsTyped` | the types: only stored commits carry a branch or are marked |
| | `TagsExact` | `NoStaleTag`: after an update without failures no stored commit carries a branch it is not on; `AffectedTagged`: an affected branch is on all its commits |
| | `StartCoversUnseen` | the start points reach every new commit, if the engine has its parents |
| | `CoverageKept` | analysed heads do not run ahead of the documents, with the exceptions below |
| | `MarksExact` | below, *Marks of bugs* |
| `ancestors_branches` | `AncestorsIncludeBranches` | **violated**: fast-forwarding `main` over commits that `dev` had first leaves them tagged `dev` only, against the comment `AnalyzeCommit` of `brancher.go` relies on |
| | `MeasuresExact` | below, *Measures of the past* |

One more disagreement shows in `CoverageKept`, which has to exclude it: the
comment of `UnseenRoots` promises start points for all unseen commits, but an
orphan branch that appears after the first analysis has none.

Bounds. Four commits hold a merge with both sides, a line, and a graft of a
second root. Two branches allow one to be new, moved, rewound, merged or deleted
next to another; two jobs make one find what another left, complete or
interrupted. Two pull requests: of a fork, on the side branch, and of the same
repository. A third job is needed to meet what two have left together, so
`moves` (two branches, no pull request) and `pulls` (two pull requests, one
branch, three histories) follow three jobs over three commits. In `cut` (one
branch, a pull request, three jobs over four commits) calls of `IngestHead` fail
half way: one job leaves a truncated engine, the second works on it, the third
finds what both have left. In the other parts a call fails as a whole, and the
heads of the branches are ingested in one order. A behaviour ends after
`MaxJobs` jobs.

What the properties exclude is what the code does not provide. `clean` says that
no job failed and no error of `ReTagBranch` was swallowed. `CoverageKept` is
about updates (a job of a pull request records all branches as analysed), that
delete no branch (`Prune` runs before the retagging), without new commits that
have no parent, in an engine that has the parents of what is unseen
(`UnseenIsLinked`). The last is also an exception of `StartCoversUnseen`: after a
call of `IngestHead` failed half way, a follower of that job finds the head
registered, walks over a truncated history and records the head as analysed,
although it never met the commits behind. Two more exceptions came out of the attempts to prove the
properties, which two jobs on four commits satisfied without them:

* `fit`, for `NoStaleTag`: the job found, in the documents, tags that fit the
  recorded branches and, in the memory of a follower, tags that fit the new
  ones. A job that moves a branch without new commits records nothing
  (`SaveBranchesEarly` looks at new and deleted branches only), and a job of a
  pull request records branches it has not retagged; after either, the next
  update compares the branches with something else than the tags show. With an
  engine of an earlier job, `TagBranchesOnCommits` only adds. Three jobs are
  needed for a stale tag.
* `whole`, for `CoverageKept`: the documents had all their ancestors when the
  job began. `Prune` may delete an ancestor of a commit that a pull request
  keeps; a later update takes that commit for seen, in `LoadFiles`, and never
  stores the ancestor again, whose branch it records. Four jobs are needed.

They are listed under the hazards.

### Proofs

`SourceProofs.tla` proves of `Traversal`, for all graphs (cycles included), heads, skipped
sets and stop points:

* `WalkReturnsReachable`: `WalkSpec => []ReturnsReachable`;
* `IsAncestorRight`: `WalkSpec => []IsAncestorExact`;
* `WalksAreExact`, from these two: `WalkSpec => []WalksExact`;
* `TypeCorrect`: `WalkSpec => []WalkTyped`.

What can be reached is stated without recursion: a set `Holds` if it has the
heads and is closed, and the result is the least such set. The inductive
invariant has three parts beside the types: `Closed` (nothing is lost: what a
visited commit leads to is visited, skipped or on the stack), `Minimal` (nothing
on the stack or visited is outside any set that holds) and `BaseUnseen` (the
base of `IsAncestor` is never visited). `Closed` gives the result when the stack
is empty; `Minimal` is what makes it least. That a walk ends is neither stated
nor proved.

`RepositoryAnalysisProofs.tla` proves, for any finite set of commits, acyclic
histories, branches, pull requests and number of jobs:

* `TagsAreExact`: `Spec => []TagsExact`;
* `StartPointsCover`: `Spec => []StartCoversUnseen`;
* `CoverageIsKept`: `Spec => CoverageKept`;
* `MarksAreExact`: `BugSpec => []MarksExact`;
* `TypeCorrect` and `DocumentsAreTyped`: `Spec => []TypeOK` and
  `BugSpec => []DocumentsTyped`, which has the types of `BugMarks` too.

`Acyclic` is assumed as what git guarantees: a commit is named by its content,
which has the names of its parents.

`Reach` is a recursive function that counts to the number of commits. Lemma
`ReachRounds` shows that it has then nothing left to add, and `ReachLeast` that
it is the least set that is closed; all other lemmas on the graph
(`AncestorsLeast`, `SuccessorsLeast`, `FirstCommit`, `UnseenRootsCover`...) cite
only these. `UnseenRootsCover` is the argument the loop of `UnseenRoots` relies
on: follow an unseen commit back along its unseen ancestors; the first of them
has only seen parents and, unless it has none, one of these is in the boundary.

The inductive invariant `IInv` was first checked by TLC, and is

* `TypeInv`: the types, that the engine has every commit it links another to,
  links none to what is not a parent, and has the heads of a job whose calls of
  `IngestHead` went well;
* `CleanInv`: as long as no job has failed, the engine has git's parents;
* `FreshInv`: a job starts from, and analyses, what it has not seen;
* `CoverInv`: what is unseen is reached from the start points, from
  `FindStartPoints` to `LoadFiles`, if it is linked;
* `WholeInv`, `WalkInv`, `PlanInv`: in a job that began `whole`, what the
  documents lack is unseen; the walk has stored what it has seen and has the
  children of that on its stack; so the empty stack leaves every head covered;
* `MemTaggedInv`, `AffectedInv`, `FitInv`: the new commits carry their branches
  in memory; the branches that `Finish` has visited are on their commits; what
  does not fit yet is of a branch that it is still to visit.

`IngestLinks` and `IngestedFacts` say what a call, failed or not, does to the
engine; they are all that the other lemmas know of it.

`CountInv` says where the count can be behind the marks, `MarkedInv` that what git
blames for the deletions of a traced fix is marked, or was replaced by the walk
that has the fix still before it. The steps with marks are steps without (`BugsImplement`),
so the rest carries over.

### Ingestion, interrupted

`IngestHead.tla` is the loop that reads commits from git into the engine.
`commits`, `parents`, `children`, `roots` and `heads` are the engine's maps,
`stack` the local of a call, `cur` the commit whose parents are being linked,
`asked` the heads that were asked for, and `truncated` the commits at which a
call has failed. Actions: `CallKnown`, `CallNew`, `Pop`, `AddParent`, `Return`,
`Fail`. A head that is registered is never read again, so what a failed call
left out stays out for the followers of the process, which share its engine.
`EngineExact` (run `github`) says that this is all that can be wrong, on every
history of four commits: `LinksExact` (parents, children and roots are git's)
and `IngestsReachable` (what the heads reach is there, and nothing else).

`GithubProofs.tla` proves `CommitsAreLinked`, `HeadsAreIngested` and
`EngineIsExact` for every history. Their inductive invariant `EngineInv`
separates the commits that were read from those that wait: `EngineStackOK`
(a commit waits once), `EngineFresh` (nothing is known of one that waits),
`EnginePrefix` (the parents linked so far are the first ones), `EngineExpanded`
and `EngineRootsOK` (what was read is complete), `EngineMirrored` (children and
parents agree), `EngineKnown` and `EngineMinimal` (only what a head reaches is
registered). `EngineMirrored` alone is not inductive: registering a commit needs
`EngineFresh`.

### Marks of bugs

`BugMarks.tla` adds to every step of `RepositoryAnalysis` what it does with
fixes: the marks (`fixes`) in the documents of the commits that git blames for
what a fix deletes, and the count saved with the repository. `MarkBuggy` updates
the documents there are, and `InsertOrReplace` replaces a document with its
marks. The document of a fix does not say what it fixes (`storeCommit` writes
no `Fixing`), so the marks are all the database has of a fix, and a mark that is
lost cannot be found again but by another analysis of the fix. `Blamed` is what
git answers, a constant of the history; `traced` records which stored commits
had their last analysis go as far as `MarkBuggy`. `MarksExact` is `MarkedOnce`,
`BlamedAreMarked` (a stored commit that git blames for a stored and traced fix
carries its mark) and `CountTells`: the
part `bugs` has two branches and a fork, `again` three updates of one branch, so
that a commit is analysed again after a failure. The types are in
`DocumentsTyped`; `MarksAreExact` proves the three for any histories. The
exceptions of `BlamedAreMarked` and `CountTells` are situations that occur: a fix
walked before the commit it fixes (`early`), a commit that was replaced while
the fix was not in the engine (`apart`), a fix whose blame or issues could not be
read or whose parent the engine lacks (it is not in `traced`), a job that failed
or only pruned (`clean`).

### Measures of the past

`Measures.tla` is the part of `calculateMetrics` that visits the ancestors of a
commit (`VisitAncestors`) and `LastFileChange`. A visit has the stack of commits
and the stack of maps of tracked files; the map is cloned for every parent but
the first, in the order of the code, and the first one shares the last clone.
The files of a commit are known to the engine only if it was analysed by this
walk, by the job before in the same process, or was the one stored document that
`RepositoryEngineFiles` hands out. All files count as code with changed lines;
of the experience only EXP, and not the ages or the entropy, is modelled; git
detects renames without `-B`, so a renamed path is gone.

`MeasuresExact` is checked over four histories of five commits and two jobs that
may fail. `CountsHistory`: NUC and NDEV are exact without merges, through
renames, and never too high; `ExperienceExact`: EXP counts every earlier commit
once; `LastIsNewest`: the last change of a file is its newest. The first job or
the second may fail half way through `IngestHead` (`IngestFails`), and the second
may have the engine of the first: a registered commit that was not read has no
developer, no date and no parents, so what is measured above it is too small.
Each measure records whether the engine had all that is behind the commit
(`linked`), which `ExperienceExact` needs, and its files too (`whole`), which the
others need. Without start points nothing is analysed, and only a branch that is
new is recorded (`RunForward`): `analyze` returns before `SaveBranches`. The run
`measures_merged` is **violated**: behind a merge, changes of the second side
are missed because the two sides share a map.

`CountsHistory` has to exclude two more situations in which the code does not
count what the comments of the measures say: a commit that renames a file counts
none of its past, and a later update counts little of what earlier jobs
analysed, because `RepositoryEngineFiles` hands out one document.

## 6. Restarts, predictions and models

`Recovery.tla` follows one repository with a branch and a pull request of a
fork, over crashes.

| Variable | Code |
|---|---|
| `jobs` | the documents of the jobs: what they are for (`kind`) and their log |
| `status` | `Status` of the repository and of the pull request |
| `commitJob`, `predicted` | the job that stored a commit; the commits the model has scored |
| `heads`, `pull` | what was recorded as analysed; the document of the pull request |
| `version`, `model` | `DataVersion`; whether there is a valid model |
| `pushed`, `base`, `fetched` | the branch and the pull request on GitHub, the branch in the clone |
| `up` | what `main` is doing: running, down, in `Recover` or at a step of the migration |
| `mem`, `pc` | the job that runs or waits and its followers (`cur` is the first), where it is |
| `known`, `linked` | the engine of the process: the commits it has, those whose parents it has |
| `start`, `includeAfter` | the fields of the process |

| Action | Code |
|---|---|
| `Push`, `PullRequestEvent` | a webhook with the job it submits |
| `Run`, `saveStatus`, `Report` | the job begins; `saveStatus`, whose two writes are two steps; it is over |
| `Prepare`, `Ingest`, `StoreCommit`, `SaveBranches`, `FinalizePullRequestAnalysis` | the tasks up to the analysis, one step per commit |
| `Predict`, `PredictByJob` | the request to the ml service, for what `includeAfter` tells, or for the job |
| `Fail`, `StopRunning`, `StopQueued`, `runNext` | an error, the two ways a stop meets a job, the follower |
| `Crash`, `Recover` | the server dies; `Manager.Recover` |
| `MigrateDelete`, `MigrateReset`, `AddRepository` | the migration (`realyzeRepositoires`), one step per write |

| Run | Property | What it says |
|---|---|---|
| `recovery` | `StatusOwned` | `RepoStatusOwned`, `PullStatusOwned`: what shows an unfinished status has a job that will end it, unless a stop took it or, for a pull request, a restart |
| | `ReadyMeansAnalysed` | Ready means that what was fetched is analysed |
| | `PredictedWhenReady` | what failed predictions left out is made up for |
| `pipeline` | `WorkEnds` | the work on a repository ends with a result |

The instances are a user who stops the repository (`stopped`: 2 pushes, 1
event), a server that crashes (`crashed`: the same, 1 crash), both with checks
of pull requests (`checked`: 1 push, 2 events, 1 crash), predictions that fail
(`predicted`: 2 pushes, 2 events), a restart with a new version while a pull
request is at work (`migrated`: 1 push, 1 event, 1 crash) and two of them, also
in the middle of the migration (`upgraded`: 1 push, 2 crashes).

Bounds. Up to two pushes, two events and two crashes: a crash in the recovery
from a crash, a failed update followed by a pull request's job and another
update. A webhook is atomic with its push, and lost while the server is down.
`Progressing` stands for all stages up to `Analyzing`. The overlap of a stopped
process with a new one is `Manager`'s subject, the outage of the database
`Pipeline`'s. The branch of the migration that uninstalls an application without
organisations is left out.

Fairness. `Work` and `Boot` are weakly fair: tasks return and a server that died
is started again. Pushes, stops and crashes are not assumed.

The exceptions the properties name do occur: a stop before the job ran or a
failed check leaves the repository in progress, a restart forgets the jobs of
pull requests, the job of a pull request records branches it did not analyse and
hides a failed prediction from the next update. `Fail` during `Ingest` leaves any
engine that the two calls of `IngestHead` can leave (`HalfIngested`), which a
follower uses: it stops at what is registered, finds no start point where links
are missing, and may show Ready without the commits behind. Those that a job has
passed over in either way are `skipped`, the exception of `ReadyMeansAnalysed`;
an update whose engine has the whole branch clears what it stores.

### Proofs

`RecoveryProofs.tla` proves, for any number of pushes, events and crashes, with
and without checks, stops and upgrades, `StatusesAreOwned` (`[]StatusOwned`),
`ReadyRepositoriesAreAnalysed` (`[]ReadyMeansAnalysed`) and
`ReadyUpdatesArePredicted` (`[]PredictedWhenReady`). None is inductive. The
invariant `IInv` is

* `Ranges`, `VersionInv`: types and ranges, and which versions there are while
  `main` migrates. A crash in the middle of the migration must find again what
  is left to do;
* `MemInv`, `LogInv`: the jobs in memory are in the order they were made and all
  but the first have an empty log; what the first has logged at each stage.
  `Recover` knows the work only by the logs;
* `RepoInv`, `PullInv`: `StatusOwned` while the recovery and the migration are
  under way too, and that a job at its end has settled its status, between the
  two writes of `saveStatus` as well;
* `CheckInv`: checks are ahead of the other jobs of the pull request, and before
  the first of them nothing of its head is stored or recorded;
* `CoverInv`: at each stage of an update, which commits are stored or will be
  (`start`), so that `Covered(taken)` holds when it says Ready;
* `PredictInv`: the job after which an update continues (`includeAfter`) was
  itself answered.

The lemmas `StepOf...` classify the steps by what they change, so that each
conjunct is looked at for the steps that can disturb it.

### Models

`Models.tla` is `Predict` of the ml service with its documents and files, and
the step of the job that stores the answer. Requests overlap only if a process
was stopped; a request that is given up kills its child process, which may leave
half a file. Versions are the names of the files. `ModelsAgree` (run `services`,
part `models`) is `DocMatchesFile`, `OneModel` and `ConfidenceOfScores`, over
three requests, the first two of which may be at work side by side (the bound
`MaxBeside`), so that requests in order, requests at once and a request after
both are covered, with the loss of the volume.
Exceptions: `overlap` (two requests choose one version), `lost` (the volume was
lost), `torn` (a job ended between its scores and its grade), `unscored` (the
stored model failed to score, and the answer repeats its status).

`ModelsAgreed` (`ServicesProofs.tla`) proves `[]ModelsAgree` for any number of
requests, one at a time or side by side. Two invariants are needed. `ModelInv`
is about requests that never overlapped: the one at work is the latest, its
version is larger than that of every document, documents have increasing
versions and the model of each is no younger than the file, and a confidence
that does not fit the scores is about to be replaced. `ModelTypeInv` holds of
overlapping requests too. That the version of a request names a file that there
is room for does not follow from the number of the request, because one that
began earlier may look for the latest model later; it follows from counting the
requests that have looked (`ModelPassed`), each of which adds at most one to
the latest version.

## 7. What clients see

### Progress

`Progress.tla` has one repository and so one key of the registry. `registry` is
the map; an entry (observable) has its status, the number of its observers
(`slice`) and the arrays they have been in (`arrays`, the last is in use),
because `notifyNow` reads an array without the lock while `RemoveObserver` moves
observers in it and `AddObserver` may go on in a larger one. Each assignment
of a slice header or of a map is one step; that the Go runtime stops a program
in which it sees a map read during a write is left out. Actions: the stages of
processes (`SaveStatus`, database first, then `SetNewStage` on the observable), `notify` with its interval (a
tick), the place by place delivery of a notification, `RemoveEmpty`,
`GetOrCreate`, and clients that query, subscribe, receive and leave.

`ProgressShown` (run `services`) conjoins `PageShowsStatus`, `GoneIsForgotten`,
`EntryTellsStatus`, `ListenersAreListed` and `TrackerInRegistry`, under three
bounds: `pages` with two clients and one job, `entries` with three jobs of
two kinds and one client, `stops` with two jobs that may be stopped and one
client. Two clients are what moving the last observer into a gap needs; a job
makes no more than two notifications at once. The exceptions are `missed` (a
client not at its channel is passed over), `late` (it joined after `RemoveEmpty`
had looked), and a status that is out of step (`OutOfStep`): saved last by a
check, or by a process that was stopped or ran next to another (`detached`), or
not saved at all. A write of `saveStatus` may fail in any job, and its deferred
`SetNewStage` announces the stage nevertheless; the job then fails, and
`checkErrors` may fail to save that, too, or to report the error at all
(`NextStage`). `StopRepository` takes the process out of the map and leaves the
entry of the registry, also an empty one: only `deleteProcess` calls
`RemoveEmpty`.

`ProgressIsShown` (`ProgressProofs.tla`) proves `[]ProgressShown` for any number
of clients, jobs, stops, ticks and notifications at once. Four parts of the
invariant say who can be where. `MemberInv`: a client is in the list of the
entry it got while it listens, and in no other that is or will be the registry's,
which rests on entries being made by one client at a time and never while
`RemoveEmpty` deletes (`LockInv`). `JoinInv`: who is not late is in the list of
the registry's entry, which is then not about to be deleted. `AloneInv`: a job
that is not detached is the one in the map and no other is left. With it `JobInv`
says that a job sets the status that was saved last, on the entry of the
registry. What a page shows follows from none of these, since it is settled by
messages under way: `SettledInv` says that, unless a job is about to set a stage,
the entry tells the status, and each client that no notification passed over
either shows it, or is about to write its answer, or will be told, by a
notification that has not begun (`Announced`) or by one whose next places still
hold the client (`Coming`). A client that leaves moves the last observer, and a
notification that has passed the gap but not the last place never meets it:
those are the `Skipped` of `RemoveObserver`, and `Coming` needs exactly them as
an exception. A notification may also still read an array that `AddObserver`
has left, which is why the invariant speaks of every array of an entry. The
proof corrected the history `detached`: a follower of a job that runs next to
another does so too.

### Lists

`Connection.tla` is the generic connection: `bounds` of the index scan, the
scan, the document that is one too many, page information, and the `once` that
edges, nodes and page information share. Walks (`Walk`) follow `endCursor` or
`startCursor` while documents come and go. `ListsPaged` (run `recovery`): the
part `requests` tries all arguments on lists of up to three documents
(`PageIsRange`, `OnePage`), `walks` goes over four in pages of one or two with
two changes (`WalkComplete`). That walks end is in `WalksEnd` of `pipeline`. A
find is one step (one batch); the encoding of cursors is left out.
`WalkComplete` excludes walks that ask for 0 documents. After a failed query all
resolvers but the first see an empty page; `OnePage` requires one of them to
report it.

`ListsArePaged` (`RecoveryProofs.tla`) proves `[]ListsPaged` for any documents,
limit, arguments and number of changes. The invariant `PagesInv` has two parts
that matter. `PageInv`: what the query returned is the beginning of the documents
between the cursors in the order of the scan, turned round for a page from the
end, which `CutIsPrefix` and `SortedIsPage` derive from the bounds of the index.
`SeenInv`: while a client walks, every document on its pages so far is the
cursor or lies behind it, and every document that stayed and is not ahead of the
cursor has been shown; the cursor's own document may be gone. The page after the
cursor then adds what stayed up to the next cursor, and a page that is the last
leaves nothing ahead. `Scan`, the order of the documents, is chosen as the one
arrangement that rises; that there is one for any finite set (`RisingExists`) is
proved through the least size without one.

### Tokens of the web client

`TokenStore.tla` is one page with `token.ts`: one callback at a time, answers at
any later time, failed or refused, and reloads. Two accounts and five requests
allow a login between a logout and the answer of an earlier refresh.
`SessionKept` (run `services`) is `SessionIsLast`, `ShownIsTrue`,
`TokenOfSession`, `OneRefresh`, `WaitsForSomething` and `ValidServes`.
Exceptions: `raced` (a request was under way when the user logged in or out),
`failed` (after a login that failed its failure is handed out until the older
token expires). A refresh is answered 401 on any error of the server, a failed read
of its database included (`auth.go:112-116`), so `Unauthorized` may end a session
whose account is still valid; the page then logs out as the user would.

`SessionIsKept` (`ServicesProofs.tla`) proves `[]SessionKept` for any accounts
and any number of requests. The invariant `StoreInv` adds two facts:
`StoreFetchesInv` (who a request is for, and that the promise which waits is one
of those under way) and `StoreCalmInv`: as long as nothing has raced there is at
most one request, the promise is its own, and a refresh is asked for the token
the page holds and only when the access token has expired. Each answer is then
the answer to the promise (`StoreCalmAnswer`), which is what `SessionIsLast` and
`TokenOfSession` come down to. `Applied`, `Fails` and `Unauthorized` take a
request out of the set whatever has raced, so `WaitsForSomething` needs no
exception.

## 8. GitHub, integrations and accounts

`TransportCache.tla` is `installationTransport`: a map, a ring of its keys, the
lock and the look without it. Between `Evict` and `Insert` the map is one entry
behind the ring. Reading the map during a write, which the Go runtime may
punish, is left out. Three callers, three installations and two places make the
cache forget what somebody uses. `TransportsAgree` (run `services`) is
`RingMatchesMap`, `CacheBounded` and `TransportShared`;
`ServicesProofs.tla` proves it, as `CacheAgrees`, for any callers,
installations and limit, from `RingAndMapAgree`, `CacheKeepsLimit` and
`TransportsAreShared`. The inductive invariant says in addition that the lock
has one holder, that the ring has no key twice, and what map and ring have in
common at each step under the lock; the bound follows from the injection of the
map's keys into the places of the ring.

`ServiceProviders.tla` is the map of clients of `IntegrationManager`, with its
look without the lock and the read of the database under it. The four providers
are the four kinds of documents: with a configuration, Jira without, another
without (a nil client is kept), none. `ClientsFit` (run `services`, two
callers): one client for each (`OneClient`), and a job has the right two.
`ClientsAreFit` (`ServicesProofs.tla`) proves this with the type invariant for
any callers and providers: under the lock the entry of the name is still
missing (`ClientEntryInv`), a client that was made is larger than all before it,
and an entry, once there, never changes, so that what a job took in its first
call still is the client of its provider when the second returns.
`CallsReturn` (run `manager_serial`): every call ends; Go's mutex does not
starve (`SF` on taking it), everything else returns (`WF`).

`PullRequestEvents.tla` numbers the heads of one pull request and delivers their
events late, again and out of order, or not at all; handlers overlap, jobs run
one by one. The job of a pull request event carries the head it was made with,
that of a check suite loads the pull request when it starts. The analysed head
is saved for forks only. The run `github` has two heads, with the `bounds`
`heads` (four deliveries), `repeats` (three deliveries, one of them again) and
`toggled` (two deliveries, the configuration of checks changes once).
`RunsTellHeads` is `RunTellsOwnHead` and `OneRunPerHead`; `RestsOnHead` is
`SettledOnHead`: at rest the document has the head of the open pull request. The
excuses of `SettledOnHead` are a lost
delivery, one that overtook another (`order`), a suite that came before the
event of its head (`early`), a changed configuration (`config`), a head pushed
while the pull request was closed (`reopened`), a failed job or handler.

`RunsAreTold` and `HeadsAreReached` (`GithubProofs.tla`) prove both for any
number of heads, deliveries, repetitions and changes. All three properties speak
of rest or of finished runs; what holds on the way is the invariant. Of the
deliveries (`SentInv`): each action is sent once for a head, and a head of the
repository itself has its suite right behind its event, which is why an event
that leaves the head to the suite may do so. Of the handlers (`HandlersInv`):
one that will submit was not to be skipped, with the configuration it has read.
Of the check runs and the jobs (`RunsInv`, `QueueInv`, `JobInv`): the numbers
are unique, and a waiting job carries the head of its run or looks it up, which
happens only when the branch is not of a fork. Of the document: the newest event
that was handled is in it (`StoredInv`); every delivery that starts a job
(`Starts`) is still to be handled, or its head is marked, or a job is there that
will mark it or a later one (`ReachedInv`), where a suite's job counts for the
head of its run because it loads one at least as new; and a head whose delivery
was handled has exactly one run, one whose delivery was not has none
(`OneRunInv`). The last is false after a repetition, which `OneRunPerHead`
excludes and `SettledOnHead` does not need to.

`Paging.tla` walks over lists in pages while entries come, go and change. What
the last page says of itself (neither `next` nor `last`) is GitHub's and
external.
`ListsReached` is `EveryPullReached` and
`DocumentsAreFresh`, over five entries in pages of two with two changes, so that
a list has three pages; the exceptions are a closed pull request that shifts
others to a page already served (`shifted`) and a push that came while its page
was handled (`overtaken`). The run `users_paged` is **violated**: the loops over
members and collaborators go on while the next page is smaller than the last, so
the last of several pages is never fetched (`More`), and each page of
collaborators replaces the one before (`HandleUsers`), although the functions
are called `listAll...` and a comment in `ghapp.go` expects all pages of them
(`UsersReached`).

`ListsAreReached` (`SourceProofs.tla`) proves `[]ListsReached` for any lists,
size of pages and number of changes. What makes it inductive is where an entry
that stayed can be (`ReachInv`): it was reached, or it is in hand, or its place
in the list lies behind the pages that were fetched. A pull request that is
opened moves it back, one that is closed moves it forward, which only loses it
when it was closed on a page already served. `FreshInv` says of what is in hand
or stored that it is GitHub's version or was overtaken.

`Installations.tla` is one account with its organization, repositories and
monitors in the database, a user's and an admin's acts, and handlers that
overlap, each access to the database being one step. Upserts are atomic and no
collection has a unique index. The run `github` has the bounds `alone` (two
repositories, three deliveries one after the other, any order, failures),
`overlap` (one repository, three deliveries, two handlers at once), `acting` (two
deliveries and an act of a user) and `monitoring` (one delivery, two acts).
`InstalledAgree`: deliveries handled one by one leave the repositories GitHub
selected; `NothingOrphaned` is `RepoHasOrganization`, `NoOrphanCommits`,
`MonitoredIsRead` and `LinkKept`. Left out: private repositories and the pages
of members; checks are not enabled when a push is handled. Known exceptions:
`FindOrCreate` replaces the whole configuration, so an installation event takes
the link to Jira away; monitors of a deleted repository stay; events of members
never change collaborators.

`InstallationsAgree` and `NothingIsOrphaned` (`SourceProofs.tla`) prove
`[]InstalledAgree` and `[]NothingOrphaned` for any repositories, numbers of
deliveries and acts, and handlers at once. Each conjunct has its invariant
over `Values`, which says what the variables hold and what a handler may carry at
each of its steps. `OwnedInv`: without an overlap a handler that will insert has
the organization that is stored, and one that uninstalls is alone and has found
every document. `LateInv`: a process of a document that is gone is late, from the
step that deletes it on. `MonitoredIsRead` and `LinkKept` are inductive as they
stand. `CalmInv` is for `InstalledAgree`: it compares the documents with what
GitHub had selected when it sent each delivery (`views`, `by`), which no variable
of the model keeps, so the invariant says that such functions exist; handled in
turn, the documents agree with the view of the last delivery that was handled,
or are on the way (`Working`) from it to the next one.

`Accounts.tla` is a login with its two updates, and refreshed access tokens. One
identity is one account at one provider. `AccountsKept` (`SameAccount`,
`LatestCredential`, `Reachable`) and `RefreshTells` (run `services`): three
logins and two refreshes, any interleaving, failures. The exceptions are
overlapping logins of one identity (`disturbed`) and a login that failed between
its updates (`stranded`). `accounts_login`, **violated**: the access token of a
login lacks the provider the user has just logged in with. Tokens have no time
in the model.

`AccountsAreKept` (`ServicesProofs.tla`) proves `[]AccountsKept` and
`RefreshesTell` the action property, for any identities and any number of
logins. Neither follows from the state between logins alone: `LoginInv` says,
for each identity whose logins did not overlap, who has it at every step of its
login (`LoginHoldersAt`) and which credentials and tokens there are by then
(`LoginCredentialsAt`); and, for all of them, that a login between its two
updates has taken the identity from its user (`LoginPushMisses`), the only one
that does so (`LoginPushUnique`). The last two also hold of overlapping logins,
which is why `Reachable` needs only `stranded` as an exception. The proof showed
that the constants must have an identity: with none, the user of several
providers `Init` begins with has no entry, and `Reachable` is false.

Numbers of deliveries, acts and logins are the only bounds; two or three are
enough for one to overtake, repeat or half undo another.

## 9. What is proved and what is checked

| Theorem | Property | Module |
|---|---|---|
| `TypeCorrect`, `EntriesAreActive`, `JobsArePlaced`, `JobsAreKept`, `WorkersAreCounted`, `NoWorkerIdles` | `TypeOK`, `EntryIsActive`, `JobsPlaced`, `JobsKept`, `WorkersCounted`, `NoIdleWorker` of `manager` | `ManagerProofs` |
| `NoStopOneProcess`, `SerialSafety` | the safety part of `ImplementsSerialJobs` of `manager_serial` | `ManagerProofs` |
| `OutcomesAreTold`, `CancelsAreJustified`, `SuccessBeforeNextStage`, `PredictedBeforeReady` | `OutcomeTold`, `CancelJustified`, `StagesFollowSuccess`, `ReadyFollowsPrediction` of `pipeline` | `PipelineProofs` |
| `TypeCorrect`, `WalksAreExact` | `WalkTyped`, `WalksExact` of `github` | `SourceProofs` |
| `DocumentsAreTyped`, `TagsAreExact`, `StartPointsCover`, `CoverageIsKept`, `MarksAreExact` | `DocumentsTyped`, `TagsExact`, `StartCoversUnseen`, `CoverageKept`, `MarksExact` of `repository_analysis` | `RepositoryAnalysisProofs` |
| `StatusesAreOwned`, `ReadyRepositoriesAreAnalysed`, `ReadyUpdatesArePredicted` | `StatusOwned`, `ReadyMeansAnalysed`, `PredictedWhenReady` of `recovery` | `RecoveryProofs` |
| `EngineIsExact`, from `CommitsAreLinked` and `HeadsAreIngested` | `EngineExact` of `github` | `GithubProofs` |
| `RunsAreTold`, `HeadsAreReached` | `RunsTellHeads`, `RestsOnHead` of `github` | `GithubProofs` |
| `ListsArePaged` | `ListsPaged` of `recovery` | `RecoveryProofs` |
| `ListsAreReached`, `InstallationsAgree`, `NothingIsOrphaned` | `ListsReached`, `InstalledAgree`, `NothingOrphaned` of `github` | `SourceProofs` |
| `CacheAgrees`, from `RingAndMapAgree`, `CacheKeepsLimit` and `TransportsAreShared` | `TransportsAgree` of `services` | `ServicesProofs` |
| `ClientsAreFit`, `AccountsAreKept`, `SessionIsKept` | `ClientsFit`, `AccountsKept`, `SessionKept` of `services` | `ServicesProofs` |
| `RefreshesTell` | `RefreshTells` of `services`, an action property | `ServicesProofs` |
| `ModelsAgreed` | `ModelsAgree` of `services` | `ServicesProofs` |
| `ProgressIsShown` | `ProgressShown` of `services` | `ProgressProofs` |

The run's definition of such a property says of each instance what the theorem
says of every value of the constants.

The proofs assume what the modules' `ASSUME`s say of the constants: graphs are
functions from commits to sequences of commits, histories have no cycle, limits
are positive, jobs have a repository. Each module of proofs begins with the facts
on sequences it cites: the elements of a list after `Append`, `Tail`, `SubSeq`
and removal, and lists without repetition.

What stays with TLC, on the bounds given:

* all of liveness (`JobLeaves`, `CallsReturn`, `WorkEnds`, `WalksEnd`, and the
  fairness of `ImplementsSerialJobs`): fairness and `ENABLED` are out of the
  prover's reach;
* `MeasuresExact`: its reference definitions are recursive over the history of a
  file. Induction over data is not available to the provers but in one form, the
  least counterexample in the natural numbers (`NatLeast`), with which the
  recursive functions above were brought to a closed form (`FlattenCopies`,
  `ReachRounds`). The other safety properties of the runs that pass are
  all proved.

Operators whose comment says *mutant* are not part of a specification: each is a
plausible mistake that some property is known to catch. Variables like `clean`,
`fit`, `skipped` or `raced` record what has happened so that a property can name its
exceptions; no guard of an action reads them.

## 10. Not modelled

* Generated code: `ingest/graph/generated` (half of the Go lines of the
  repository) and the copies genny makes of the connection and of object ids,
  of which `Connection` models the template and one copy.
* Resolvers that read a document and permission checks: no state of their own.
* Text classification, commit message categories, insights, the remaining
  measures, codecs, encryption, HTTP clients: pure functions with unit tests.
* Aggregations for reports, libgit2's diffs and blame, the calls of GitHub and
  Jira themselves, the learning of the Python scripts: their answers, or
  failures, are inputs of the models.
* The user interface of the web client, but for its tokens.
* The OAuth exchange before a login callback and the signing of tokens.
* Several ingest nodes on one database; `Recover` says that it does not scale
  to several.

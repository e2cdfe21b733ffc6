------------------------------ MODULE Recovery ------------------------------
(***************************************************************************)
(* One repository over restarts of the server: what its jobs leave in the  *)
(* database (src/ingest/pkg/manage/job.go), what is in memory only, what   *)
(* Recover and the migration do at the next start (manage.go, migration.go,*)
(* main.go), and which commits a prediction of an earlier job has missed   *)
(* (RecoverFromLastPredicting, Predict, and the ml service's Predict).     *)
(*                                                                         *)
(* The repository has one branch and one pull request from a fork. A       *)
(* status is saved in two writes, the log of the job first; Progressing    *)
(* stands for the stages up to Analyzing as well. Scheduling among         *)
(* repositories is the module Manager's.                                   *)
(***************************************************************************)
EXTENDS Integers, Sequences, SequencesExt, FiniteSets

CONSTANTS
    MaxPushes,    \* commits the branch may get
    MaxEvents,    \* webhooks of the pull request
    MaxCrashes,   \* restarts of the server
    ChecksEnabled,\* Repository.IsChecksEnabled, for the pull request
    Upgrade,      \* a restart may bring a new CurrentDataVersion
    Stops         \* a user may stop the repository

(* Assumed of the constants by every module that instantiates this one.    *)
RecoveryAssumption ==
    /\ MaxPushes \in Nat \ {0}
    /\ MaxEvents \in Nat
    /\ MaxCrashes \in Nat
    /\ ChecksEnabled \in BOOLEAN
    /\ Upgrade \in BOOLEAN
    /\ Stops \in BOOLEAN

VARIABLES
    jobs,         \* the jobs collection: the kind and the log of each job
    status,       \* the status of the repository and of the pull request
    commitJob,    \* the job that analysed a commit, 0 if it is not stored
    predicted,    \* the commits an answered prediction took in
    heads,        \* Repository.Branches: the last commit recorded as analysed
    pull,         \* the pull request is stored, and PullRequest.AnalyzedHead is set
    version,      \* Repository.DataVersion, against the program's
    model,        \* the repository has a valid model
    pushed,       \* the commits of the branch on GitHub
    base,         \* the commits below the pull request, 0 if it is not open
    fetched,      \* the commits of the branch in the local clone
    up,           \* what main is doing
    mem,          \* the job that runs or is queued, and its followers
    pc,           \* where the job is
    known, linked,\* repoEngine: the commits it has, those whose parents it has
    start,        \* process.startPoints, as the set of commits to analyse
    includeAfter, \* process.includeAfter
    events, crashes,
    orphans,      \* history: what was left behind by a stop, a check or a crash
    skipped,      \* history: commits that a job passed over (see ReadyMeansAnalysed)
    taken         \* history: the last commit of the branch a job of the repository fetched

remote == <<pushed, base, events>>
data == <<commitJob, predicted, heads, pull, version, model>>
engine == <<known, linked>>
process == <<engine, start, includeAfter>>
history == <<orphans, skipped, taken>>
vars == <<jobs, status, data, remote, fetched, up, mem, pc, process, crashes, history>>

PullHead == MaxPushes + 1
Commits == 1..PullHead

NoJob == -1      \* the zero JobID
AllJobs == 0     \* the identifier of the repository, older than any job

notWorkingStages == {"Ready", "Failed", "Canceled", "Watched"}

PullKinds == {"pull", "check"}
UpdateKinds == {"update", "recover"}

cur == Head(mem)
kind == jobs[cur].kind
Target == IF kind \in PullKinds THEN "pull" ELSE "repo"

Seen(j, s) == s \in Range(jobs[j].log)

Max0(S) == IF S = {} THEN 0 ELSE CHOOSE x \in S : \A y \in S : y <= x

----------------------------------------------------------------------------
(* Jobs are created and queued, or appended to the one that is there.      *)

ProcessRepository(k) ==
    /\ jobs' = Append(jobs, [kind |-> k, log |-> <<>>])
    /\ mem' = Append(mem, Len(jobs) + 1)

(* AddRepository has just stored the repository.                           *)
Init ==
    /\ jobs = <<[kind |-> "added", log |-> <<>>]>>
    /\ status = [repo |-> "Queued", pull |-> "Queued"]
    /\ commitJob = [c \in Commits |-> 0]
    /\ predicted = {}
    /\ heads = 0
    /\ pull = [stored |-> FALSE, analyzedHead |-> FALSE]
    /\ version = "first"
    /\ model = FALSE
    /\ pushed = 1
    /\ base = 0
    /\ fetched = 0
    /\ up = "up"
    /\ mem = <<1>>
    /\ pc = "idle"
    /\ known = {} /\ linked = {}
    /\ start = {}
    /\ includeAfter = NoJob
    /\ events = 0
    /\ crashes = 0
    /\ orphans = {}
    /\ skipped = {}
    /\ taken = 0

(* A push; GitHub sends its webhook once, the server may be down.          *)
Push ==
    /\ pushed < MaxPushes
    /\ pushed' = pushed + 1
    /\ IF up = "up" THEN ProcessRepository("update") ELSE UNCHANGED <<jobs, mem>>
    /\ UNCHANGED <<status, data, base, events, fetched, up, pc, process, crashes, history>>

(* The pull request is opened, edited or reopened. The handler stores it,  *)
(* and submits a job unless its head was analysed; a check is only made    *)
(* when it is opened.                                                      *)
PullRequestEvent ==
    /\ events < MaxEvents
    /\ events' = events + 1
    /\ IF base = 0 THEN base' \in 1..pushed ELSE UNCHANGED base
    /\ IF up = "up"
         THEN /\ pull' = [pull EXCEPT !.stored = TRUE]
              /\ IF pull.analyzedHead \/ (ChecksEnabled /\ base # 0)
                   THEN UNCHANGED <<jobs, mem>>
                   ELSE ProcessRepository(IF ChecksEnabled THEN "check" ELSE "pull")
         ELSE UNCHANGED <<pull, jobs, mem>>
    /\ UNCHANGED <<status, commitJob, predicted, heads, version, model, pushed, fetched,
                   up, pc, process, crashes, history>>

----------------------------------------------------------------------------
(* The run of a job. In saveStatus the log is written first, and pc is the *)
(* stage until it is stored with the repository or the pull request.       *)

Saving == {"Progressing", "Predicting", "Ready", "Failed", "Canceled"}

AfterStage ==
    CASE pc = "Progressing" -> "prepare"
      [] pc = "Predicting" -> "ask"
      [] pc = "Ready" /\ ChecksEnabled /\ kind \in {"check", "update"} -> "report"
      [] OTHER -> "done"

WriteLog(s) ==
    /\ jobs' = [jobs EXCEPT ![cur].log = Append(@, s)]
    /\ pc' = s

saveStatus ==
    /\ pc \in Saving
    /\ status' = [status EXCEPT ![Target] = pc]
    /\ pc' = AfterStage
    /\ UNCHANGED <<jobs, data, remote, fetched, up, mem, process, crashes, history>>

(* A check saves the repository's status first (RepoStatusInProgress).     *)
Run ==
    /\ up = "up" /\ mem # <<>>
    /\ \/ /\ pc = "idle" /\ kind # "check"
          /\ WriteLog("Progressing")
          /\ UNCHANGED status
       \/ /\ pc = "idle" /\ kind = "check"
          /\ status' = [status EXCEPT !.repo = "Progressing"]
          /\ pc' = "startCheck"
          /\ UNCHANGED jobs
       \/ /\ pc = "startCheck"
          /\ WriteLog("Progressing")
          /\ UNCHANGED status
    /\ UNCHANGED <<data, remote, fetched, up, mem, process, crashes, history>>

(* mutant: nobody saves that the repository is ready                       *)
ReportOnly ==
    /\ pc = "report"
    /\ pc' = "done"
    /\ UNCHANGED <<jobs, status, data, remote, fetched, up, mem, process, crashes, history>>

(* The report of a check, and RepoStatusIsReady.                           *)
Report ==
    /\ pc = "report"
    /\ status' = IF kind = "check" THEN [status EXCEPT !.repo = "Ready"] ELSE status
    /\ pc' = "done"
    /\ UNCHANGED <<jobs, data, remote, fetched, up, mem, process, crashes, history>>

(* mutant: a job that asked for a prediction counts, also if it failed     *)
FindLastAsking == Max0({j \in DOMAIN jobs : Seen(j, "Predicting")})

FindLast == Max0({j \in DOMAIN jobs : jobs[j].log # <<>> /\ jobs[j].log[1] # "Failed"})
FindLastWithStatus ==
    Max0({j \in DOMAIN jobs : Seen(j, "Predicting") /\ Seen(j, "Ready")})

RecoverFromLastPredicting ==
    IF FindLastWithStatus # 0
      THEN IF FindLastWithStatus # FindLast THEN FindLastWithStatus ELSE includeAfter
      ELSE IF FindLast # 0 THEN AllJobs ELSE includeAfter

(* PrepareGitRepository, and in an update RecoverFromLastPredicting.       *)
Prepare ==
    /\ pc = "prepare"
    /\ fetched' = pushed
    /\ includeAfter' = IF kind \in UpdateKinds THEN RecoverFromLastPredicting
                                               ELSE includeAfter
    /\ taken' = IF kind \in PullKinds THEN taken ELSE pushed
    /\ pc' = "ingest"
    /\ UNCHANGED <<jobs, status, data, remote, up, mem, engine, start, crashes, orphans,
                   skipped>>

(* The history is the branch, and the pull request's commit upon base.     *)
Down(h) == IF h = PullHead THEN 1..base \cup {PullHead} ELSE 1..h

(* A call of IngestHead reads from the head down to what is registered, so *)
(* nothing for a head that is; one that fails has read the commits above   *)
(* one, which is registered and may lack its parents.                      *)
Reads(e, h) == Down(h) \ UNION {Down(c) : c \in e.known \cap Down(h)}
IngestHead(e, h) == [known |-> e.known \cup Reads(e, h), linked |-> e.linked \cup Reads(e, h)]
IngestFails(e, h) ==
    {LET above == {c \in Reads(e, h) : c > cut}
     IN  [known |-> e.known \cup above \cup {cut}, linked |-> e.linked \cup above]
        : cut \in Reads(e, h)}

Engine == [known |-> known, linked |-> linked]
EngineIs(e) == known' = e.known /\ linked' = e.linked

FirstHead == IF kind \in PullKinds THEN PullHead ELSE fetched
LastHead == IF kind \in PullKinds THEN base ELSE fetched
Ingested == IngestHead(IngestHead(Engine, FirstHead), LastHead)
HalfIngested ==
    {Engine, Ingested} \cup IngestFails(Engine, FirstHead)
        \cup IngestFails(IngestHead(Engine, FirstHead), LastHead)

(* What neither the recorded heads nor the stored files show as analysed.  *)
Unseen ==
    {c \in Down(FirstHead) :
        /\ c \notin 1..heads
        /\ commitJob[c] = 0
        /\ ~(kind \in PullKinds /\ pull.analyzedHead)}

(* ingestLocalBranches and ingestPullRequest: the first job begins at the  *)
(* root and goes as far as commits are linked, others go back to what was  *)
(* analysed. If links are missing on the way, they find nothing.           *)
StartPoints(links) ==
    IF heads = 0 THEN IF kind \in PullKinds THEN {} ELSE {c \in Unseen : 1..c \subseteq links}
    ELSE IF Unseen \subseteq links THEN Unseen ELSE {}

PassedOver == {c \in 1..fetched : c \notin 1..heads /\ commitJob[c] = 0}

(* A new repository also gets its open pull request, with a job. analyze   *)
(* returns at once if there is nothing to analyse; without a root, the new *)
(* branch was recorded all the same (Rearrange.Finish).                    *)
Ingest ==
    /\ pc = "ingest"
    /\ EngineIs(Ingested)
    /\ start' = StartPoints(linked')
    /\ pc' = IF start' = {} THEN "predict" ELSE "analyze"
    /\ heads' = IF heads = 0 /\ kind \notin PullKinds /\ 1 \notin linked' THEN fetched ELSE heads
    /\ skipped' =
         IF kind \in PullKinds
           THEN IF kind = "check" /\ start' = {} THEN skipped \cup PassedOver ELSE skipped
           ELSE IF 1..fetched \subseteq linked' THEN skipped \cap 1..heads
                                              ELSE skipped \cup (PassedOver \ start')
    /\ IF kind = "added" /\ base # 0
         THEN ProcessRepository("pull") /\ pull' = [pull EXCEPT !.stored = TRUE]
         ELSE UNCHANGED <<jobs, mem, pull>>
    /\ UNCHANGED <<status, commitJob, predicted, version, model, remote, fetched, up,
                   includeAfter, crashes, orphans, taken>>

Unanalysed == {c \in start : commitJob[c] # cur}

(* A commit is stored after its parents, with the job.                     *)
StoreCommit ==
    /\ pc = "analyze"
    /\ Unanalysed # {}
    /\ LET c == CHOOSE x \in Unanalysed : \A y \in Unanalysed : x <= y
       IN  commitJob' = [commitJob EXCEPT ![c] = cur]
    /\ UNCHANGED <<jobs, status, predicted, heads, pull, version, model, remote, fetched,
                   up, mem, pc, process, crashes, history>>

(* mutant: the branches are saved before the commits are analysed          *)
SaveBranchesFirst ==
    /\ pc = "analyze"
    /\ heads' = fetched
    /\ UNCHANGED skipped
    /\ pc' = IF Unanalysed # {} THEN pc ELSE IF kind \in PullKinds THEN "finalize" ELSE "predict"
    /\ UNCHANGED <<jobs, status, commitJob, predicted, pull, version, model, remote,
                   fetched, up, mem, process, crashes, orphans, taken>>

(* mutant: the branches on GitHub are saved, not those fetched             *)
SaveRemoteBranches ==
    /\ pc = "analyze"
    /\ Unanalysed = {}
    /\ heads' = pushed
    /\ UNCHANGED skipped
    /\ pc' = IF kind \in PullKinds THEN "finalize" ELSE "predict"
    /\ UNCHANGED <<jobs, status, commitJob, predicted, pull, version, model, remote,
                   fetched, up, mem, process, crashes, orphans, taken>>

(* SaveBranches, whichever commits the job has analysed.                   *)
SaveBranches ==
    /\ pc = "analyze"
    /\ Unanalysed = {}
    /\ heads' = fetched
    /\ skipped' = IF kind \in PullKinds
                    THEN skipped \cup {c \in 1..fetched : c > heads /\ commitJob[c] = 0}
                    ELSE skipped
    /\ pc' = IF kind \in PullKinds THEN "finalize" ELSE "predict"
    /\ UNCHANGED <<jobs, status, commitJob, predicted, pull, version, model, remote,
                   fetched, up, mem, process, crashes, orphans, taken>>

FinalizePullRequestAnalysis ==
    /\ pc = "finalize"
    /\ pull' = [pull EXCEPT !.analyzedHead = TRUE]
    /\ pc' = "predict"
    /\ UNCHANGED <<jobs, status, commitJob, predicted, heads, version, model, remote,
                   fetched, up, mem, process, crashes, history>>

Predict ==
    /\ pc = "predict"
    /\ IF start = {} /\ includeAfter = NoJob
         THEN WriteLog("Ready")
         ELSE WriteLog("Predicting")
    /\ UNCHANGED <<status, data, remote, fetched, up, mem, process, crashes, history>>

(* The commits of the jobs the ml service asks for: up to this job for a   *)
(* new model, else those from oldestJob on.                                *)
InRange ==
    {c \in Commits :
        LET oldestJob == IF includeAfter = NoJob THEN cur ELSE includeAfter
        IN  commitJob[c] \in (IF model THEN oldestJob ELSE 0)..cur /\ commitJob[c] # 0}

(* The answer; a new model is built or not. Its scores are saved, or that  *)
(* fails and the model stays.                                              *)
PredictByJob ==
    /\ pc = "ask"
    /\ \/ model' = model
       \/ model' = TRUE
    /\ \/ predicted' = predicted \cup InRange /\ WriteLog("Ready")
       \/ UNCHANGED predicted /\ WriteLog("Failed")
    /\ UNCHANGED <<status, commitJob, heads, pull, version, remote, fetched, up, mem,
                   process, crashes, history>>

Running == pc \notin {"idle", "done", "Failed", "Canceled"}

(* mutant: the error is reported, and the status is not saved              *)
ReportErrorOnly ==
    /\ Running
    /\ jobs' = [jobs EXCEPT ![cur].log = Append(@, "Failed")]
    /\ pc' = "done"
    /\ start' = {}
    /\ UNCHANGED <<status, data, remote, fetched, up, mem, engine, includeAfter, crashes, history>>

(* checkErrors, after any step that returned an error. A follower sets     *)
(* startPoints before it reads them, so they are forgotten here; what a    *)
(* call of IngestHead has left in the engine it finds.                     *)
Fail ==
    /\ Running
    /\ WriteLog("Failed")
    /\ start' = {}
    /\ IF pc = "ingest" THEN \E e \in HalfIngested : EngineIs(e) ELSE UNCHANGED engine
    /\ UNCHANGED <<status, data, remote, fetched, up, mem, includeAfter, crashes, history>>

(* A user stops the repository while its job runs: no follower runs, and   *)
(* a later job gets a process of its own. The end of the job may miss it.  *)
StopRunning ==
    /\ Stops
    /\ pc # "idle"
    /\ \/ Running /\ WriteLog("Canceled")
       \/ pc \in {"Ready", "Failed", "done"} /\ UNCHANGED <<jobs, pc>>
    /\ mem' = <<cur>>
    /\ known' = {} /\ linked' = {} /\ start' = {} /\ includeAfter' = NoJob
    /\ orphans' = orphans \cup {"pull"}
    /\ UNCHANGED <<status, data, remote, fetched, up, crashes, skipped, taken>>

(* A user stops the repository before its job runs: nothing is saved.      *)
StopQueued ==
    /\ Stops
    /\ up = "up" /\ pc = "idle" /\ mem # <<>>
    /\ mem' = <<>>
    /\ orphans' = {"repo", "pull"}
    /\ known' = {} /\ linked' = {} /\ start' = {} /\ includeAfter' = NoJob
    /\ UNCHANGED <<jobs, status, data, remote, fetched, up, pc, crashes, skipped, taken>>

(* runNext: the followers share the process and its fields. A check that   *)
(* ends before RepoStatusIsReady leaves the repository as it is.           *)
runNext ==
    /\ pc = "done"
    /\ pc' = "idle"
    /\ mem' = Tail(mem)
    /\ start' = {}
    /\ IF Tail(mem) = <<>>
         THEN known' = {} /\ linked' = {} /\ includeAfter' = NoJob
         ELSE UNCHANGED <<engine, includeAfter>>
    /\ orphans' = IF kind = "check" /\ Last(jobs[cur].log) # "Ready"
                    THEN orphans \cup {"repo"}
                    ELSE IF kind \in PullKinds THEN orphans ELSE orphans \ {"repo"}
    /\ UNCHANGED <<jobs, status, data, remote, fetched, up, crashes, skipped, taken>>

----------------------------------------------------------------------------
(* The server dies and starts again, perhaps as a new version.             *)

Crash ==
    /\ up # "down"
    /\ crashes < MaxCrashes
    /\ crashes' = crashes + 1
    /\ up' = "down"
    /\ mem' = <<>>
    /\ pc' = "idle"
    /\ known' = {} /\ linked' = {} /\ start' = {} /\ includeAfter' = NoJob
    /\ version' \in {version} \cup (IF Upgrade /\ version = "first" THEN {"old"} ELSE {})
    /\ orphans' = {"pull"}
    /\ UNCHANGED <<jobs, status, commitJob, predicted, heads, pull, model, remote, fetched,
                   skipped, taken>>

(* mutant: a repository that was never worked on is not recovered          *)
RecoverStarted ==
    /\ up = "down"
    /\ up' = IF version = "old" THEN "deletePulls" ELSE "up"
    /\ IF status.repo \notin notWorkingStages \cup {"Queued"}
         THEN ProcessRepository("recover")
         ELSE UNCHANGED <<jobs, mem>>
    /\ UNCHANGED <<status, data, remote, fetched, pc, process, crashes, history>>

(* Only repositories are recovered.                                        *)
Recover ==
    /\ up = "down"
    /\ up' = IF version = "old" THEN "deletePulls" ELSE "up"
    /\ IF status.repo \notin notWorkingStages
         THEN ProcessRepository("recover")
         ELSE UNCHANGED <<jobs, mem>>
    /\ UNCHANGED <<status, data, remote, fetched, pc, process, crashes, history>>

(* realyzeRepositoires, for a repository of an older version.              *)
MigrateDelete ==
    /\ \/ /\ up = "deletePulls"
          /\ pull' = [stored |-> FALSE, analyzedHead |-> FALSE]
          /\ status' = [status EXCEPT !.pull = "Queued"]
          /\ up' = "deleteCommits"
          /\ UNCHANGED <<commitJob, predicted, model>>
       \/ /\ up = "deleteCommits"
          /\ commitJob' = [c \in Commits |-> 0]
          /\ predicted' = {}
          /\ up' = "deleteModels"
          /\ UNCHANGED <<pull, status, model>>
       \/ /\ up = "deleteModels"
          /\ model' = FALSE
          /\ up' = "reset"
          /\ UNCHANGED <<pull, status, commitJob, predicted>>
    /\ UNCHANGED <<jobs, heads, version, remote, fetched, mem, pc, process, crashes, history>>

(* mutant: the heads recorded as analysed are kept                         *)
MigrateKeepsBranches ==
    /\ up = "reset"
    /\ status' = [status EXCEPT !.repo = "Queued"]
    /\ version' = "current"
    /\ skipped' = {}
    /\ up' = "add"
    /\ UNCHANGED <<jobs, heads, commitJob, predicted, pull, model, remote, fetched, mem, pc,
                   process, crashes, orphans, taken>>

MigrateReset ==
    /\ up = "reset"
    /\ heads' = 0
    /\ status' = [status EXCEPT !.repo = "Queued"]
    /\ version' = "current"
    /\ skipped' = {}
    /\ up' = "add"
    /\ UNCHANGED <<jobs, commitJob, predicted, pull, model, remote, fetched, mem, pc,
                   process, crashes, orphans, taken>>

AddRepository ==
    /\ up = "add"
    /\ ProcessRepository("added")
    /\ up' = "up"
    /\ UNCHANGED <<status, data, remote, fetched, pc, process, crashes, history>>

Boot == Recover \/ MigrateDelete \/ MigrateReset \/ AddRepository

Work ==
    \/ Run \/ saveStatus \/ Prepare \/ Ingest \/ StoreCommit \/ SaveBranches
    \/ FinalizePullRequestAnalysis \/ Predict \/ PredictByJob \/ Report \/ runNext

Next ==
    \/ Push \/ PullRequestEvent
    \/ Work \/ Fail \/ StopRunning \/ StopQueued
    \/ Crash \/ Boot

Spec == Init /\ [][Next]_vars

(* The goroutine of a job goes on, and a server that died is started again.*)
FairSpec == Spec /\ WF_vars(Work) /\ WF_vars(Boot)

----------------------------------------------------------------------------
(* Properties. *)

Stages == {"Queued"} \cup Saving

(* Every variable keeps its range; what a job analysed and what it can     *)
(* include are jobs that exist.                                            *)
TypeOK ==
    /\ jobs \in Seq([kind : {"added"} \cup UpdateKinds \cup PullKinds, log : Seq(Stages)])
    /\ status \in [{"repo", "pull"} -> Stages]
    /\ commitJob \in [Commits -> 0..Len(jobs)]
    /\ predicted \subseteq Commits
    /\ base <= pushed /\ fetched <= pushed /\ pushed <= MaxPushes
    /\ heads <= fetched
    /\ pull \in [stored : BOOLEAN, analyzedHead : BOOLEAN]
    /\ version \in {"first", "old", "current"}
    /\ model \in BOOLEAN
    /\ up \in {"up", "down", "deletePulls", "deleteCommits", "deleteModels", "reset", "add"}
    /\ mem \in Seq(DOMAIN jobs)
    /\ pc \in {"idle", "startCheck", "prepare", "ingest", "analyze", "finalize", "predict",
              "ask", "report", "done"} \cup Saving
    /\ linked \subseteq known /\ known \cup start \subseteq Commits
    /\ includeAfter \in NoJob..Len(jobs)

Owned(kinds) == \E i \in DOMAIN mem : jobs[mem[i]].kind \in kinds
Unfinished(s) == s \notin notWorkingStages

(* A repository whose status says that work is going on has a job that     *)
(* will end it, also after a restart and a migration that were themselves  *)
(* cut short; the exceptions are a stop before the job ran, and a check of *)
(* a pull request that failed and leaves the repository in Progressing.    *)
RepoStatusOwned ==
    up = "up" /\ Unfinished(status.repo) =>
        \/ Owned({"added", "check"} \cup UpdateKinds)
        \/ "repo" \in orphans

(* A stored pull request without a result has a job, until the server is   *)
(* restarted or the repository is stopped: no pull request is recovered.   *)
PullStatusOwned ==
    up = "up" /\ pull.stored /\ Unfinished(status.pull) =>
        Owned(PullKinds) \/ "pull" \in orphans

(* So a repository that is being worked on has a job that will end the     *)
(* work, and so has a pull request, until a stop or a restart.             *)
StatusOwned == TypeOK /\ RepoStatusOwned /\ PullStatusOwned

(* While the repository shows Ready, every commit that one of its jobs has *)
(* fetched is analysed and stored; a crash within an analysis or within    *)
(* the migration leaves no gap. Passed over are commits that a job of the  *)
(* pull request recorded with the branch or, being a check with nothing to *)
(* analyse, left to an update that failed, and those that a follower of a  *)
(* job did not find because a call of IngestHead had failed half way.      *)
ReadyMeansAnalysed ==
    up = "up" /\ status.repo = "Ready" =>
        \A c \in 1..taken : commitJob[c] # 0 \/ c \in skipped

(* What was analysed by a job up to an update that became Ready has been   *)
(* taken in by a prediction, unless a later job that predicts only its own *)
(* commits became Ready in between and hides the failed prediction.        *)
PredictedWhenReady ==
    \A u \in DOMAIN jobs : jobs[u].kind \in UpdateKinds /\ Seen(u, "Ready") =>
        \A c \in Commits : commitJob[c] \in 1..u /\ c \notin predicted =>
            \E m \in commitJob[c] + 1 .. u - 1 :
                /\ jobs[m].kind \in {"added"} \cup PullKinds
                /\ Seen(m, "Predicting") /\ Seen(m, "Ready")

(* A repository that is being worked on gets a result in the end, with     *)
(* crashes and failures on the way, unless it is left behind by a stop or  *)
(* a failed check.                                                         *)
WorkEnds ==
    Unfinished(status.repo) ~> (~Unfinished(status.repo) \/ "repo" \in orphans)
=============================================================================

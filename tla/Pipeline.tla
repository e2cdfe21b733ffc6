------------------------------ MODULE Pipeline ------------------------------
(***************************************************************************)
(* One run of a job (src/ingest/pkg/manage/job.go and strategy.go): the    *)
(* stages of its pipeline, the goroutines of a stage with several tasks,   *)
(* the statuses the tasks save, the check run on GitHub, and what run's    *)
(* deferred function writes at the end, while a user may stop the process  *)
(* at any moment and any call to a service may fail.                       *)
(*                                                                         *)
(* Nested pipelines (ProcessCheckRun) are laid out as one list of stages.  *)
(***************************************************************************)
EXTENDS Integers, Sequences, SequencesExt, FiniteSets

CONSTANTS
    RunActions, \* the actions whose pipelines are run
    NumPulls    \* pull requests of a PullRequestCheck

(* Assumed of the constants by every module that instantiates this one:    *)
(* checkSuiteRequestedEvent asks for a PullRequestCheck only if the suite  *)
(* has pull requests.                                                      *)
PipelineAssumption ==
    /\ RunActions \subseteq {"RepositoryAdded", "MonitorRepository", "RepositoryPush",
                             "PullRequestUpdate", "PushCheck", "PullRequestCheck"}
    /\ NumPulls \in Nat \ {0}

VARIABLES
    action,       \* JobInfo.Action
    idx,          \* the stage runPipeline is at
    pc,           \* stage, failCheck, log, save, wrapup or reported
    tpc,          \* how far each task of the stage is
    res,          \* what each task of the stage returned
    err,          \* the err of runPipeline and run
    ctxDone,      \* the context of the job is done
    stopped,      \* Stop was called (by a user, or by a deletion)
    jobStatus,    \* the last entry of the job's log
    status,       \* the status stored for the repository (0) and its pull requests
    checkRun,     \* the check run on GitHub
    startPoints,  \* process.startPoints is not empty
    includeAfter, \* process.includeAfter is set
    dropped,      \* CancelNext was called: the followers will not run
    lost          \* what the end of the run could not write though its context was alive

vars == <<action, idx, pc, tpc, res, err, ctxDone, stopped, jobStatus, status,
          checkRun, startPoints, includeAfter, dropped, lost>>
stored == <<jobStatus, status, checkRun>>
fields == <<startPoints, includeAfter>>

----------------------------------------------------------------------------
(* The pipelines. *)

pipelineUpdateRepository ==
    <<{"StatusInProgress"}, {"PrepareGitRepository", "RecoverFromLastPredicting"},
      {"ingestLocalBranchesTask"}, {"analyze"}, {"Predict"}, {"StatusIsReady"}>>

pipelineUpdatePullRequest ==
    <<{"StatusInProgress"}, {"PrepareGitRepository"}, {"PreparePullRequest"},
      {"ingestPullRequestTask"}, {"analyze"}, {"FinalizePullRequestAnalysis"},
      {"Predict"}, {"StatusIsReady"}>>

pipelineNewRepository ==
    <<{"StatusInProgress"}, {"PrepareGitRepository", "UpdateCollaborators"},
      {"ingestLocalBranchesTask", "AddPullRequests"}, {"analyze"}, {"Predict"},
      {"StatusIsReady"}>>

pipelineNewPublicRepository ==
    [pipelineNewRepository EXCEPT ![2] = {"PrepareGitRepository"}]

(* The stages inside ProcessCheckRun, between its StartCheckRun and the    *)
(* report; pullRequestEntities looks the pull requests of a check up.      *)
routeCheckPipelines ==
    CASE action = "PushCheck" -> pipelineUpdateRepository
      [] action = "PullRequestCheck" ->
            <<{"pullRequestEntities"}>>
                \o FlattenSeq([n \in 1..NumPulls |-> pipelineUpdatePullRequest])
      [] OTHER -> <<>>

Before ==
    CASE action = "PushCheck" -> <<{"StartCheckRun"}>>
      [] action = "PullRequestCheck" -> <<{"RepoStatusInProgress"}, {"StartCheckRun"}>>
      [] OTHER -> <<>>

pipe ==
    CASE action = "RepositoryAdded" -> pipelineNewRepository
      [] action = "MonitorRepository" -> pipelineNewPublicRepository
      [] action = "PullRequestUpdate" -> pipelineUpdatePullRequest
      [] action = "RepositoryPush" -> pipelineUpdateRepository
      [] action = "PushCheck" ->
            Before \o routeCheckPipelines \o <<{"ReportPushCheckResult"}>>
      [] action = "PullRequestCheck" ->
            Before \o routeCheckPipelines
                \o <<{"ReportPullRequestCheckResult"}, {"RepoStatusIsReady"}>>

Tasks == (UNION Range(pipelineUpdateRepository \o pipelineUpdatePullRequest
                       \o pipelineNewRepository))
            \cup {"StartCheckRun", "pullRequestEntities", "ReportPushCheckResult",
                  "ReportPullRequestCheckResult", "RepoStatusInProgress", "RepoStatusIsReady"}

stage == pipe[idx]
Single == Cardinality(stage) = 1
Concurrent == ~Single

InCheckRun == idx > Len(Before) /\ idx <= Len(Before) + Len(routeCheckPipelines)

(* The pull request the details name: 0 when they name none, and the       *)
(* status then belongs to the repository. A check keeps its last one.      *)
Target ==
    CASE action = "PullRequestUpdate" -> 1
      [] action = "PullRequestCheck" /\ idx > 3 ->
            LET n == (idx - 4) \div Len(pipelineUpdatePullRequest) + 1
            IN  IF n > NumPulls THEN NumPulls ELSE n
      [] OTHER -> 0

Stages == {"Queued", "Progressing", "Cloning", "Fetching", "Ingesting", "Analyzing",
           "Predicting", "Ready", "Failed", "Canceled"}

(* The statuses a task may save when it starts: none for most tasks, one   *)
(* of two for PrepareGitRepository (there is a local clone or not).        *)
Saves(t) ==
    CASE t \in {"StatusInProgress", "RepoStatusInProgress"} -> {"Progressing"}
      [] t = "PrepareGitRepository" -> {"Cloning", "Fetching"}
      [] t \in {"ingestLocalBranchesTask", "ingestPullRequestTask"} -> {"Ingesting"}
      [] t = "analyze" -> {"Analyzing"}
      [] t = "Predict" -> {"Predicting"}
      [] t \in {"StatusIsReady", "RepoStatusIsReady"} -> {"Ready"}
      [] OTHER -> {}

(* mutant: Predict looks at includeAfter only                              *)
SkipsWithoutIncludeAfter(t) ==
    \/ t \in {"analyze", "FinalizePullRequestAnalysis"} /\ ~startPoints
    \/ t = "Predict" /\ ~includeAfter

(* The tasks that return at once when there is nothing new.                *)
Skips(t) ==
    \/ t \in {"analyze", "FinalizePullRequestAnalysis"} /\ ~startPoints
    \/ t = "Predict" /\ ~startPoints /\ ~includeAfter

----------------------------------------------------------------------------
(* A task: save the status in the job's log, save it for its target, work, *)
(* return.                                                                 *)

InStage(t) == pc = "stage" /\ t \in stage

Return(t, r) ==
    /\ tpc' = [tpc EXCEPT ![t] = "returned"]
    /\ res' = [res EXCEPT ![t] = r]

(* An operation fails by itself, or because the context is done: it then   *)
(* returns context.Canceled, bare or wrapped by a client.                  *)
Failures == {"failure"} \cup (IF ctxDone THEN {"canceled"} ELSE {})

Working(t) == InStage(t) /\ tpc[t] \in {"todo", "logged", "saved"} /\ ~Skips(t)

LogStatus(t) ==
    /\ Working(t)
    /\ tpc[t] = "todo"
    /\ t \notin {"RepoStatusInProgress", "RepoStatusIsReady"}
    /\ jobStatus' \in Saves(t)
    /\ tpc' = [tpc EXCEPT ![t] = "logged"]
    /\ UNCHANGED <<action, idx, pc, res, err, ctxDone, stopped, status, checkRun, fields,
                   dropped, lost>>

(* saveStatus writes for the pull request or the repository, repoStatus    *)
(* always for the repository and never in the log.                         *)
SaveStatus(t) ==
    /\ Working(t)
    /\ \/ /\ tpc[t] = "logged"
          /\ status' = [status EXCEPT ![Target] = jobStatus]
       \/ /\ tpc[t] = "todo"
          /\ t \in {"RepoStatusInProgress", "RepoStatusIsReady"}
          /\ \E s \in Saves(t) : status' = [status EXCEPT ![0] = s]
    /\ tpc' = [tpc EXCEPT ![t] = "saved"]
    /\ UNCHANGED <<action, idx, pc, res, err, ctxDone, stopped, jobStatus, checkRun, fields,
                   dropped, lost>>

(* What the call to GitHub makes of the check run: in a report the tracker *)
(* holds Ready, so FinishCheckRun concludes with neutral.                  *)
CheckRunAfter(t) ==
    CASE t = "StartCheckRun" -> "in_progress"
      [] t \in {"ReportPushCheckResult", "ReportPullRequestCheckResult"} -> "neutral"
      [] OTHER -> checkRun

CallsGitHub(t) == CheckRunAfter(t) # checkRun

Finish(t) ==
    /\ InStage(t)
    /\ \/ tpc[t] = "saved"
       \/ tpc[t] = "todo" /\ (Saves(t) = {} \/ Skips(t))
    /\ CallsGitHub(t) => ~ctxDone
    /\ Return(t, "ok")
    /\ checkRun' = CheckRunAfter(t)
    /\ IF t \in {"ingestLocalBranchesTask", "ingestPullRequestTask"}
         THEN startPoints' \in BOOLEAN ELSE UNCHANGED startPoints
    /\ IF t = "RecoverFromLastPredicting"
         THEN includeAfter' \in {includeAfter, TRUE} ELSE UNCHANGED includeAfter
    /\ UNCHANGED <<action, idx, pc, err, ctxDone, stopped, jobStatus, status, dropped, lost>>

(* A task fails anywhere on its way; a write that reports an error may     *)
(* have been applied, a request to GitHub has not.                         *)
Fail(t) ==
    /\ Working(t)
    /\ \E r \in Failures : Return(t, r)
    /\ UNCHANGED <<action, idx, pc, err, ctxDone, stopped, stored, fields, dropped, lost>>

(* The goroutine of a concurrent stage recovers, but never calls wg.Done;  *)
(* a lone task unwinds to the recover of run, past ProcessCheckRun.        *)
Panic(t) ==
    /\ Working(t)
    /\ IF Concurrent
         THEN tpc' = [tpc EXCEPT ![t] = "gone"] /\ UNCHANGED <<pc, err>>
         ELSE pc' = "log" /\ err' = "failure" /\ UNCHANGED tpc
    /\ UNCHANGED <<action, idx, res, ctxDone, stopped, stored, fields, dropped, lost>>

----------------------------------------------------------------------------
(* runPipeline. *)

NoTask == [t \in Tasks |-> "todo"]
NoResult == [t \in Tasks |-> "ok"]

Leave(e) ==
    /\ err' = e
    /\ pc' = IF InCheckRun THEN "failCheck" ELSE "log"
    /\ UNCHANGED <<idx, tpc, res>>

NextStage ==
    /\ tpc' = NoTask
    /\ res' = NoResult
    /\ idx' = idx + 1
    /\ pc' = IF idx = Len(pipe) THEN "wrapup" ELSE "stage"
    /\ UNCHANGED err

(* A stage with one task.                                                  *)
SingleDone(t) ==
    /\ InStage(t)
    /\ Single
    /\ tpc[t] = "returned"
    /\ IF res[t] = "ok" THEN NextStage ELSE Leave(res[t])
    /\ UNCHANGED <<action, ctxDone, stopped, stored, fields, dropped, lost>>

(* mutant: a task that failed returns without wg.Done                      *)
AfterAssignNoDone == "cancelled"

AfterAssign == "done"

(* The goroutines of a concurrent stage share err: each looks whether it   *)
(* is still nil, cancels the context, and only then assigns it.            *)
LookAtErr(t) ==
    /\ InStage(t)
    /\ Concurrent
    /\ tpc[t] = "returned"
    /\ tpc' = [tpc EXCEPT ![t] = IF res[t] # "ok" /\ err = "none" THEN "failed" ELSE "done"]
    /\ UNCHANGED <<action, idx, pc, res, err, ctxDone, stopped, stored, fields, dropped, lost>>

CancelCtx(t) ==
    /\ InStage(t)
    /\ tpc[t] = "failed"
    /\ ctxDone' = TRUE
    /\ tpc' = [tpc EXCEPT ![t] = "cancelled"]
    /\ UNCHANGED <<action, idx, pc, res, err, stopped, stored, fields, dropped, lost>>

AssignErr(t) ==
    /\ InStage(t)
    /\ tpc[t] = "cancelled"
    /\ err' = res[t]
    /\ tpc' = [tpc EXCEPT ![t] = AfterAssign]
    /\ UNCHANGED <<action, idx, pc, res, ctxDone, stopped, stored, fields, dropped, lost>>

(* mutant: the stage is left when its first task is done                   *)
JoinFirst == \E t \in stage : tpc[t] = "done"

Join == \A t \in stage : tpc[t] = "done"

(* wg.Wait, and the look at the context after it.                          *)
StageDone ==
    /\ pc = "stage"
    /\ Concurrent
    /\ Join
    /\ CASE err # "none" -> Leave(err)
         [] err = "none" /\ ctxDone -> Leave("canceled")
         [] OTHER -> NextStage
    /\ UNCHANGED <<action, ctxDone, stopped, stored, fields, dropped, lost>>

(* mutant: a failed check run is not finished                              *)
FailCheckRunSkipped ==
    /\ pc = "failCheck"
    /\ pc' = "log"
    /\ UNCHANGED <<action, idx, tpc, res, err, ctxDone, stopped, stored, fields, dropped, lost>>

(* ProcessCheckRun finishes the check run of a failed pipeline, with the   *)
(* context of the job, and only logs it when that fails.                   *)
FailCheckRun ==
    /\ pc = "failCheck"
    /\ pc' = "log"
    /\ \/ ~ctxDone /\ checkRun' = "cancelled" /\ UNCHANGED lost
       \/ UNCHANGED checkRun /\ lost' = IF ctxDone THEN lost ELSE lost \cup {"checkRun"}
    /\ UNCHANGED <<action, idx, tpc, res, err, ctxDone, stopped, jobStatus, status, fields, dropped>>

----------------------------------------------------------------------------
(* The deferred function of run. *)

(* mutant: checkErrors is given the context of the job                     *)
OutcomeCtxDoneJob == ctxDone

(* checkErrors is given baseCtx, which neither Stop nor a failure cancels. *)
OutcomeCtxDone == FALSE

(* mutant: the error is recorded as it is                                  *)
OutcomeIsError == err

Outcome == IF err = "canceled" THEN "Canceled" ELSE "Failed"

OutcomeNotWritten ==
    /\ pc' = "wrapup"
    /\ lost' = IF OutcomeCtxDone THEN lost ELSE lost \cup {"outcome"}
    /\ UNCHANGED <<jobStatus, status>>

(* ReportError, or the first half of saveStatus.                           *)
LogOutcome ==
    /\ pc = "log"
    /\ \/ /\ ~OutcomeCtxDone
          /\ jobStatus' = Outcome
          /\ pc' = "save"
          /\ UNCHANGED <<status, lost>>
       \/ OutcomeNotWritten
    /\ UNCHANGED <<action, idx, tpc, res, err, ctxDone, stopped, checkRun, fields, dropped>>

SaveOutcome ==
    /\ pc = "save"
    /\ \/ /\ ~OutcomeCtxDone
          /\ status' = [status EXCEPT ![Target] = Outcome]
          /\ pc' = "wrapup"
          /\ UNCHANGED <<jobStatus, lost>>
       \/ OutcomeNotWritten
    /\ UNCHANGED <<action, idx, tpc, res, err, ctxDone, stopped, checkRun, fields, dropped>>

(* mutant: the context is cancelled before it is looked at                 *)
WrapUpCancelFirst ==
    /\ pc = "wrapup"
    /\ pc' = "reported"
    /\ ctxDone' = TRUE
    /\ dropped' = ctxDone'
    /\ UNCHANGED <<action, idx, tpc, res, err, stopped, stored, fields, lost>>

(* CancelNext if the context is done, and mgr.done <- p.                   *)
WrapUp ==
    /\ pc = "wrapup"
    /\ pc' = "reported"
    /\ dropped' = ctxDone
    /\ ctxDone' = TRUE
    /\ UNCHANGED <<action, idx, tpc, res, err, stopped, stored, fields, lost>>

(* process.Stop, from a handler of the REST or GraphQL API.                *)
Stop ==
    /\ pc # "reported"
    /\ ~stopped
    /\ stopped' = TRUE
    /\ ctxDone' = TRUE
    /\ UNCHANGED <<action, idx, pc, tpc, res, err, stored, fields, dropped, lost>>

----------------------------------------------------------------------------
(* A process may run its job with the fields another job has left.         *)
Init ==
    /\ action \in RunActions
    /\ idx = 1
    /\ pc = "stage"
    /\ tpc = NoTask
    /\ res = NoResult
    /\ err = "none"
    /\ ctxDone = FALSE
    /\ stopped = FALSE
    /\ jobStatus = "Queued"
    /\ status = [n \in 0..NumPulls |-> "Queued"]
    /\ checkRun = "queued"
    /\ startPoints \in BOOLEAN
    /\ includeAfter \in BOOLEAN
    /\ dropped = FALSE
    /\ lost = {}

TaskStep(t) == LogStatus(t) \/ SaveStatus(t) \/ Finish(t) \/ Fail(t)

GoroutineStep(t) == SingleDone(t) \/ LookAtErr(t) \/ CancelCtx(t) \/ AssignErr(t)

RunStep == StageDone \/ FailCheckRun \/ LogOutcome \/ SaveOutcome \/ WrapUp

Next ==
    \/ \E t \in Tasks : TaskStep(t) \/ GoroutineStep(t) \/ Panic(t)
    \/ RunStep
    \/ Stop

Spec == Init /\ [][Next]_vars

Goroutines == \E t \in Tasks : TaskStep(t) \/ GoroutineStep(t)

(* Go schedules some goroutine that can go on, and a call to a service or  *)
(* to git returns; nobody has to stop a job and no task has to panic.      *)
Fairness == WF_vars(Goroutines) /\ WF_vars(RunStep)

FairSpec == Spec /\ Fairness

----------------------------------------------------------------------------
(* Properties. *)

(* Every variable has its type, and the statuses are stages.               *)
TypeOK ==
    /\ action \in RunActions
    /\ idx \in 1..(Len(pipe) + 1)
    /\ pc \in {"stage", "failCheck", "log", "save", "wrapup", "reported"}
    /\ tpc \in [Tasks -> {"todo", "logged", "saved", "returned", "failed", "cancelled",
                          "done", "gone"}]
    /\ res \in [Tasks -> {"ok", "failure", "canceled"}]
    /\ err \in {"none", "failure", "canceled"}
    /\ jobStatus \in Stages
    /\ status \in [0..NumPulls -> Stages]
    /\ checkRun \in {"queued", "in_progress", "neutral", "cancelled"}
    /\ lost \subseteq {"outcome", "checkRun"}
    /\ {ctxDone, stopped, startPoints, includeAfter, dropped} \subseteq BOOLEAN

ReportedAt == pc = "reported" /\ idx <= Len(pipe)

(* A task of the concurrent stage the run ended in returned an error.      *)
ConcurrentFailed == idx <= Len(pipe) /\ Concurrent /\ \E t \in stage : res[t] # "ok"

(* However a run ends (success, an error, a panic, a stop in any stage),   *)
(* the log of its job and its repository or pull request hold the outcome, *)
(* unless one of the last writes failed; a successful check leaves every   *)
(* pull request and the repository Ready (checkErrors, saveStatus).        *)
OutcomeRecorded ==
    pc = "reported" /\ "outcome" \notin lost =>
        IF err = "none"
          THEN /\ jobStatus = "Ready" /\ status[Target] = "Ready"
               /\ action = "PullRequestCheck" => \A n \in 0..NumPulls : status[n] = "Ready"
          ELSE jobStatus = Outcome /\ status[Target] = Outcome

(* A job counts as canceled, or drops its followers, only if somebody      *)
(* stopped it or a task next to another one failed: an error of a lone     *)
(* task never costs the followers their run (run's deferred select).       *)
CancelJustified ==
    pc = "reported" /\ (err = "canceled" \/ dropped) => stopped \/ ConcurrentFailed

(* A check run that was started is finished when the run ends, unless the  *)
(* context was done, the request to finish it failed, a task panicked, or  *)
(* the failure came in or after the report (ProcessCheckRun).              *)
CheckRunClosed ==
    pc = "reported" /\ checkRun = "in_progress" =>
        \/ dropped
        \/ "checkRun" \in lost
        \/ ReportedAt /\ Single /\ \E t \in stage : tpc[t] # "returned"
        \/ idx > Len(Before) + Len(routeCheckPipelines)

(* So however a run ends, its outcome is in the log and in the status, and *)
(* a check run that was started is finished.                               *)
OutcomeTold == TypeOK /\ OutcomeRecorded /\ CheckRunClosed

(* A job that found commits to analyse becomes Ready only right after it   *)
(* predicted them: RecoverFromLastPredicting takes a Ready job with a      *)
(* Predicting entry for one whose commits need no prediction.              *)
ReadyStep == jobStatus' = "Ready" /\ jobStatus # "Ready" /\ startPoints => jobStatus = "Predicting"

ReadyFollowsPrediction == [][ReadyStep]_vars

(* The next stage begins only when every task of the last one has come to  *)
(* its end and succeeded: the goroutines look at err, cancel and assign it *)
(* in three steps without a lock, and still no failure gets lost between   *)
(* them or under a stop (runPipeline).                                     *)
StageStep ==
    idx' # idx => \A t \in Tasks \cap stage : tpc[t] \in {"returned", "done"} /\ res[t] = "ok"

StagesFollowSuccess == [][StageStep]_vars

(* Every run ends and reports to the manager, unless a task of a           *)
(* concurrent stage panics: then wg.Wait waits for ever.                   *)
EveryRunReports == <>(pc = "reported" \/ \E t \in Tasks : tpc[t] = "gone")
=============================================================================

------------------------------- MODULE Models -------------------------------
(***************************************************************************)
(* The models of a repository: Predict of src/ml/pkg/ml/ml.go, the model   *)
(* documents and files it keeps, and the job that asked for the prediction *)
(* (Predict of src/ingest/pkg/manage/job.go), which stores the scores and  *)
(* the repository's confidence or quality. Requests may overlap when a     *)
(* process was stopped; a request that is given up ends its child process. *)
(***************************************************************************)
EXTENDS Integers, Sequences, FiniteSets

CONSTANTS
    MaxRequests,  \* bound: predictions asked for
    MaxBeside     \* bound: that many, the first ones, may begin beside another

(* Assumed of the constants by every module that instantiates this one.    *)
ModelsAssumption == {MaxRequests, MaxBeside} \subseteq Nat

VARIABLES
    docs,      \* the documents in the order of their insertion:
               \* [version, model, tested, status]
    files,     \* the file of each version: a model, NoFile or Broken
    work,      \* requests: [n, step, version, doc, tested, res, status, model]
    begun,     \* how many there were; a new model has its request's number
    scores,    \* the model that scored the newest commits, 0 for none
    grade,     \* the repository: [status, model]
    \* history
    overlap,   \* two requests were at work at once
    lost,      \* the files were lost
    torn,      \* a job ended between the scores and the grade
    unscored   \* a stored model gave no scores

vars == <<docs, files, work, begun, scores, grade, overlap, lost, torn, unscored>>

NoFile == 0
Broken == -1
Versions == 1 .. MaxRequests

NoDoc == [version |-> 0, model |-> 0, tested |-> 0, status |-> "none"]

(* What the child process may answer when it is to build a model.          *)
Result(built, predicted, data, report, error) ==
    [isBuilt |-> built, isPredicted |-> predicted, data |-> data, report |-> report, error |-> error]

Unbuilt ==
    {Result(FALSE, FALSE, "none", "none", e) : e \in {"quantiles", "preparation", "splitting"}}
      \cup {Result(FALSE, FALSE, d, "none", "building") : d \in {"few", "unbalanced", "enough"}}

Built ==
    {Result(TRUE, p, d, r, IF p THEN "none" ELSE "predicting") :
       p \in BOOLEAN, d \in {"few", "unbalanced", "enough"}, r \in {"low", "good"}}

NoResult == Result(FALSE, FALSE, "none", "none", "none")

(* mutant: the stage that failed is not looked at                          *)
statusByQuality(res) ==
    IF ~res.isBuilt /\ res.isPredicted THEN "LastModel"
    ELSE IF res.data = "none" THEN "FailDataPreparing"
    ELSE IF res.data = "few" THEN "LowTrainingData"
    ELSE IF res.data = "unbalanced" THEN "ClassUnbalanced"
    ELSE IF res.report = "none" THEN "FailTraining"
    ELSE IF res.report = "low" THEN "LowModelQuality"
    ELSE "Ok"

predictionStatus(res) ==
    IF ~res.isBuilt /\ res.isPredicted THEN "LastModel"
    ELSE IF res.data = "none" THEN "FailDataPreparing"
    ELSE IF res.data = "few" THEN "LowTrainingData"
    ELSE IF res.data = "unbalanced" THEN "ClassUnbalanced"
    ELSE IF res.report = "none" THEN "FailTraining"
    ELSE IF res.report = "low" THEN "LowModelQuality"
    ELSE IF res.error \in {"preparation", "splitting"} THEN "FailDataPreparing"
    ELSE IF res.error = "building" THEN "FailTraining"
    ELSE IF res.error = "predicting" THEN "FailPredicting"
    ELSE "Ok"

Init ==
    /\ docs = <<>> /\ files = [v \in Versions |-> NoFile]
    /\ work = {} /\ begun = 0
    /\ scores = 0 /\ grade = [status |-> "none", model |-> 0]
    /\ overlap = FALSE /\ lost = FALSE /\ torn = FALSE /\ unscored = FALSE

Goes(w, next) == work' = (work \ {w}) \cup {next}

(* A job asks for a prediction.                                            *)
Prediction ==
    /\ begun < MaxRequests /\ (work = {} \/ begun < MaxBeside)
    /\ begun' = begun + 1
    /\ work' = work \cup {[n |-> begun + 1, step |-> "find", version |-> 0, doc |-> NoDoc,
                           tested |-> 0, res |-> NoResult, status |-> "none", model |-> 0]}
    /\ overlap' = (overlap \/ work # {})
    /\ UNCHANGED <<docs, files, scores, grade, lost, torn, unscored>>

(* mutant: the next version is that of the last model                      *)
SameVersion(doc) == IF doc = NoDoc THEN 1 ELSE doc.version

NextVersion(doc) == IF doc = NoDoc THEN 1 ELSE doc.version + 1

LatestModel == IF docs = <<>> THEN NoDoc ELSE docs[Len(docs)]

(* mutant: a model is good for one prediction                              *)
NeverValid(doc) == FALSE

IsValid(doc) == doc # NoDoc /\ files[doc.version] # NoFile

Predict(w) ==
    /\ w.step = "find"
    /\ LET doc == LatestModel
       IN  Goes(w, IF IsValid(doc) THEN [w EXCEPT !.step = "predict", !.doc = doc]
                   ELSE [w EXCEPT !.step = "build", !.version = NextVersion(doc)])
    /\ UNCHANGED <<docs, files, begun, scores, grade, overlap, lost, torn, unscored>>

(* No model comes of it: the answer has a status only.                     *)
BuildFails(w) ==
    /\ w.step = "build"
    /\ \E res \in Unbuilt : Goes(w, [w EXCEPT !.step = "grade", !.status = predictionStatus(res)])
    /\ UNCHANGED <<docs, files, begun, scores, grade, overlap, lost, torn, unscored>>

(* The model is written to the file of its version.                        *)
Build(w) ==
    /\ w.step = "build"
    /\ files' = [files EXCEPT ![w.version] = w.n]
    /\ \E res \in Built : Goes(w, [w EXCEPT !.step = "test", !.res = res])
    /\ UNCHANGED <<docs, begun, scores, grade, overlap, lost, torn, unscored>>

(* The file is read back; the report and the scores are the file's.        *)
Test(w) ==
    /\ w.step = "test"
    /\ files[w.version] \notin {NoFile, Broken}
    /\ Goes(w, [w EXCEPT !.step = "insert", !.tested = files[w.version]])
    /\ UNCHANGED <<docs, files, begun, scores, grade, overlap, lost, torn, unscored>>

Insert(w) ==
    /\ w.step = "insert"
    /\ LET s == predictionStatus(w.res)
       IN  /\ docs' = Append(docs, [version |-> w.version, model |-> w.n, tested |-> w.tested,
                                    status |-> s])
           /\ Goes(w, [w EXCEPT !.step = IF w.res.isPredicted THEN "scores" ELSE "grade",
                                !.status = s, !.model = w.tested])
    /\ UNCHANGED <<files, begun, scores, grade, overlap, lost, torn, unscored>>

(* The stored model scores the commits, or fails to; the answer repeats    *)
(* the status it was stored with.                                          *)
PredictUsingLastModel(w) ==
    /\ w.step = "predict"
    /\ files[w.doc.version] \notin {NoFile, Broken}
    /\ \E predicted \in BOOLEAN :
         /\ Goes(w, [w EXCEPT !.step = IF predicted THEN "scores" ELSE "grade",
                              !.status = w.doc.status, !.model = files[w.doc.version]])
         /\ unscored' = (unscored \/ ~predicted)
    /\ UNCHANGED <<docs, files, begun, scores, grade, overlap, lost, torn>>

SaveCommitAnalysis(w) ==
    /\ w.step = "scores"
    /\ scores' = w.model
    /\ Goes(w, [w EXCEPT !.step = "grade"])
    /\ UNCHANGED <<docs, files, begun, grade, overlap, lost, torn, unscored>>

(* SaveConfidence or SaveQuality; each takes the other away.               *)
SaveGrade(w) ==
    /\ w.step = "grade"
    /\ grade' = [status |-> w.status, model |-> w.model]
    /\ work' = work \ {w}
    /\ UNCHANGED <<docs, files, begun, scores, overlap, lost, torn, unscored>>

(* The request is given up or fails; a file may be left half written.      *)
GiveUp(w) ==
    /\ work' = work \ {w}
    /\ files' \in {files} \cup
         IF w.step = "build" THEN {[files EXCEPT ![w.version] = Broken]} ELSE {}
    /\ torn' = (torn \/ (w.step = "grade" /\ scores = w.model))
    /\ UNCHANGED <<docs, begun, scores, grade, overlap, lost, unscored>>

(* The volume of the models is lost.                                       *)
LoseFiles ==
    /\ \E v \in Versions : files[v] # NoFile
    /\ files' = [v \in Versions |-> NoFile]
    /\ lost' = TRUE
    /\ UNCHANGED <<docs, work, begun, scores, grade, overlap, torn, unscored>>

Next ==
    \/ Prediction \/ LoseFiles
    \/ \E w \in work :
         \/ Predict(w) \/ BuildFails(w) \/ Build(w) \/ Test(w) \/ Insert(w)
         \/ PredictUsingLastModel(w) \/ SaveCommitAnalysis(w) \/ SaveGrade(w) \/ GiveUp(w)

Spec == Init /\ [][Next]_vars

----------------------------------------------------------------------------
(* Properties. *)

(* Every variable has its type.                                            *)
TypeOK ==
    /\ begun \in 0 .. MaxRequests /\ Cardinality(work) <= begun
    /\ \A i \in DOMAIN docs : docs[i].version \in Versions /\ docs[i].model \in 1 .. begun
    /\ files \in [Versions -> {Broken} \cup 0 .. begun]
    /\ \A w \in work : w.step \in {"build", "test", "insert"} => w.version \in Versions
    /\ {scores, grade.model} \subseteq 0 .. begun

(* The file of a stored model holds that model, and the report was made of *)
(* it: no other build writes to it, unless requests overlapped.            *)
DocMatchesFile ==
    ~overlap => \A i \in DOMAIN docs :
      /\ docs[i].tested = docs[i].model
      /\ files[docs[i].version] \in {NoFile, docs[i].model}

(* A repository has one model for good: another is built only if the files *)
(* were lost, or by a request that overlapped.                             *)
OneModel == ~overlap /\ ~lost => Len(docs) <= 1

(* The confidence a repository shows is that of the model that scored its  *)
(* newest commits, unless requests overlapped, a job ended in between, or  *)
(* the stored model could not score the commits: the answer still repeats  *)
(* the model's status.                                                     *)
ConfidenceOfScores ==
    grade.status = "Ok" /\ ~overlap /\ ~torn /\ ~unscored /\ (\A w \in work : w.step # "grade")
      => grade.model = scores

(* What holds of the models in every state.                                *)
ModelsAgree == TypeOK /\ DocMatchesFile /\ OneModel /\ ConfidenceOfScores
=============================================================================

------------------------------ MODULE BugMarks -------------------------------
(***************************************************************************)
(* What the analysis of a repository says about its bugs: a fix marks the  *)
(* commits whose lines it deletes, in their documents (Fixes), and the     *)
(* marked ones are counted (AnalyzeCommit, traceDeletedChunks and          *)
(* storeCommit of src/ingest/pkg/analysis/analysis.go, MarkBuggy and       *)
(* InsertOrReplace of the commits collection, analyze of                   *)
(* src/ingest/pkg/manage/job.go). The marks are all that is kept: the      *)
(* document of a fix does not say what it fixes. The jobs, the walk and    *)
(* the documents are those of RepositoryAnalysis.                          *)
(***************************************************************************)
EXTENDS RepositoryAnalysis

CONSTANT
    Inducing    \* for a history: the commits that git blames for what a commit deletes

(* Assumed of the constants by every module that instantiates this one.    *)
InducingAssumption ==
    /\ Inducing \in [Histories -> [Commits -> SUBSET Commits]]
    /\ \A h \in Histories : \A c \in Commits :
         IF h[c] = <<>> THEN Inducing[h][c] = {}
         ELSE Inducing[h][c] \subseteq AncestorsList(h, {h[c][1]})

VARIABLES
    fixes,      \* Commit.Fixes: the fixes that have marked a commit
    buggyCount, \* saved with the repository
    \* history
    traced,     \* the stored commits whose last analysis marked what it traced
    early,      \* a fix was walked before the commit it fixes
    apart       \* a commit was replaced when a fix of it was not in the engine

bugVars == <<fixes, buggyCount, traced, early, apart>>

(* What git blames for the lines that a fix deletes; merges are no fixes.  *)
Blamed(f) == IF IsMerge(parents, f) THEN {} ELSE Inducing[parents][f]

(* What is traced for the commit on top: nothing without a parent.         *)
bugs == IF links[top] = <<>> \/ IsMerge(links, top) THEN {} ELSE Inducing[parents][top]

(* mutant: a mark is pushed without looking for it                         *)
MarkBuggyAgain(fix, marked) ==
    [c \in Commits |-> IF c \in stored \cap marked THEN Append(fixes[c], fix) ELSE fixes[c]]

(* mutant: one document is updated, not all that match                     *)
MarkOne(fix, marked) ==
    LET found == {c \in stored \cap marked : fix \notin Range(fixes[c])}
    IN  [c \in Commits |-> IF found # {} /\ c = CHOOSE d \in found : TRUE
                           THEN Append(fixes[c], fix) ELSE fixes[c]]

(* An update of what there is: nothing is kept for a missing document.     *)
MarkBuggy(fix, marked) ==
    [c \in Commits |-> IF c \in stored \cap marked /\ fix \notin Range(fixes[c])
                       THEN Append(fixes[c], fix) ELSE fixes[c]]

(* Blame failed on some file, the issues could not be read, or the engine  *)
(* has no parent of the fix: the commit is stored, and nothing is marked.  *)
NotTraced ==
    /\ Blamed(top) # {}
    /\ fixes' = [fixes EXCEPT ![top] = <<>>]
    /\ traced' = traced \ {top}

(* The commits are marked, then the new document replaces the old, which   *)
(* takes its marks away.                                                   *)
Traced ==
    /\ links[top] # <<>> \/ Blamed(top) = {}
    /\ fixes' = [MarkBuggy(top, bugs) EXCEPT ![top] = <<>>]
    /\ traced' = traced \cup {top}

AnalyzeBugs ==
    /\ AnalyzeCommit
    /\ Traced \/ NotTraced
    /\ early' = (early \/ \E fix \in traced \cap seen : top \in Blamed(fix))
    /\ apart' = (apart \/ \E fix \in traced \ known : top \in Blamed(fix))
    /\ UNCHANGED buggyCount

(* Prune deletes documents with all they say.                              *)
PruneBugs ==
    /\ Prune
    /\ fixes' = [c \in Commits |-> IF c \in stored' THEN fixes[c] ELSE <<>>]
    /\ traced' = traced \cap stored'
    /\ UNCHANGED <<buggyCount, early, apart>>

BugInducing == {c \in stored : fixes[c] # <<>>}

(* mutant: the fixes are counted, not the commits that they have marked    *)
CountFixes == Cardinality(UNION {Range(fixes[c]) : c \in stored})

BugInducingCount == Cardinality(BugInducing)

(* The count is saved after the branches, if anything was analysed.        *)
SucceedCounted ==
    /\ Succeed
    /\ buggyCount' = IF start = {} THEN buggyCount ELSE BugInducingCount
    /\ UNCHANGED <<fixes, traced, early, apart>>

(* A job may fail with the commits marked and the fix not stored, or with  *)
(* the branches saved and the count not.                                   *)
FailBugs ==
    /\ Fail
    /\ fixes' \in {fixes} \cup
         IF pc = "analyze" /\ stack # <<>> /\ top \notin seen THEN {MarkBuggy(top, bugs)} ELSE {}
    /\ buggyCount' \in {buggyCount} \cup
         IF pc = "done" /\ start # {} THEN {BugInducingCount} ELSE {}
    /\ UNCHANGED <<traced, early, apart>>

BugInit ==
    /\ Init
    /\ fixes = [c \in Commits |-> <<>>] /\ buggyCount = 0
    /\ traced = {} /\ early = FALSE /\ apart = FALSE

BugNext ==
    \/ AnalyzeBugs \/ PruneBugs \/ SucceedCounted \/ FailBugs
    \/ /\ \/ UpdateRepository \/ UpdatePullRequest
          \/ \E h \in Commits : IngestHead(h) \/ IngestFails(h)
          \/ FindStartPoints \/ TagAndRearrange
          \/ \E b \in Branches : RemoveBranch(b) \/ Retag(b)
          \/ SaveBranchesEarly \/ RetagFails \/ Rearranged
          \/ LoadFiles \/ SkipSeen \/ SaveBranches
       /\ UNCHANGED bugVars

BugSpec == BugInit /\ [][BugNext]_<<vars, bugVars>>

----------------------------------------------------------------------------
(* Properties. *)

(* Every variable has its type; only stored commits are marked.            *)
BugTypeOK ==
    /\ traced \subseteq stored
    /\ \A c \in Commits : fixes[c] \in Seq(Commits)
    /\ \A c \in Commits \ stored : fixes[c] = <<>>
    /\ buggyCount \in 0 .. Cardinality(Commits)

(* The documents have their types: only stored commits carry a branch or   *)
(* are marked (ReTagBranch and MarkBuggy update what there is).            *)
DocumentsTyped == TypeOK /\ BugTypeOK

(* A fix marks a commit once, however often the two are analysed again.    *)
MarkedOnce == \A c \in DOMAIN fixes : IsInjective(fixes[c])

(* Between jobs, a stored commit that git blames for what a stored fix     *)
(* deletes carries the mark of that fix, through pushes, rewinds, merges   *)
(* and repeated analyses, though each of these replaces documents with     *)
(* their marks: unless a job failed, the fix was not traced, the walk met  *)
(* the fix first, or the commit was replaced while its fix was not in the  *)
(* engine.                                                                 *)
BlamedAreMarked ==
    pc = "idle" /\ clean /\ ~early /\ ~apart =>
        \A f \in traced : \A c \in Blamed(f) \cap stored : f \in Range(fixes[c])

(* Between jobs, the count is that of the marked commits; a job that only  *)
(* prunes leaves it too high.                                              *)
CountTells ==
    pc = "idle" /\ clean =>
        /\ Cardinality(BugInducing) <= buggyCount
        /\ start # {} => buggyCount = Cardinality(BugInducing)

(* The documents say of the bugs what the last analyses found: each mark   *)
(* once, all marks of the traced fixes, and the count of marked commits.   *)
MarksExact == MarkedOnce /\ BlamedAreMarked /\ CountTells
=============================================================================

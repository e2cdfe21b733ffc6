------------------------ MODULE MCRepositoryAnalysis ------------------------
(* Small histories for RepositoryAnalysis and BugMarks, and for Measures,  *)
(* which shares no state with them. A behaviour takes one measure after the*)
(* other, or it is about one of six repositories: one with histories of    *)
(* every kind, a pull request and no fixes; one whose branches move in     *)
(* three jobs; one with pull requests and updates of one branch in three   *)
(* jobs; one with two histories that are joined and fixes in both; one with*)
(* a single branch that three jobs analyse, failures and fixes included;   *)
(* one whose history may be read in part only, by an update or for a pull  *)
(* request.                                                                *)
EXTENDS BugMarks

CONSTANTS
    Parts,             \* "tags", "moves", "pulls", "bugs", "again", "cut" and "measures"
    main, dev,
    f1, f2, ann, bob,  \* two files and two developers
    MaxMeasuringJobs

VARIABLES
    part,  \* the repository, or "measures"
    measured_history, measured_head, measured_analyzed, measured_stored, measured_known,
    filed, measured_read, measured_links, measuring, measuring_jobs, measured_stack,
    measured_seen, measured, commits, refs, maps, met, tally, measures

(* A side branch that is merged, from the side of the main branch or from  *)
(* its own; a branch that is only moved forward; a history of its own that *)
(* is merged.                                                              *)
Merged == <<<<>>, <<1>>, <<1>>, <<2, 3>>>>
Row == <<<<>>, <<1>>, <<2>>, <<3>>>>
Grafted == <<<<>>, <<1>>, <<>>, <<2, 3>>>>

(* A merge of two histories with a commit on it or beside it.              *)
Joined == <<<<>>, <<>>, <<1, 2>>, <<3>>>>
Beside == <<<<>>, <<>>, <<1, 2>>, <<1>>>>

(* A row of three commits with a branch that is not pushed.                *)
Fixed == <<<<>>, <<1>>, <<2>>, <<2>>>>

Pull(h, b, f) == [head |-> h, base |-> b, fork |-> f]

MCHistories == {Merged, Row, Grafted, Joined, Beside, Fixed}
MCPulls == {Pull(3, 1, TRUE), Pull(4, 2, FALSE), Pull(2, 1, FALSE), Pull(4, 1, TRUE)}

(* Fixes of fixes and of the root in a row; a fix after a merge, with a bug*)
(* in each history.                                                        *)
MCInducing ==
    [h \in MCHistories |-> CASE h = Fixed -> <<{}, {1}, {1, 2}, {}>>
                             [] h = Joined -> <<{}, {}, {}, {1, 2}>>
                             [] OTHER -> <<{}, {}, {}, {}>>]

(* The heads of the branches with some names, in the first n commits.      *)
Pushes(n, names) ==
    {bs \in [Branches -> (1..n) \cup {NoCommit}] : Names(bs) # {} /\ Names(bs) \subseteq names}

(* What a repository may have: its histories, the branches that are pushed,*)
(* its pull requests, and its jobs.                                        *)
Repositories ==
    [tags |-> [histories |-> {Merged, Row, Grafted}, pushes |-> Pushes(4, {main, dev}),
               pulls |-> {Pull(3, 1, TRUE), Pull(4, 2, FALSE)}, jobs |-> 2],
     cut |-> [histories |-> {Merged, Row, Grafted}, pushes |-> Pushes(4, {main}),
              pulls |-> {Pull(4, 2, FALSE)}, jobs |-> 3],
     moves |-> [histories |-> {Merged}, pushes |-> Pushes(3, {main, dev}),
                pulls |-> {}, jobs |-> 3],
     pulls |-> [histories |-> {Merged, Row, Beside}, pushes |-> Pushes(3, {main}),
                pulls |-> {Pull(3, 1, TRUE), Pull(2, 1, FALSE)}, jobs |-> 3],
     bugs |-> [histories |-> {Joined}, pushes |-> Pushes(4, {main, dev}),
               pulls |-> {Pull(4, 1, TRUE)}, jobs |-> 2],
     again |-> [histories |-> {Fixed}, pushes |-> Pushes(3, {main}), pulls |-> {}, jobs |-> 3]]

(* Only the fetch of a job changes the branches and what the job is about. *)
WithinBounds ==
    IF pc \in {"idle", "failed"}
      THEN /\ jobs < Repositories[part].jobs
           /\ branches' \in Repositories[part].pushes
           /\ job' \in Repositories[part].pulls \cup {Update}
      ELSE UNCHANGED <<branches, job>>

(* A call of IngestHead fails half way in one of the repositories; in the  *)
(* others, where all calls for the heads of the branches go well, one order*)
(* of the calls stands for all.                                            *)
CutShort == pc = "fetched" /\ pc' = "failed" /\ known' # known
InOrder == pc = "fetched" /\ job = Update => \A h \in heads \ heads', g \in heads' : h < g

----------------------------------------------------------------------------
(* The histories that are measured. *)

added == [action |-> "added"]
modified == [action |-> "modified"]
from(x) == [action |-> "renamed", old |-> x]

ByNumber == <<1, 2, 3, 4, 5>>

(* One file that is renamed and changed again, and another one.            *)
MeasuredRow ==
    [parents |-> <<<<>>, <<1>>, <<2>>, <<3>>, <<4>>>>, date |-> ByNumber,
     developer |-> <<ann, bob, ann, bob, ann>>,
     files |-> <<f1 :> added, f1 :> modified, f2 :> from(f1), f2 :> modified @@ f1 :> added,
                 f2 :> modified @@ f1 :> modified>>]

(* A file that is changed on both sides of a merge.                        *)
Sides ==
    [parents |-> <<<<>>, <<1>>, <<1>>, <<3, 2>>, <<4>>>>, date |-> ByNumber,
     developer |-> <<ann, bob, ann, ann, ann>>,
     files |-> <<f1 :> added, f1 :> modified, f1 :> modified @@ f2 :> added, f1 :> modified,
                 f1 :> modified @@ f2 :> modified>>]

(* Three parents, one with a rename, and dates that contradict the order.  *)
Octopus ==
    [parents |-> <<<<>>, <<1>>, <<1>>, <<2, 3, 1>>, <<4>>>>, date |-> <<1, 4, 2, 5, 3>>,
     developer |-> <<ann, bob, ann, bob, ann>>,
     files |-> <<f1 :> added, f2 :> from(f1), f1 :> modified, f2 :> modified, f2 :> modified>>]

(* A merge that keeps the first side's version of a file.                  *)
Ours ==
    [parents |-> <<<<>>, <<1>>, <<1>>, <<3, 2>>, <<4>>>>, date |-> ByNumber,
     developer |-> <<ann, ann, bob, ann, bob>>,
     files |-> <<f1 :> added, f1 :> modified, f1 :> modified, <<>>, f2 :> from(f1)>>]

MeasuredHistories == {MeasuredRow, Sides, Octopus, Ours}

Measuring == INSTANCE Measures WITH Commits <- 1 .. 5, Paths <- {f1, f2},
    Histories <- MeasuredHistories, MaxJobs <- MaxMeasuringJobs,
    history <- measured_history, head <- measured_head, analyzed <- measured_analyzed,
    stored <- measured_stored, known <- measured_known, read <- measured_read,
    links <- measured_links, pc <- measuring, jobs <- measuring_jobs,
    stack <- measured_stack, seen <- measured_seen, c <- measured

MeasureVars == <<measured_history, measured_head, measured_analyzed, measured_stored,
                 measured_known, filed, measured_read, measured_links, measuring,
                 measuring_jobs, measured_stack, measured_seen, measured, commits, refs,
                 maps, met, tally, measures>>

MeasureOff ==
    /\ measured_history = "off" /\ measured_head = "off" /\ measured_analyzed = "off"
    /\ measured_stored = "off" /\ measured_known = "off" /\ filed = "off"
    /\ measured_read = "off" /\ measured_links = "off" /\ measuring = "off"
    /\ measuring_jobs = "off" /\ measured_stack = "off" /\ measured_seen = "off"
    /\ measured = "off" /\ commits = "off" /\ refs = "off" /\ maps = "off"
    /\ met = "off" /\ tally = "off" /\ measures = "off"

----------------------------------------------------------------------------
RepositoryInit ==
    /\ part \in Parts
    /\ BugInit
    /\ parents \in IF part = "measures" THEN {Row} ELSE Repositories[part].histories
    /\ IF part = "measures" THEN Measuring!Init ELSE MeasureOff

RepositoryNext ==
    \/ /\ part # "measures" /\ WithinBounds
       /\ BugNext
       /\ IF part = "cut" THEN TRUE ELSE ~CutShort /\ InOrder
       /\ UNCHANGED <<part, MeasureVars>>
    \/ part = "measures" /\ Measuring!Next /\ UNCHANGED <<part, vars, bugVars>>

RepositorySpec ==
    RepositoryInit /\ [][RepositoryNext]_<<part, vars, bugVars, MeasureVars>>

ASSUME RepositoriesAssumption ==
    RepositoryAnalysisAssumption /\ InducingAssumption /\ Measuring!MeasuresAssumption

----------------------------------------------------------------------------
(* The properties of Measures, with the comments of that module.           *)

(* Changes and developers are counted exactly on a history without merges, *)
(* the experience of a developer counts every earlier commit once, and the *)
(* last change of a file is the newest of its past.                        *)
MeasuresExact ==
    part = "measures" =>
        /\ Measuring!TypeOK
        /\ Measuring!CountsHistory
        /\ Measuring!ExperienceExact
        /\ Measuring!LastIsNewest

(* src/pkg/metrics/metrics.go:82: developers behind a merge count, too.    *)
MergedCounted == part = "measures" => Measuring!MergedCounted
=============================================================================

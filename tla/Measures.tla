------------------------------ MODULE Measures -------------------------------
(***************************************************************************)
(* The measures of a change that look into the past: how often and by whom *)
(* its files were changed before, when last, and what its developer did    *)
(* (calculateMetrics and VisitAncestors of src/ingest/pkg/analysis,        *)
(* LastFileChange of src/ingest/pkg/engine/runner.go). They read the files *)
(* that the engine knows of each ancestor, which the analysis itself sets  *)
(* on its way forward, over several jobs of a repository with one branch,  *)
(* a call of IngestHead of which may fail half way. All files are code     *)
(* whose lines are changed.                                                *)
(***************************************************************************)
EXTENDS CommitGraph, SequencesExt

CONSTANTS
    Commits,
    Paths,
    Histories,  \* [parents, developer, date, files] of each commit; the files of
                \* a commit map paths to an action and, if renamed, the old path
    NoCommit,
    MaxJobs     \* bound: the jobs followed

(* Assumed of the constants by every module that instantiates this one.    *)
MeasuresAssumption ==
    /\ NoCommit \notin Commits /\ MaxJobs \in Nat
    /\ \A h \in Histories :
         /\ h.parents \in [Commits -> Seq(Commits)]
         /\ IsInjective(h.date)
         \* libgit2 finds a rename only where the old path is gone
         /\ \A c \in Commits : \A p \in DOMAIN h.files[c] :
              h.files[c][p].action = "renamed" => h.files[c][p].old \notin DOMAIN h.files[c]

VARIABLES
    history,
    head, analyzed, \* of the branch: as fetched, as analysed
    stored,         \* the commits with a document
    known, filed,   \* the engine: its commits, those with their files set
    read, links,    \* those that were read, the parents that were linked
    pc, jobs,
    stack, seen,    \* RunForwardAnalysis
    c,              \* the commit that is measured
    commits, refs,  \* VisitAncestors: commitsStack, and filesStack as positions in maps
    maps,           \* the maps of tracked files: a path now to the path it has in c
    met,            \* its seen set
    tally,          \* [nuc, dev, exp] so far: the first two by the path in c
    measures        \* of each stored commit: [nuc, ndev, exp, last, linked, whole], or None

ingested == <<known, read, links>>
outer == <<history, head, analyzed, stored, ingested, filed, jobs, stack, seen>>
visit == <<commits, refs, maps, met, tally>>
vars == <<outer, pc, c, visit, measures>>

None == [whole |-> FALSE]

parents == history.parents
Files(p) == IF p \in filed THEN history.files[p] ELSE [x \in {} |-> x]

(* A commit that was registered and not read has the zero values.          *)
Dev(p) == IF p \in read THEN history.developer[p] ELSE ""
Date(p) == IF p \in read THEN history.date[p] ELSE 0

NoTally == [nuc |-> [x \in Paths |-> 0], dev |-> [x \in Paths |-> {}], exp |-> 0]

Init ==
    /\ history \in Histories
    /\ head = NoCommit /\ analyzed = NoCommit
    /\ stored = {} /\ filed = {}
    /\ known = {} /\ read = {} /\ links = [x \in Commits |-> <<>>]
    /\ pc = "idle" /\ jobs = 0 /\ stack = <<>> /\ seen = {}
    /\ c = NoCommit
    /\ commits = <<>> /\ refs = <<>> /\ maps = <<>> /\ met = {} /\ tally = NoTally
    /\ measures = [x \in Commits |-> None]

----------------------------------------------------------------------------
(* What RepositoryEngineFiles hands out: one document, whichever is first. *)
Loaded == IF stored = {} THEN {{}} ELSE {{x} : x \in stored}

(* The update begins on the engine of the job before, or on an empty one.  *)
Engine(fresh) ==
    IF fresh THEN [known |-> {}, read |-> {}, links |-> [x \in Commits |-> <<>>], filed |-> {}]
    ELSE [known |-> known, read |-> read, links |-> links, filed |-> filed]

(* Without start points analyze does nothing, and only a branch that is new*)
(* is recorded (Rearrange.Finish).                                         *)
RunForward(start, isNew, h, engineFiles) ==
    /\ head' = h /\ filed' = engineFiles
    /\ IF start = {}
         THEN /\ analyzed' = IF isNew THEN h ELSE analyzed
              /\ UNCHANGED <<pc, stack, seen>>
         ELSE /\ pc' = "analyze" /\ seen' = {}
              /\ \E order \in SetToSeqs(start) : stack' = order
              /\ UNCHANGED analyzed

(* An update of the one branch, in a new process or as a follower.         *)
IngestLocalBranches ==
    /\ pc = "idle" /\ jobs < MaxJobs
    /\ jobs' = jobs + 1
    /\ \E h \in Commits, fresh \in BOOLEAN, loaded \in Loaded :
         LET e     == Engine(fresh)
             new   == UnseenAncestors(parents, e.known, {h})
             now   == e.known \cup new
             had   == AncestorsList(links', {analyzed} \cap now)
             start == IF analyzed = NoCommit THEN Roots(parents, read')
                      ELSE UnseenRoots(links', now, had, {h})
             more  == had \cup (loaded \cap now)
         IN  /\ known' = now /\ read' = e.read \cup new
             /\ links' = LinksAfter(parents, e.links, new, NoCommit, 0)
             /\ IF start = {} THEN RunForward({}, analyzed = NoCommit, h, e.filed)
                ELSE RunForward(IF more = had THEN start ELSE UnseenRoots(links', now, more, {h}),
                                FALSE, h, e.filed \cup (loaded \cap now))
    /\ UNCHANGED <<history, stored, c, visit, measures>>

(* IngestHead fails half way, and the job with it; a follower finds the    *)
(* engine so.                                                              *)
IngestFails ==
    /\ pc = "idle" /\ jobs < MaxJobs
    /\ jobs' = jobs + 1
    /\ \E h \in Commits, fresh \in BOOLEAN :
         LET e == Engine(fresh)
         IN  /\ head' = h /\ filed' = e.filed
             /\ \E cut \in UnseenAncestors(parents, e.known, {h}) :
                \E new \in ReadInPart(parents, e.known, h, cut), n \in 0 .. Len(parents[cut]) :
                   /\ read' = e.read \cup new
                   /\ links' = LinksAfter(parents, e.links, new, cut, n)
                   /\ known' = e.known \cup {h} \cup UNION {Range(links'[x]) : x \in new}
    /\ UNCHANGED <<history, analyzed, stored, pc, stack, seen, c, visit, measures>>

top == stack[Len(stack)]
popped == SubSeq(stack, 1, Len(stack) - 1)

SkipSeen ==
    /\ pc = "analyze" /\ stack # <<>> /\ top \in seen
    /\ stack' = popped
    /\ UNCHANGED <<history, head, analyzed, stored, ingested, filed, pc, jobs, seen, c, visit,
                   measures>>

(* storeCommit, and back to the walk.                                      *)
Store(x, m) ==
    /\ stored' = stored \cup {x}
    /\ measures' = [measures EXCEPT ![x] = m]
    /\ seen' = seen \cup {x}
    /\ \E order \in SetToSeqs(Children(links, known)[x]) : stack' = popped \o order
    /\ pc' = "analyze"
    /\ UNCHANGED <<history, head, analyzed, ingested, jobs>>

(* A merge, or a commit of no files, is stored without measures.           *)
StoreUnmeasured ==
    /\ pc = "analyze" /\ stack # <<>> /\ top \notin seen
    /\ IsMerge(links, top) \/ history.files[top] = <<>>
    /\ filed' = filed \cup {top}
    /\ Store(top, None)
    /\ UNCHANGED <<c, visit>>

(* So is a commit whose diff failed; its files are not set.                *)
StoreUnread ==
    /\ pc = "analyze" /\ stack # <<>> /\ top \notin seen
    /\ Store(top, None)
    /\ UNCHANGED <<filed, c, visit>>

FirstParent(x) == IF links[x] = <<>> THEN <<>> ELSE <<links[x][1]>>

(* The files are set, the changed ones are tracked under their new paths,  *)
(* and the visit begins with the first parent.                             *)
Measure ==
    /\ pc = "analyze" /\ stack # <<>> /\ top \notin seen
    /\ ~IsMerge(links, top) /\ history.files[top] # <<>>
    /\ filed' = filed \cup {top}
    /\ c' = top
    /\ commits' = FirstParent(top) /\ refs' = [i \in DOMAIN FirstParent(top) |-> 1]
    /\ maps' = <<[x \in DOMAIN history.files[top] |-> x]>>
    /\ met' = {} /\ tally' = NoTally
    /\ pc' = "visit"
    /\ UNCHANGED <<history, head, analyzed, stored, ingested, jobs, stack, seen, measures>>

Hits(p, map) == DOMAIN Files(p) \cap DOMAIN map

(* mutant: a renamed file stays tracked under its new path                 *)
FollowNoRename(p, map) ==
    LET gone == {x \in Hits(p, map) : Files(p)[x].action = "added"}
    IN  [x \in DOMAIN map \ gone |-> map[x]]

(* The map is adjusted: an added file has no past, a renamed one goes on   *)
(* under its old path.                                                     *)
Follow(p, map) ==
    LET renamed == {x \in Hits(p, map) : Files(p)[x].action = "renamed"}
        gone    == renamed \cup {x \in Hits(p, map) : Files(p)[x].action = "added"}
        back    == [y \in {Files(p)[x].old : x \in renamed} |->
                       map[CHOOSE x \in renamed : Files(p)[x].old = y]]
    IN  back @@ [x \in DOMAIN map \ gone |-> map[x]]

(* The counts of an ancestor: its changes of tracked files, and whether    *)
(* the developer is the same.                                              *)
Count(p, map) ==
    LET files == {map[x] : x \in Hits(p, map)}
    IN  [nuc |-> [f \in Paths |-> tally.nuc[f] + Cardinality({x \in Hits(p, map) : map[x] = f})],
         dev |-> [f \in Paths |-> IF f \in files THEN tally.dev[f] \cup {Dev(p)} ELSE tally.dev[f]],
         exp |-> IF Dev(p) = Dev(c) THEN tally.exp + 1 ELSE tally.exp]

(* mutant: a parent is pushed by each of its children                      *)
PushAll(acc, p, isFirst) ==
    LET clones == IF isFirst THEN acc.maps ELSE Append(acc.maps, acc.maps[acc.ref])
        ref    == IF isFirst THEN acc.ref ELSE Len(clones)
    IN  [commits |-> Append(acc.commits, p), refs |-> Append(acc.refs, ref), maps |-> clones,
         ref |-> ref, met |-> acc.met \cup {p}]

(* One turn of the loop over the parents, from the last to the first: the  *)
(* map is cloned for all but the first, and the variable keeps the clone.  *)
Push(acc, p, isFirst) ==
    IF p \in acc.met THEN acc
    ELSE LET clones == IF isFirst THEN acc.maps ELSE Append(acc.maps, acc.maps[acc.ref])
             ref    == IF isFirst THEN acc.ref ELSE Len(clones)
         IN  [commits |-> Append(acc.commits, p), refs |-> Append(acc.refs, ref), maps |-> clones,
              ref |-> ref, met |-> acc.met \cup {p}]

Visit ==
    /\ pc = "visit" /\ commits # <<>>
    /\ LET n    == Len(commits)
           p    == commits[n]
           ref  == refs[n]
           from == [commits |-> SubSeq(commits, 1, n - 1), refs |-> SubSeq(refs, 1, n - 1),
                    maps |-> [maps EXCEPT ![ref] = Follow(p, @)], ref |-> ref, met |-> met]
           to   == FoldRight(LAMBDA i, acc : Push(acc, links[p][i], i = 1),
                             [i \in DOMAIN links[p] |-> i], from)
       IN  /\ tally' = Count(p, maps[ref])
           /\ commits' = to.commits /\ refs' = to.refs /\ maps' = to.maps /\ met' = to.met
    /\ UNCHANGED <<outer, pc, c, measures>>

(* mutant: the change met last wins, whatever its date                     *)
AnyChange(changes) == CHOOSE p \in changes : TRUE

Newest(changes) == CHOOSE p \in changes : \A q \in changes : Date(q) <= Date(p)

(* The newest of the changes that are met first on the ways back; the      *)
(* commit itself if there is none.                                         *)
LastFileChange(x, path) ==
    LET have    == {p \in Commits : path \in DOMAIN Files(p)}
        changes == Reach(Parents(links), Range(links[x]), {}, have) \cap have
    IN  IF changes = {} THEN x ELSE Newest(changes)

OldOrNewPath(x, path) ==
    LET f == history.files[x][path] IN IF f.action = "renamed" THEN f.old ELSE path

Behind(x) == AncestorsList(parents, Range(parents[x]))

(* The engine has all that is behind a commit.                             *)
Linked(x) == \A p \in Behind(x) \cup {x} : p \in read /\ links[p] = parents[p]

Measured ==
    /\ pc = "visit" /\ commits = <<>>
    /\ Store(c, [nuc |-> tally.nuc, ndev |-> [f \in Paths |-> Cardinality(tally.dev[f])],
                 exp |-> tally.exp,
                 last |-> [f \in DOMAIN history.files[c] |->
                             IF history.files[c][f].action = "added" THEN NoCommit
                             ELSE LastFileChange(c, OldOrNewPath(c, f))],
                 linked |-> Linked(c),
                 whole |-> Linked(c) /\ Behind(c) \subseteq filed])
    /\ c' = NoCommit /\ maps' = <<>> /\ refs' = <<>> /\ met' = {} /\ tally' = NoTally
    /\ UNCHANGED <<filed, commits>>

Succeed ==
    /\ pc = "analyze" /\ stack = <<>>
    /\ analyzed' = head
    /\ pc' = "idle"
    /\ UNCHANGED <<history, head, stored, ingested, filed, jobs, stack, seen, c, visit, measures>>

(* Any step may fail; what was stored stays.                               *)
Fail ==
    /\ pc # "idle"
    /\ pc' = "idle" /\ c' = NoCommit
    /\ commits' = <<>> /\ refs' = <<>> /\ maps' = <<>> /\ met' = {} /\ tally' = NoTally
    /\ UNCHANGED <<outer, measures>>

Next ==
    \/ IngestLocalBranches \/ IngestFails \/ SkipSeen \/ StoreUnmeasured \/ StoreUnread
    \/ Measure \/ Visit \/ Measured \/ Succeed \/ Fail

Spec == Init /\ [][Next]_vars

----------------------------------------------------------------------------
(* Properties. *)

(* Every variable has its type; the two stacks of a visit go together.     *)
TypeOK ==
    /\ stored \subseteq Commits /\ known \subseteq Commits /\ filed \cup read \subseteq known
    /\ links \in [Commits -> Seq(known)]
    /\ {head, analyzed, c} \subseteq Commits \cup {NoCommit}
    /\ commits \in Seq(known) /\ Len(refs) = Len(commits) /\ Range(refs) \subseteq DOMAIN maps
    /\ \A i \in DOMAIN maps : DOMAIN maps[i] \subseteq Paths
    /\ tally.exp \in 0 .. Cardinality(Commits)

(* The changes of a file, by the path it has after a commit, back to where *)
(* it was added.                                                           *)
Past ==
    LET P[p \in Commits, path \in Paths] ==
            LET before(x) == UNION {P[q, x] : q \in Range(parents[p])}
                f == history.files[p][path]
            IN  IF path \notin DOMAIN history.files[p] THEN before(path)
                ELSE {p} \cup CASE f.action = "added" -> {}
                                [] f.action = "renamed" -> before(f.old)
                                [] OTHER -> before(path)
    IN  P

PastOf(x, f) == UNION {Past[p, OldOrNewPath(x, f)] : p \in Range(parents[x])}

HasMeasures == {x \in stored : measures[x] # None}
Linear(x) == \A p \in Behind(x) : ~IsMerge(parents, p)
WithAction(x, action) == {f \in DOMAIN history.files[x] : history.files[x][f].action = action}
RenamesBehind(x) == \E p \in Behind(x) : WithAction(p, "renamed") # {}
CountsPast(x, f) ==
    /\ measures[x].nuc[f] = Cardinality(PastOf(x, f))
    /\ measures[x].ndev[f] = Cardinality({history.developer[p] : p \in PastOf(x, f)})

(* If the engine had all ancestors and their files, the changes and        *)
(* developers of a modified file are counted exactly on a history without  *)
(* merges, also through renames, and never too high on one without renames.*)
CountsHistory ==
    \A x \in HasMeasures : measures[x].whole =>
        \A f \in WithAction(x, "modified") :
            /\ Linear(x) => CountsPast(x, f)
            /\ ~RenamesBehind(x) => measures[x].nuc[f] <= Cardinality(PastOf(x, f))

(* The experience of a developer counts every earlier commit once, through *)
(* all merges, and whether or not the files are known; unless a follower   *)
(* measured on what a failed call of IngestHead had left in the engine.    *)
ExperienceExact ==
    \A x \in HasMeasures : measures[x].linked =>
        measures[x].exp =
            Cardinality({p \in Behind(x) : history.developer[p] = history.developer[x]})

DatesFollow == \A p \in Commits : \A q \in Behind(p) : history.date[q] < history.date[p]

(* The last change of a file is the newest of its past, if the engine had  *)
(* all ancestors and their files, and the dates follow the history.        *)
LastIsNewest ==
    DatesFollow => \A x \in {y \in HasMeasures : measures[y].whole} :
        \A f \in WithAction(x, "modified") \cup WithAction(x, "renamed") :
            LET last == measures[x].last[f]
            IN  PastOf(x, f) # {} =>
                  /\ last \in PastOf(x, f)
                  /\ \A p \in PastOf(x, f) : history.date[p] <= history.date[last]

(* src/pkg/metrics/metrics.go:82 says that NDEV is the number of           *)
(* developers that changed the file in the past: through a merge, too.     *)
MergedCounted ==
    \A x \in HasMeasures : measures[x].whole /\ ~RenamesBehind(x) =>
        \A f \in WithAction(x, "modified") : CountsPast(x, f)
=============================================================================

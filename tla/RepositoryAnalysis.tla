------------------------- MODULE RepositoryAnalysis -------------------------
(***************************************************************************)
(* What the jobs of one repository leave in the database: which commits    *)
(* are stored and with which branches, while branches are pushed, rewound, *)
(* merged and deleted between the jobs, and a job may fail at any step, in *)
(* the middle of reading the history too (ingestLocalBranches,             *)
(* ingestPullRequest and analyze in src/ingest/pkg/manage/job.go,          *)
(* IngestHead in src/ingest/pkg/engine/repository.go, package brancher,    *)
(* analysis.storeCommit).                                                  *)
(***************************************************************************)
EXTENDS CommitGraph, SequencesExt

CONSTANTS
    Commits,    \* the commits of the remote repository
    Branches,   \* the names of its branches
    Histories,  \* the parents a history gives each commit, in order
    Pulls,      \* what the pull request may be: its head, its base, is it from a fork
    NoCommit,   \* a branch that does not exist
    MaxJobs     \* how many jobs are followed

(* No commit is its own ancestor: git names a commit by what it contains,  *)
(* its parents included.                                                   *)
Acyclic(h) ==
    \E rank \in [Commits -> 0 .. Cardinality(Commits)] :
        \A c \in Commits : \A p \in Range(h[c]) : rank[p] < rank[c]

(* Assumed of the constants by every module that instantiates this one.    *)
RepositoryAnalysisAssumption ==
    /\ IsFiniteSet(Commits)
    /\ Histories \subseteq [Commits -> Seq(Commits)]
    /\ \A h \in Histories : Acyclic(h)
    /\ Pulls \subseteq [head : Commits, base : Commits, fork : BOOLEAN]
    /\ NoCommit \notin Commits
    /\ MaxJobs \in Nat

VARIABLES
    parents,    \* the history
    branches,   \* engine.Branches: the heads of the branches, as last fetched
    analyzed,   \* entity.Repository.Branches: the heads recorded as analysed
    stored,     \* the commits in the commits collection
    tags,       \* Commit.Branches of a stored commit
    pulled,     \* the stored commits that carry the pull request
    analyzedHead,\* PullRequest.AnalyzedHead
    known,      \* Repository.commits: the commits that are registered
    read,       \* those whose object was read; the ones without parents are the roots
    links,      \* commit.parents in memory: git's, or the first of them, or none yet
    mem,        \* commit.branches of a commit in memory
    job,        \* the pull request the job analyses, or Update
    pc,         \* the step of the job
    heads,      \* the heads that IngestHead has still to be called for
    todo,       \* the branches the loops of Rearrange.Finish have still to visit
    affected,   \* Rearrange.affected
    start,      \* process.startPoints
    stack, seen,\* of RunForwardAnalysis
    jobs,       \* the jobs started
    \* history
    clean,      \* no job has failed, and no error of ReTagBranch was swallowed
    fit,        \* the job found tags that fit the branches
    whole       \* the job found documents with all ancestors, of recorded branches

marks == <<pulled, analyzedHead>>
repo == <<analyzed, stored, tags, marks>>
engine == <<known, read, links, mem>>
history == <<clean, fit, whole>>
vars == <<parents, branches, repo, engine, job, pc, heads, todo, affected, start, stack, seen,
          jobs, history>>

HeadsOf(bs) == Range(bs) \ {NoCommit}
Names(bs) == {b \in DOMAIN bs : bs[b] # NoCommit}

(* The ancestors in git, and those that the engine has.                    *)
Anc(commits) == AncestorsList(parents, commits)
EngineAnc(commits) == AncestorsList(links, commits)

(* The commits that the engine has with all their parents.                 *)
Linked == {c \in read : links[c] = parents[c]}

(* Commits carry only branches they are on.                                *)
Fit(bs, carried) ==
    \A c \in DOMAIN carried : \A b \in carried[c] : bs[b] # NoCommit /\ c \in Anc({bs[b]})

Update == [head |-> NoCommit, base |-> NoCommit, fork |-> FALSE]
JobHeads == IF job = Update THEN HeadsOf(branches) ELSE {job.head}
SeenAtStart ==
    EngineAnc((HeadsOf(analyzed) \cup (IF job = Update THEN {} ELSE {analyzedHead})) \cap known)

DeletedBranches == Names(analyzed) \ Names(branches)
AddedBranches == Names(branches) \ Names(analyzed)

----------------------------------------------------------------------------
(* The start of a job: fetch, ingest, look for the first unseen commits.   *)

(* The remote always has a default branch; the rest may have been pushed,  *)
(* rewound, merged or deleted. A follower of the same process works on the *)
(* engine of the job before, whatever that job left in it.                 *)
Fetch ==
    /\ pc \in {"idle", "failed"}
    /\ jobs < MaxJobs
    /\ jobs' = jobs + 1
    /\ pc' = "fetched"
    /\ branches' \in [Branches -> Commits \cup {NoCommit}]
    /\ Names(branches') # {}
    /\ \/ UNCHANGED engine
       \/ /\ known' = {} /\ read' = {}
          /\ links' = [c \in Commits |-> <<>>]
          /\ mem' = [c \in Commits |-> {}]
    /\ fit' = (Fit(analyzed, tags) /\ Fit(branches', mem'))
    /\ whole' = (Anc(stored) \subseteq stored /\ (Names(analyzed) = {} => stored = {}))
    /\ UNCHANGED clean
    /\ affected' = {} /\ todo' = {} /\ start' = {} /\ stack' = <<>> /\ seen' = {}
    /\ UNCHANGED <<parents, repo>>

UpdateRepository ==
    /\ Fetch
    /\ job' = Update
    /\ heads' = HeadsOf(branches')

UpdatePullRequest ==
    /\ Fetch
    /\ job' \in Pulls
    /\ heads' = {job'.head, job'.base}

(* The head of a pull request is ingested before its base.                 *)
IsNextHead(h) ==
    /\ pc = "fetched"
    /\ h \in heads
    /\ job # Update /\ job.head \in heads => h = job.head

(* A call that goes well reads all that is not registered, up to what is:  *)
(* nothing for a registered head, whether or not its parents were read.    *)
IngestHead(h) ==
    /\ IsNextHead(h)
    /\ LET new == UnseenAncestors(parents, known, {h})
       IN  /\ known' = known \cup new
           /\ read' = read \cup new
           /\ links' = LinksAfter(parents, links, new, NoCommit, 0)
    /\ heads' = heads \ {h}
    /\ pc' = IF heads' = {} THEN "ingested" ELSE "fetched"
    /\ UNCHANGED <<parents, branches, repo, mem, job, todo, affected, start, stack, seen,
                   jobs, history>>

(* A call fails, or is cancelled, with commits registered whose parents    *)
(* are missing, in part or all.                                            *)
IngestFails(h) ==
    /\ IsNextHead(h)
    /\ \E cut \in UnseenAncestors(parents, known, {h}) :
       \E new \in ReadInPart(parents, known, h, cut), n \in 0 .. Len(parents[cut]) :
          /\ read' = read \cup new
          /\ links' = LinksAfter(parents, links, new, cut, n)
          /\ known' = known \cup {h} \cup UNION {Range(links'[c]) : c \in new}
    /\ heads' = {}
    /\ pc' = "failed"
    /\ clean' = FALSE
    /\ UNCHANGED <<parents, branches, repo, mem, job, todo, affected, start, stack, seen, jobs,
                   fit, whole>>

StartPoints ==
    IF job = Update /\ Names(analyzed) = {}
      THEN Roots(parents, read)
      ELSE UnseenRoots(links, known, SeenAtStart, JobHeads)

FindStartPoints ==
    /\ pc = "ingested"
    /\ start' = StartPoints
    /\ pc' = IF job = Update THEN "tag" ELSE "load"
    /\ UNCHANGED <<parents, branches, repo, engine, job, heads, todo, affected, stack, seen,
                   jobs, history>>

----------------------------------------------------------------------------
(* TagBranchesOnCommits, and the rearrangement of the branches.            *)

(* NewRearrange: a branch that is new or was not just fast-forwarded.      *)
RewoundOrAdded ==
    {b \in Names(branches) :
        ~(analyzed[b] # NoCommit /\ IsAncestor(links, known, analyzed[b], branches[b]))}

newCommits == SuccessorList(links, known, start)

(* Rearrange.AnalyzeCommit, for the merges among the new commits.          *)
MergedInto(tagged) ==
    UNION {LET ancestor == FindCommonAncestor(links[c])
           IN  IF Cardinality(tagged[c]) = Cardinality(tagged[ancestor])
                       \/ ancestor \in newCommits
                 THEN {} ELSE tagged[c] \ tagged[ancestor]
             : c \in {x \in newCommits : IsMerge(links, x)}}

(* mutant: the branches are tagged on the new commits only from the heads  *)
TaggedHeadsOnly ==
    [c \in Commits |-> mem[c] \cup {b \in Names(branches) : c = branches[b]}]

Tagged ==
    [c \in Commits |->
        mem[c] \cup {b \in Names(branches) :
                        c \in AncestorsListUntil(links, start, {branches[b]})}]

TagAndRearrange ==
    /\ pc = "tag"
    /\ mem' = Tagged
    /\ affected' = RewoundOrAdded \cup MergedInto(Tagged)
    /\ todo' = DeletedBranches
    /\ pc' = "remove"
    /\ UNCHANGED <<parents, branches, repo, known, read, links, job, heads, start, stack, seen,
                   jobs, history>>

(* Rearrange.Finish, first its loop over the deleted branches.             *)
RemoveBranch(b) ==
    /\ pc = "remove"
    /\ b \in todo
    /\ todo' = todo \ {b}
    /\ tags' = [c \in Commits |-> tags[c] \ {b}]
    /\ UNCHANGED <<parents, branches, analyzed, stored, marks, engine, job, pc, heads, affected,
                   start, stack, seen, jobs, history>>

Prune ==
    /\ pc = "remove"
    /\ todo = {}
    /\ stored' = IF DeletedBranches = {} THEN stored
                 ELSE {c \in stored : tags[c] # {} \/ c \in pulled}
    /\ tags' = [c \in Commits |-> IF c \in stored' THEN tags[c] ELSE {}]
    /\ affected' = affected \cup AddedBranches
    /\ todo' = affected'
    /\ pc' = "save"
    /\ UNCHANGED <<parents, branches, analyzed, marks, engine, job, heads, start, stack, seen,
                   jobs, history>>

(* Without new commits, a new or a deleted branch is saved at once.        *)
SaveBranchesEarly ==
    /\ pc = "save"
    /\ analyzed' = IF newCommits = {} /\ DeletedBranches \cup AddedBranches # {}
                   THEN branches ELSE analyzed
    /\ pc' = "retag"
    /\ UNCHANGED <<parents, branches, stored, tags, marks, engine, job, heads, todo, affected,
                   start, stack, seen, jobs, history>>

(* mutant: the branch is added to its commits, never taken off the others  *)
ReTagBranchAdds(b) ==
    [c \in Commits |-> IF c \in stored \cap EngineAnc({branches[b]}) THEN tags[c] \cup {b} ELSE tags[c]]

(* mutant: the update inserts a document where there is none               *)
ReTagBranchUpserts(b) ==
    [c \in Commits |-> IF c \in EngineAnc({branches[b]}) THEN tags[c] \cup {b} ELSE tags[c] \ {b}]

ReTagBranch(b) ==
    [c \in Commits |-> IF c \in stored \cap EngineAnc({branches[b]}) THEN tags[c] \cup {b}
                       ELSE tags[c] \ {b}]

(* A name of an earlier fetch has no commit: BranchCommits fails the job.  *)
Retag(b) ==
    /\ pc = "retag"
    /\ b \in todo \cap Names(branches)
    /\ tags' = ReTagBranch(b)
    /\ todo' = todo \ {b}
    /\ UNCHANGED <<parents, branches, analyzed, stored, marks, engine, job, pc, heads, affected,
                   start, stack, seen, jobs, history>>

(* Finish returns nil when ReTagBranch fails, before or after it took the  *)
(* branch off all commits.                                                 *)
RetagFails ==
    /\ pc = "retag"
    /\ \E b \in todo \cap Names(branches) :
          tags' \in {tags, [c \in Commits |-> tags[c] \ {b}]}
    /\ todo' = {}
    /\ clean' = FALSE
    /\ UNCHANGED <<parents, branches, analyzed, stored, marks, engine, job, pc, heads,
                   affected, start, stack, seen, jobs, fit, whole>>

Rearranged ==
    /\ pc = "retag"
    /\ todo = {}
    /\ pc' = "load"
    /\ UNCHANGED <<parents, branches, repo, engine, job, heads, todo, affected, start, stack, seen,
                   jobs, history>>

----------------------------------------------------------------------------
(* The rest of the ingestion, and the analysis.                            *)

(* The commits whose files RepositoryEngineFiles hands out: its ForEach    *)
(* returns after the first document, whichever the cursor starts with.     *)
Loaded == IF stored = {} THEN {{}} ELSE {{c} : c \in stored}

RunFrom(commits) ==
    /\ start' = commits
    /\ \E order \in SetToSeqs(commits) : stack' = order
    /\ seen' = {}
    /\ pc' = IF commits = {} THEN "done" ELSE "analyze"

LoadFiles ==
    /\ pc = "load"
    /\ IF start = {} THEN RunFrom({})
       ELSE \E loaded \in Loaded :
            LET more == SeenAtStart \cup (loaded \cap known)
            IN  IF more = SeenAtStart THEN RunFrom(start)
                ELSE RunFrom(UnseenRoots(links, known, more, JobHeads))
    /\ UNCHANGED <<parents, branches, repo, engine, job, heads, todo, affected, jobs, history>>

popped == SubSeq(stack, 1, Len(stack) - 1)
top == stack[Len(stack)]

(* One iteration of RunForwardAnalysis: the commit is analysed, and its    *)
(* document inserted or replaced, with the branches known in memory.       *)
AnalyzeCommit ==
    /\ pc = "analyze"
    /\ stack # <<>>
    /\ top \notin seen
    /\ stored' = stored \cup {top}
    /\ tags' = [tags EXCEPT ![top] = mem[top]]
    /\ pulled' = pulled \ {top}
    /\ seen' = seen \cup {top}
    /\ \E order \in SetToSeqs(Children(links, known)[top]) : stack' = popped \o order
    /\ UNCHANGED <<parents, branches, analyzed, analyzedHead, engine, job, pc, heads, todo,
                   affected, start, jobs, history>>

SkipSeen ==
    /\ pc = "analyze"
    /\ stack # <<>>
    /\ top \in seen
    /\ stack' = popped
    /\ UNCHANGED <<parents, branches, repo, engine, job, pc, heads, todo, affected, start, seen,
                   jobs, history>>

(* analyze saves all branches as analysed, in a job of a pull request too. *)
SaveBranches ==
    /\ pc = "analyze"
    /\ stack = <<>>
    /\ analyzed' = branches
    /\ pc' = "done"
    /\ UNCHANGED <<parents, branches, stored, tags, marks, engine, job, heads, todo, affected,
                   start, stack, seen, jobs, history>>

(* MarkPullRequestCommits: the commits of the head that the base does not *)
(* have, and no others. Of a fork, the head is remembered as analysed.     *)
Succeed ==
    /\ pc = "done"
    /\ IF job = Update
         THEN UNCHANGED <<pulled, analyzedHead>>
         ELSE /\ pulled' = stored \cap UnseenAncestors(links, EngineAnc({job.base}), {job.head})
              /\ analyzedHead' = IF job.fork /\ start # {} THEN job.head ELSE analyzedHead
    /\ pc' = "idle"
    /\ UNCHANGED <<parents, branches, analyzed, stored, tags, engine, job, heads, todo, affected,
                   start, stack, seen, jobs, history>>

(* Any step may fail, and the job ends; what it wrote stays.               *)
Fail ==
    /\ pc \notin {"idle", "failed"}
    /\ pc' = "failed"
    /\ clean' = FALSE
    /\ UNCHANGED <<parents, branches, repo, engine, job, heads, todo, affected, start, stack, seen,
                   jobs, fit, whole>>

----------------------------------------------------------------------------
Init ==
    /\ parents \in Histories
    /\ branches = [b \in Branches |-> NoCommit]
    /\ analyzed = branches
    /\ stored = {} /\ pulled = {}
    /\ tags = [c \in Commits |-> {}]
    /\ known = {} /\ read = {} /\ links = [c \in Commits |-> <<>>] /\ mem = tags
    /\ job = Update
    /\ analyzedHead = NoCommit
    /\ pc = "idle"
    /\ heads = {} /\ todo = {} /\ affected = {} /\ start = {} /\ stack = <<>> /\ seen = {}
    /\ jobs = 0
    /\ clean = TRUE /\ fit = TRUE /\ whole = TRUE

Next ==
    \/ UpdateRepository \/ UpdatePullRequest
    \/ \E h \in Commits : IngestHead(h) \/ IngestFails(h)
    \/ FindStartPoints \/ TagAndRearrange
    \/ \E b \in Branches : RemoveBranch(b) \/ Retag(b)
    \/ Prune \/ SaveBranchesEarly \/ RetagFails \/ Rearranged
    \/ LoadFiles \/ AnalyzeCommit \/ SkipSeen \/ SaveBranches \/ Succeed
    \/ Fail

Spec == Init /\ [][Next]_vars

----------------------------------------------------------------------------
(* Properties. *)

(* Every variable has its type; only stored commits carry anything.        *)
TypeOK ==
    /\ {branches, analyzed} \subseteq [Branches -> Commits \cup {NoCommit}]
    /\ pulled \subseteq stored /\ stored \subseteq Commits
    /\ {tags, mem} \subseteq [Commits -> SUBSET Branches]
    /\ \A c \in Commits \ stored : tags[c] = {}
    /\ links \in [Commits -> Seq(Commits)]
    /\ read \subseteq known /\ known \cup heads \subseteq Commits /\ start \cup seen \cup Range(stack) \subseteq known
    /\ todo \cup affected \subseteq Branches
    /\ job \in Pulls \cup {Update} /\ analyzedHead \in Commits \cup {NoCommit}

Updated == pc = "idle" /\ job = Update /\ jobs > 0

Unseen == UnseenAncestors(parents, SeenAtStart, JobHeads)
Covered(bs) == Anc(HeadsOf(bs)) \subseteq stored

(* After an update of the branches that went through, no stored commit     *)
(* carries a branch it is not on: not one that was deleted, rewound or     *)
(* replaced (brancher.Rearrange). The job has to find the tags of the      *)
(* documents as the recorded branches say, which a job that moved a branch *)
(* without new commits and a job of a pull request do not leave so, and in *)
(* memory no tag of an earlier job for a branch that has moved since.      *)
NoStaleTag == Updated /\ clean /\ fit => Fit(branches, tags)

(* After such an update, every stored commit of a branch that was affected *)
(* carries the branch.                                                     *)
AffectedTagged ==
    Updated /\ clean =>
        \A b \in affected \cap Names(branches) :
            \A c \in stored \cap Anc({branches[b]}) : b \in tags[c]

(* ReTagBranch and the pruning leave the tags as the branches are.         *)
TagsExact == NoStaleTag /\ AffectedTagged

(* What the engine cannot know of, it does not look for: a commit that an  *)
(* earlier job registered, failed to read, and left to its followers.      *)
UnseenIsLinked == Unseen \subseteq Linked

(* What is recorded as analysed has been: an update adds no head that has  *)
(* an ancestor without a document. This is so if the documents had all     *)
(* their ancestors when the job began (the job looks at one of them), the  *)
(* heads recorded so far were covered, no branch was deleted (Prune may    *)
(* delete what another branch has got since), the engine has the parents   *)
(* of what was not seen, which a follower of a job whose IngestHead failed *)
(* may lack, and no new commit is without parent.                          *)
CoverageStep ==
    /\ analyzed' # analyzed
    /\ job = Update
    /\ whole
    /\ Covered(analyzed)
    /\ DeletedBranches = {}
    /\ UnseenIsLinked
    /\ Names(analyzed) = {} \/ Roots(parents, Unseen) = {}
    => Covered(analyzed')

(* So it is at every step of every job.                                    *)
CoverageKept == [][CoverageStep]_vars

(* The start points stand for every commit of the heads that was not seen, *)
(* if the engine has the parents of these, and none of them has no parent  *)
(* at all unless the job is the first to analyse anything.                 *)
StartCoversUnseen ==
    /\ pc \in {"tag", "load"}
    /\ UnseenIsLinked
    /\ Roots(parents, Unseen) = {} \/ (job = Update /\ Names(analyzed) = {})
    => Unseen \subseteq newCommits

(* brancher.go:50 says that an ancestor includes all of the branches of    *)
(* its successors: so it should be in the database after an update.        *)
AncestorsIncludeBranches ==
    Updated /\ clean =>
        \A c \in stored : \A a \in Anc({c}) \cap stored : tags[c] \subseteq tags[a]
=============================================================================

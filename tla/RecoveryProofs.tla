--------------------------- MODULE RecoveryProofs ---------------------------
(***************************************************************************)
(* Proofs about Recovery: over any number of pushes, events of the pull    *)
(* request, crashes, stops and new versions, a status that is not settled  *)
(* has a job in memory, a repository that is Ready has its commits         *)
(* analysed, and an update that is Ready has caught up with the            *)
(* predictions that were missed before it, within the exception that       *)
(* PredictedWhenReady names.                                               *)
(*                                                                         *)
(* None of the three is inductive: they rest on what the jobs in memory    *)
(* are (MemInv), what they have logged where (LogInv), that checks are     *)
(* ahead of the pull request's other jobs (CheckInv) and which commits are *)
(* stored while a walk is under way (CoverInv). The invariant is IInv.     *)
(* Lemmas StepOf... classify the steps by what they change; each conjunct  *)
(* of IInv has a lemma Next... of its own.                                 *)
(*                                                                         *)
(* About the lists of the API: a page is the range its cursors describe,   *)
(* and a walk misses nothing that stays. That rests on the query being the *)
(* beginning of the documents in the order of its scan, and on a walk      *)
(* having shown all that stayed on its side of the cursor (PagesInv).      *)
(***************************************************************************)
EXTENDS Recovery, Lists, SequenceTheorems, WellFoundedInduction,
    FiniteSetTheorems, TLAPS

-----------------------------------------------------------------------------
(* Numbers and sequences.                                                  *)

(* The empty log has no stage.                                             *)
LEMMA RangeEmpty == Range(<<>>) = {}
BY DEF Range

(* A log of one stage.                                                     *)
LEMMA RangeSingleton == \A x : Range(<<x>>) = {x} /\ IsInjective(<<x>>) /\ Head(<<x>>) = x
BY DEF Range, IsInjective

(* Appending a stage adds it to the stages of a log.                       *)
LEMMA RangeAppend ==
    ASSUME NEW S, NEW s \in Seq(S), NEW x \in S
    PROVE  /\ Append(s, x) \in Seq(S)
           /\ Append(s, x) # <<>>
           /\ Range(Append(s, x)) = Range(s) \cup {x}
<1>1. <<x>> \in Seq(S) /\ Range(<<x>>) = {x}
  BY DEF Range
<1>2. Append(s, x) = s \o <<x>>
  BY AppendIsConcat
<1>3. Range(s \o <<x>>) = Range(s) \cup Range(<<x>>)
  BY <1>1, RangeConcatenation
<1>4. QED
  BY <1>1, <1>2, <1>3, AppendProperties

(* The first element of a list, written out (a log of one stage, or of     *)
(* two).                                                                   *)
LEMMA AppendOne == ASSUME NEW S, NEW a \in S PROVE Append(<<>>, a) = <<a>>
OBVIOUS

(* The same for the second element.                                        *)
LEMMA AppendTwo ==
    ASSUME NEW S, NEW a \in S, NEW b \in S
    PROVE  Append(<<a>>, b) = <<a, b>>
<1> DEFINE s == Append(<<a>>, b)
           t == <<a, b>>
<1>1. <<a>> \in Seq(S) /\ Len(<<a>>) = 1 /\ <<a>>[1] = a
  OBVIOUS
<1>2. s \in Seq(S) /\ Len(s) = 2 /\ s[1] = a /\ s[2] = b
  BY <1>1, AppendProperties
<1>3. t \in Seq(S) /\ Len(t) = 2 /\ t[1] = a /\ t[2] = b
  OBVIOUS
<1> HIDE DEF s, t
<1>4. \A i \in 1 .. 2 : s[i] = t[i]
  BY <1>2, <1>3
<1>5. s = t
  BY <1>2, <1>3, <1>4, SeqEqual
<1>6. QED
  BY <1>5 DEF s, t

(* A set of natural numbers that is not empty has a least element: the     *)
(* form of induction that the proofs use.                                  *)
LEMMA NatLeast ==
    ASSUME NEW T \in SUBSET Nat, T # {}
    PROVE  \E x \in T : \A y \in T : x <= y
<1>1. PICK x \in T : \A y \in T : <<y, x>> \notin OpToRel(<, Nat)
  BY NatLessThanWellFounded, WFMin, Zenon
<1>2. \A y \in T : ~(y < x)
  BY <1>1 DEF OpToRel
<1>3. QED
  BY <1>2

----------------------------------------------------------------------------
(* The invariant.                                                          *)

(* What a job may have been made for.                                      *)
JobKinds == {"added"} \cup UpdateKinds \cup PullKinds

(* The kind and the log of a job.                                          *)
KindOf(j) == jobs[j].kind
LogOf(j) == jobs[j].log

(* The types, what the type invariant leaves open of the counters, and     *)
(* that only a job in memory runs, in a server that is up.                 *)
Ranges ==
    /\ TypeOK
    /\ pushed \in Nat /\ base \in Nat /\ fetched \in Nat /\ heads \in Nat
    /\ taken \in Nat /\ taken <= fetched
    /\ pc # "idle" => up = "up" /\ mem # <<>>

(* Nothing but the migration works on an old version, and the repository   *)
(* has the new one when the migration submits it again.                    *)
VersionInv ==
    /\ version = "old" => up # "up"
    /\ up \in {"deletePulls", "deleteCommits", "deleteModels", "reset"} => version = "old"
    /\ up = "add" => version # "old"

(* The jobs in memory are in the order they were made and the later ones   *)
(* have not begun; a server that is not up has Recover's jobs at most.     *)
MemInv ==
    /\ \A i, j \in DOMAIN mem : i < j => mem[i] < mem[j]
    /\ mem # <<>> => \A j \in DOMAIN jobs : j > cur => LogOf(j) = <<>>
    /\ \A j \in DOMAIN jobs : KindOf(j) = "check" => ChecksEnabled
    /\ up # "up" => \A i \in DOMAIN mem : KindOf(mem[i]) = "recover"
    /\ up = "down" => mem = <<>>

(* What the running job has logged when it is at each stage.               *)
LogInv ==
    /\ mem # <<>> /\ pc \in {"idle", "startCheck"} => LogOf(cur) = <<>>
    /\ pc \in {"Progressing", "prepare", "ingest", "analyze", "finalize", "predict"} =>
          LogOf(cur) = <<"Progressing">>
    /\ pc \in {"Predicting", "ask"} => LogOf(cur) = <<"Progressing", "Predicting">>
    /\ pc \in {"Failed", "Canceled"} => LogOf(cur) # <<>> /\ Last(LogOf(cur)) = pc
    /\ pc = "startCheck" => kind = "check"
    /\ pc = "finalize" => kind \in PullKinds

(* A repository whose status is not settled has a job in memory, unless a  *)
(* stop or a crash left it; and a check that ends settles it.              *)
RepoInv ==
    /\ up \notin {"down", "add"} /\ Unfinished(status.repo) /\ "repo" \notin orphans =>
          mem # <<>> /\ kind # "pull"
    /\ pc \in {"report", "done"} /\ kind \notin PullKinds => ~Unfinished(status.repo)
    /\ pc = "done" /\ kind = "check" => Last(LogOf(cur)) # "Ready" \/ status.repo = "Ready"

(* The same for the pull request, which is stored as long as a job of it   *)
(* is in memory.                                                           *)
PullInv ==
    /\ up # "up" => "pull" \in orphans
    /\ base # 0 => pull.stored \/ "pull" \in orphans
    /\ pull.analyzedHead => pull.stored
    /\ Owned(PullKinds) => pull.stored
    /\ pc \in {"report", "done"} /\ kind \in PullKinds => ~Unfinished(status.pull)
    /\ pull.stored /\ Unfinished(status.pull) => Owned(PullKinds) \/ "pull" \in orphans

(* Checks are ahead of the other jobs of the pull request, and before the  *)
(* first of them nothing of its head is stored.                            *)
CheckInv ==
    /\ \A i, j \in DOMAIN mem : KindOf(mem[i]) = "check" /\ KindOf(mem[j]) \in PullKinds => i <= j
    /\ base = 0 => ~Owned(PullKinds) /\ commitJob[PullHead] = 0 /\ ~pull.analyzedHead
    /\ Owned({"check"})
       /\ (kind # "check" \/ pc \in {"idle", "startCheck", "Progressing", "prepare", "ingest"}) =>
          commitJob[PullHead] = 0 /\ ~pull.analyzedHead

(* The first n commits of the branch are stored, or a job passed over them. *)
Covered(n) == \A c \in 1..n : commitJob[c] # 0 \/ c \in skipped

(* Which commits are stored when the heads say so, when a walk is under    *)
(* way, and once it is over.                                               *)
CoverInv ==
    /\ version # "old" => Covered(heads)
    /\ pc = "analyze" /\ kind \notin PullKinds =>
          /\ start \subseteq 1..fetched
          /\ \A c \in 1..fetched : c <= heads \/ commitJob[c] # 0 \/ c \in start \/ c \in skipped
    /\ pc \in {"finalize", "predict", "Predicting", "ask", "Ready", "report"} /\ kind # "pull" =>
          Covered(fetched)
    /\ pc \in {"prepare", "ingest"} /\ kind \notin PullKinds => status.repo # "Ready"
    /\ version # "old" /\ status.repo = "Ready" => Covered(taken)

(* The job predicted, and the ml service answered.                         *)
Answered(j) == Seen(j, "Predicting") /\ Seen(j, "Ready")

(* The stages at which a job continues after another.                      *)
Answering == {"ingest", "analyze", "finalize", "predict", "Predicting", "ask"}

(* PredictedWhenReady, and the job a running update continues after.       *)
PredictInv ==
    /\ PredictedWhenReady
    /\ pc \in Answering /\ kind \in UpdateKinds =>
          /\ includeAfter \in 0..cur - 1
          /\ includeAfter # 0 => Answered(includeAfter)

(* The inductive invariant.                                                *)
IInv ==
    /\ Ranges /\ VersionInv /\ MemInv /\ LogInv
    /\ RepoInv /\ PullInv /\ CheckInv
    /\ CoverInv /\ PredictInv

----------------------------------------------------------------------------
(* What the operations on the jobs do.                                     *)

(* Max0 of a set of job numbers is its greatest element.                   *)
LEMMA MaxOfSet ==
    ASSUME NEW n \in Nat, NEW S \in SUBSET (1..n)
    PROVE  /\ S = {} => Max0(S) = 0
           /\ S # {} => Max0(S) \in S /\ \A y \in S : y <= Max0(S)
<1>1. S = {} => Max0(S) = 0
  BY DEF Max0
<1>2. ASSUME S # {} PROVE \E x \in S : \A y \in S : y <= x
  <2> DEFINE T == {u \in Nat : \A y \in S : y <= u}
  <2>1. n \in T
    OBVIOUS
  <2>2. PICK u \in T : \A v \in T : u <= v
    <3>1. T \in SUBSET Nat /\ T # {}
      BY <2>1
    <3> HIDE DEF T
    <3>2. QED
      BY <3>1, NatLeast
  <2>3. u \in S
    <3>1. SUFFICES ASSUME u \notin S PROVE FALSE
      OBVIOUS
    <3>2. \A y \in S : y \in Nat /\ y >= 1 /\ y <= u /\ y # u
      BY <2>2, <3>1
    <3>3. u \in Nat /\ u >= 1
      <4>1. PICK y \in S : TRUE
        BY <1>2
      <4>2. u \in Nat
        BY <2>2
      <4>3. QED
        BY <3>2, <4>1, <4>2
    <3>4. u - 1 \in T
      BY <3>2, <3>3
    <3>5. u <= u - 1
      BY <2>2, <3>4
    <3>6. QED
      BY <3>3, <3>5
  <2>4. QED
    BY <2>2, <2>3
<1>3. ASSUME S # {} PROVE Max0(S) \in S /\ \A y \in S : y <= Max0(S)
  <2>1. Max0(S) = CHOOSE x \in S : \A y \in S : y <= x
    BY <1>3 DEF Max0
  <2>2. \E x \in S : \A y \in S : y <= x
    BY <1>2, <1>3
  <2>3. QED
    BY <2>1, <2>2
<1>4. QED
  BY <1>1, <1>3

(* The records of the jobs collection.                                     *)
JobRecs == [kind : JobKinds, log : Seq(Stages)]

(* What the types say of the collection, of the jobs in memory and of the  *)
(* job that runs or is next.                                               *)
LEMMA JobsType ==
    ASSUME TypeOK
    PROVE  /\ jobs \in Seq(JobRecs) /\ Len(jobs) \in Nat /\ DOMAIN jobs = 1..Len(jobs)
           /\ mem \in Seq(1..Len(jobs)) /\ Len(mem) \in Nat /\ DOMAIN mem = 1..Len(mem)
           /\ \A j \in DOMAIN jobs : LogOf(j) \in Seq(Stages) /\ KindOf(j) \in JobKinds
           /\ \A i \in DOMAIN mem : mem[i] \in DOMAIN jobs
           /\ mem # <<>> => cur = mem[1] /\ 1 \in DOMAIN mem /\ cur \in 1..Len(jobs)
<1>1. jobs \in Seq(JobRecs) /\ mem \in Seq(DOMAIN jobs)
  BY DEF TypeOK, JobRecs, JobKinds
<1>2. DOMAIN jobs = 1..Len(jobs) /\ DOMAIN mem = 1..Len(mem) /\ Len(jobs) \in Nat /\ Len(mem) \in Nat
  BY <1>1
<1>3. \A j \in DOMAIN jobs : jobs[j] \in JobRecs
  BY <1>1
<1>4. mem # <<>> => cur = mem[1] /\ 1 \in DOMAIN mem /\ cur \in 1..Len(jobs)
  BY <1>1, <1>2 DEF cur
<1>5. QED
  BY <1>1, <1>2, <1>3, <1>4 DEF JobRecs, LogOf, KindOf

(* WriteLog appends a stage to the log of the running job and changes no   *)
(* other job (JobSource.SaveStatus).                                       *)
LEMMA LogEffect ==
    ASSUME TypeOK, mem # <<>>, NEW s \in Stages, WriteLog(s)
    PROVE  /\ pc' = s /\ jobs' \in Seq(JobRecs) /\ Len(jobs') = Len(jobs)
           /\ \A j \in DOMAIN jobs : jobs'[j].kind = jobs[j].kind
           /\ \A j \in DOMAIN jobs : j # cur => jobs'[j].log = jobs[j].log
           /\ jobs'[cur].log = Append(jobs[cur].log, s)
<1>1. /\ jobs \in Seq(JobRecs) /\ Len(jobs) \in Nat /\ DOMAIN jobs = 1..Len(jobs)
      /\ cur \in 1..Len(jobs)
  BY JobsType
<1>2. /\ pc' = s
      /\ jobs' = [jobs EXCEPT ![cur] = [jobs[cur] EXCEPT !.log = Append(jobs[cur].log, s)]]
  BY DEF WriteLog
<1>3. jobs[cur] \in JobRecs
  BY <1>1
<1> DEFINE new == [jobs[cur] EXCEPT !.log = Append(jobs[cur].log, s)]
<1>4. new \in JobRecs /\ new.kind = jobs[cur].kind /\ new.log = Append(jobs[cur].log, s)
  <2>1. jobs[cur].log \in Seq(Stages) /\ jobs[cur].kind \in JobKinds
    BY <1>3 DEF JobRecs
  <2>2. Append(jobs[cur].log, s) \in Seq(Stages)
    BY <2>1
  <2>3. QED
    BY <1>3, <2>1, <2>2 DEF JobRecs
<1> HIDE DEF new
<1>5. jobs' = [jobs EXCEPT ![cur] = new]
  BY <1>2 DEF new
<1>6. /\ jobs' \in Seq(JobRecs) /\ Len(jobs') = Len(jobs)
      /\ jobs'[cur] = new /\ \A j \in DOMAIN jobs : j # cur => jobs'[j] = jobs[j]
  BY <1>1, <1>4, <1>5
<1>7. QED
  BY <1>2, <1>4, <1>6

(* ProcessRepository adds a job without a log, last in the collection and  *)
(* last in memory.                                                         *)
LEMMA ProcessEffect ==
    ASSUME TypeOK, NEW k \in JobKinds, ProcessRepository(k)
    PROVE  /\ jobs' \in Seq(JobRecs) /\ Len(jobs') = Len(jobs) + 1
           /\ \A j \in DOMAIN jobs : jobs'[j] = jobs[j]
           /\ jobs'[Len(jobs) + 1].kind = k /\ jobs'[Len(jobs) + 1].log = <<>>
           /\ mem' \in Seq(1..Len(jobs')) /\ Len(mem') = Len(mem) + 1
           /\ \A i \in DOMAIN mem : mem'[i] = mem[i]
           /\ mem'[Len(mem) + 1] = Len(jobs) + 1
           /\ mem' # <<>> /\ cur' = IF mem = <<>> THEN Len(jobs) + 1 ELSE cur
<1>1. /\ jobs \in Seq(JobRecs) /\ Len(jobs) \in Nat /\ DOMAIN jobs = 1..Len(jobs)
      /\ mem \in Seq(1..Len(jobs)) /\ Len(mem) \in Nat /\ DOMAIN mem = 1..Len(mem)
      /\ mem # <<>> => cur = mem[1] /\ 1 \in DOMAIN mem
  BY JobsType
<1> DEFINE new == [kind |-> k, log |-> <<>>]
<1>2. new \in JobRecs /\ new.kind = k /\ new.log = <<>>
  BY DEF JobRecs
<1>3. jobs' = Append(jobs, new) /\ mem' = Append(mem, Len(jobs) + 1)
  BY DEF ProcessRepository
<1> HIDE DEF new
<1>4. /\ jobs' \in Seq(JobRecs) /\ Len(jobs') = Len(jobs) + 1
      /\ \A j \in DOMAIN jobs : jobs'[j] = jobs[j]
      /\ jobs'[Len(jobs) + 1] = new
  BY <1>1, <1>2, <1>3
<1>5. mem \in Seq(1..Len(jobs'))
  BY <1>1, <1>4
<1>6. /\ mem' \in Seq(1..Len(jobs')) /\ Len(mem') = Len(mem) + 1
      /\ \A i \in DOMAIN mem : mem'[i] = mem[i]
      /\ mem'[Len(mem) + 1] = Len(jobs) + 1
  BY <1>1, <1>3, <1>4, <1>5
<1>7. mem' # <<>> /\ cur' = mem'[1]
  BY <1>1, <1>6 DEF cur
<1>8. mem = <<>> => Len(mem) + 1 = 1
  BY <1>1
<1>9. QED
  BY <1>1, <1>2, <1>4, <1>6, <1>7, <1>8

(* What is left in memory when the first job is removed (runNext).         *)
LEMMA TailEffect ==
    ASSUME TypeOK, mem # <<>>
    PROVE  /\ Tail(mem) \in Seq(1..Len(jobs)) /\ Len(Tail(mem)) = Len(mem) - 1
           /\ \A i \in DOMAIN Tail(mem) : i + 1 \in DOMAIN mem /\ Tail(mem)[i] = mem[i + 1]
           /\ Tail(mem) # <<>> => Head(Tail(mem)) = mem[2] /\ 2 \in DOMAIN mem
<1>1. mem \in Seq(1..Len(jobs)) /\ Len(mem) \in Nat /\ DOMAIN mem = 1..Len(mem)
  BY JobsType
<1>2. QED
  BY <1>1

----------------------------------------------------------------------------
(* The jobs a step makes, logs and forgets.                                *)

(* A job of kind k is made: by whom, and when.                             *)
Submits(k) ==
    /\ ProcessRepository(k)
    /\ k = "check" => ChecksEnabled /\ base = 0
    /\ k \in PullKinds => up = "up" /\ base' # 0 /\ pull'.stored
    /\ up' # "down"
    /\ up' # "up" => k = "recover" /\ up = "down"

(* How a step changes the jobs: not at all, or a job is made, a stage is   *)
(* logged, the running job ends, is stopped with its followers, or all are *)
(* forgotten.                                                              *)
LEMMA StepOfJobs ==
    ASSUME Ranges, Next
    PROVE  \/ UNCHANGED <<jobs, mem>>
           \/ \E k \in JobKinds : Submits(k)
           \/ mem # <<>> /\ UNCHANGED mem /\ \E s \in Stages : WriteLog(s)
           \/ runNext /\ mem # <<>> /\ mem' = Tail(mem) /\ UNCHANGED jobs /\ pc' = "idle"
           \/ StopRunning /\ mem # <<>> /\ mem' = <<cur>> /\ (UNCHANGED jobs \/ WriteLog("Canceled"))
           \/ (StopQueued \/ Crash) /\ mem' = <<>> /\ UNCHANGED jobs /\ pc' = "idle"
<1>1. pc # "idle" => mem # <<>> /\ up = "up"
  BY DEF Ranges
<1>2. /\ pushed \in Nat /\ pull \in [stored : BOOLEAN, analyzedHead : BOOLEAN]
      /\ [pull EXCEPT !.stored = TRUE].stored
  BY DEF Ranges, TypeOK
<1>3. CASE Push
  BY <1>3 DEF Push, Submits, JobKinds, UpdateKinds, PullKinds
<1>4. CASE PullRequestEvent
  <2>1. CASE up = "up" /\ ~(pull.analyzedHead \/ (ChecksEnabled /\ base # 0))
    <3>1. base' # 0
      BY <1>2, <1>4 DEF PullRequestEvent
    <3>2. pull'.stored
      BY <1>2, <1>4, <2>1 DEF PullRequestEvent
    <3>3. up' = "up"
      BY <1>4, <2>1 DEF PullRequestEvent
    <3>4. CASE ChecksEnabled
      <4>1. ProcessRepository("check") /\ base = 0
        BY <1>4, <2>1, <3>4 DEF PullRequestEvent
      <4>2. Submits("check")
        BY <2>1, <3>1, <3>2, <3>3, <3>4, <4>1 DEF Submits
      <4>3. QED
        BY <4>2 DEF JobKinds, PullKinds
    <3>5. CASE ~ChecksEnabled
      <4>1. ProcessRepository("pull")
        BY <1>4, <2>1, <3>5 DEF PullRequestEvent
      <4>2. Submits("pull")
        BY <2>1, <3>1, <3>2, <3>3, <4>1 DEF Submits
      <4>3. QED
        BY <4>2 DEF JobKinds, PullKinds
    <3>6. QED
      BY <3>4, <3>5
  <2>2. QED
    BY <1>4, <2>1 DEF PullRequestEvent
<1>5. CASE Ingest
  <2>1. CASE kind = "added" /\ base # 0
    <3>1. ProcessRepository("pull") /\ pull' = [pull EXCEPT !.stored = TRUE]
          /\ UNCHANGED <<base, up>> /\ up = "up"
      BY <1>1, <1>5, <2>1 DEF Ingest, remote
    <3>2. pull'.stored
      BY <1>2, <3>1
    <3>3. Submits("pull")
      BY <2>1, <3>1, <3>2 DEF Submits
    <3>4. QED
      BY <3>3 DEF JobKinds, PullKinds
  <2>2. QED
    BY <1>5, <2>1 DEF Ingest
<1>6. CASE Boot
  BY <1>6 DEF Boot, Recover, MigrateDelete, MigrateReset, AddRepository, Submits, JobKinds,
     UpdateKinds, PullKinds
<1>7. CASE Run \/ Predict \/ PredictByJob \/ Fail
  BY <1>1, <1>7 DEF Run, Predict, PredictByJob, Fail, Running, Stages, Saving
<1>8. CASE saveStatus \/ Prepare \/ StoreCommit \/ SaveBranches \/ FinalizePullRequestAnalysis \/ Report
  BY <1>8 DEF saveStatus, Prepare, StoreCommit, SaveBranches, FinalizePullRequestAnalysis, Report
<1>9. CASE runNext \/ StopRunning \/ StopQueued \/ Crash
  BY <1>1, <1>9 DEF runNext, StopRunning, StopQueued, Crash
<1>10. QED
  BY <1>3, <1>4, <1>5, <1>6, <1>7, <1>8, <1>9 DEF Next, Work

(* What a step does to the jobs that exist: their kinds stay, and only the *)
(* running one logs.                                                       *)
Kept ==
    /\ jobs' \in Seq(JobRecs) /\ Len(jobs') \in Nat /\ Len(jobs) <= Len(jobs')
    /\ mem' \in Seq(1..Len(jobs'))
    /\ \A j \in 1..Len(jobs) : jobs'[j].kind = jobs[j].kind
    /\ \A j \in 1..Len(jobs) :
          \/ jobs'[j].log = jobs[j].log
          \/ mem # <<>> /\ j = cur /\ \E s \in Stages : jobs'[j].log = Append(jobs[j].log, s)

(* Every step keeps the jobs that exist.                                   *)
LEMMA StepKeeps ==
    ASSUME Ranges, Next
    PROVE  Kept
<1>1. TypeOK
  BY DEF Ranges
<1>2. /\ jobs \in Seq(JobRecs) /\ Len(jobs) \in Nat /\ DOMAIN jobs = 1..Len(jobs)
      /\ mem \in Seq(1..Len(jobs)) /\ Len(mem) \in Nat /\ DOMAIN mem = 1..Len(mem)
      /\ mem # <<>> => cur = mem[1] /\ 1 \in DOMAIN mem /\ cur \in 1..Len(jobs)
  BY <1>1, JobsType
<1>3. CASE UNCHANGED <<jobs, mem>>
  BY <1>2, <1>3 DEF Kept
<1>4. ASSUME NEW k \in JobKinds, Submits(k) PROVE Kept
  <2>1. /\ jobs' \in Seq(JobRecs) /\ Len(jobs') = Len(jobs) + 1
        /\ mem' \in Seq(1..Len(jobs'))
        /\ \A j \in DOMAIN jobs : jobs'[j] = jobs[j]
    BY <1>1, <1>4, ProcessEffect DEF Submits
  <2>2. Len(jobs') \in Nat /\ Len(jobs) <= Len(jobs')
    BY <1>2, <2>1
  <2>3. \A j \in 1..Len(jobs) : jobs'[j].kind = jobs[j].kind /\ jobs'[j].log = jobs[j].log
    BY <1>2, <2>1
  <2>4. QED
    BY <2>1, <2>2, <2>3 DEF Kept
<1>5. ASSUME mem # <<>>, NEW s \in Stages, WriteLog(s) 
      PROVE /\ jobs' \in Seq(JobRecs) /\ Len(jobs') = Len(jobs)
            /\ \A j \in 1..Len(jobs) : jobs'[j].kind = jobs[j].kind
            /\ \A j \in 1..Len(jobs) :
                  \/ jobs'[j].log = jobs[j].log
                  \/ mem # <<>> /\ j = cur /\ jobs'[j].log = Append(jobs[j].log, s)
  BY <1>1, <1>2, <1>5, LogEffect
<1>6. ASSUME mem # <<>>, UNCHANGED mem, NEW s \in Stages, WriteLog(s) PROVE Kept
  BY <1>2, <1>5, <1>6 DEF Kept
<1>7. ASSUME mem # <<>>, mem' = Tail(mem), UNCHANGED jobs PROVE Kept
  BY <1>1, <1>2, <1>7, TailEffect DEF Kept
<1>8. ASSUME mem # <<>>, mem' = <<cur>>, UNCHANGED jobs \/ WriteLog("Canceled") PROVE Kept
  <2>1. "Canceled" \in Stages
    BY DEF Stages, Saving
  <2>2. CASE UNCHANGED jobs
    BY <1>2, <1>8, <2>2 DEF Kept
  <2>3. CASE WriteLog("Canceled")
    <3>1. /\ jobs' \in Seq(JobRecs) /\ Len(jobs') = Len(jobs)
          /\ \A j \in 1..Len(jobs) : jobs'[j].kind = jobs[j].kind
          /\ \A j \in 1..Len(jobs) :
                  \/ jobs'[j].log = jobs[j].log
                  \/ mem # <<>> /\ j = cur /\ jobs'[j].log = Append(jobs[j].log, "Canceled")
      BY <1>5, <1>8, <2>1, <2>3
    <3>2. mem' \in Seq(1..Len(jobs'))
      BY <1>2, <1>8, <3>1
    <3>3. Len(jobs') \in Nat /\ Len(jobs) <= Len(jobs')
      BY <1>2, <3>1
    <3>4. \A j \in 1..Len(jobs) :
             \/ jobs'[j].log = jobs[j].log
             \/ mem # <<>> /\ j = cur /\ \E s \in Stages : jobs'[j].log = Append(jobs[j].log, s)
      BY <2>1, <3>1
    <3>5. QED
      BY <3>1, <3>2, <3>3, <3>4 DEF Kept
  <2>4. QED
    BY <1>8, <2>2, <2>3
<1>9. CASE mem' = <<>> /\ UNCHANGED jobs
  BY <1>2, <1>9 DEF Kept
<1>10. QED
  BY <1>3, <1>4, <1>6, <1>7, <1>8, <1>9, StepOfJobs

(* Jobs are never deleted, and a new one is one that was submitted.        *)
LEMMA JobsGrow ==
    ASSUME Ranges, Next
    PROVE  Len(jobs') = Len(jobs) \/ \E k \in JobKinds : Submits(k)
<1>1. TypeOK /\ "Canceled" \in Stages
  BY DEF Ranges, Stages, Saving
<1>2. ASSUME mem # <<>>, NEW s \in Stages, WriteLog(s) PROVE Len(jobs') = Len(jobs)
  BY <1>1, <1>2, LogEffect
<1>3. QED
  BY <1>1, <1>2, StepOfJobs

(* The commits an engine has, and of those it has the parents of some.     *)
Engines == {e \in [known : SUBSET Commits, linked : SUBSET Commits] : e.linked \subseteq e.known}

(* A call of IngestHead makes an engine of an engine, also one that fails. *)
LEMMA IngestHeadTyped ==
    ASSUME RecoveryAssumption, Ranges, NEW e \in Engines, NEW h \in {fetched, base, PullHead}
    PROVE  IngestHead(e, h) \in Engines /\ IngestFails(e, h) \subseteq Engines
<1>1. Reads(e, h) \subseteq Commits
  <2>1. /\ fetched \in Nat /\ base \in Nat /\ pushed \in Nat /\ MaxPushes \in Nat
        /\ fetched <= pushed /\ base <= pushed /\ pushed <= MaxPushes
    BY DEF Ranges, TypeOK, RecoveryAssumption
  <2>2. 1..base \subseteq Commits /\ 1..fetched \subseteq Commits /\ PullHead \in Commits
    BY <2>1 DEF Commits, PullHead
  <2>3. Down(h) \subseteq Commits
    BY <2>2 DEF Down
  <2>4. QED
    BY <2>3 DEF Reads
<1>2. IngestHead(e, h) \in Engines
  BY <1>1 DEF IngestHead, Engines
<1>3. ASSUME NEW cut \in Reads(e, h), NEW above \in SUBSET Reads(e, h)
      PROVE  [known |-> e.known \cup above \cup {cut}, linked |-> e.linked \cup above] \in Engines
  BY <1>1 DEF Engines
<1>4. QED
  BY <1>2, <1>3 DEF IngestFails

(* The job that ingests calls IngestHead for heads of the repository.      *)
LEMMA EngineTyped ==
    ASSUME RecoveryAssumption, Ranges, Next
    PROVE  linked' \subseteq known' /\ known' \subseteq Commits
<1>1. Engine \in Engines
  BY DEF Ranges, TypeOK, Engine, Engines
<1>2. FirstHead \in {fetched, base, PullHead} /\ LastHead \in {fetched, base, PullHead}
  BY DEF FirstHead, LastHead
<1>3. IngestHead(Engine, FirstHead) \in Engines /\ IngestFails(Engine, FirstHead) \subseteq Engines
  BY <1>1, <1>2, IngestHeadTyped
<1>4. Ingested \in Engines /\ HalfIngested \subseteq Engines
  <2> DEFINE first == IngestHead(Engine, FirstHead)
  <2>1. first \in Engines
    BY <1>3
  <2> HIDE DEF first
  <2>2. IngestHead(first, LastHead) \in Engines /\ IngestFails(first, LastHead) \subseteq Engines
    BY <1>2, <2>1, IngestHeadTyped
  <2>3. QED
    BY <1>1, <1>3, <2>2 DEF Ingested, HalfIngested, first
<1>5. \/ UNCHANGED engine
      \/ known' = {} /\ linked' = {}
      \/ \E e \in HalfIngested : EngineIs(e)
  <2>1. CASE Ingest
    BY <2>1 DEF Ingest, HalfIngested
  <2>2. CASE Fail
    BY <2>2 DEF Fail
  <2>3. CASE runNext \/ StopRunning \/ StopQueued \/ Crash
    BY <2>3 DEF runNext, StopRunning, StopQueued, Crash
  <2>4. QED
    BY <2>1, <2>2, <2>3 DEF Next, Work, Boot, Push, PullRequestEvent, Run, saveStatus, Prepare,
       StoreCommit, SaveBranches, FinalizePullRequestAnalysis, Predict, PredictByJob, Report, Recover,
       MigrateReset, MigrateDelete, AddRepository, process
<1>6. ASSUME NEW e \in Engines, EngineIs(e) PROVE linked' \subseteq known' /\ known' \subseteq Commits
  BY <1>6 DEF EngineIs, Engines
<1>7. QED
  BY <1>4, <1>5, <1>6 DEF engine, Ranges, TypeOK

(* A step keeps the types.                                                 *)
LEMMA NextTypeOK ==
    ASSUME RecoveryAssumption, Ranges, MemInv, LogInv, Next
    PROVE  TypeOK'
<1> DEFINE n == Len(jobs)
           m == Len(jobs')
<1>1. /\ TypeOK /\ Kept
  BY StepKeeps DEF Ranges
<1>2. /\ n \in Nat /\ DOMAIN jobs = 1..n
      /\ mem # <<>> => cur \in 1..n
  BY <1>1, JobsType
<1>3. m \in Nat /\ n <= m /\ DOMAIN jobs' = 1..m
  BY <1>1, <1>2 DEF Kept
<1>4. jobs' \in Seq([kind : {"added"} \cup UpdateKinds \cup PullKinds, log : Seq(Stages)])
      /\ mem' \in Seq(DOMAIN jobs')
  BY <1>1, <1>3 DEF Kept, JobRecs, JobKinds
<1> HIDE DEF n, m
<1>5. pc # "idle" => mem # <<>>
  BY DEF Ranges
<1>6. commitJob' \in [Commits -> 0..m]
  <2>1. commitJob \in [Commits -> 0..m]
    BY <1>1, <1>2, <1>3 DEF TypeOK, n
  <2>2. CASE UNCHANGED commitJob
    BY <2>1, <2>2
  <2>3. CASE StoreCommit
    <3>1. mem # <<>> /\ cur \in 0..m
      BY <1>2, <1>3, <1>5, <2>3 DEF StoreCommit
    <3>2. PICK c : commitJob' = [commitJob EXCEPT ![c] = cur]
      BY <2>3 DEF StoreCommit
    <3>3. QED
      BY <2>1, <3>1, <3>2
  <2>4. CASE MigrateDelete
    BY <1>3, <2>1, <2>4 DEF MigrateDelete
  <2>5. QED
    BY <2>2, <2>3, <2>4 DEF Next, Work, Boot, Push, PullRequestEvent, Run, saveStatus, Prepare, Ingest,
       SaveBranches, FinalizePullRequestAnalysis, Predict, PredictByJob, Report, runNext,
     Fail,
       StopRunning, StopQueued, Crash, Recover, MigrateReset, AddRepository, data
<1>7. includeAfter' \in NoJob..m
  <2>1. includeAfter \in NoJob..m /\ NoJob \in NoJob..m
    BY <1>1, <1>2, <1>3 DEF TypeOK, n, NoJob
  <2>2. CASE UNCHANGED includeAfter \/ includeAfter' = NoJob
    BY <2>1, <2>2
  <2>3. CASE Prepare
    <3>1. UNCHANGED jobs
      BY <2>3 DEF Prepare
    <3>2. FindLastWithStatus \in 0..n /\ AllJobs \in 0..n
      <4> DEFINE S == {j \in DOMAIN jobs : Seen(j, "Predicting") /\ Seen(j, "Ready")}
                 mx == Max0(S)
      <4>1. S \in SUBSET (1..n) /\ n \in Nat
        BY <1>2
      <4>2. FindLastWithStatus = mx
        BY DEF FindLastWithStatus
      <4>3. mx = 0 \/ mx \in S
        <5> HIDE DEF S
        <5>1. QED
          BY <4>1, MaxOfSet
      <4> HIDE DEF S, mx
      <4>4. mx \in 0..n
        <5>1. CASE mx = 0
          BY <4>1, <5>1
        <5>2. CASE mx \in S
          <6>1. mx \in 1..n
            BY <4>1, <5>2
          <6>2. QED
            BY <4>1, <6>1
        <5>3. QED
          BY <4>3, <5>1, <5>2
      <4>5. QED
        BY <4>1, <4>2, <4>4 DEF AllJobs
    <3>3. RecoverFromLastPredicting \in 0..n \cup {includeAfter}
      BY <3>2 DEF RecoverFromLastPredicting
    <3>4. includeAfter' \in 0..n \cup {includeAfter}
      BY <2>3, <3>3 DEF Prepare
    <3>5. QED
      BY <1>2, <1>3, <2>1, <3>4 DEF NoJob
  <2>4. QED
    BY <2>2, <2>3 DEF Next, Work, Boot, Push, PullRequestEvent, Run, saveStatus, StoreCommit, Ingest,
       SaveBranches, FinalizePullRequestAnalysis, Predict, PredictByJob, Report, runNext,
     Fail,
       StopRunning, StopQueued, Crash, Recover, MigrateReset, MigrateDelete, AddRepository, process
<1>8. /\ pushed \in Nat /\ base \in Nat /\ fetched \in Nat /\ heads \in Nat /\ MaxPushes \in Nat
      /\ base <= pushed /\ fetched <= pushed /\ pushed <= MaxPushes /\ heads <= fetched
  BY DEF Ranges, TypeOK, RecoveryAssumption
<1>9. /\ base' <= pushed' /\ fetched' <= pushed' /\ pushed' <= MaxPushes /\ heads' <= fetched'
  <2>1. CASE UNCHANGED <<remote, fetched, heads>>
    BY <1>8, <2>1 DEF remote
  <2>2. CASE Push
    BY <1>8, <2>2 DEF Push, data
  <2>3. CASE PullRequestEvent
    BY <1>8, <2>3 DEF PullRequestEvent
  <2>4. CASE Prepare
    BY <1>8, <2>4 DEF Prepare, data, remote
  <2>5. CASE SaveBranches \/ MigrateReset \/ Ingest
    BY <1>8, <2>5 DEF SaveBranches, MigrateReset, Ingest, remote
  <2>6. QED
    BY <2>1, <2>2, <2>3, <2>4, <2>5 DEF Next, Work, Boot, Run, saveStatus, StoreCommit,
       FinalizePullRequestAnalysis, Predict, PredictByJob, Report, runNext,
     Fail,
       StopRunning, StopQueued, Crash, Recover, MigrateDelete, AddRepository, data
<1>10. status' \in [{"repo", "pull"} -> Stages]
  <2>1. status \in [{"repo", "pull"} -> Stages]
    BY <1>1 DEF TypeOK
  <2>2. CASE UNCHANGED status
    BY <2>1, <2>2
  <2>3. CASE saveStatus
    BY <2>1, <2>3 DEF saveStatus, Stages, Target
  <2>4. CASE Run \/ Report \/ MigrateDelete \/ MigrateReset
    BY <2>1, <2>4 DEF Run, Report, MigrateDelete, MigrateReset, Stages, Saving
  <2>5. QED
    BY <2>2, <2>3, <2>4 DEF Next, Work, Boot, Push, PullRequestEvent, Prepare, StoreCommit, Ingest,
       SaveBranches, FinalizePullRequestAnalysis, Predict, PredictByJob, runNext, Fail,
       StopRunning, StopQueued, Crash, Recover, AddRepository
<1>11. predicted' \subseteq Commits /\ start' \subseteq Commits
  <2>1. predicted \subseteq Commits /\ start \subseteq Commits
    BY <1>1 DEF TypeOK
  <2>2. start' \subseteq Commits
    <3>1. CASE UNCHANGED start \/ start' = {}
      BY <2>1, <3>1
    <3>2. CASE Ingest
      <4>1. Unseen \subseteq Commits
        BY <1>8 DEF Unseen, Down, FirstHead, Commits, PullHead
      <4>2. StartPoints(linked') \subseteq Commits
        BY <4>1 DEF StartPoints
      <4>3. QED
        BY <3>2, <4>2 DEF Ingest
    <3>3. QED
      BY <3>1, <3>2 DEF Next, Work, Boot, Push, PullRequestEvent, Run, saveStatus, Prepare, StoreCommit,
       SaveBranches, FinalizePullRequestAnalysis, Predict, PredictByJob, Report, runNext,
     Fail,
       StopRunning, StopQueued, Crash, Recover, MigrateReset, MigrateDelete, AddRepository, process
  <2>3. predicted' \subseteq Commits
    <3>1. CASE UNCHANGED predicted \/ predicted' = {}
      BY <2>1, <3>1
    <3>2. CASE PredictByJob
      BY <2>1, <3>2 DEF PredictByJob, InRange
    <3>3. QED
      BY <3>1, <3>2 DEF Next, Work, Boot, Push, PullRequestEvent, Run, saveStatus, Prepare, StoreCommit,
       Ingest, SaveBranches, FinalizePullRequestAnalysis, Predict, Report, runNext, Fail,
       StopRunning, StopQueued, Crash, Recover, MigrateReset, MigrateDelete, AddRepository, data
  <2>4. QED
    BY <2>2, <2>3
<1>12. pull' \in [stored : BOOLEAN, analyzedHead : BOOLEAN]
  <2>1. pull \in [stored : BOOLEAN, analyzedHead : BOOLEAN]
    BY <1>1 DEF TypeOK
  <2>2. [pull EXCEPT !.stored = TRUE] \in [stored : BOOLEAN, analyzedHead : BOOLEAN]
        /\ [pull EXCEPT !.analyzedHead = TRUE] \in [stored : BOOLEAN, analyzedHead : BOOLEAN]
        /\ [stored |-> FALSE, analyzedHead |-> FALSE] \in [stored : BOOLEAN, analyzedHead : BOOLEAN]
    BY <2>1
  <2>3. \/ UNCHANGED pull
        \/ pull' = [pull EXCEPT !.stored = TRUE]
        \/ pull' = [pull EXCEPT !.analyzedHead = TRUE]
        \/ pull' = [stored |-> FALSE, analyzedHead |-> FALSE]
    <3>1. CASE PullRequestEvent \/ Ingest \/ FinalizePullRequestAnalysis \/ MigrateDelete
      BY <3>1 DEF PullRequestEvent, Ingest, FinalizePullRequestAnalysis, MigrateDelete
    <3>2. CASE UNCHANGED pull
      BY <3>2
    <3>3. QED
      BY <3>1, <3>2 DEF Next, Work, Boot, Push, Run, saveStatus, Prepare, StoreCommit,
       SaveBranches, Predict, PredictByJob, Report, runNext,
     Fail,
       StopRunning, StopQueued, Crash, Recover, MigrateReset, AddRepository, data
  <2>4. QED
    BY <2>1, <2>2, <2>3
<1>13. version' \in {"first", "old", "current"}
       /\ up' \in {"up", "down", "deletePulls", "deleteCommits", "deleteModels", "reset", "add"}
  <2>1. version \in {"first", "old", "current"}
       /\ up \in {"up", "down", "deletePulls", "deleteCommits", "deleteModels", "reset", "add"}
    BY <1>1 DEF TypeOK
  <2>2. QED
    BY <2>1 DEF Next, Work, Boot, Push, PullRequestEvent, Run, saveStatus, Prepare, StoreCommit,
       Ingest, SaveBranches, FinalizePullRequestAnalysis, Predict, PredictByJob, Report, runNext,
     Fail,
       StopRunning, StopQueued, Crash, Recover, MigrateReset, MigrateDelete, AddRepository, data
<1>14. model' \in BOOLEAN
  <2>1. model \in BOOLEAN
    BY <1>1 DEF TypeOK
  <2>2. QED
    BY <2>1 DEF Next, Work, Boot, Push, PullRequestEvent, Run, saveStatus, Prepare, StoreCommit,
       Ingest, SaveBranches, FinalizePullRequestAnalysis, Predict, PredictByJob, Report, runNext,
     Fail,
       StopRunning, StopQueued, Crash, Recover, MigrateReset, MigrateDelete, AddRepository, data
<1>15. pc' \in {"idle", "startCheck", "prepare", "ingest", "analyze", "finalize", "predict",
              "ask", "report", "done"} \cup Saving
  <2>1. pc \in {"idle", "startCheck", "prepare", "ingest", "analyze", "finalize", "predict",
              "ask", "report", "done"} \cup Saving
    BY <1>1 DEF TypeOK
  <2>2. AfterStage \in {"prepare", "ask", "report", "done"}
    <3>1. pc = "Progressing" => AfterStage = "prepare"
      BY DEF AfterStage
    <3>2. pc = "Predicting" => AfterStage = "ask"
      BY DEF AfterStage
    <3>3. pc \notin {"Progressing", "Predicting"} => AfterStage \in {"report", "done"}
      BY DEF AfterStage
    <3>4. QED
      BY <3>1, <3>2, <3>3
  <2>3. QED
    BY <2>1, <2>2 DEF Next, Work, Boot, Push, PullRequestEvent, Run, saveStatus, Prepare, StoreCommit,
       Ingest, SaveBranches, FinalizePullRequestAnalysis, Predict, PredictByJob, Report, runNext,
     Fail,
       StopRunning, StopQueued, Crash, Recover, MigrateReset, MigrateDelete, AddRepository, data,
       WriteLog, Saving
<1>16. QED
  BY <1>4, <1>6, <1>7, <1>9, <1>10, <1>11, <1>12, <1>13, <1>14, <1>15, EngineTyped DEF TypeOK, m

----------------------------------------------------------------------------
(* Types, versions and memory.                                             *)

(* While a job is under way it stays first in memory, and its log grows by *)
(* its own stages only.                                                    *)
LEMMA HeadKept ==
    ASSUME Ranges, Next, pc' # "idle"
    PROVE  /\ up = "up" /\ up' = "up" /\ mem # <<>> /\ mem' # <<>>
           /\ cur' = cur /\ kind' = kind
           /\ UNCHANGED jobs \/ (\E k \in JobKinds : ProcessRepository(k)) =>
                 LogOf(cur)' = LogOf(cur)
           /\ \A s \in Stages : WriteLog(s) => LogOf(cur)' = Append(LogOf(cur), s)
<1>1. TypeOK /\ (pc # "idle" => up = "up" /\ mem # <<>>)
  BY DEF Ranges
<1>2. /\ jobs \in Seq(JobRecs) /\ Len(jobs) \in Nat /\ DOMAIN jobs = 1..Len(jobs)
      /\ mem \in Seq(1..Len(jobs)) /\ Len(mem) \in Nat /\ DOMAIN mem = 1..Len(mem)
      /\ mem # <<>> => cur = mem[1] /\ 1 \in DOMAIN mem /\ cur \in 1..Len(jobs)
  BY <1>1, JobsType
<1>3. up = "up" /\ up' = "up" /\ mem # <<>>
  <2>1. CASE pc = "idle"
    <3>1. Run
      BY <2>1 DEF Next, Work, Boot, Push, PullRequestEvent, saveStatus, Prepare, Ingest, StoreCommit,
         SaveBranches, FinalizePullRequestAnalysis, Predict, PredictByJob, Report, runNext,
     Fail,
         StopRunning, StopQueued, Crash, Recover, MigrateDelete, MigrateReset, AddRepository, Running,
         Saving
    <3>2. QED
      BY <3>1 DEF Run
  <2>2. CASE pc # "idle"
    <3>1. up = "up" /\ mem # <<>>
      BY <1>1, <2>2
    <3>2. UNCHANGED up
      BY <3>1 DEF Next, Work, Boot, Push, PullRequestEvent, Run, saveStatus, Prepare, Ingest,
         StoreCommit, SaveBranches, FinalizePullRequestAnalysis, Predict, PredictByJob, Report,
         runNext, Fail, StopRunning, StopQueued, Crash, Recover, MigrateDelete, MigrateReset,
         AddRepository
    <3>3. QED
      BY <3>1, <3>2
  <2>3. QED
    BY <2>1, <2>2
<1>4. mem' # <<>> /\ cur' = cur
  <2>1. ASSUME UNCHANGED mem \/ mem' = <<cur>> PROVE mem' # <<>> /\ cur' = cur
    BY <1>2, <1>3, <2>1 DEF cur
  <2>2. ASSUME NEW k \in JobKinds, Submits(k) PROVE mem' # <<>> /\ cur' = cur
    BY <1>1, <1>3, <2>2, ProcessEffect DEF Submits
  <2>3. QED
    BY <1>3, <2>1, <2>2, StepOfJobs
<1>5. kind' = kind
  BY <1>1, <1>2, <1>3, <1>4, StepKeeps DEF Kept, kind
<1>6. ASSUME UNCHANGED jobs PROVE LogOf(cur)' = LogOf(cur)
  BY <1>4, <1>6 DEF LogOf
<1>7. ASSUME NEW k \in JobKinds, ProcessRepository(k) PROVE LogOf(cur)' = LogOf(cur)
  <2>1. jobs'[cur] = jobs[cur]
    BY <1>1, <1>2, <1>3, <1>7, ProcessEffect
  <2>2. QED
    BY <1>4, <2>1 DEF LogOf
<1>8. ASSUME NEW s \in Stages, WriteLog(s) PROVE LogOf(cur)' = Append(LogOf(cur), s)
  <2>1. jobs'[cur].log = Append(jobs[cur].log, s)
    BY <1>1, <1>3, <1>8, LogEffect
  <2>2. QED
    BY <1>4, <2>1 DEF LogOf
<1>9. QED
  BY <1>3, <1>4, <1>5, <1>6, <1>7, <1>8

(* A step keeps Ranges.                                                    *)
LEMMA NextRanges ==
    ASSUME RecoveryAssumption, Ranges, MemInv, LogInv, Next
    PROVE  Ranges'
<1>1. TypeOK'
  BY NextTypeOK
<1>2. pc' # "idle" => up' = "up" /\ mem' # <<>>
  BY HeadKept
<1>3. /\ pushed \in Nat /\ base \in Nat /\ fetched \in Nat /\ heads \in Nat
      /\ taken \in Nat /\ taken <= fetched /\ fetched <= pushed
  BY DEF Ranges, TypeOK
<1>4. /\ pushed' \in Nat /\ base' \in Nat /\ fetched' \in Nat /\ heads' \in Nat
      /\ taken' \in Nat /\ taken' <= fetched'
  <2>1. CASE Push \/ PullRequestEvent \/ Prepare \/ Ingest \/ SaveBranches \/ MigrateReset
    BY <1>3, <2>1 DEF Push, PullRequestEvent, Prepare, Ingest, SaveBranches, MigrateReset, data,
       remote, history
  <2>2. CASE UNCHANGED <<pushed, base, fetched, heads, taken>>
    BY <1>3, <2>2
  <2>3. QED
    BY <2>1, <2>2 DEF Next, Work, Boot, Run, saveStatus, StoreCommit,
       FinalizePullRequestAnalysis, Predict, PredictByJob, Report, runNext, Fail, StopRunning,
       StopQueued, Crash, Recover, MigrateDelete, AddRepository, data, remote, history
<1>5. QED
  BY <1>1, <1>2, <1>4 DEF Ranges

(* A step keeps VersionInv.                                                *)
LEMMA NextVersionInv ==
    ASSUME Ranges, VersionInv, Next
    PROVE  VersionInv'
<1>1. CASE UNCHANGED <<version, up>>
  BY <1>1 DEF VersionInv
<1>2. CASE Crash
  BY <1>2 DEF VersionInv, Crash
<1>3. CASE Boot
  BY <1>3 DEF VersionInv, Boot, Recover, MigrateDelete, MigrateReset, AddRepository, data
<1>4. QED
  BY <1>1, <1>2, <1>3 DEF Next, Work, Push, PullRequestEvent, Run, saveStatus, Prepare, Ingest,
     StoreCommit, SaveBranches, FinalizePullRequestAnalysis, Predict, PredictByJob, Report,
     runNext, Fail, StopRunning, StopQueued, data

(* Jobs behind the first have an empty log, also the one that becomes the  *)
(* first, and memory stays in the order of the collection.                 *)
LEMMA LogsKept ==
    ASSUME Ranges, MemInv, Next
    PROVE  /\ mem' # <<>> => \A j \in DOMAIN jobs' : j > cur' => LogOf(j)' = <<>>
           /\ mem' # <<>> /\ (mem = <<>> \/ cur' # cur) => LogOf(cur)' = <<>>
           /\ \A i, j \in DOMAIN mem' : i < j => mem'[i] < mem'[j]
<1>1. TypeOK /\ Kept
  BY StepKeeps DEF Ranges
<1>2. /\ jobs \in Seq(JobRecs) /\ Len(jobs) \in Nat /\ DOMAIN jobs = 1..Len(jobs)
      /\ mem \in Seq(1..Len(jobs)) /\ Len(mem) \in Nat /\ DOMAIN mem = 1..Len(mem)
      /\ mem # <<>> => cur = mem[1] /\ 1 \in DOMAIN mem /\ cur \in 1..Len(jobs)
      /\ \A i \in DOMAIN mem : mem[i] \in 1..Len(jobs)
  BY <1>1, JobsType
<1>3. /\ \A i, j \in DOMAIN mem : i < j => mem[i] < mem[j]
      /\ mem # <<>> => \A j \in DOMAIN jobs : j > cur => LogOf(j) = <<>>
  BY DEF MemInv
<1>4. CASE UNCHANGED <<jobs, mem>>
  BY <1>3, <1>4 DEF cur, LogOf
<1>5. ASSUME NEW k \in JobKinds, Submits(k)
      PROVE  /\ \A j \in DOMAIN jobs' : j > cur' => LogOf(j)' = <<>>
             /\ mem = <<>> \/ cur' # cur => LogOf(cur)' = <<>>
             /\ \A i, j \in DOMAIN mem' : i < j => mem'[i] < mem'[j]
  <2> DEFINE n == Len(jobs)
  <2>1. /\ jobs' \in Seq(JobRecs) /\ Len(jobs') = n + 1
        /\ \A j \in DOMAIN jobs : jobs'[j] = jobs[j]
        /\ jobs'[n + 1].log = <<>>
        /\ mem' \in Seq(1..Len(jobs')) /\ Len(mem') = Len(mem) + 1
        /\ \A i \in DOMAIN mem : mem'[i] = mem[i]
        /\ mem'[Len(mem) + 1] = n + 1
        /\ mem' # <<>> /\ cur' = IF mem = <<>> THEN n + 1 ELSE cur
    BY <1>1, <1>5, ProcessEffect DEF Submits
  <2>2. DOMAIN jobs' = 1..n + 1 /\ DOMAIN mem' = 1..Len(mem) + 1
    BY <2>1
  <2>3. \A i, j \in DOMAIN mem' : i < j => mem'[i] < mem'[j]
    <3>1. SUFFICES ASSUME NEW i \in DOMAIN mem', NEW j \in DOMAIN mem', i < j
                   PROVE  mem'[i] < mem'[j]
      OBVIOUS
    <3>2. i \in DOMAIN mem /\ mem'[i] = mem[i] /\ mem[i] \in 1..n
      BY <1>2, <2>1, <2>2, <3>1
    <3>3. CASE j = Len(mem) + 1
      BY <1>2, <2>1, <3>2, <3>3
    <3>4. CASE j # Len(mem) + 1
      <4>1. j \in DOMAIN mem
        BY <1>2, <2>2, <3>4
      <4>2. mem'[j] = mem[j] /\ mem[i] < mem[j]
        BY <1>3, <2>1, <3>1, <3>2, <4>1
      <4>3. QED
        BY <3>2, <4>2
    <3>5. QED
      BY <3>3, <3>4
  <2>4. mem = <<>> \/ cur' # cur => LogOf(cur)' = <<>>
    <3>1. ASSUME mem = <<>> \/ cur' # cur PROVE cur' = n + 1
      BY <2>1, <3>1
    <3>2. QED
      BY <2>1, <3>1 DEF LogOf
  <2>5. ASSUME NEW j \in DOMAIN jobs', j > cur' PROVE LogOf(j)' = <<>>
    <3>1. CASE j = n + 1
      BY <2>1, <3>1 DEF LogOf
    <3>2. CASE j # n + 1
      <4>1. n \in Nat /\ cur' \in Int /\ j \in 1..n + 1
        BY <1>2, <2>1, <2>2, <2>5
      <4>2. j \in 1..n /\ mem # <<>>
        BY <1>2, <2>1, <2>5, <3>2, <4>1
      <4>3. LogOf(j) = <<>> /\ jobs'[j] = jobs[j]
        BY <1>2, <1>3, <2>1, <2>5, <4>2
      <4>4. QED
        BY <4>3 DEF LogOf
    <3>3. QED
      BY <3>1, <3>2
  <2>6. QED
    BY <2>3, <2>4, <2>5
<1>6. ASSUME mem # <<>>, NEW s \in Stages, WriteLog(s)
      PROVE  \A j \in DOMAIN jobs' : j > cur => LogOf(j)' = <<>>
  <2>1. /\ Len(jobs') = Len(jobs) /\ jobs' \in Seq(JobRecs)
        /\ \A j \in DOMAIN jobs : j # cur => jobs'[j].log = jobs[j].log
    BY <1>1, <1>6, LogEffect
  <2>2. DOMAIN jobs' = DOMAIN jobs
    BY <1>2, <2>1
  <2>3. QED
    BY <1>2, <1>3, <1>6, <2>1, <2>2 DEF LogOf
<1>7. ASSUME mem # <<>>, UNCHANGED mem, NEW s \in Stages, WriteLog(s)
      PROVE  /\ \A j \in DOMAIN jobs' : j > cur' => LogOf(j)' = <<>>
             /\ cur' = cur
             /\ \A i, j \in DOMAIN mem' : i < j => mem'[i] < mem'[j]
  BY <1>3, <1>6, <1>7 DEF cur
<1>8. ASSUME mem # <<>>, mem' = Tail(mem), UNCHANGED jobs
      PROVE  /\ mem' # <<>> => \A j \in DOMAIN jobs' : j > cur' => LogOf(j)' = <<>>
             /\ mem' # <<>> => LogOf(cur)' = <<>>
             /\ \A i, j \in DOMAIN mem' : i < j => mem'[i] < mem'[j]
  <2>1. /\ Len(mem') = Len(mem) - 1 /\ mem' \in Seq(1..Len(jobs))
        /\ \A i \in DOMAIN mem' : i + 1 \in DOMAIN mem /\ mem'[i] = mem[i + 1]
        /\ mem' # <<>> => cur' = mem[2] /\ 2 \in DOMAIN mem
    BY <1>1, <1>8, TailEffect DEF cur
  <2>2. DOMAIN mem' = 1..Len(mem) - 1
    BY <1>2, <2>1
  <2>3. \A i, j \in DOMAIN mem' : i < j => mem'[i] < mem'[j]
    BY <1>2, <1>3, <2>1, <2>2
  <2>4. ASSUME mem' # <<>> PROVE cur' \in DOMAIN jobs /\ cur' > cur
    <3>1. cur = mem[1] /\ cur' = mem[2] /\ 1 \in DOMAIN mem /\ 2 \in DOMAIN mem
      BY <1>2, <1>8, <2>1, <2>4
    <3>2. mem[1] < mem[2]
      BY <1>3, <3>1
    <3>3. mem[1] \in Nat /\ mem[2] \in DOMAIN jobs /\ mem[2] \in Nat
      BY <1>2, <3>1
    <3>4. QED
      BY <3>1, <3>2, <3>3
  <2>5. ASSUME mem' # <<>>, NEW j \in DOMAIN jobs', j > cur' \/ j = cur' PROVE LogOf(j)' = <<>>
    <3>1. j \in DOMAIN jobs /\ j > cur
      BY <1>2, <1>8, <2>4, <2>5
    <3>2. LogOf(j) = <<>>
      BY <1>3, <1>8, <3>1
    <3>3. QED
      BY <1>8, <3>2 DEF LogOf
  <2>6. mem' # <<>> => \A j \in DOMAIN jobs' : j > cur' => LogOf(j)' = <<>>
    BY <2>5
  <2>7. mem' # <<>> => LogOf(cur)' = <<>>
    <3>1. mem' # <<>> => cur' \in DOMAIN jobs'
      BY <1>8, <2>4
    <3>2. QED
      BY <2>5, <3>1 DEF LogOf
  <2>8. QED
    BY <2>3, <2>6, <2>7
<1>9. ASSUME mem # <<>>, mem' = <<cur>>, UNCHANGED jobs \/ WriteLog("Canceled")
      PROVE  /\ \A j \in DOMAIN jobs' : j > cur' => LogOf(j)' = <<>>
             /\ cur' = cur
             /\ \A i, j \in DOMAIN mem' : i < j => mem'[i] < mem'[j]
  <2>1. cur' = cur /\ DOMAIN mem' = {1}
    BY <1>9 DEF cur
  <2>2. CASE UNCHANGED jobs
    BY <1>3, <1>9, <2>1, <2>2 DEF LogOf
  <2>3. CASE WriteLog("Canceled")
    <3>1. "Canceled" \in Stages
      BY DEF Stages, Saving
    <3>2. QED
      BY <1>6, <1>9, <2>1, <2>3, <3>1
  <2>4. QED
    BY <1>9, <2>2, <2>3
<1>10. CASE mem' = <<>>
  BY <1>10
<1>11. QED
  BY <1>4, <1>5, <1>7, <1>8, <1>9, <1>10, StepOfJobs

(* A step keeps MemInv.                                                    *)
LEMMA NextMemInv ==
    ASSUME Ranges, MemInv, Next
    PROVE  MemInv'
<1>1. TypeOK /\ Kept
  BY StepKeeps DEF Ranges
<1>2. /\ jobs \in Seq(JobRecs) /\ Len(jobs) \in Nat /\ DOMAIN jobs = 1..Len(jobs)
      /\ mem \in Seq(1..Len(jobs)) /\ Len(mem) \in Nat /\ DOMAIN mem = 1..Len(mem)
      /\ mem # <<>> => cur = mem[1] /\ 1 \in DOMAIN mem /\ cur \in 1..Len(jobs)
      /\ \A i \in DOMAIN mem : mem[i] \in DOMAIN jobs
  BY <1>1, JobsType
<1>3. /\ \A j \in DOMAIN jobs : KindOf(j) = "check" => ChecksEnabled
      /\ up # "up" => \A i \in DOMAIN mem : KindOf(mem[i]) = "recover"
      /\ up = "down" => mem = <<>>
  BY DEF MemInv
<1>4. DOMAIN jobs' = 1..Len(jobs') /\ \A j \in DOMAIN jobs : KindOf(j)' = KindOf(j)
  BY <1>1, <1>2 DEF Kept, KindOf
<1>5. ASSUME Len(jobs') = Len(jobs), NEW j \in DOMAIN jobs', KindOf(j)' = "check" PROVE ChecksEnabled
  BY <1>2, <1>3, <1>4, <1>5
<1>6. ASSUME NEW k \in JobKinds, Submits(k)
      PROVE  /\ \A j \in DOMAIN jobs' : KindOf(j)' = "check" => ChecksEnabled
             /\ up' # "up" => \A i \in DOMAIN mem' : jobs'[mem'[i]].kind = "recover"
             /\ up' # "down"
  <2>1. /\ jobs' \in Seq(JobRecs) /\ Len(jobs') = Len(jobs) + 1
        /\ \A j \in DOMAIN jobs : jobs'[j] = jobs[j]
        /\ jobs'[Len(jobs) + 1].kind = k
        /\ mem' \in Seq(1..Len(jobs')) /\ Len(mem') = Len(mem) + 1
        /\ mem'[Len(mem) + 1] = Len(jobs) + 1
    BY <1>1, <1>6, ProcessEffect DEF Submits
  <2>2. ASSUME NEW j \in DOMAIN jobs', KindOf(j)' = "check" PROVE ChecksEnabled
    <3>1. CASE j \in DOMAIN jobs
      BY <1>3, <1>4, <2>2, <3>1
    <3>2. CASE j \notin DOMAIN jobs
      <4>1. j = Len(jobs) + 1
        BY <1>2, <1>4, <2>1, <3>2
      <4>2. k = "check"
        BY <2>1, <2>2, <4>1 DEF KindOf
      <4>3. QED
        BY <1>6, <4>2 DEF Submits
    <3>3. QED
      BY <3>1, <3>2
  <2>3. ASSUME up' # "up", NEW i \in DOMAIN mem' PROVE jobs'[mem'[i]].kind = "recover"
    <3>1. k = "recover" /\ mem = <<>>
      BY <1>3, <1>6, <2>3 DEF Submits
    <3>2. i = 1 /\ mem'[i] = Len(jobs) + 1
      BY <2>1, <2>3, <3>1
    <3>3. QED
      BY <2>1, <3>1, <3>2
  <2>4. up' # "down"
    BY <1>6 DEF Submits
  <2>5. QED
    BY <2>2, <2>3, <2>4
<1>7. \A j \in DOMAIN jobs' : KindOf(j)' = "check" => ChecksEnabled
  BY <1>5, <1>6, JobsGrow
<1>8. ASSUME ~ \E k \in JobKinds : Submits(k), up' # "up"
      PROVE  mem' = <<>> \/ (UNCHANGED <<jobs, mem>> /\ up # "up" /\ (up' = "down" => up = "down"))
  <2>1. CASE Crash
    BY <2>1 DEF Crash
  <2>2. CASE Boot
    <3>1. up # "up" /\ up' # "down" /\ UNCHANGED <<jobs, mem>>
      <4>1. CASE Recover
        <5>1. ~ProcessRepository("recover")
          BY <1>8, <4>1 DEF Recover, Submits, JobKinds, UpdateKinds, PullKinds
        <5>2. QED
          BY <4>1, <5>1 DEF Recover
      <4>2. CASE MigrateDelete \/ MigrateReset \/ AddRepository
        BY <1>8, <4>2 DEF MigrateDelete, MigrateReset, AddRepository
      <4>3. QED
        BY <2>2, <4>1, <4>2 DEF Boot
    <3>2. QED
      BY <3>1
  <2>3. CASE UNCHANGED up /\ pc = "idle" /\ (Push \/ PullRequestEvent)
    BY <1>8, <2>3 DEF Push, PullRequestEvent
  <2>4. QED
    BY <1>8, <2>1, <2>2, <2>3 DEF Ranges, Next, Work, Push, PullRequestEvent, Run, saveStatus, Prepare,
       Ingest, StoreCommit, SaveBranches, FinalizePullRequestAnalysis, Predict, PredictByJob, Report,
       runNext, Fail, StopRunning, StopQueued, Running, Saving
<1>9. (up' # "up" => \A i \in DOMAIN mem' : jobs'[mem'[i]].kind = "recover")
      /\ (up' = "down" => mem' = <<>>)
  <2>1. CASE \E k \in JobKinds : Submits(k)
    BY <1>6, <2>1
  <2>2. CASE ~ \E k \in JobKinds : Submits(k)
    <3>1. CASE mem' = <<>>
      BY <3>1
    <3>2. CASE UNCHANGED <<jobs, mem>> /\ up # "up" /\ (up' = "down" => up = "down")
      BY <1>3, <3>2 DEF KindOf
    <3>3. QED
      BY <1>8, <2>2, <3>1, <3>2
  <2>3. QED
    BY <2>1, <2>2
<1>10. QED
  BY <1>7, <1>9, LogsKept DEF MemInv, KindOf

----------------------------------------------------------------------------
(* Logs.                                                                   *)

(* A step keeps LogInv.                                                    *)
LEMMA NextLogInv ==
    ASSUME Ranges, MemInv, LogInv, Next
    PROVE  LogInv'
<1>1. CASE pc' = "idle"
  <2>1. TypeOK
    BY DEF Ranges
  <2>2. mem' # <<>> => LogOf(cur)' = <<>>
    <3>1. CASE mem = <<>> \/ cur' # cur
      BY <3>1, LogsKept
    <3>2. CASE mem # <<>> /\ cur' = cur /\ pc = "idle"
      <4>1. LogOf(cur) = <<>> /\ cur \in DOMAIN jobs
        BY <2>1, <3>2, JobsType DEF LogInv
      <4>2. CASE UNCHANGED jobs
        BY <3>2, <4>1, <4>2 DEF LogOf
      <4>3. ASSUME NEW k \in JobKinds, Submits(k) PROVE LogOf(cur)' = <<>>
        <5>1. jobs'[cur] = jobs[cur]
          BY <2>1, <4>1, <4>3, ProcessEffect DEF Submits
        <5>2. QED
          BY <3>2, <4>1, <5>1 DEF LogOf
      <4>4. ASSUME NEW s \in Stages, WriteLog(s) PROVE FALSE
        BY <1>1, <4>4 DEF WriteLog, Stages, Saving
      <4>5. "Canceled" \in Stages
        BY DEF Stages, Saving
      <4>6. QED
        BY <3>2, <4>2, <4>3, <4>4, <4>5, StepOfJobs
    <3>3. CASE mem # <<>> /\ mem' # <<>> /\ pc # "idle"
      <4>1. runNext
        BY <1>1, <3>3 DEF Ranges, Next, Work, Boot, Push, PullRequestEvent, Run, saveStatus, Prepare,
           Ingest, StoreCommit, SaveBranches, FinalizePullRequestAnalysis, Predict, PredictByJob,
           Report, Fail, StopRunning, StopQueued, Crash, Recover, MigrateDelete, MigrateReset,
           AddRepository, WriteLog, Saving, AfterStage
      <4>2. mem' = Tail(mem)
        BY <4>1 DEF runNext
      <4>3. cur = mem[1] /\ cur' = mem[2] /\ 1 \in DOMAIN mem /\ 2 \in DOMAIN mem
        BY <2>1, <3>3, <4>2, TailEffect, JobsType DEF cur
      <4>4. mem[1] < mem[2] /\ mem[1] \in Nat /\ mem[2] \in Nat
        <5>1. mem[1] < mem[2]
          BY <4>3 DEF MemInv
        <5>2. QED
          BY <2>1, <4>3, <5>1, JobsType
      <4>5. QED
        BY <3>1, <4>3, <4>4
    <3>4. QED
      BY <3>1, <3>2, <3>3
  <2>3. QED
    BY <1>1, <2>2 DEF LogInv, Saving
<1>2. CASE pc' # "idle"
  <2> DEFINE log == LogOf(cur)
  <2>1. /\ mem # <<>> /\ mem' # <<>> /\ cur' = cur /\ kind' = kind
        /\ UNCHANGED jobs \/ (\E k \in JobKinds : ProcessRepository(k)) => log' = log
        /\ \A s \in Stages : WriteLog(s) => log' = Append(log, s)
    BY <1>2, HeadKept
  <2>2. log \in Seq(Stages)
    BY <2>1, JobsType DEF Ranges
  <2>3. /\ pc \in {"idle", "startCheck"} => log = <<>>
        /\ pc \in {"Progressing", "prepare", "ingest", "analyze", "finalize", "predict"} =>
              log = <<"Progressing">>
        /\ pc \in {"Predicting", "ask"} => log = <<"Progressing", "Predicting">>
        /\ pc \in {"Failed", "Canceled"} => log # <<>> /\ Last(log) = pc
        /\ pc = "startCheck" => kind = "check"
        /\ pc = "finalize" => kind \in PullKinds
    BY <2>1 DEF LogInv
  <2> HIDE DEF log
  <2>4. ASSUME NEW s \in Stages, WriteLog(s)
        PROVE  /\ pc' = s /\ log' = Append(log, s)
               /\ log' # <<>> /\ Last(log') = s
    <3>1. pc' = s /\ log' = Append(log, s)
      BY <2>1, <2>4 DEF WriteLog
    <3>2. QED
      BY <2>2, <3>1 DEF Last
  <2>5. {"Progressing", "Predicting", "Ready", "Failed", "Canceled"} \subseteq Stages
    BY DEF Stages, Saving
  <2>6. /\ Append(<<>>, "Progressing") = <<"Progressing">>
        /\ Append(<<"Progressing">>, "Predicting") = <<"Progressing", "Predicting">>
    BY <2>5, AppendOne, AppendTwo
  <2> DEFINE Goal ==
        /\ pc' \in {"idle", "startCheck"} => log' = <<>>
        /\ pc' \in {"Progressing", "prepare", "ingest", "analyze", "finalize", "predict"} =>
              log' = <<"Progressing">>
        /\ pc' \in {"Predicting", "ask"} => log' = <<"Progressing", "Predicting">>
        /\ pc' \in {"Failed", "Canceled"} => log' # <<>> /\ Last(log') = pc'
        /\ pc' = "startCheck" => kind' = "check"
        /\ pc' = "finalize" => kind' \in PullKinds
  <2>7. SUFFICES Goal
    BY <2>1 DEF LogInv, log
  <2>8. CASE UNCHANGED pc /\ (UNCHANGED jobs \/ \E k \in JobKinds : ProcessRepository(k))
    <3>1. log' = log
      BY <2>1, <2>8
    <3>2. QED
      BY <2>1, <2>3, <2>8, <3>1
  <2>9. CASE Run
    <3>1. CASE WriteLog("Progressing")
      BY <2>3, <2>4, <2>5, <2>6, <2>9, <3>1 DEF Run
    <3>2. CASE pc' = "startCheck" /\ UNCHANGED jobs /\ kind = "check" /\ pc = "idle"
      BY <2>1, <2>3, <3>2
    <3>3. QED
      BY <2>9, <3>1, <3>2 DEF Run
  <2>10. CASE saveStatus
    <3>1. log' = log
      BY <2>1, <2>10 DEF saveStatus
    <3>2. pc = "Progressing" => pc' = "prepare"
      BY <2>10 DEF saveStatus, AfterStage
    <3>3. pc = "Predicting" => pc' = "ask"
      BY <2>10 DEF saveStatus, AfterStage
    <3>4. pc \in {"Ready", "Failed", "Canceled"} => pc' \in {"report", "done"}
      BY <2>10 DEF saveStatus, AfterStage
    <3>5. pc \in {"Progressing", "Predicting", "Ready", "Failed", "Canceled"}
      BY <2>10 DEF saveStatus, Saving
    <3>6. QED
      BY <2>3, <3>1, <3>2, <3>3, <3>4, <3>5
  <2>11. CASE Prepare \/ SaveBranches \/ FinalizePullRequestAnalysis
    <3>1. /\ UNCHANGED jobs
          /\ pc \in {"prepare", "analyze", "finalize"} /\ pc' \in {"ingest", "finalize", "predict"}
          /\ pc' = "finalize" => kind \in PullKinds
      BY <2>11 DEF Prepare, SaveBranches, FinalizePullRequestAnalysis
    <3>2. QED
      BY <2>1, <2>3, <3>1
  <2>12. CASE Ingest
    <3>1. /\ UNCHANGED jobs \/ ProcessRepository("pull")
          /\ pc = "ingest" /\ pc' \in {"analyze", "predict"}
      BY <2>12 DEF Ingest
    <3>2. "pull" \in JobKinds
      BY DEF JobKinds, PullKinds
    <3>3. QED
      BY <2>1, <2>3, <3>1, <3>2
  <2>13. CASE Predict
    <3>1. log = <<"Progressing">>
      BY <2>3, <2>13 DEF Predict
    <3>2. CASE WriteLog("Ready")
      BY <2>4, <2>5, <3>2
    <3>3. CASE WriteLog("Predicting")
      <4>1. pc' = "Predicting" /\ log' = Append(log, "Predicting")
        BY <2>4, <2>5, <3>3
      <4>2. QED
        BY <2>6, <3>1, <4>1
    <3>4. QED
      BY <2>13, <3>2, <3>3 DEF Predict
  <2>14. CASE Report
    BY <2>1, <2>3, <2>14 DEF Report
  <2>15. CASE \E s \in {"Ready", "Failed", "Canceled"} : WriteLog(s)
    BY <2>4, <2>5, <2>15
  <2>16. QED
    <3>1. CASE PredictByJob \/ Fail
      BY <2>15, <3>1 DEF PredictByJob, Fail
    <3>2. CASE StopRunning
      BY <2>8, <2>15, <3>2 DEF StopRunning
    <3>3. CASE Push \/ PullRequestEvent
      <4>1. UNCHANGED jobs \/ (\E k \in {"update", "check", "pull"} : ProcessRepository(k))
        BY <3>3 DEF Push, PullRequestEvent
      <4>2. {"update", "check", "pull"} \subseteq JobKinds
        BY DEF JobKinds, UpdateKinds, PullKinds
      <4>3. UNCHANGED pc
        BY <3>3 DEF Push, PullRequestEvent
      <4>4. QED
        BY <2>8, <4>1, <4>2, <4>3
    <3>4. CASE StoreCommit
      BY <2>8, <3>4 DEF StoreCommit
    <3>5. CASE runNext \/ StopQueued \/ Crash
      BY <1>2, <3>5 DEF runNext, StopQueued, Crash
    <3>6. ~Boot
      BY <1>2, HeadKept DEF Boot, Recover, MigrateDelete, MigrateReset, AddRepository
    <3>7. QED
      BY <2>9, <2>10, <2>11, <2>12, <2>13, <2>14, <3>1, <3>2, <3>3, <3>4, <3>5, <3>6
         DEF Next, Work
<1>3. QED
  BY <1>1, <1>2

----------------------------------------------------------------------------
(* The status of the repository.                                           *)

(* What writing one of the two statuses leaves of the other.               *)
LEMMA Fields ==
    ASSUME NEW st \in [{"repo", "pull"} -> Stages], NEW v
    PROVE  /\ [st EXCEPT !.repo = v].repo = v /\ [st EXCEPT !.repo = v].pull = st.pull
           /\ [st EXCEPT !.pull = v].pull = v /\ [st EXCEPT !.pull = v].repo = st.repo
           /\ [st EXCEPT !["repo"] = v].repo = v /\ [st EXCEPT !["repo"] = v].pull = st.pull
           /\ [st EXCEPT !["pull"] = v].pull = v /\ [st EXCEPT !["pull"] = v].repo = st.repo
OBVIOUS

(* How the two statuses may be written: by the stage of a job, by the      *)
(* check of a pull request, which borrows the status of the repository,    *)
(* and by the migration.                                                   *)
StatusSteps ==
    \/ UNCHANGED status /\ ~saveStatus /\ (Report => kind # "check")
    \/ /\ saveStatus /\ kind \in PullKinds
       /\ status'.pull = pc /\ status'.repo = status.repo
    \/ /\ saveStatus /\ kind \notin PullKinds
       /\ status'.repo = pc /\ status'.pull = status.pull
    \/ /\ Run /\ kind = "check" /\ pc = "idle" /\ pc' = "startCheck"
       /\ status'.repo = "Progressing" /\ status'.pull = status.pull
    \/ /\ Report /\ kind = "check"
       /\ status'.repo = "Ready" /\ status'.pull = status.pull
    \/ /\ MigrateDelete /\ status'.repo = status.repo
    \/ /\ MigrateReset /\ status'.repo = "Queued" /\ status'.pull = status.pull

(* Every step writes them in one of these ways.                            *)
LEMMA StepOfStatus ==
    ASSUME Ranges, Next
    PROVE  StatusSteps
<1>1. status \in [{"repo", "pull"} -> Stages]
  BY DEF Ranges, TypeOK
<1>2. CASE UNCHANGED status /\ ~saveStatus /\ ~Report
  BY <1>2 DEF StatusSteps
<1>3. CASE saveStatus
  <2>1. CASE kind \in PullKinds
    <3>1. status' = [status EXCEPT !["pull"] = pc]
      BY <1>3, <2>1 DEF saveStatus, Target
    <3>2. status'.pull = pc /\ status'.repo = status.repo
      BY <1>1, <3>1, Fields
    <3>3. QED
      BY <1>3, <2>1, <3>2 DEF StatusSteps
  <2>2. CASE kind \notin PullKinds
    <3>1. status' = [status EXCEPT !["repo"] = pc]
      BY <1>3, <2>2 DEF saveStatus, Target
    <3>2. status'.repo = pc /\ status'.pull = status.pull
      BY <1>1, <3>1, Fields
    <3>3. QED
      BY <1>3, <2>2, <3>2 DEF StatusSteps
  <2>3. QED
    BY <2>1, <2>2
<1>4. CASE Run
  <2>1. ASSUME status' # status
        PROVE  kind = "check" /\ pc = "idle" /\ pc' = "startCheck"
               /\ status' = [status EXCEPT !.repo = "Progressing"]
    BY <1>4, <2>1 DEF Run
  <2>2. ~saveStatus /\ ~Report
    BY <1>4 DEF Run, saveStatus, Report, Saving
  <2>3. CASE UNCHANGED status
    BY <1>2, <2>2, <2>3
  <2>4. CASE status' # status
    <3>1. status'.repo = "Progressing" /\ status'.pull = status.pull
      BY <1>1, <2>1, <2>4, Fields
    <3>2. QED
      BY <1>4, <2>1, <2>4, <3>1 DEF StatusSteps
  <2>5. QED
    BY <2>3, <2>4
<1>5. CASE Report
  <2>1. CASE kind = "check"
    <3>1. status' = [status EXCEPT !.repo = "Ready"]
      BY <1>5, <2>1 DEF Report
    <3>2. status'.repo = "Ready" /\ status'.pull = status.pull
      BY <1>1, <3>1, Fields
    <3>3. QED
      BY <1>5, <2>1, <3>2 DEF StatusSteps
  <2>2. CASE kind # "check"
    BY <1>5, <2>2 DEF StatusSteps, Report, saveStatus, Saving
  <2>3. QED
    BY <2>1, <2>2
<1>6. CASE MigrateDelete
  <2>1. UNCHANGED status \/ status' = [status EXCEPT !.pull = "Queued"]
    BY <1>6 DEF MigrateDelete
  <2>2. status'.repo = status.repo
    BY <1>1, <2>1, Fields
  <2>3. QED
    BY <1>6, <2>2 DEF StatusSteps
<1>7. CASE MigrateReset
  <2>1. status' = [status EXCEPT !.repo = "Queued"]
    BY <1>7 DEF MigrateReset
  <2>2. QED
    BY <1>1, <1>7, <2>1, Fields DEF StatusSteps
<1>8. UNCHANGED status \/ saveStatus \/ Run \/ Report \/ MigrateDelete \/ MigrateReset
  BY DEF Next, Work, Boot, Push, PullRequestEvent, Prepare, Ingest, StoreCommit, SaveBranches,
     FinalizePullRequestAnalysis, Predict, PredictByJob, runNext, Fail, StopRunning, StopQueued,
     Crash, Recover, AddRepository
<1>9. QED
  BY <1>2, <1>3, <1>4, <1>5, <1>6, <1>7, <1>8

(* Where a job is once its stage is saved.                                 *)
LEMMA SaveSteps ==
    ASSUME saveStatus
    PROVE  /\ pc \in {"Progressing", "Predicting", "Ready", "Failed", "Canceled"}
           /\ pc = "Progressing" => pc' = "prepare"
           /\ pc = "Predicting" => pc' = "ask"
           /\ pc = "Ready" => pc' = IF ChecksEnabled /\ kind \in {"check", "update"}
                                      THEN "report" ELSE "done"
           /\ pc \in {"Failed", "Canceled"} => pc' = "done"
<1>1. pc \in {"Progressing", "Predicting", "Ready", "Failed", "Canceled"} /\ pc' = AfterStage
  BY DEF saveStatus, Saving
<1>2. pc = "Progressing" => AfterStage = "prepare"
  BY DEF AfterStage
<1>3. pc = "Predicting" => AfterStage = "ask"
  BY DEF AfterStage
<1>4. pc = "Ready" /\ ChecksEnabled /\ kind \in {"check", "update"} => AfterStage = "report"
  BY DEF AfterStage
<1>5. pc = "Ready" /\ ~(ChecksEnabled /\ kind \in {"check", "update"}) => AfterStage = "done"
  BY DEF AfterStage
<1>6. pc \in {"Failed", "Canceled"} => AfterStage = "done"
  BY DEF AfterStage
<1>7. QED
  BY <1>1, <1>2, <1>3, <1>4, <1>5, <1>6

(* A job that is made is the running one only if there was none.           *)
LEMMA SubmitsHead ==
    ASSUME Ranges, NEW k \in JobKinds, ProcessRepository(k)
    PROVE  /\ mem' # <<>>
           /\ mem # <<>> => cur' = cur /\ kind' = kind
           /\ mem = <<>> => kind' = k
<1>1. TypeOK
  BY DEF Ranges
<1>2. /\ \A j \in DOMAIN jobs : jobs'[j] = jobs[j]
      /\ jobs'[Len(jobs) + 1].kind = k
      /\ mem' # <<>> /\ cur' = IF mem = <<>> THEN Len(jobs) + 1 ELSE cur
  BY <1>1, ProcessEffect
<1>3. mem # <<>> => cur \in DOMAIN jobs
  BY <1>1, JobsType
<1>4. QED
  BY <1>2, <1>3 DEF kind

(* The steps after which no job is under way.                              *)
LEMMA IdleSteps ==
    ASSUME Ranges, Next, pc' = "idle"
    PROVE  \/ pc = "idle" /\ (Push \/ PullRequestEvent \/ StopQueued \/ Boot)
           \/ pc = "done" /\ runNext
           \/ Crash
BY DEF Ranges, Next, Work, Boot, Push, PullRequestEvent, Run, saveStatus, Prepare, Ingest, StoreCommit,
   SaveBranches, FinalizePullRequestAnalysis, Predict, PredictByJob, Report, runNext,
     Fail,
   StopRunning, StopQueued, Crash, Recover, MigrateDelete, MigrateReset, AddRepository, WriteLog,
   Saving, AfterStage

(* The steps after which a job is about to end.                            *)
LEMMA EndSteps ==
    ASSUME Ranges, Next, pc' \in {"report", "done"}
    PROVE  \/ saveStatus
           \/ Report
           \/ /\ pc' = pc /\ UNCHANGED status
              /\ UNCHANGED jobs \/ \E k \in JobKinds : ProcessRepository(k)
<1>1. CASE Push \/ PullRequestEvent
  <2>1. UNCHANGED <<pc, status>>
    BY <1>1 DEF Push, PullRequestEvent
  <2>2. UNCHANGED jobs \/ \E k \in {"update", "check", "pull"} : ProcessRepository(k)
    BY <1>1 DEF Push, PullRequestEvent
  <2>3. QED
    BY <2>1, <2>2 DEF JobKinds, UpdateKinds, PullKinds
<1>2. CASE Boot
  BY <1>2 DEF Ranges, Boot, Recover, MigrateDelete, MigrateReset, AddRepository
<1>3. CASE StoreCommit \/ StopRunning \/ StopQueued
  BY <1>3 DEF StoreCommit, StopRunning, StopQueued, WriteLog
<1>4. QED
  BY <1>1, <1>2, <1>3 DEF Next, Work, Run, Prepare, Ingest, SaveBranches,
     FinalizePullRequestAnalysis, Predict, PredictByJob, runNext, Fail, Crash, WriteLog

(* A step keeps RepoInv: no write leaves the repository unfinished without *)
(* a job in memory.                                                        *)
LEMMA NextRepoInv ==
    ASSUME Ranges, VersionInv, MemInv, LogInv, RepoInv, Next
    PROVE  RepoInv'
<1>1. CASE pc' # "idle"
  <2>1. up = "up" /\ up' = "up" /\ mem # <<>> /\ mem' # <<>> /\ cur' = cur /\ kind' = kind
    BY <1>1, HeadKept
  <2>2. "repo" \in orphans => "repo" \in orphans'
    BY <1>1, <2>1 DEF Next, Work, Boot, Push, PullRequestEvent, Run, saveStatus, Prepare, Ingest,
       StoreCommit, SaveBranches, FinalizePullRequestAnalysis, Predict, PredictByJob, Report, runNext,
       Fail, StopRunning, StopQueued, Crash, Recover, MigrateDelete, MigrateReset, AddRepository,
       history
  <2>3. StatusSteps
    BY StepOfStatus
  <2>4. ~MigrateDelete /\ ~MigrateReset
    BY <2>1 DEF MigrateDelete, MigrateReset
  <2>5. status'.repo = status.repo \/ kind # "pull"
    BY <2>3, <2>4 DEF StatusSteps, PullKinds
  <2>6. Unfinished(status.repo)' /\ "repo" \notin orphans' => mem' # <<>> /\ kind' # "pull"
    BY <2>1, <2>2, <2>5 DEF RepoInv, Unfinished
  <2>7. ASSUME pc' \in {"report", "done"}, kind' \notin PullKinds PROVE ~Unfinished(status.repo)'
    <3>1. CASE saveStatus
      <4>1. status'.repo = pc /\ pc \in {"Ready", "Failed", "Canceled"}
        <5>1. pc \in {"Ready", "Failed", "Canceled"}
          BY <2>7, <3>1, SaveSteps
        <5>2. ~Run /\ ~Report
          BY <5>1 DEF Run, Report
        <5>3. QED
          BY <2>1, <2>3, <2>4, <2>7, <3>1, <5>1, <5>2 DEF StatusSteps
      <4>2. QED
        BY <4>1 DEF Unfinished, notWorkingStages
    <3>2. CASE Report
      <4>1. pc = "report" /\ (UNCHANGED status \/ status'.repo = "Ready")
        <5>1. pc = "report" /\ ~saveStatus /\ ~Run
          BY <3>2 DEF Report, saveStatus, Run, Saving
        <5>2. QED
          BY <2>3, <2>4, <5>1 DEF StatusSteps
      <4>2. QED
        BY <2>1, <2>7, <4>1 DEF RepoInv, Unfinished, notWorkingStages
    <3>3. CASE pc' = pc /\ UNCHANGED status
      BY <2>1, <2>7, <3>3 DEF RepoInv, Unfinished
    <3>4. QED
      BY <2>7, <3>1, <3>2, <3>3, EndSteps
  <2>8. ASSUME pc' = "done", kind' = "check"
        PROVE  Last(LogOf(cur)') # "Ready" \/ status'.repo = "Ready"
    <3>1. CASE saveStatus
      <4>1. ChecksEnabled
        <5>1. cur \in DOMAIN jobs /\ KindOf(cur) = "check"
          BY <2>1, <2>8, JobsType DEF Ranges, KindOf, kind
        <5>2. QED
          BY <5>1 DEF MemInv
      <4>2. pc \in {"Failed", "Canceled"}
        BY <2>1, <2>8, <3>1, <4>1, SaveSteps
      <4>3. LogOf(cur)' = LogOf(cur)
        BY <1>1, <3>1, HeadKept DEF saveStatus
      <4>4. QED
        BY <4>2, <4>3 DEF LogInv
    <3>2. CASE Report
      <4>1. ~saveStatus /\ ~Run
        BY <3>2 DEF Report, saveStatus, Run, Saving
      <4>2. QED
        BY <2>1, <2>3, <2>4, <2>8, <3>2, <4>1 DEF StatusSteps
    <3>3. CASE /\ pc' = pc /\ UNCHANGED status
               /\ UNCHANGED jobs \/ \E k \in JobKinds : ProcessRepository(k)
      <4>1. LogOf(cur)' = LogOf(cur)
        BY <1>1, <3>3, HeadKept
      <4>2. QED
        BY <2>1, <2>8, <3>3, <4>1 DEF RepoInv
    <3>4. QED
      BY <2>8, <3>1, <3>2, <3>3, EndSteps
  <2>9. QED
    BY <2>6, <2>7, <2>8 DEF RepoInv, LogOf
<1>2. CASE pc' = "idle"
  <2>1. ASSUME up' \notin {"down", "add"}, Unfinished(status.repo)', "repo" \notin orphans'
        PROVE  mem' # <<>> /\ kind' # "pull"
    <3>1. CASE Push \/ PullRequestEvent
      <4>1. UNCHANGED <<status, up, orphans>>
        BY <3>1 DEF Push, PullRequestEvent, history
      <4>2. mem # <<>> /\ kind # "pull"
        BY <2>1, <4>1 DEF RepoInv, Unfinished
      <4>3. UNCHANGED <<jobs, mem>> \/ \E k \in {"update", "check", "pull"} : ProcessRepository(k)
        BY <3>1 DEF Push, PullRequestEvent
      <4>4. {"update", "check", "pull"} \subseteq JobKinds
        BY DEF JobKinds, UpdateKinds, PullKinds
      <4>5. ASSUME NEW k \in JobKinds, ProcessRepository(k) PROVE mem' # <<>> /\ kind' = kind
        BY <4>2, <4>5, SubmitsHead
      <4>6. CASE UNCHANGED <<jobs, mem>>
        BY <4>2, <4>6 DEF kind, cur
      <4>7. QED
        BY <4>2, <4>3, <4>4, <4>5, <4>6
    <3>2. CASE StopQueued \/ Crash
      BY <2>1, <3>2 DEF StopQueued, Crash
    <3>3. CASE Recover
      <4>1. UNCHANGED <<status, orphans>> /\ mem = <<>>
        BY <3>3 DEF Recover, history, MemInv
      <4>2. ProcessRepository("recover")
        BY <2>1, <3>3, <4>1 DEF Recover, Unfinished
      <4>3. "recover" \in JobKinds
        BY DEF JobKinds, UpdateKinds
      <4>4. QED
        BY <4>1, <4>2, <4>3, SubmitsHead
    <3>4. CASE MigrateDelete
      <4>1. status'.repo = status.repo
        BY <3>4, StepOfStatus DEF StatusSteps, MigrateDelete, MigrateReset, Ranges, saveStatus, Saving,
           Run, Report
      <4>2. UNCHANGED <<jobs, mem, orphans>> /\ up \notin {"down", "add"}
        BY <3>4 DEF MigrateDelete, history
      <4>3. QED
        BY <2>1, <4>1, <4>2 DEF RepoInv, Unfinished, kind, cur
    <3>5. CASE MigrateReset
      BY <2>1, <3>5 DEF MigrateReset
    <3>6. CASE AddRepository
      <4>1. ProcessRepository("added") /\ "added" \in JobKinds
        BY <3>6 DEF AddRepository, JobKinds
      <4>2. mem # <<>> => kind = "recover"
        <5>1. ASSUME mem # <<>> PROVE kind = "recover"
          <6>1. 1 \in DOMAIN mem /\ cur = mem[1]
            BY <5>1, JobsType DEF Ranges
          <6>2. KindOf(mem[1]) = "recover"
            BY <3>6, <6>1 DEF MemInv, AddRepository
          <6>3. QED
            BY <6>1, <6>2 DEF KindOf, kind
        <5>2. QED
          BY <5>1
      <4>3. QED
        BY <4>1, <4>2, SubmitsHead
    <3>7. CASE runNext /\ pc = "done"
      <4>1. mem # <<>> /\ kind \in JobKinds /\ UNCHANGED <<status, up>> /\ up = "up"
        BY <3>7, JobsType DEF Ranges, runNext, kind, KindOf
      <4>2. CASE kind = "pull"
        <5>1. UNCHANGED orphans
          BY <3>7, <4>2 DEF runNext, PullKinds
        <5>2. QED
          BY <2>1, <4>1, <4>2, <5>1 DEF RepoInv, Unfinished
      <4>3. CASE kind = "check"
        <5>1. CASE Last(LogOf(cur)) # "Ready"
          BY <2>1, <3>7, <4>3, <5>1 DEF runNext, LogOf
        <5>2. CASE status.repo = "Ready"
          BY <2>1, <4>1, <5>2 DEF Unfinished, notWorkingStages
        <5>3. QED
          BY <3>7, <4>3, <5>1, <5>2 DEF RepoInv
      <4>4. CASE kind \notin PullKinds
        BY <2>1, <3>7, <4>1, <4>4 DEF RepoInv, Unfinished
      <4>5. QED
        BY <4>2, <4>3, <4>4 DEF PullKinds
    <3>8. QED
      BY <1>2, <3>1, <3>2, <3>3, <3>4, <3>5, <3>6, <3>7, IdleSteps DEF Boot
  <2>2. QED
    BY <1>2, <2>1 DEF RepoInv, Unfinished
<1>3. QED
  BY <1>1, <1>2

----------------------------------------------------------------------------
(* The pull request.                                                       *)

(* A kind of job gets into memory by a submission, and out of it by the    *)
(* end of a job, a stop or a crash.                                        *)
LEMMA QueueMoves ==
    ASSUME Ranges, Next, NEW S
    PROVE  /\ Owned(S)' => Owned(S) \/ \E k \in JobKinds : k \in S /\ Submits(k)
           /\ Owned(S) => Owned(S)' \/ (runNext /\ kind \in S) \/ StopRunning \/ StopQueued \/ Crash
           /\ \A k \in JobKinds : k \in S /\ ProcessRepository(k) => Owned(S)'
<1>1. TypeOK /\ Kept
  BY StepKeeps DEF Ranges
<1>2. /\ Len(jobs) \in Nat /\ DOMAIN jobs = 1..Len(jobs) /\ Len(mem) \in Nat /\ DOMAIN mem = 1..Len(mem)
      /\ mem # <<>> => cur = mem[1] /\ 1 \in DOMAIN mem /\ cur \in 1..Len(jobs)
      /\ \A i \in DOMAIN mem : mem[i] \in 1..Len(jobs)
  BY <1>1, JobsType
<1>3. \A j \in 1..Len(jobs) : jobs'[j].kind = jobs[j].kind
  BY <1>1 DEF Kept
<1>4. ASSUME NEW k \in JobKinds, ProcessRepository(k)
      PROVE  /\ Owned(S)' => Owned(S) \/ k \in S
             /\ Owned(S) => Owned(S)'
             /\ k \in S => Owned(S)'
  <2>1. /\ jobs'[Len(jobs) + 1].kind = k
        /\ mem' \in Seq(1..Len(jobs')) /\ Len(mem') = Len(mem) + 1
        /\ \A i \in DOMAIN mem : mem'[i] = mem[i]
        /\ mem'[Len(mem) + 1] = Len(jobs) + 1
    BY <1>1, <1>4, ProcessEffect
  <2>2. DOMAIN mem' = 1..Len(mem) + 1
    BY <2>1
  <2>3. DOMAIN mem' = DOMAIN mem \cup {Len(mem) + 1}
    BY <1>2, <2>2
  <2>4. \A i \in DOMAIN mem : jobs'[mem'[i]].kind = jobs[mem[i]].kind
    BY <1>2, <1>3, <2>1
  <2>5. QED
    BY <2>1, <2>3, <2>4 DEF Owned
<1>5. ASSUME UNCHANGED mem PROVE Owned(S)' <=> Owned(S)
  <2>1. \A i \in DOMAIN mem : jobs'[mem'[i]].kind = jobs[mem[i]].kind
    BY <1>2, <1>3, <1>5
  <2>2. QED
    BY <1>5, <2>1 DEF Owned
<1>6. ASSUME mem # <<>>, mem' = Tail(mem)
      PROVE  (Owned(S)' => Owned(S)) /\ (Owned(S) => Owned(S)' \/ kind \in S)
  <2>1. /\ Len(mem') = Len(mem) - 1 /\ mem' \in Seq(1..Len(jobs))
        /\ \A i \in DOMAIN mem' : i + 1 \in DOMAIN mem /\ mem'[i] = mem[i + 1]
    BY <1>1, <1>6, TailEffect
  <2>2. DOMAIN mem' = 1..Len(mem) - 1
    BY <2>1
  <2>3. Owned(S)' => Owned(S)
    BY <1>2, <1>3, <2>1 DEF Owned
  <2>4. ASSUME NEW i \in DOMAIN mem, jobs[mem[i]].kind \in S PROVE Owned(S)' \/ kind \in S
    <3>1. CASE i = 1
      BY <1>2, <1>6, <2>4, <3>1 DEF kind
    <3>2. CASE i # 1
      <4>1. i - 1 \in DOMAIN mem' /\ (i - 1) + 1 = i
        BY <1>2, <2>2, <3>2
      <4>2. mem'[i - 1] = mem[i]
        BY <2>1, <4>1
      <4>3. jobs'[mem'[i - 1]].kind \in S
        BY <1>2, <1>3, <2>4, <4>2
      <4>4. QED
        BY <4>1, <4>3 DEF Owned
    <3>3. QED
      BY <3>1, <3>2
  <2>5. QED
    BY <2>3, <2>4 DEF Owned
<1>7. ASSUME mem # <<>>, mem' = <<cur>> PROVE Owned(S)' => Owned(S)
  <2>1. DOMAIN mem' = {1} /\ mem'[1] = mem[1]
    BY <1>2, <1>7
  <2>2. QED
    BY <1>2, <1>3, <1>7, <2>1 DEF Owned
<1>8. ASSUME mem' = <<>> PROVE ~Owned(S)'
  BY <1>8 DEF Owned
<1>9. QED
  BY <1>4, <1>5, <1>6, <1>7, <1>8, StepOfJobs DEF Submits

(* How the fields of the pull request may change.                          *)
PullSteps ==
    \/ UNCHANGED pull /\ ~FinalizePullRequestAnalysis
    \/ /\ PullRequestEvent \/ Ingest
       /\ pull'.stored /\ pull'.analyzedHead = pull.analyzedHead
    \/ FinalizePullRequestAnalysis /\ pull'.analyzedHead /\ pull'.stored = pull.stored
    \/ MigrateDelete /\ ~pull'.stored /\ ~pull'.analyzedHead

(* Every step changes them in one of these ways.                           *)
LEMMA StepOfPull ==
    ASSUME Ranges, Next
    PROVE  PullSteps
<1>1. pull \in [stored : BOOLEAN, analyzedHead : BOOLEAN]
  BY DEF Ranges, TypeOK
<1>2. /\ [pull EXCEPT !.stored = TRUE].stored
      /\ [pull EXCEPT !.stored = TRUE].analyzedHead = pull.analyzedHead
      /\ [pull EXCEPT !.analyzedHead = TRUE].analyzedHead
      /\ [pull EXCEPT !.analyzedHead = TRUE].stored = pull.stored
  BY <1>1
<1>3. CASE FinalizePullRequestAnalysis
  <2>1. pull' = [pull EXCEPT !.analyzedHead = TRUE]
    BY <1>3 DEF FinalizePullRequestAnalysis
  <2>2. pull'.analyzedHead /\ pull'.stored = pull.stored
    BY <1>2, <2>1
  <2>3. QED
    BY <1>3, <2>2 DEF PullSteps
<1>4. CASE PullRequestEvent \/ Ingest
  <2>1. ~FinalizePullRequestAnalysis
    BY <1>4 DEF PullRequestEvent, Ingest, FinalizePullRequestAnalysis
  <2>2. UNCHANGED pull \/ pull' = [pull EXCEPT !.stored = TRUE]
    BY <1>4 DEF PullRequestEvent, Ingest
  <2>3. QED
    BY <1>2, <1>4, <2>1, <2>2 DEF PullSteps
<1>5. CASE MigrateDelete
  <2>1. ~FinalizePullRequestAnalysis
    BY <1>5 DEF Ranges, MigrateDelete, FinalizePullRequestAnalysis
  <2>2. UNCHANGED pull \/ pull' = [stored |-> FALSE, analyzedHead |-> FALSE]
    BY <1>5 DEF MigrateDelete
  <2>3. QED
    BY <1>5, <2>1, <2>2 DEF PullSteps
<1>6. CASE UNCHANGED pull /\ ~FinalizePullRequestAnalysis
  BY <1>6 DEF PullSteps
<1>7. UNCHANGED pull \/ PullRequestEvent \/ Ingest \/ FinalizePullRequestAnalysis \/ MigrateDelete
  BY DEF Next, Work, Boot, Push, Run, saveStatus, Prepare, StoreCommit, SaveBranches, Predict,
     PredictByJob, Report, runNext, Fail, StopRunning, StopQueued, Crash, Recover, MigrateReset,
     AddRepository, data
<1>8. QED
  BY <1>3, <1>4, <1>5, <1>6, <1>7

(* What was left behind for the pull request stays so, and every stop and  *)
(* crash leaves it behind.                                                 *)
LEMMA OrphanSteps ==
    ASSUME Next
    PROVE  /\ "pull" \in orphans => "pull" \in orphans'
           /\ StopRunning \/ StopQueued \/ Crash => "pull" \in orphans'
<1>1. CASE StopRunning \/ StopQueued \/ Crash
  BY <1>1 DEF StopRunning, StopQueued, Crash
<1>2. CASE runNext
  BY <1>1, <1>2 DEF runNext
<1>3. CASE UNCHANGED orphans /\ ~(StopRunning \/ StopQueued \/ Crash)
  BY <1>3
<1>4. QED
  BY <1>1, <1>2, <1>3 DEF Next, Work, Boot, Push, PullRequestEvent, Run, saveStatus, Prepare, Ingest,
     StoreCommit, SaveBranches, FinalizePullRequestAnalysis, Predict, PredictByJob, Report, Fail,
     Recover, MigrateDelete, MigrateReset, AddRepository, history

(* A step keeps PullInv.                                                   *)
LEMMA NextPullInv ==
    ASSUME Ranges, VersionInv, MemInv, LogInv, PullInv, Next
    PROVE  PullInv'
<1>1. up' # "up" => "pull" \in orphans'
  <2>1. up' # "up" => up # "up" \/ Crash
    BY DEF Next, Work, Boot, Push, PullRequestEvent, Run, saveStatus, Prepare, Ingest,
     StoreCommit, SaveBranches, FinalizePullRequestAnalysis, Predict, PredictByJob, Report, runNext,
     Fail,
     StopRunning, StopQueued, Recover, MigrateDelete, MigrateReset, AddRepository
  <2>2. QED
    BY <2>1, OrphanSteps DEF PullInv
<1>2. \A i \in DOMAIN mem : jobs[mem[i]].kind \in PullKinds => up = "up"
  BY DEF MemInv, KindOf, PullKinds
<1>3. Owned(PullKinds) => up = "up"
  BY <1>2 DEF Owned
<1>4. PullSteps
  BY StepOfPull
<1>5. mem # <<>> /\ kind \in PullKinds => Owned(PullKinds)
  BY JobsType DEF Ranges, Owned, kind
<1>6. pull \in [stored : BOOLEAN, analyzedHead : BOOLEAN]
  BY DEF Ranges, TypeOK
<1>7. pull.stored => pull'.stored \/ MigrateDelete
  BY <1>4, <1>6 DEF PullSteps
<1>8. MigrateDelete => up # "up" /\ "pull" \in orphans' /\ UNCHANGED <<jobs, mem>>
  BY <1>1, OrphanSteps DEF MigrateDelete, PullInv
<1>9. base' # 0 => pull'.stored \/ "pull" \in orphans'
  <2>1. CASE PullRequestEvent
    BY <1>1, <1>6, <2>1, StepOfPull DEF PullSteps, PullRequestEvent
  <2>2. CASE UNCHANGED base
    BY <1>7, <1>8, <2>2, OrphanSteps DEF PullInv
  <2>3. QED
    BY <2>1, <2>2 DEF Next, Work, Boot, Push, Run, saveStatus, Prepare, Ingest,
     StoreCommit, SaveBranches, FinalizePullRequestAnalysis, Predict, PredictByJob, Report, runNext,
     Fail,
     StopRunning, StopQueued, Crash, Recover, MigrateDelete, MigrateReset, AddRepository, remote
<1>10. Owned(PullKinds)' => pull'.stored
  <2>1. ASSUME NEW k \in JobKinds, k \in PullKinds, Submits(k) PROVE pull'.stored
    BY <2>1 DEF Submits
  <2>2. CASE Owned(PullKinds)
    BY <1>3, <1>7, <1>8, <2>2 DEF PullInv
  <2>3. QED
    BY <2>1, <2>2, QueueMoves
<1>11. pull'.analyzedHead => pull'.stored
  <2>1. FinalizePullRequestAnalysis => pull.stored
    BY <1>5 DEF FinalizePullRequestAnalysis, Ranges, LogInv, PullInv
  <2>2. QED
    BY <1>4, <1>6, <2>1 DEF PullSteps, PullInv
<1>12. ASSUME pc' \in {"report", "done"}, kind' \in PullKinds PROVE ~Unfinished(status.pull)'
  <2>1. mem # <<>> /\ kind' = kind /\ up = "up"
    BY <1>12, HeadKept
  <2>2. CASE saveStatus
    <3>1. pc \in {"Ready", "Failed", "Canceled"}
      BY <1>12, <2>2, SaveSteps
    <3>2. ~Run /\ ~Report /\ ~MigrateDelete /\ ~MigrateReset
      BY <2>1, <3>1 DEF Run, Report, MigrateDelete, MigrateReset
    <3>3. status'.pull = pc
      BY <1>12, <2>1, <2>2, <3>2, StepOfStatus DEF StatusSteps
    <3>4. QED
      BY <3>1, <3>3 DEF Unfinished, notWorkingStages
  <2>3. CASE Report
    <3>1. pc = "report" /\ ~saveStatus /\ ~Run /\ ~MigrateDelete /\ ~MigrateReset
      BY <2>1, <2>3 DEF Report, Run, saveStatus, Saving, MigrateDelete, MigrateReset
    <3>2. status'.pull = status.pull
      BY <3>1, StepOfStatus DEF StatusSteps
    <3>3. QED
      BY <1>12, <2>1, <3>1, <3>2 DEF PullInv, Unfinished
  <2>4. CASE pc' = pc /\ UNCHANGED status
    BY <1>12, <2>1, <2>4 DEF PullInv, Unfinished
  <2>5. QED
    BY <1>12, <2>2, <2>3, <2>4, EndSteps
<1>13. ASSUME pull'.stored, Unfinished(status.pull)', ~Owned(PullKinds)', "pull" \notin orphans'
       PROVE  FALSE
  <2>1. up = "up" /\ up' = "up" /\ "pull" \notin orphans /\ ~StopRunning /\ ~StopQueued /\ ~Crash
    BY <1>1, <1>13, OrphanSteps DEF PullInv
  <2>2. \A k \in JobKinds : ~(k \in PullKinds /\ ProcessRepository(k))
    BY <1>13, QueueMoves
  <2>3. CASE pull.stored /\ Unfinished(status.pull)
    <3>1. Owned(PullKinds)
      BY <2>1, <2>3 DEF PullInv
    <3>2. runNext /\ kind \in PullKinds
      BY <1>13, <2>1, <3>1, QueueMoves
    <3>3. QED
      BY <1>13, <2>3, <3>2 DEF PullInv, runNext
  <2>4. CASE ~Unfinished(status.pull)
    <3>1. status'.pull # status.pull
      BY <1>13, <2>4 DEF Unfinished
    <3>2. saveStatus /\ kind \in PullKinds
      BY <2>1, <3>1, StepOfStatus DEF StatusSteps, MigrateDelete
    <3>3. Owned(PullKinds) /\ ~runNext
      BY <1>5, <3>2 DEF Ranges, saveStatus, Saving, runNext
    <3>4. QED
      BY <1>13, <2>1, <3>3, QueueMoves
  <2>5. CASE ~pull.stored
    <3>1. base = 0
      BY <2>1, <2>5 DEF PullInv
    <3>2. PullRequestEvent \/ Ingest
      BY <1>4, <1>13, <2>5 DEF PullSteps
    <3>3. CASE PullRequestEvent
      <4>1. ~pull.analyzedHead
        BY <1>6, <2>5 DEF PullInv
      <4>2. ProcessRepository("check") \/ ProcessRepository("pull")
        BY <2>1, <3>1, <3>3, <4>1 DEF PullRequestEvent
      <4>3. QED
        BY <2>2, <4>2 DEF JobKinds, PullKinds
    <3>4. CASE Ingest
      BY <1>13, <2>5, <3>1, <3>4 DEF Ingest
    <3>5. QED
      BY <3>2, <3>3, <3>4
  <2>6. QED
    BY <2>3, <2>4, <2>5
<1>14. QED
  BY <1>1, <1>9, <1>10, <1>11, <1>12, <1>13 DEF PullInv

----------------------------------------------------------------------------
(* Checks.                                                                 *)

(* Only a job of the pull request that is at its walk or past it stores    *)
(* the head of the pull request, or records it as analysed.                *)
LEMMA PullHeadUntouched ==
    ASSUME RecoveryAssumption, Ranges, LogInv, CoverInv, Next,
           kind \notin PullKinds \/ mem = <<>> \/ pc \notin {"analyze", "finalize"}
    PROVE  /\ commitJob[PullHead] = 0 => commitJob'[PullHead] = 0
           /\ ~pull.analyzedHead => ~pull'.analyzedHead
<1>1. /\ commitJob \in [Commits -> 0..Len(jobs)] /\ PullHead \in Commits
      /\ PullHead \notin 1..fetched
  BY DEF Ranges, TypeOK, RecoveryAssumption, PullHead, Commits
<1>2. pc # "idle" => mem # <<>>
  BY DEF Ranges
<1>3. ASSUME StoreCommit PROVE commitJob'[PullHead] = commitJob[PullHead]
  <2>1. kind \notin PullKinds /\ pc = "analyze"
    BY <1>2, <1>3 DEF StoreCommit
  <2>2. start \subseteq 1..fetched
    BY <2>1 DEF CoverInv
  <2>3. Unanalysed # {} /\ Unanalysed \subseteq start
    BY <1>3 DEF StoreCommit, Unanalysed
  <2>4. PICK c : commitJob' = [commitJob EXCEPT ![c] = cur] /\ c \in Unanalysed
    <3> DEFINE c == CHOOSE x \in Unanalysed : \A y \in Unanalysed : x <= y
    <3>1. \E x \in Unanalysed : \A y \in Unanalysed : x <= y
      <4>1. Unanalysed \in SUBSET Nat
        BY <2>2, <2>3 DEF Ranges
      <4>2. QED
        BY <2>3, <4>1, NatLeast
    <3>2. c \in Unanalysed
      BY <3>1
    <3>3. commitJob' = [commitJob EXCEPT ![c] = cur]
      BY <1>3 DEF StoreCommit
    <3> HIDE DEF c
    <3>4. QED
      BY <3>2, <3>3
  <2>5. c # PullHead
    BY <1>1, <2>2, <2>3, <2>4
  <2>6. QED
    BY <1>1, <2>4, <2>5
<1>4. commitJob[PullHead] = 0 => commitJob'[PullHead] = 0
  <2>1. CASE MigrateDelete
    BY <1>1, <2>1 DEF MigrateDelete
  <2>2. CASE UNCHANGED commitJob
    BY <2>2
  <2>3. QED
    BY <1>3, <2>1, <2>2 DEF Next, Work, Boot, Push, PullRequestEvent, Run, saveStatus, Prepare, Ingest,
       SaveBranches, FinalizePullRequestAnalysis, Predict, PredictByJob, Report, runNext,
     Fail,
       StopRunning, StopQueued, Crash, Recover, MigrateReset, AddRepository, data
<1>5. ~pull.analyzedHead => ~pull'.analyzedHead
  <2>1. pull \in [stored : BOOLEAN, analyzedHead : BOOLEAN]
    BY DEF Ranges, TypeOK
  <2>2. ~FinalizePullRequestAnalysis
    BY <1>2 DEF FinalizePullRequestAnalysis, LogInv
  <2>3. QED
    BY <2>1, <2>2, StepOfPull DEF PullSteps
<1>6. QED
  BY <1>4, <1>5

(* The stages before the walk.                                             *)
Early == {"idle", "startCheck", "Progressing", "prepare", "ingest"}

(* A check is only made when the pull request is opened, so none is behind *)
(* another job of the pull request.                                        *)
LEMMA ChecksComeFirst ==
    ASSUME Ranges, MemInv, CheckInv, Next
    PROVE  \A i, j \in DOMAIN mem' :
              jobs'[mem'[i]].kind = "check" /\ jobs'[mem'[j]].kind \in PullKinds => i <= j
<1>1. TypeOK /\ Kept
  BY StepKeeps DEF Ranges
<1>2. /\ Len(jobs) \in Nat /\ DOMAIN jobs = 1..Len(jobs) /\ Len(mem) \in Nat /\ DOMAIN mem = 1..Len(mem)
      /\ mem # <<>> => cur = mem[1] /\ 1 \in DOMAIN mem /\ cur \in 1..Len(jobs)
      /\ \A i \in DOMAIN mem : mem[i] \in 1..Len(jobs)
  BY <1>1, JobsType
<1>3. \A j \in 1..Len(jobs) : jobs'[j].kind = jobs[j].kind
  BY <1>1 DEF Kept
<1>4. \A i, j \in DOMAIN mem :
        jobs[mem[i]].kind = "check" /\ jobs[mem[j]].kind \in PullKinds => i <= j
  BY DEF CheckInv, KindOf
<1>5. ASSUME NEW k \in JobKinds, Submits(k),
             NEW i \in DOMAIN mem', NEW j \in DOMAIN mem',
             jobs'[mem'[i]].kind = "check", jobs'[mem'[j]].kind \in PullKinds
      PROVE  i <= j
  <2>1. /\ jobs'[Len(jobs) + 1].kind = k
        /\ mem' \in Seq(1..Len(jobs')) /\ Len(mem') = Len(mem) + 1
        /\ \A h \in DOMAIN mem : mem'[h] = mem[h]
        /\ mem'[Len(mem) + 1] = Len(jobs) + 1
    BY <1>1, <1>5, ProcessEffect DEF Submits
  <2>2. DOMAIN mem' = 1..Len(mem) + 1
    BY <2>1
  <2>3. \A h \in DOMAIN mem : jobs'[mem'[h]].kind = jobs[mem[h]].kind
    BY <1>2, <1>3, <2>1
  <2>4. CASE j = Len(mem) + 1
    BY <1>2, <2>2, <2>4
  <2>5. CASE i \in DOMAIN mem /\ j \in DOMAIN mem
    BY <1>4, <1>5, <2>3, <2>5
  <2>6. CASE i = Len(mem) + 1 /\ j \in DOMAIN mem
    <3>1. k = "check"
      BY <1>5, <2>1, <2>6
    <3>2. base = 0
      BY <1>5, <3>1 DEF Submits
    <3>3. ~Owned(PullKinds)
      BY <3>2 DEF CheckInv
    <3>4. QED
      BY <1>5, <2>3, <2>6, <3>3 DEF Owned
  <2>7. QED
    BY <1>2, <2>2, <2>4, <2>5, <2>6
<1>6. ASSUME UNCHANGED mem,
             NEW i \in DOMAIN mem', NEW j \in DOMAIN mem',
             jobs'[mem'[i]].kind = "check", jobs'[mem'[j]].kind \in PullKinds
      PROVE  i <= j
  <2>1. \A h \in DOMAIN mem : jobs'[mem'[h]].kind = jobs[mem[h]].kind
    BY <1>2, <1>3, <1>6
  <2>2. QED
    BY <1>4, <1>6, <2>1
<1>7. ASSUME mem # <<>>, mem' = Tail(mem),
             NEW i \in DOMAIN mem', NEW j \in DOMAIN mem',
             jobs'[mem'[i]].kind = "check", jobs'[mem'[j]].kind \in PullKinds
      PROVE  i <= j
  <2>1. /\ Len(mem') = Len(mem) - 1 /\ mem' \in Seq(1..Len(jobs))
        /\ \A h \in DOMAIN mem' : h + 1 \in DOMAIN mem /\ mem'[h] = mem[h + 1]
    BY <1>1, <1>7, TailEffect
  <2>2. DOMAIN mem' = 1..Len(mem) - 1
    BY <2>1
  <2>3. \A h \in DOMAIN mem' : jobs'[mem'[h]].kind = jobs[mem[h + 1]].kind
    BY <1>2, <1>3, <2>1
  <2>4. i + 1 <= j + 1
    BY <1>4, <1>7, <2>1, <2>3
  <2>5. QED
    BY <1>2, <1>7, <2>2, <2>4
<1>8. ASSUME mem' = <<cur>>, NEW i \in DOMAIN mem', NEW j \in DOMAIN mem' PROVE i <= j
  BY <1>8
<1>9. CASE mem' = <<>>
  BY <1>9
<1>10. QED
  BY <1>5, <1>6, <1>7, <1>8, <1>9, StepOfJobs

(* A step keeps CheckInv.                                                  *)
LEMMA NextCheckInv ==
    ASSUME RecoveryAssumption, Ranges, VersionInv, MemInv, LogInv, CheckInv, CoverInv, Next
    PROVE  CheckInv'
<1>1. \A i, j \in DOMAIN mem' :
        jobs'[mem'[i]].kind = "check" /\ jobs'[mem'[j]].kind \in PullKinds => i <= j
  BY ChecksComeFirst
<1>2. mem # <<>> => (kind \in PullKinds => Owned(PullKinds))
  BY JobsType DEF Ranges, Owned, kind
<1>3. ASSUME base = 0 PROVE commitJob'[PullHead] = 0 /\ ~pull'.analyzedHead
  <2>1. kind \notin PullKinds \/ mem = <<>>
    BY <1>2, <1>3 DEF CheckInv
  <2>2. QED
    BY <1>3, <2>1, PullHeadUntouched DEF CheckInv
<1>4. ASSUME base' = 0
      PROVE ~Owned(PullKinds)' /\ commitJob'[PullHead] = 0 /\ ~pull'.analyzedHead
  <2>1. base = 0
    <3>1. CASE PullRequestEvent
      BY <1>4, <3>1 DEF PullRequestEvent, Ranges
    <3>2. CASE UNCHANGED base
      BY <1>4, <3>2
    <3>3. QED
      BY <3>1, <3>2 DEF Next, Work, Boot, Push, Run, saveStatus, Prepare, Ingest,
         StoreCommit, SaveBranches, FinalizePullRequestAnalysis, Predict, PredictByJob, Report,
         runNext, Fail, StopRunning, StopQueued, Crash, Recover, MigrateDelete, MigrateReset,
         AddRepository, remote
  <2>2. ~Owned(PullKinds)
    BY <2>1 DEF CheckInv
  <2>3. \A k \in JobKinds : ~(k \in PullKinds /\ Submits(k))
    BY <1>4 DEF Submits
  <2>4. ~Owned(PullKinds)'
    BY <2>2, <2>3, QueueMoves
  <2>5. QED
    BY <1>3, <2>1, <2>4
<1>5. ASSUME Owned({"check"})', kind' # "check" \/ pc' \in Early
      PROVE  commitJob'[PullHead] = 0 /\ ~pull'.analyzedHead
  <2>1. CASE base = 0
    BY <1>3, <2>1
  <2>2. CASE base # 0
    <3>1. \A k \in JobKinds : ~(k \in {"check"} /\ Submits(k))
      BY <2>2 DEF Submits
    <3>2. Owned({"check"})
      BY <1>5, <3>1, QueueMoves
    <3>3. PICK i \in DOMAIN mem : jobs[mem[i]].kind = "check"
      BY <3>2 DEF Owned
    <3>4. /\ Len(mem) \in Nat /\ DOMAIN mem = 1..Len(mem) /\ mem # <<>>
          /\ cur = mem[1] /\ 1 \in DOMAIN mem /\ i \in Nat /\ i >= 1
      BY <3>3, JobsType DEF Ranges
    <3>5. ASSUME kind # "check" PROVE kind \notin PullKinds
      <4>1. kind \in PullKinds => i <= 1
        BY <3>3, <3>4 DEF CheckInv, KindOf, kind
      <4>2. i # 1
        BY <3>3, <3>4, <3>5 DEF kind
      <4>3. QED
        BY <3>4, <4>1, <4>2
    <3>6. CASE kind # "check" \/ pc \in Early
      <4>1. commitJob[PullHead] = 0 /\ ~pull.analyzedHead
        BY <3>2, <3>6 DEF CheckInv, Early
      <4>2. kind \notin PullKinds \/ mem = <<>> \/ pc \notin {"analyze", "finalize"}
        BY <3>5, <3>6 DEF Early
      <4>3. QED
        BY <4>1, <4>2, PullHeadUntouched
    <3>7. CASE kind = "check" /\ pc \notin Early
      <4>1. CASE pc' # "idle"
        <5>1. kind' = "check"
          BY <3>7, <4>1, HeadKept
        <5>2. CASE saveStatus
          <6>1. pc \in {"Predicting", "Ready", "Failed", "Canceled"}
            BY <3>7, <5>2, SaveSteps DEF Early
          <6>2. pc' \in {"ask", "report", "done"}
            BY <5>2, <6>1, SaveSteps
          <6>3. QED
            BY <1>5, <5>1, <6>2 DEF Early
        <5>3. CASE UNCHANGED pc
          BY <1>5, <3>7, <5>1, <5>3
        <5>4. CASE ~saveStatus /\ pc' # pc
          <6>1. pc' \notin Early
            BY <3>7, <4>1, <5>4 DEF Next, Work, Boot, Push, PullRequestEvent, Run, Prepare, Ingest,
               StoreCommit, SaveBranches, FinalizePullRequestAnalysis, Predict, PredictByJob, Report,
               runNext, Fail, StopRunning, StopQueued, Crash, Recover, MigrateDelete, MigrateReset,
               AddRepository, Early, WriteLog
          <6>2. QED
            BY <1>5, <5>1, <6>1
        <5>5. QED
          BY <5>2, <5>3, <5>4
      <4>2. CASE pc' = "idle"
        <5>1. runNext \/ Crash
          BY <3>7, <4>2, IdleSteps DEF Early
        <5>2. CASE Crash
          BY <1>5, <5>2 DEF Crash, Owned
        <5>3. CASE runNext
          <6>1. mem' = Tail(mem) /\ UNCHANGED jobs
            BY <5>3 DEF runNext
          <6>2. PICK h \in DOMAIN mem' : jobs'[mem'[h]].kind = "check"
            BY <1>5 DEF Owned
          <6>3. h + 1 \in DOMAIN mem /\ mem'[h] = mem[h + 1] /\ h \in Nat /\ h >= 1
            <7>1. TypeOK
              BY DEF Ranges
            <7>2. Tail(mem) \in Seq(1..Len(jobs))
              BY <3>4, <7>1, TailEffect
            <7>3. DOMAIN mem' = 1..Len(mem')
              BY <6>1, <7>2
            <7>4. Len(mem') \in Nat
              BY <6>1, <7>2
            <7>5. QED
              BY <3>4, <6>1, <6>2, <7>1, <7>3, <7>4, TailEffect
          <6>4. h + 1 <= 1
            BY <3>4, <3>7, <6>1, <6>2, <6>3 DEF CheckInv, KindOf, kind, PullKinds
          <6>5. QED
            BY <6>3, <6>4
        <5>4. QED
          BY <5>1, <5>2, <5>3
      <4>3. QED
        BY <4>1, <4>2
    <3>8. QED
      BY <3>6, <3>7
  <2>3. QED
    BY <2>1, <2>2
<1>6. QED
  BY <1>1, <1>4, <1>5 DEF CheckInv, KindOf, Early

----------------------------------------------------------------------------
(* Commits.                                                                *)

(* A commit is stored by the walk of the running job, one at a time, and   *)
(* only the migration deletes commits.                                     *)
LEMMA StepOfCommits ==
    ASSUME RecoveryAssumption, Ranges, Next
    PROVE  \/ UNCHANGED commitJob
           \/ /\ StoreCommit /\ mem # <<>> /\ cur \in 1..Len(jobs)
              /\ \E c \in Unanalysed : commitJob' = [commitJob EXCEPT ![c] = cur]
           \/ /\ MigrateDelete /\ up = "deleteCommits"
              /\ commitJob' = [c \in Commits |-> 0] /\ predicted' = {}
<1>1. CASE StoreCommit
  <2>1. mem # <<>> /\ cur \in 1..Len(jobs)
    BY <1>1, JobsType DEF Ranges, StoreCommit
  <2>2. Unanalysed # {} /\ Unanalysed \in SUBSET Nat
    <3>1. start \subseteq Commits /\ Commits \subseteq Nat
      BY DEF Ranges, TypeOK, Commits, PullHead, RecoveryAssumption
    <3>2. QED
      BY <1>1, <3>1 DEF StoreCommit, Unanalysed
  <2> DEFINE c == CHOOSE x \in Unanalysed : \A y \in Unanalysed : x <= y
  <2>3. c \in Unanalysed
    <3>1. \E x \in Unanalysed : \A y \in Unanalysed : x <= y
      BY <2>2, NatLeast
    <3>2. QED
      BY <3>1
  <2>4. commitJob' = [commitJob EXCEPT ![c] = cur]
    BY <1>1 DEF StoreCommit
  <2> HIDE DEF c
  <2>5. QED
    BY <1>1, <2>1, <2>3, <2>4
<1>2. CASE MigrateDelete
  BY <1>2 DEF MigrateDelete
<1>3. QED
  BY <1>1, <1>2 DEF Next, Work, Boot, Push, PullRequestEvent, Run, saveStatus, Prepare, Ingest,
     SaveBranches, FinalizePullRequestAnalysis, Predict, PredictByJob, Report, runNext,
     Fail,
     StopRunning, StopQueued, Crash, Recover, MigrateReset, AddRepository, data

(* A commit that is covered stays so, but for the migration and a job that *)
(* looks at the whole branch again.                                        *)
LEMMA CoveredKept ==
    ASSUME RecoveryAssumption, Ranges, Next, ~MigrateDelete, ~MigrateReset,
           Ingest => kind \in PullKinds,
           NEW c \in Commits, commitJob[c] # 0 \/ c \in skipped
    PROVE  commitJob'[c] # 0 \/ c \in skipped'
<1>1. commitJob \in [Commits -> 0..Len(jobs)] /\ Len(jobs) \in Nat
  BY JobsType DEF Ranges, TypeOK
<1>2. commitJob[c] # 0 => commitJob'[c] # 0
  <2>1. CASE UNCHANGED commitJob
    BY <2>1
  <2>2. ASSUME NEW d \in Unanalysed, cur \in 1..Len(jobs),
                     commitJob' = [commitJob EXCEPT ![d] = cur]
        PROVE  commitJob[c] # 0 => commitJob'[c] # 0
    BY <1>1, <2>2
  <2>3. QED
    BY <2>1, <2>2, StepOfCommits
<1>3. skipped \subseteq skipped'
  <2>1. CASE Ingest
    <3>1. kind \in PullKinds
      BY <2>1
    <3>2. skipped' \in {skipped \cup PassedOver, skipped}
      BY <2>1, <3>1 DEF Ingest
    <3>3. QED
      BY <3>2
  <2>2. CASE ~Ingest
    BY <2>2 DEF Next, Work, Boot, Push, PullRequestEvent, Run, saveStatus, Prepare, StoreCommit,
     SaveBranches, FinalizePullRequestAnalysis, Predict, PredictByJob, Report, runNext,
     Fail,
     StopRunning, StopQueued, Crash, Recover, AddRepository, history
  <2>3. QED
    BY <2>1, <2>2
<1>4. QED
  BY <1>2, <1>3

(* A job of the branch that ingests will analyse what is neither recorded  *)
(* nor stored, or passes over it; a check does if it analyses nothing.     *)
LEMMA IngestCovers ==
    ASSUME RecoveryAssumption, Ranges, Ingest, kind # "pull",
           \A c \in 1..heads : commitJob[c] # 0 \/ c \in skipped
    PROVE  /\ UNCHANGED <<commitJob, fetched, status, taken, version>>
           /\ \A c \in 1..heads' : commitJob[c] # 0 \/ c \in skipped'
           /\ kind = "check" => heads' = heads
           /\ start' = {} \/ kind \notin PullKinds =>
                 \A c \in 1..fetched : c <= heads' \/ commitJob[c] # 0 \/ c \in start' \/ c \in skipped'
           /\ kind \notin PullKinds => start' \subseteq 1..fetched
<1>1. /\ fetched \in Nat /\ heads \in Nat /\ heads <= fetched
      /\ UNCHANGED <<commitJob, fetched, status, taken, version>>
      /\ start' = StartPoints(linked')
      /\ heads' = IF heads = 0 /\ kind \notin PullKinds /\ 1 \notin linked' THEN fetched ELSE heads
      /\ skipped' =
            IF kind \in PullKinds
              THEN IF kind = "check" /\ start' = {} THEN skipped \cup PassedOver ELSE skipped
              ELSE IF 1..fetched \subseteq linked' THEN skipped \cap 1..heads
                                                 ELSE skipped \cup (PassedOver \ start')
  BY DEF Ingest, Ranges, TypeOK
<1>2. CASE kind = "check"
  <2>1. kind \in PullKinds /\ heads' = heads
    BY <1>1, <1>2 DEF PullKinds
  <2>2. skipped' = IF start' = {} THEN skipped \cup PassedOver ELSE skipped
    BY <1>1, <1>2, <2>1
  <2>3. QED
    BY <1>1, <1>2, <2>1, <2>2 DEF PassedOver
<1>3. CASE kind \notin PullKinds
  <2>1. Unseen = PassedOver /\ PassedOver \subseteq 1..fetched
    <3>1. FirstHead = fetched /\ fetched # PullHead
      BY <1>3 DEF FirstHead, PullHead, Ranges, TypeOK, RecoveryAssumption
    <3>2. QED
      BY <1>3, <3>1 DEF Unseen, Down, PassedOver
  <2>2. start' = IF heads = 0 THEN {c \in PassedOver : 1..c \subseteq linked'}
                 ELSE IF PassedOver \subseteq linked' THEN PassedOver ELSE {}
    BY <1>1, <1>3, <2>1 DEF StartPoints
  <2>3. CASE 1..fetched \subseteq linked'
    <3>1. start' = PassedOver
      <4>1. \A c \in PassedOver : 1..c \subseteq linked' /\ c \in linked'
        BY <1>1, <2>1, <2>3
      <4>2. QED
        BY <2>2, <4>1
    <3>2. skipped' = skipped \cap 1..heads
      BY <1>1, <1>3, <2>3
    <3>3. 1..heads' = 1..heads
      BY <1>1, <2>3
    <3>4. heads' \in Nat /\ \A c \in 1..fetched : c \in 1..heads => c <= heads'
      BY <1>1, <3>3
    <3>5. QED
      BY <1>1, <1>3, <2>1, <3>1, <3>2, <3>3, <3>4 DEF PassedOver
  <2>4. CASE ~(1..fetched \subseteq linked')
    <3>1. skipped' = skipped \cup (PassedOver \ start')
      BY <1>1, <1>3, <2>4
    <3>2. ASSUME NEW c \in 1..heads' PROVE commitJob[c] # 0 \/ c \in skipped'
      <4>1. CASE heads' = heads
        BY <3>1, <3>2, <4>1
      <4>2. CASE heads' # heads
        <5>1. heads = 0 /\ 1 \notin linked' /\ heads' = fetched
          BY <1>1, <4>2
        <5>2. c \notin start'
          BY <1>1, <2>1, <2>2, <3>2, <5>1
        <5>3. QED
          BY <1>1, <3>1, <3>2, <5>1, <5>2 DEF PassedOver
      <4>3. QED
        BY <4>1, <4>2
    <3>3. ASSUME NEW c \in 1..fetched
          PROVE  c <= heads' \/ commitJob[c] # 0 \/ c \in start' \/ c \in skipped'
      BY <1>1, <3>1 DEF PassedOver
    <3>4. start' \subseteq 1..fetched
      BY <2>1, <2>2
    <3>5. QED
      BY <1>1, <1>3, <3>2, <3>3, <3>4 DEF PullKinds
  <2>5. QED
    BY <2>3, <2>4
<1>4. QED
  BY <1>2, <1>3 DEF PullKinds

(* The stages after the walk.                                              *)
Later == {"finalize", "predict", "Predicting", "ask", "Ready", "report"}

(* A step keeps CoverInv: the walk leaves no commit of the branch out that *)
(* the heads then cover.                                                   *)
LEMMA NextCoverInv ==
    ASSUME RecoveryAssumption, Ranges, VersionInv, MemInv, LogInv, CheckInv, CoverInv, Next
    PROVE  CoverInv'
<1>1. /\ commitJob \in [Commits -> 0..Len(jobs)] /\ Len(jobs) \in Nat
      /\ 1..fetched \subseteq Commits /\ 1..heads \subseteq Commits /\ 1..taken \subseteq Commits
      /\ fetched \in Nat /\ heads \in Nat /\ taken \in Nat
  <2>1. /\ fetched \in Nat /\ heads \in Nat /\ taken \in Nat /\ pushed \in Nat /\ MaxPushes \in Nat
        /\ heads <= fetched /\ taken <= fetched /\ fetched <= pushed /\ pushed <= MaxPushes
    BY DEF Ranges, TypeOK, RecoveryAssumption
  <2>2. 1..fetched \subseteq Commits /\ 1..heads \subseteq Commits /\ 1..taken \subseteq Commits
    BY <2>1 DEF Commits, PullHead
  <2>3. commitJob \in [Commits -> 0..Len(jobs)] /\ Len(jobs) \in Nat
    BY JobsType DEF Ranges, TypeOK
  <2>4. QED
    BY <2>1, <2>2, <2>3
<1>2. pc # "idle" => up = "up" /\ mem # <<>> /\ version # "old"
  BY DEF Ranges, VersionInv
<1>3. MigrateDelete => version = "old" /\ version' = "old"
  BY DEF VersionInv, MigrateDelete
<1>4. MigrateReset => heads' = 0 /\ status'.repo = "Queued"
  BY StepOfStatus DEF StatusSteps, MigrateReset, MigrateDelete, saveStatus, Run, Report, Ranges, Saving
<1>5. version' # "old" => version # "old" \/ MigrateReset
  BY DEF Next, Work, Boot, Push, PullRequestEvent, Run, saveStatus, Prepare, Ingest,
     StoreCommit, SaveBranches, FinalizePullRequestAnalysis, Predict, PredictByJob, Report, runNext,
     Fail, StopRunning, StopQueued, Crash, Recover, MigrateDelete, AddRepository, data
<1>6. pc' # "idle" => /\ mem # <<>> /\ kind' = kind /\ cur' = cur /\ up = "up" /\ version # "old"
                      /\ ~MigrateDelete /\ ~MigrateReset
  BY HeadKept DEF VersionInv, MigrateDelete, MigrateReset
<1>7. ASSUME SaveBranches, NEW c \in 1..fetched
      PROVE  commitJob'[c] # 0 \/ c \in skipped'
  <2>1. /\ UNCHANGED commitJob /\ pc = "analyze" /\ Unanalysed = {}
        /\ skipped' = IF kind \in PullKinds
                        THEN skipped \cup {d \in 1..fetched : d > heads /\ commitJob[d] = 0}
                        ELSE skipped
    BY <1>7 DEF SaveBranches
  <2>2. CASE c <= heads
    <3>1. commitJob[c] # 0 \/ c \in skipped
      BY <1>1, <1>2, <2>1, <2>2 DEF CoverInv, Covered
    <3>2. QED
      BY <2>1, <3>1
  <2>3. CASE ~(c <= heads) /\ kind \in PullKinds
    BY <1>1, <2>1, <2>3
  <2>4. CASE ~(c <= heads) /\ kind \notin PullKinds
    <3>1. commitJob[c] # 0 \/ c \in start \/ c \in skipped
      BY <2>1, <2>4 DEF CoverInv
    <3>2. c \in start => commitJob[c] = cur
      BY <2>1 DEF Unanalysed
    <3>3. cur \in 1..Len(jobs)
      BY <1>2, <2>1, JobsType DEF Ranges
    <3>4. QED
      BY <1>1, <2>1, <3>1, <3>2, <3>3
  <2>5. QED
    BY <2>2, <2>3, <2>4
<1>8. ASSUME Ingest
       PROVE  version # "old" /\ \A c \in 1..heads : commitJob[c] # 0 \/ c \in skipped
  BY <1>2, <1>8 DEF Ingest, CoverInv, Covered
<1>9. version' # "old" => Covered(heads)'
  <2>1. CASE SaveBranches
    <3>1. heads' = fetched
      BY <2>1 DEF SaveBranches
    <3>2. QED
      BY <1>7, <2>1, <3>1 DEF Covered
  <2>2. CASE MigrateReset
    BY <1>4, <2>2 DEF Covered
  <2>3. CASE Ingest /\ kind \notin PullKinds
    <3>1. kind # "pull"
      BY <2>3 DEF PullKinds
    <3>2. QED
      BY <1>8, <2>3, <3>1, IngestCovers DEF Covered
  <2>4. CASE ~MigrateReset /\ UNCHANGED heads /\ (Ingest => kind \in PullKinds)
    <3>1. ASSUME version' # "old", NEW c \in 1..heads PROVE commitJob'[c] # 0 \/ c \in skipped'
      <4>1. c \in Commits /\ (commitJob[c] # 0 \/ c \in skipped) /\ ~MigrateDelete
        BY <1>1, <1>3, <1>5, <2>4, <3>1 DEF CoverInv, Covered
      <4>2. QED
        BY <2>4, <4>1, CoveredKept
    <3>2. QED
      BY <2>4, <3>1 DEF Covered
  <2>5. UNCHANGED heads \/ SaveBranches \/ MigrateReset \/ (Ingest /\ kind \notin PullKinds)
    BY DEF Next, Work, Boot, Push, PullRequestEvent, Run, saveStatus, Prepare, Ingest,
       StoreCommit, FinalizePullRequestAnalysis, Predict, PredictByJob, Report, runNext,
       Fail, StopRunning, StopQueued, Crash, Recover, MigrateDelete, AddRepository, data
  <2>6. QED
    BY <2>1, <2>2, <2>4, <2>5, <2>3
<1>10. ASSUME pc' = "analyze", kind' \notin PullKinds
      PROVE  /\ start' \subseteq 1..fetched'
             /\ \A c \in 1..fetched' :
                   c <= heads' \/ commitJob'[c] # 0 \/ c \in start' \/ c \in skipped'
  <2>1. kind \notin PullKinds
    BY <1>6, <1>10
  <2>2. Ingest \/ (pc = "analyze" /\ UNCHANGED <<start, fetched, heads>>)
    <3>1. ~saveStatus
      BY <1>10, SaveSteps
    <3>2. QED
      BY <1>6, <1>10, <3>1 DEF Next, Work, Boot, Push, PullRequestEvent, Run, Prepare,
       StoreCommit, SaveBranches, FinalizePullRequestAnalysis, Predict, PredictByJob, Report, runNext,
       Fail, StopRunning, StopQueued, Crash, Recover, MigrateDelete, MigrateReset, AddRepository,
       data, process, WriteLog
  <2>3. CASE Ingest
    <3>1. kind # "pull"
      BY <2>1 DEF PullKinds
    <3>2. QED
      BY <1>8, <2>1, <2>3, <3>1, IngestCovers
  <2>4. CASE pc = "analyze" /\ UNCHANGED <<start, fetched, heads>>
    <3>1. start \subseteq 1..fetched
          /\ \A c \in 1..fetched : c <= heads \/ commitJob[c] # 0 \/ c \in start \/ c \in skipped
      BY <2>1, <2>4 DEF CoverInv
    <3>2. ASSUME NEW c \in 1..fetched, commitJob[c] # 0 \/ c \in skipped
          PROVE  commitJob'[c] # 0 \/ c \in skipped'
      <4>1. ~MigrateDelete /\ ~MigrateReset /\ ~Ingest /\ c \in Commits
        BY <1>1, <1>6, <1>10, <2>4 DEF Ingest
      <4>2. QED
        BY <3>2, <4>1, CoveredKept
    <3>3. QED
      BY <1>1, <2>4, <3>1, <3>2
  <2>5. QED
    BY <2>2, <2>3, <2>4
<1>11. ASSUME pc' \in Later, kind' # "pull" PROVE Covered(fetched)'
  <2>1. kind # "pull" /\ pc' # "idle"
    BY <1>6, <1>11 DEF Later
  <2>2. Ingest \/ SaveBranches \/ (pc \in Later /\ UNCHANGED fetched)
    <3>1. CASE saveStatus
      <4>1. pc \in Later
        BY <1>11, <3>1, SaveSteps DEF Later
      <4>2. QED
        BY <3>1, <4>1 DEF saveStatus
    <3>2. CASE ~saveStatus
      BY <1>6, <1>11, <3>2 DEF Later, Next, Work, Boot, Push, PullRequestEvent, Run, Prepare, Ingest,
       StoreCommit, FinalizePullRequestAnalysis, Predict, PredictByJob, Report, runNext,
       Fail, StopRunning, StopQueued, Crash, Recover, MigrateDelete, MigrateReset, AddRepository,
       data, WriteLog
    <3>3. QED
      BY <3>1, <3>2
  <2>3. CASE SaveBranches
    <3>1. fetched' = fetched
      BY <2>3 DEF SaveBranches
    <3>2. QED
      BY <1>7, <2>3, <3>1 DEF Covered
  <2>4. CASE pc \in Later /\ UNCHANGED fetched
    <3>1. \A c \in 1..fetched : commitJob[c] # 0 \/ c \in skipped
      BY <2>1, <2>4 DEF CoverInv, Covered, Later
    <3>2. \A c \in 1..fetched : commitJob'[c] # 0 \/ c \in skipped'
      <4>1. ~Ingest
        BY <2>4 DEF Ingest, Later
      <4>2. QED
        BY <1>1, <1>6, <2>1, <3>1, <4>1, CoveredKept
    <3>3. QED
      BY <2>4, <3>2 DEF Covered
  <2>5. CASE Ingest
    <3>1. start' = {}
      BY <1>11, <2>5 DEF Ingest, Later
    <3>2. /\ UNCHANGED <<commitJob, fetched>>
          /\ \A c \in 1..heads' : commitJob[c] # 0 \/ c \in skipped'
          /\ \A c \in 1..fetched : c <= heads' \/ commitJob[c] # 0 \/ c \in start' \/ c \in skipped'
      BY <1>8, <2>1, <2>5, <3>1, IngestCovers
    <3>3. heads' \in Nat
      BY <1>1, <2>5 DEF Ingest
    <3>4. ASSUME NEW c \in 1..fetched PROVE commitJob[c] # 0 \/ c \in skipped'
      BY <1>1, <3>1, <3>2, <3>3
    <3>5. QED
      BY <3>2, <3>4 DEF Covered
  <2>6. QED
    BY <2>2, <2>3, <2>4, <2>5
<1>12. ASSUME pc' \in {"prepare", "ingest"}, kind' \notin PullKinds PROVE status'.repo # "Ready"
  <2>1. kind \notin PullKinds /\ ~MigrateDelete /\ ~MigrateReset
    BY <1>6, <1>12
  <2>2. CASE saveStatus
    <3>1. pc = "Progressing"
      BY <1>12, <2>2, SaveSteps
    <3>2. ~Run /\ ~Report
      BY <3>1 DEF Run, Report
    <3>3. QED
      BY <2>1, <2>2, <3>1, <3>2, StepOfStatus DEF StatusSteps
  <2>3. CASE ~saveStatus
    <3>1. pc \in {"prepare", "ingest"} /\ ~Run /\ ~Report
      BY <1>6, <1>12, <2>3 DEF Next, Work, Boot, Push, PullRequestEvent, Run, Prepare, Ingest,
       StoreCommit, SaveBranches, FinalizePullRequestAnalysis, Predict, PredictByJob, Report, runNext,
       Fail, StopRunning, StopQueued, Crash, Recover, MigrateDelete, MigrateReset, AddRepository,
       WriteLog
    <3>2. UNCHANGED status
      BY <2>1, <2>3, <3>1, StepOfStatus DEF StatusSteps
    <3>3. QED
      BY <2>1, <3>1, <3>2 DEF CoverInv
  <2>4. QED
    BY <2>2, <2>3
<1>13. ASSUME version' # "old", status'.repo = "Ready" PROVE Covered(taken)'
  <2>1. ~MigrateReset /\ ~MigrateDelete /\ version # "old"
    BY <1>3, <1>4, <1>5, <1>13
  <2>2. Ingest => kind \in PullKinds
    <3>1. Ingest => pc = "ingest" /\ UNCHANGED status
      BY DEF Ingest
    <3>2. QED
      BY <1>13, <3>1 DEF CoverInv
  <2>3. ASSUME Covered(taken), UNCHANGED taken PROVE Covered(taken)'
    BY <1>1, <2>1, <2>3, <2>2, CoveredKept DEF Covered
  <2>4. CASE Prepare /\ kind \notin PullKinds
    <3>1. UNCHANGED status /\ pc = "prepare"
      BY <2>4 DEF Prepare
    <3>2. QED
      BY <1>13, <2>4, <3>1 DEF CoverInv
  <2>5. CASE ~Prepare \/ kind \in PullKinds
    <3>1. UNCHANGED taken
      BY <2>1, <2>5 DEF Next, Work, Boot, Push, PullRequestEvent, Run, saveStatus, Prepare, Ingest,
       StoreCommit, SaveBranches, FinalizePullRequestAnalysis, Predict, PredictByJob, Report, runNext,
       Fail, StopRunning, StopQueued, Crash, Recover, AddRepository, history
    <3>2. CASE status.repo = "Ready"
      BY <2>1, <2>3, <3>1, <3>2 DEF CoverInv
    <3>3. CASE status.repo # "Ready"
      <4>1. pc \in {"Ready", "report"} /\ kind # "pull"
        <5>1. CASE saveStatus /\ kind \notin PullKinds /\ status'.repo = pc
          BY <1>13, <5>1 DEF PullKinds
        <5>2. CASE Report /\ kind = "check"
          BY <5>2 DEF Report
        <5>3. QED
          BY <1>13, <2>1, <3>3, <5>1, <5>2, StepOfStatus DEF StatusSteps
      <4>2. \A c \in 1..fetched : commitJob[c] # 0 \/ c \in skipped
        BY <4>1 DEF CoverInv, Covered
      <4>3. 1..taken \subseteq 1..fetched
        BY DEF Ranges
      <4>4. Covered(taken)
        BY <4>2, <4>3 DEF Covered
      <4>5. QED
        BY <2>3, <3>1, <4>4
    <3>4. QED
      BY <3>2, <3>3
  <2>6. QED
    BY <2>4, <2>5
<1>14. QED
  BY <1>9, <1>10, <1>11, <1>12, <1>13 DEF CoverInv, Later

----------------------------------------------------------------------------
(* Predictions.                                                            *)

(* A stage that was logged stays logged, and is logged by the running job. *)
LEMMA SeenMoves ==
    ASSUME Ranges, Next, NEW s \in Stages
    PROVE  /\ \A j \in DOMAIN jobs : Seen(j, s) => Seen(j, s)'
           /\ \A j \in DOMAIN jobs' : Seen(j, s)' =>
                 /\ j \in DOMAIN jobs
                 /\ Seen(j, s) \/ (mem # <<>> /\ j = cur /\ WriteLog(s))
<1>1. TypeOK /\ Kept
  BY StepKeeps DEF Ranges
<1>2. /\ Len(jobs) \in Nat /\ DOMAIN jobs = 1..Len(jobs)
      /\ \A j \in DOMAIN jobs : jobs[j].log \in Seq(Stages)
  BY <1>1, JobsType DEF LogOf
<1>3. ASSUME NEW j \in DOMAIN jobs, Seen(j, s) PROVE Seen(j, s)'
  <2>1. CASE jobs'[j].log = jobs[j].log
    BY <1>3, <2>1 DEF Seen
  <2>2. ASSUME NEW t \in Stages, jobs'[j].log = Append(jobs[j].log, t) PROVE Seen(j, s)'
    <3>1. Range(jobs'[j].log) = Range(jobs[j].log) \cup {t}
      BY <1>2, <1>3, <2>2, RangeAppend
    <3>2. QED
      BY <1>3, <3>1 DEF Seen
  <2>3. QED
    BY <1>1, <1>2, <1>3, <2>1, <2>2 DEF Kept
<1>4. ASSUME UNCHANGED jobs, NEW j \in DOMAIN jobs', Seen(j, s)' PROVE j \in DOMAIN jobs /\ Seen(j, s)
  BY <1>4 DEF Seen
<1>5. ASSUME NEW k \in JobKinds, Submits(k), NEW j \in DOMAIN jobs', Seen(j, s)'
      PROVE  j \in DOMAIN jobs /\ Seen(j, s)
  <2>1. /\ jobs' \in Seq(JobRecs) /\ Len(jobs') = Len(jobs) + 1
        /\ \A i \in DOMAIN jobs : jobs'[i] = jobs[i]
        /\ jobs'[Len(jobs) + 1].log = <<>>
    BY <1>1, <1>5, ProcessEffect DEF Submits
  <2>2. j # Len(jobs) + 1
    BY <1>5, <2>1, RangeEmpty DEF Seen
  <2>3. j \in DOMAIN jobs
    BY <1>2, <1>5, <2>1, <2>2
  <2>4. QED
    BY <1>5, <2>1, <2>3 DEF Seen
<1>6. ASSUME mem # <<>>, NEW t \in Stages, WriteLog(t), NEW j \in DOMAIN jobs', Seen(j, s)'
      PROVE  j \in DOMAIN jobs /\ (Seen(j, s) \/ (mem # <<>> /\ j = cur /\ WriteLog(s)))
  <2>1. /\ jobs' \in Seq(JobRecs) /\ Len(jobs') = Len(jobs)
        /\ \A i \in DOMAIN jobs : i # cur => jobs'[i].log = jobs[i].log
        /\ jobs'[cur].log = Append(jobs[cur].log, t) /\ pc' = t
    BY <1>1, <1>6, LogEffect
  <2>2. j \in DOMAIN jobs
    BY <1>2, <1>6, <2>1
  <2>3. CASE j # cur
    BY <1>6, <2>1, <2>2, <2>3 DEF Seen
  <2>4. CASE j = cur
    <3>1. Range(jobs'[j].log) = Range(jobs[j].log) \cup {t}
      <4>1. jobs[j].log \in Seq(Stages) /\ t \in Stages
        BY <1>2, <1>6, <2>2
      <4>2. Range(Append(jobs[j].log, t)) = Range(jobs[j].log) \cup {t}
        BY <4>1, RangeAppend
      <4>3. QED
        BY <2>1, <2>4, <4>2
    <3>2. s \in Range(jobs'[j].log)
      BY <1>6 DEF Seen
    <3>3. Seen(j, s) \/ s = t
      BY <3>1, <3>2 DEF Seen
    <3>4. QED
      BY <1>6, <2>2, <2>4, <3>3
  <2>5. QED
    BY <2>3, <2>4
<1>7. "Canceled" \in Stages
  BY DEF Stages, Saving
<1>8. QED
  BY <1>3, <1>4, <1>5, <1>6, <1>7, StepOfJobs

(* What the running job has logged, told by the stage it is at, and that   *)
(* the jobs behind it have logged nothing.                                 *)
LEMMA CurSeen ==
    ASSUME Ranges, MemInv, LogInv, mem # <<>>, NEW s
    PROVE  /\ \A j \in DOMAIN jobs : j > cur => ~Seen(j, s)
           /\ pc \in {"Progressing", "prepare", "ingest", "analyze", "finalize", "predict"} =>
                 (Seen(cur, s) <=> s = "Progressing")
           /\ pc \in {"Predicting", "ask"} => (Seen(cur, s) => s \in {"Progressing", "Predicting"})
<1>1. \A j \in DOMAIN jobs : j > cur => ~Seen(j, s)
  BY RangeEmpty DEF MemInv, LogOf, Seen
<1>2. ASSUME pc \in {"Progressing", "prepare", "ingest", "analyze", "finalize", "predict"}
      PROVE  Seen(cur, s) <=> s = "Progressing"
  <2>1. jobs[cur].log = <<"Progressing">>
    BY <1>2 DEF LogInv, LogOf
  <2>2. QED
    BY <2>1, RangeSingleton DEF Seen
<1>3. ASSUME pc \in {"Predicting", "ask"}, Seen(cur, s) PROVE s \in {"Progressing", "Predicting"}
  <2>1. jobs[cur].log = <<"Progressing", "Predicting">>
    BY <1>3 DEF LogInv, LogOf
  <2>2. QED
    BY <1>3, <2>1 DEF Seen, Range
<1>4. QED
  BY <1>1, <1>2, <1>3

(* RecoverFromLastPredicting finds the last job that was answered, or      *)
(* none, and never the running one.                                        *)
LEMMA PrepareIncludes ==
    ASSUME Ranges, MemInv, LogInv, Prepare, kind \in UpdateKinds
    PROVE  /\ includeAfter' \in 0..cur - 1
           /\ includeAfter' # 0 => Answered(includeAfter')
<1>1. /\ Len(jobs) \in Nat /\ DOMAIN jobs = 1..Len(jobs) /\ mem # <<>> /\ cur \in 1..Len(jobs)
      /\ pc = "prepare"
  BY JobsType DEF Ranges, Prepare
<1> DEFINE S1 == {j \in DOMAIN jobs : jobs[j].log # <<>> /\ jobs[j].log[1] # "Failed"}
           S2 == {j \in DOMAIN jobs : Answered(j)}
           m1 == Max0(S1)
           m2 == Max0(S2)
<1>2. FindLast = m1 /\ FindLastWithStatus = m2
  BY DEF FindLast, FindLastWithStatus, Answered
<1>3. m1 = cur
  <2>1. S1 \in SUBSET (1..Len(jobs))
    BY <1>1
  <2>2. cur \in S1
    <3>1. jobs[cur].log = <<"Progressing">>
      BY <1>1 DEF LogInv, LogOf
    <3>2. jobs[cur].log # <<>> /\ jobs[cur].log[1] # "Failed"
      BY <3>1
    <3>3. QED
      BY <1>1, <3>2
  <2>3. \A j \in S1 : j <= cur
    BY <1>1 DEF MemInv, LogOf
  <2> HIDE DEF S1
  <2>4. m1 \in S1 /\ cur <= m1
    BY <1>1, <2>1, <2>2, MaxOfSet
  <2> HIDE DEF m1
  <2>5. QED
    BY <1>1, <2>1, <2>3, <2>4
<1>4. /\ m2 \in 0..cur - 1
      /\ m2 # 0 => Answered(m2)
  <2>1. S2 \in SUBSET (1..Len(jobs))
    BY <1>1
  <2>2. \A j \in S2 : j < cur
    <3>1. ~Answered(cur)
      BY <1>1, CurSeen DEF Answered
    <3>2. \A j \in DOMAIN jobs : j > cur => ~Answered(j)
      BY <1>1, CurSeen DEF Answered
    <3>3. QED
      BY <1>1, <3>1, <3>2
  <2>3. \A j \in S2 : Answered(j)
    OBVIOUS
  <2> HIDE DEF S2
  <2>4. m2 = 0 \/ m2 \in S2
    BY <1>1, <2>1, MaxOfSet
  <2> HIDE DEF m2
  <2>5. m2 \in S2 => m2 \in 1..Len(jobs) /\ m2 < cur /\ Answered(m2)
    BY <2>1, <2>2, <2>3
  <2>6. QED
    BY <1>1, <2>4, <2>5
<1> HIDE DEF m1, m2
<1>5. RecoverFromLastPredicting = m2
  <2>1. m1 # 0 /\ m1 # m2
    BY <1>1, <1>3, <1>4
  <2>2. QED
    BY <1>2, <2>1 DEF RecoverFromLastPredicting, AllJobs
<1>6. includeAfter' = m2
  BY <1>5 DEF Prepare
<1>7. QED
  BY <1>4, <1>6

(* A step keeps PredictedWhenReady: a prediction takes in the commits from *)
(* the job it continues after on, and that job was answered, so what it    *)
(* left unpredicted is hidden by a job that is no update.                  *)
LEMMA NextPredictedWhenReady ==
    ASSUME RecoveryAssumption, Ranges, MemInv, LogInv, PredictInv, Next
    PROVE  PredictedWhenReady'
<1> DEFINE Others == {"added"} \cup PullKinds
<1>1. TypeOK /\ Kept
  BY StepKeeps DEF Ranges
<1>2. /\ Len(jobs) \in Nat /\ DOMAIN jobs = 1..Len(jobs)
      /\ \A j \in DOMAIN jobs : jobs[j].kind \in JobKinds
      /\ mem # <<>> => cur \in 1..Len(jobs)
  BY <1>1, JobsType DEF KindOf
<1>3. \A j \in DOMAIN jobs : jobs'[j].kind = jobs[j].kind
  BY <1>1, <1>2 DEF Kept
<1>4. commitJob \in [Commits -> 0..Len(jobs)]
  BY <1>1 DEF TypeOK
<1>5. {"Predicting", "Ready"} \subseteq Stages
  BY DEF Stages, Saving
<1>6. \A j \in DOMAIN jobs : Answered(j) => Seen(j, "Predicting")' /\ Seen(j, "Ready")'
  BY <1>5, SeenMoves DEF Answered
<1>7. SUFFICES ASSUME NEW u \in DOMAIN jobs', jobs'[u].kind \in UpdateKinds, Seen(u, "Ready")',
                      NEW c \in Commits, commitJob'[c] \in 1..u, c \notin predicted'
               PROVE  \E m \in commitJob'[c] + 1 .. u - 1 :
                         jobs'[m].kind \in Others /\ Seen(m, "Predicting")' /\ Seen(m, "Ready")'
  BY DEF PredictedWhenReady
<1>8. u \in DOMAIN jobs /\ (Seen(u, "Ready") \/ (mem # <<>> /\ u = cur /\ WriteLog("Ready")))
  BY <1>5, <1>7, SeenMoves
<1>9. jobs[u].kind \in UpdateKinds /\ u \in 1..Len(jobs)
  BY <1>2, <1>3, <1>7, <1>8
<1>10. ~ \A d \in Commits : commitJob'[d] = 0
  BY <1>7
<1>11. commitJob'[c] = commitJob[c] \/ (StoreCommit /\ mem # <<>> /\ commitJob'[c] = cur)
  <2>1. ASSUME NEW d \in Unanalysed, commitJob' = [commitJob EXCEPT ![d] = cur]
        PROVE  commitJob'[c] = commitJob[c] \/ commitJob'[c] = cur
    BY <1>4, <1>7, <2>1
  <2>2. QED
    BY <1>10, <2>1, StepOfCommits
<1>12. predicted \subseteq predicted'
  <2>1. ~(MigrateDelete /\ predicted' = {} /\ predicted' # predicted)
    BY <1>10 DEF MigrateDelete
  <2>2. QED
    BY <2>1 DEF Next, Work, Boot, Push, PullRequestEvent, Run, saveStatus, Prepare, Ingest,
       StoreCommit, SaveBranches, FinalizePullRequestAnalysis, Predict, PredictByJob, Report, runNext,
       Fail, StopRunning, StopQueued, Crash, Recover, MigrateDelete, MigrateReset, AddRepository, data
<1>13. ASSUME NEW v \in DOMAIN jobs, jobs[v].kind \in UpdateKinds, Seen(v, "Ready"),
              commitJob[c] \in 1..v, c \notin predicted, v <= u
       PROVE  \E m \in commitJob[c] + 1 .. u - 1 :
                 jobs'[m].kind \in Others /\ Seen(m, "Predicting")' /\ Seen(m, "Ready")'
  <2>1. PICK m \in commitJob[c] + 1 .. v - 1 :
               jobs[m].kind \in Others /\ Seen(m, "Predicting") /\ Seen(m, "Ready")
    BY <1>7, <1>13 DEF PredictInv, PredictedWhenReady
  <2>2. m \in DOMAIN jobs /\ m \in commitJob[c] + 1 .. u - 1
    BY <1>2, <1>7, <1>9, <1>13, <2>1
  <2>3. QED
    BY <1>3, <1>6, <2>1, <2>2 DEF Answered
<1>14. CASE Seen(u, "Ready")
  <2>1. commitJob'[c] = commitJob[c]
    <3>1. SUFFICES ASSUME StoreCommit, mem # <<>>, commitJob'[c] = cur PROVE FALSE
      BY <1>11
    <3>2. ~Seen(cur, "Ready") /\ \A j \in DOMAIN jobs : j > cur => ~Seen(j, "Ready")
      BY <3>1, CurSeen DEF StoreCommit
    <3>3. cur <= u /\ u # cur
      BY <1>7, <1>14, <3>1, <3>2
    <3>4. QED
      BY <1>2, <1>8, <1>9, <1>14, <3>1, <3>2, <3>3
  <2>2. QED
    BY <1>7, <1>8, <1>9, <1>12, <1>13, <1>14, <2>1
<1>15. CASE mem # <<>> /\ u = cur /\ WriteLog("Ready")
  <2>1. pc' = "Ready"
    BY <1>15 DEF WriteLog
  <2>2. CASE Seen(u, "Ready")
    BY <1>14, <2>2
  <2>3. CASE ~Seen(u, "Ready")
    <3>1. jobs' # jobs
      BY <1>7, <2>3 DEF Seen
    <3>2. Len(jobs') = Len(jobs)
      BY <1>1, <1>5, <1>15, LogEffect
    <3>3. ASSUME NEW k \in JobKinds, ProcessRepository(k) PROVE FALSE
      <4>1. Len(jobs') = Len(jobs) + 1
        BY <1>1, <3>3, ProcessEffect
      <4>2. QED
        BY <1>2, <3>2, <4>1
    <3>4. ~ProcessRepository("update") /\ ~ProcessRepository("check") /\ ~ProcessRepository("pull")
          /\ ~ProcessRepository("recover") /\ ~ProcessRepository("added")
      BY <3>3 DEF JobKinds, UpdateKinds, PullKinds
    <3>5. Predict \/ PredictByJob
      BY <2>1, <3>1, <3>4 DEF Next, Work, Boot, Push, PullRequestEvent, Run, saveStatus, Prepare,
         Ingest, StoreCommit, SaveBranches, FinalizePullRequestAnalysis, Report, runNext, Fail,
         StopRunning, StopQueued, Crash, Recover, MigrateDelete, MigrateReset, AddRepository, WriteLog
    <3>6. /\ includeAfter \in 0..cur - 1
          /\ includeAfter # 0 => Answered(includeAfter)
      BY <1>9, <1>15, <3>5 DEF PredictInv, Answering, Predict, PredictByJob, kind
    <3>7. includeAfter # NoJob
      BY <1>2, <1>15, <3>6 DEF NoJob
    <3>8. PredictByJob /\ predicted' = predicted \cup InRange /\ UNCHANGED commitJob
      BY <2>1, <3>5, <3>7 DEF Predict, PredictByJob, WriteLog
    <3> DEFINE a == commitJob[c]
               L == includeAfter
    <3>9. a \in 1..cur /\ c \notin InRange /\ c \notin predicted
      BY <1>7, <1>15, <3>8
    <3>10. InRange = {d \in Commits :
                        commitJob[d] \in (IF model THEN L ELSE 0)..cur /\ commitJob[d] # 0}
      BY <3>7 DEF InRange
    <3>11. a \notin (IF model THEN L ELSE 0)..cur
      BY <1>7, <1>2, <1>15, <3>9, <3>10
    <3>12. L \in 0..cur - 1 /\ (L # 0 => Answered(L))
      BY <3>6
    <3> HIDE DEF a, L
    <3>13. a < L /\ L \in 1..cur - 1 /\ a \in 1..L
      BY <1>2, <1>15, <3>9, <3>11, <3>12
    <3>14. L \in DOMAIN jobs /\ Answered(L) /\ L <= u /\ commitJob'[c] = a
      BY <1>2, <1>15, <3>8, <3>12, <3>13 DEF a
    <3>15. CASE jobs[L].kind \in UpdateKinds
      BY <1>13, <3>8, <3>9, <3>13, <3>14, <3>15 DEF Answered, a
    <3>16. CASE jobs[L].kind \notin UpdateKinds
      <4>1. jobs'[L].kind \in Others
        BY <1>2, <1>3, <3>14, <3>16 DEF JobKinds
      <4>2. L \in a + 1 .. u - 1
        BY <1>2, <1>15, <3>9, <3>13
      <4>3. QED
        BY <1>6, <3>14, <4>1, <4>2
    <3>17. QED
      BY <3>15, <3>16
  <2>4. QED
    BY <2>2, <2>3
<1>16. QED
  BY <1>8, <1>14, <1>15

(* A step keeps PredictInv.                                                *)
LEMMA NextPredictInv ==
    ASSUME RecoveryAssumption, Ranges, MemInv, LogInv, PredictInv, Next
    PROVE  PredictInv'
<1>1. PredictedWhenReady'
  BY NextPredictedWhenReady
<1>2. ASSUME pc' \in Answering, kind' \in UpdateKinds
      PROVE  /\ includeAfter' \in 0..cur' - 1
             /\ (includeAfter # 0 => Answered(includeAfter))'
  <2>1. mem # <<>> /\ cur' = cur /\ kind' = kind /\ kind \in UpdateKinds /\ up = "up"
    BY <1>2, HeadKept DEF Answering
  <2>2. Prepare \/ (pc \in Answering /\ UNCHANGED includeAfter)
    <3>1. CASE saveStatus
      <4>1. pc \in Answering
        BY <1>2, <3>1, SaveSteps DEF Answering
      <4>2. QED
        BY <3>1, <4>1 DEF saveStatus, process
    <3>2. CASE ~saveStatus
      BY <1>2, <2>1, <3>2 DEF Answering, Next, Work, Boot, Push, PullRequestEvent, Run, Prepare, Ingest,
         StoreCommit, SaveBranches, FinalizePullRequestAnalysis, Predict, PredictByJob, Report, runNext,
         Fail, StopRunning, StopQueued, Crash, Recover, MigrateDelete, MigrateReset, AddRepository,
         process, WriteLog
    <3>3. QED
      BY <3>1, <3>2
  <2>3. /\ includeAfter' \in 0..cur - 1
        /\ includeAfter' # 0 => Answered(includeAfter')
    <3>1. CASE Prepare
      BY <2>1, <3>1, PrepareIncludes
    <3>2. CASE pc \in Answering /\ UNCHANGED includeAfter
      BY <2>1, <3>2 DEF PredictInv, Answering
    <3>3. QED
      BY <2>2, <3>1, <3>2
  <2>4. TypeOK /\ Len(jobs) \in Nat /\ DOMAIN jobs = 1..Len(jobs) /\ cur \in 1..Len(jobs)
    BY <2>1, JobsType DEF Ranges
  <2>5. ASSUME includeAfter' # 0
        PROVE  /\ "Predicting" \in Range(jobs'[includeAfter'].log)
               /\ "Ready" \in Range(jobs'[includeAfter'].log)
    <3>1. includeAfter' \in DOMAIN jobs /\ Answered(includeAfter')
      BY <2>3, <2>4, <2>5
    <3>2. {"Predicting", "Ready"} \subseteq Stages
      BY DEF Stages, Saving
    <3>3. \A j \in DOMAIN jobs : Answered(j) =>
             "Predicting" \in Range(jobs'[j].log) /\ "Ready" \in Range(jobs'[j].log)
      BY <3>2, SeenMoves DEF Answered, Seen
    <3>4. QED
      BY <3>1, <3>3
  <2>6. QED
    BY <2>1, <2>3, <2>5 DEF Answered, Seen
<1>3. QED
  BY <1>1, <1>2 DEF PredictInv, Answering

----------------------------------------------------------------------------
(* The theorems.                                                           *)

(* The repository that AddRepository has just stored has the invariant.    *)
LEMMA InitIInv ==
    ASSUME RecoveryAssumption, Init
    PROVE  IInv
<1>1. /\ jobs = <<[kind |-> "added", log |-> <<>>]>> /\ mem = <<1>> /\ pc = "idle"
      /\ status = [repo |-> "Queued", pull |-> "Queued"] /\ commitJob = [c \in Commits |-> 0]
      /\ pull = [stored |-> FALSE, analyzedHead |-> FALSE] /\ version = "first" /\ up = "up"
      /\ pushed = 1 /\ base = 0 /\ fetched = 0 /\ heads = 0 /\ taken = 0 /\ predicted = {}
      /\ known = {} /\ linked = {} /\ start = {} /\ includeAfter = NoJob /\ model = FALSE /\ MaxPushes \in Nat \ {0}
  BY DEF Init, RecoveryAssumption
<1> DEFINE first == [kind |-> "added", log |-> <<>>]
<1>2. first \in JobRecs /\ first.kind = "added" /\ first.log = <<>>
  BY DEF JobRecs, JobKinds
<1>3. jobs = <<first>>
  BY <1>1
<1> HIDE DEF first
<1>4. /\ jobs \in Seq(JobRecs) /\ Len(jobs) = 1 /\ DOMAIN jobs = {1} /\ jobs[1] = first
  BY <1>2, <1>3
<1>5. /\ mem \in Seq(DOMAIN jobs) /\ DOMAIN mem = {1} /\ mem[1] = 1 /\ mem # <<>> /\ cur = 1
  BY <1>1, <1>4 DEF cur
<1>6. kind = "added" /\ LogOf(cur) = <<>> /\ KindOf(1) = "added"
  BY <1>2, <1>4, <1>5 DEF kind, LogOf, KindOf
<1>7. ~Owned(PullKinds) /\ ~Owned({"check"})
  BY <1>2, <1>4, <1>5 DEF Owned, PullKinds
<1>8. TypeOK
  <2>1. jobs \in Seq([kind : {"added"} \cup UpdateKinds \cup PullKinds, log : Seq(Stages)])
    BY <1>4 DEF JobRecs, JobKinds
  <2>2. status \in [{"repo", "pull"} -> Stages]
    BY <1>1 DEF Stages
  <2>3. commitJob \in [Commits -> 0..Len(jobs)] /\ includeAfter \in NoJob..Len(jobs)
    BY <1>1, <1>4 DEF NoJob
  <2>4. pull \in [stored : BOOLEAN, analyzedHead : BOOLEAN]
    BY <1>1
  <2>5. base <= pushed /\ fetched <= pushed /\ pushed <= MaxPushes /\ heads <= fetched
    BY <1>1
  <2>6. /\ predicted \subseteq Commits /\ linked \subseteq known /\ known \cup start \subseteq Commits
        /\ version \in {"first", "old", "current"} /\ model \in BOOLEAN
        /\ up \in {"up", "down", "deletePulls", "deleteCommits", "deleteModels", "reset", "add"}
        /\ pc \in {"idle", "startCheck", "prepare", "ingest", "analyze", "finalize", "predict",
                  "ask", "report", "done"} \cup Saving
    BY <1>1
  <2>7. QED
    BY <1>5, <2>1, <2>2, <2>3, <2>4, <2>5, <2>6 DEF TypeOK
<1>9. Ranges
  BY <1>1, <1>5, <1>8 DEF Ranges
<1>10. VersionInv
  BY <1>1 DEF VersionInv
<1>11. MemInv
  BY <1>1, <1>4, <1>5, <1>6 DEF MemInv
<1>12. LogInv
  BY <1>1, <1>6 DEF LogInv
<1>13. RepoInv
  BY <1>1, <1>5, <1>6 DEF RepoInv
<1>14. PullInv
  BY <1>1, <1>7 DEF PullInv
<1>15. CheckInv
  <2>1. PullHead \in Commits
    BY <1>1 DEF PullHead, Commits
  <2>2. QED
    BY <1>1, <1>5, <1>7, <2>1 DEF CheckInv
<1>16. CoverInv
  BY <1>1 DEF CoverInv, Covered
<1>17. PredictInv
  <2>1. ~Seen(1, "Ready")
    BY <1>2, <1>4, RangeEmpty DEF Seen
  <2>2. PredictedWhenReady
    BY <1>4, <2>1 DEF PredictedWhenReady
  <2>3. QED
    BY <1>1, <2>2 DEF PredictInv, Answering
<1>18. QED
  BY <1>9, <1>10, <1>11, <1>12, <1>13, <1>14, <1>15, <1>16, <1>17 DEF IInv

(* Every step keeps the invariant.                                         *)
LEMMA NextIInv ==
    ASSUME RecoveryAssumption, IInv, [Next]_vars
    PROVE  IInv'
<1>1. CASE Next
  BY <1>1, NextRanges, NextVersionInv, NextMemInv, NextLogInv, NextRepoInv, NextPullInv, NextCheckInv,
     NextCoverInv, NextPredictInv DEF IInv
<1>2. CASE UNCHANGED vars
  <2>1. UNCHANGED <<jobs, status, commitJob, predicted, heads, pull, version, model, pushed, base,
                    events, fetched, up, mem, pc, known, linked, start, includeAfter, crashes,
                    orphans, skipped, taken>>
    BY <1>2 DEF vars, data, remote, engine, process, history
  <2>2. Ranges' /\ VersionInv' /\ MemInv' /\ LogInv'
    BY <2>1 DEF IInv, Ranges, TypeOK, VersionInv, MemInv, LogInv, LogOf, KindOf, kind, cur
  <2>3. RepoInv' /\ PullInv' /\ CheckInv'
    BY <2>1 DEF IInv, RepoInv, PullInv, CheckInv, LogOf, KindOf, kind, cur, Owned, Unfinished
  <2>4. CoverInv' /\ PredictInv'
    BY <2>1 DEF IInv, CoverInv, Covered, PredictInv, PredictedWhenReady, Answered, Seen, kind, cur
  <2>5. QED
    BY <2>2, <2>3, <2>4 DEF IInv
<1>3. QED
  BY <1>1, <1>2

(* The invariant holds in every state the program reaches.                 *)
THEOREM InvariantHolds ==
    ASSUME RecoveryAssumption
    PROVE  Spec => []IInv
<1>1. Init => IInv
  BY InitIInv
<1>2. IInv /\ [Next]_vars => IInv'
  BY NextIInv
<1>3. QED
  BY <1>1, <1>2, PTL DEF Spec

(* Whenever the server is up, a repository or a pull request whose status  *)
(* is not settled has a job in memory that will settle it, unless a stop,  *)
(* a check or a crash left it behind: no sequence of pushes, events,       *)
(* stops, migrations and restarts loses the job of a status (SaveStatus,   *)
(* Recover, StopAndDelete).                                                *)
THEOREM StatusesAreOwned ==
    ASSUME RecoveryAssumption
    PROVE  Spec => []StatusOwned
<1>1. IInv => StatusOwned
  <2>1. SUFFICES ASSUME IInv PROVE StatusOwned
    OBVIOUS
  <2>2. TypeOK
    BY <2>1 DEF IInv, Ranges
  <2>3. RepoStatusOwned
    <3>1. SUFFICES ASSUME up = "up", Unfinished(status.repo), "repo" \notin orphans
                   PROVE  Owned({"added", "check"} \cup UpdateKinds)
      BY DEF RepoStatusOwned
    <3>2. mem # <<>> /\ kind # "pull"
      BY <2>1, <3>1 DEF IInv, RepoInv
    <3>3. 1 \in DOMAIN mem /\ cur = mem[1] /\ kind \in JobKinds
      BY <2>2, <3>2, JobsType DEF kind, KindOf
    <3>4. kind \in {"added", "check"} \cup UpdateKinds
      BY <3>2, <3>3 DEF JobKinds, PullKinds
    <3>5. QED
      BY <3>3, <3>4 DEF Owned, kind
  <2>4. PullStatusOwned
    BY <2>1 DEF PullStatusOwned, IInv, PullInv
  <2>5. QED
    BY <2>2, <2>3, <2>4 DEF StatusOwned
<1>2. QED
  BY <1>1, InvariantHolds, PTL

(* A repository that is Ready has every commit its last job of the branch  *)
(* fetched stored, or recorded by a job of the pull request: whatever was  *)
(* interrupted before, the start points leave no commit out                *)
(* (AnalyzeSpecificCommits, updateBranches).                               *)
THEOREM ReadyRepositoriesAreAnalysed ==
    ASSUME RecoveryAssumption
    PROVE  Spec => []ReadyMeansAnalysed
<1>1. IInv => ReadyMeansAnalysed
  BY DEF IInv, VersionInv, CoverInv, Covered, ReadyMeansAnalysed
<1>2. QED
  BY <1>1, InvariantHolds, PTL

(* When an update is Ready, every commit that it or a job before it stored *)
(* was taken in by a prediction, although jobs fail, are stopped and are   *)
(* cut off by a crash between their commits and their prediction. The      *)
(* exception is a commit followed by an answered job that predicts its own *)
(* commits only, behind which RecoverFromLastPredicting does not look.     *)
THEOREM ReadyUpdatesArePredicted ==
    ASSUME RecoveryAssumption
    PROVE  Spec => []PredictedWhenReady
<1>1. IInv => PredictedWhenReady
  BY DEF IInv, PredictInv
<1>2. QED
  BY <1>1, InvariantHolds, PTL

-----------------------------------------------------------------------------
(* The lists that come in pages.                                           *)

(* The assumptions of the list are among those of this module, and the     *)
(* cardinality of a set is the one that Connection takes.                  *)
LEMMA ConnectionAssumed ==
    /\ Query!ConnectionAssumption
    /\ \A S : Query!Cardinality(S) = Cardinality(S)
    /\ \A S : Query!IsFiniteSet(S) <=> IsFiniteSet(S)
<1>1. \A S : Query!IsFiniteSet(S) <=> IsFiniteSet(S)
  BY DEF Query!IsFiniteSet, IsFiniteSet
<1>2. \A S : Query!Cardinality(S) = Cardinality(S)
  BY DEF Query!Cardinality, Cardinality
<1>3. QED
  BY <1>1, <1>2, ListsAssumption

-----------------------------------------------------------------------------
(* Sorting.                                                                *)

(* The elements of a set in rising order.                                  *)
Rising(T, f) ==
    /\ f \in [1 .. Cardinality(T) -> T]
    /\ \A i, j \in 1 .. Cardinality(T) : i < j => f[i] < f[j]

(* A finite set of positions can be counted in rising order: its least     *)
(* position, and then the others.                                          *)
LEMMA RisingExists ==
    ASSUME NEW S \in SUBSET Nat, IsFiniteSet(S)
    PROVE  \E f : Rising(S, f)
<1> DEFINE Unsorted(T) == IsFiniteSet(T) /\ ~ \E f : Rising(T, f)
           Sizes == {n \in Nat : \E T \in SUBSET Nat : Cardinality(T) = n /\ Unsorted(T)}
<1> SUFFICES ASSUME ~ \E f : Rising(S, f) PROVE FALSE
  OBVIOUS
<1>1. Cardinality(S) \in Sizes
  BY FS_CardinalityType
<1>2. PICK n \in Sizes : \A m \in Sizes : n <= m
  BY <1>1, NatLeast
<1>3. PICK T \in SUBSET Nat : Cardinality(T) = n /\ Unsorted(T)
  BY <1>2
<1>4. T # {}
  <2> SUFFICES ASSUME T = {} PROVE FALSE
    OBVIOUS
  <2>1. Cardinality(T) = 0
    BY FS_EmptySet
  <2>2. [i \in 1 .. 0 |-> 0] \in [1 .. 0 -> T] /\ 1 .. 0 = {}
    OBVIOUS
  <2> QED
    BY <1>3, <2>1, <2>2 DEF Rising
<1>5. PICK least \in T : \A k \in T : least <= k
  BY <1>3, <1>4, NatLeast
<1> DEFINE U == T \ {least}
<1>6. IsFiniteSet(U) /\ Cardinality(U) = n - 1 /\ n \in Nat
  BY <1>2, <1>3, <1>5, FS_RemoveElement
<1>7. n - 1 \in Nat /\ n - 1 \notin Sizes
  BY <1>2, <1>6, FS_CardinalityType
<1>8. PICK f : Rising(U, f)
  BY <1>6, <1>7
<1> DEFINE g == [i \in 1 .. n |-> IF i = 1 THEN least ELSE f[i - 1]]
<1>9. f \in [1 .. n - 1 -> U] /\ \A i, j \in 1 .. n - 1 : i < j => f[i] < f[j]
  BY <1>6, <1>8 DEF Rising
<1>10. \A k \in U : k \in Nat /\ least \in Nat /\ least < k
  BY <1>3, <1>5
<1>11. \A i \in 1 .. n : i = 1 \/ i - 1 \in 1 .. n - 1
  BY <1>6
<1> HIDE DEF U
<1>12. g \in [1 .. n -> T]
  <2>1. \A i \in 1 .. n : i # 1 => f[i - 1] \in U
    BY <1>9, <1>11
  <2> QED
    BY <1>5, <2>1 DEF U
<1>13. ASSUME NEW i \in 1 .. n, NEW j \in 1 .. n, i < j PROVE g[i] < g[j]
  <2>1. j # 1 /\ j - 1 \in 1 .. n - 1 /\ g[j] = f[j - 1]
    BY <1>6, <1>13, <1>11
  <2>2. CASE i = 1
    BY <1>9, <1>10, <2>1, <2>2
  <2>3. CASE i # 1
    <3>1. i - 1 \in 1 .. n - 1 /\ i - 1 < j - 1 /\ g[i] = f[i - 1]
      BY <1>6, <1>11, <1>13, <2>3
    <3> QED
      BY <1>9, <2>1, <3>1
  <2> QED
    BY <2>2, <2>3
<1>14. Rising(T, g)
  BY <1>3, <1>12, <1>13 DEF Rising
<1> QED
  BY <1>3, <1>14

(* The lists that go one way without repeating an element.                 *)
Ordered(s, rising) ==
    \A i, j \in DOMAIN s : i < j => IF rising THEN s[i] < s[j] ELSE s[i] > s[j]

(* In the other order the same positions fall.                             *)
LEMMA OrderedExists ==
    ASSUME NEW S \in SUBSET Nat, IsFiniteSet(S), NEW rising \in BOOLEAN
    PROVE  \E f \in [1 .. Cardinality(S) -> S] : Ordered(f, rising)
<1> DEFINE n == Cardinality(S)
<1>1. n \in Nat
  BY FS_CardinalityType
<1>2. PICK f : Rising(S, f)
  BY RisingExists
<1>3. f \in [1 .. n -> S] /\ \A i, j \in 1 .. n : i < j => f[i] < f[j]
  BY <1>2 DEF Rising
<1> HIDE DEF n
<1>4. CASE rising
  BY <1>3, <1>4 DEF Ordered, n
<1>5. CASE ~rising
  <2> DEFINE g == [i \in 1 .. n |-> f[n + 1 - i]]
  <2>1. \A i \in 1 .. n : n + 1 - i \in 1 .. n
    BY <1>1
  <2>2. g \in [1 .. n -> S]
    BY <1>3, <2>1
  <2>3. ASSUME NEW i \in 1 .. n, NEW j \in 1 .. n, i < j PROVE g[i] > g[j]
    <3>1. n + 1 - i \in 1 .. n /\ n + 1 - j \in 1 .. n /\ n + 1 - j < n + 1 - i
      BY <1>1, <2>3
    <3>2. f[n + 1 - j] < f[n + 1 - i]
      BY <1>3, <3>1
    <3>3. f[n + 1 - j] \in Nat /\ f[n + 1 - i] \in Nat
      BY <1>3, <3>1
    <3> QED
      BY <3>2, <3>3
  <2>4. DOMAIN g = 1 .. n
    OBVIOUS
  <2> HIDE DEF g
  <2>5. Ordered(g, rising)
    BY <1>5, <2>3, <2>4 DEF Ordered
  <2> QED
    BY <2>2, <2>5 DEF n
<1> QED
  BY <1>4, <1>5

(* A list without repetition has as many elements as places, and one with  *)
(* as many as a set has all of the set.                                    *)
LEMMA DistinctCounts ==
    ASSUME NEW S, NEW n \in Nat, NEW f \in [1 .. n -> S],
           \A i, j \in 1 .. n : i < j => f[i] # f[j]
    PROVE  /\ \A T : (\A x : x \in T <=> \E i \in 1 .. n : x = f[i])
                     => IsFiniteSet(T) /\ Cardinality(T) = n
           /\ IsFiniteSet(S) /\ Cardinality(S) = n => \A x \in S : \E i \in 1 .. n : x = f[i]
<1> DEFINE T == {f[i] : i \in 1 .. n}
<1>1. \A i, j \in 1 .. n : f[i] = f[j] => i = j
  OBVIOUS
<1>2. f \in Surjection(1 .. n, T) /\ f \in Injection(1 .. n, T)
  BY <1>1 DEF Surjection, Injection, IsInjective
<1>3. IsFiniteSet(1 .. n) /\ Cardinality(1 .. n) = n
  BY FS_Interval
<1>4. IsFiniteSet(T) /\ Cardinality(T) = n
  BY <1>2, <1>3, FS_Surjection
<1>5. ASSUME IsFiniteSet(S), Cardinality(S) = n PROVE T = S
  <2>1. T \in SUBSET S
    OBVIOUS
  <2> QED
    BY <1>4, <1>5, <2>1, FS_Subset
<1>6. ASSUME NEW U, \A x : x \in U <=> \E i \in 1 .. n : x = f[i] PROVE U = T
  BY <1>6
<1>7. \A x \in T : \E i \in 1 .. n : x = f[i]
  OBVIOUS
<1> HIDE DEF T
<1> QED
  BY <1>4, <1>5, <1>6, <1>7

-----------------------------------------------------------------------------
(* The scan of one query.                                                  *)

(* What the assumptions say of cursors.                                    *)
LEMMA KeysArePositive == Keys \subseteq Nat \ {0} /\ Limit \in Nat /\ MaxChanges \in Nat
BY ConnectionAssumed DEF Query!ConnectionAssumption

(* The scan goes up or down.                                               *)
LEMMA ScanGoes ==
    /\ Query!Ascending \in BOOLEAN
    /\ \A a, b : Query!Before(a, b) <=> IF Query!Ascending THEN a < b ELSE a > b
BY DEF Query!Ascending, Query!Before

(* Of two positions one is scanned before the other.                       *)
LEMMA ScanIsTotal ==
    /\ \A a, b \in Nat : a = b \/ Query!Before(a, b) \/ Query!Before(b, a)
    /\ \A a \in Nat : ~Query!Before(a, a)
    /\ \A a, b, c \in Nat : Query!Before(a, b) /\ Query!Before(b, c) => Query!Before(a, c)
BY ScanGoes

(* The documents of S between the cursors.                                 *)
Span(S) == {k \in S : k > Query!MinKey /\ (Query!MaxKey # Query!NoCursor => k < Query!MaxKey)}

(* The cursors are positions, or none.                                     *)
LEMMA CursorsArePositions == q \in Query!Inputs => Query!MinKey \in Nat /\ Query!MaxKey \in Nat
<1> SUFFICES ASSUME q \in Query!Inputs PROVE Query!MinKey \in Nat /\ Query!MaxKey \in Nat
  OBVIOUS
<1>1. q.after \in Keys \cup {Query!NoCursor} /\ q.before \in Keys \cup {Query!NoCursor}
  BY DEF Query!Inputs
<1>2. \A k \in Keys \cup {Query!NoCursor} : k \in Nat
  BY KeysArePositive DEF Query!NoCursor
<1>3. q.after \in Nat /\ q.before \in Nat
  BY <1>1, <1>2
<1> QED
  BY <1>3 DEF Query!MinKey, Query!MaxKey

(* These the query scans.                                                  *)
LEMMA ScannedIsSpan ==
    ASSUME docs \subseteq Keys, q \in Query!Inputs
    PROVE  Query!Scanned = Span(docs)
<1>1. Query!MinKey \in Nat /\ Query!MaxKey \in Nat
  BY CursorsArePositions
<1>2. \A k \in docs : k \in Nat \ {0}
  BY KeysArePositive
<1> QED
  BY <1>1, <1>2 DEF Query!Scanned, Span, Query!NoCursor

(* There is an order to choose.                                            *)
LEMMA ScanIsOrdered ==
    ASSUME docs \subseteq Keys, IsFiniteSet(docs), q \in Query!Inputs
    PROVE  LET n == Cardinality(Span(docs))
           IN  /\ n \in Nat /\ Query!Scan \in Seq(Span(docs)) /\ Len(Query!Scan) = n
               /\ Ordered(Query!Scan, Query!Ascending)
               /\ \A k \in Span(docs) : \E i \in 1 .. n : k = Query!Scan[i]
<1> DEFINE S == Span(docs)
           n == Cardinality(S)
<1>1. S \in SUBSET docs /\ S \in SUBSET Nat
  BY KeysArePositive DEF Span
<1>2. IsFiniteSet(S) /\ n \in Nat
  BY <1>1, FS_Subset, FS_CardinalityType
<1>3. Query!Scanned = S
  BY ScannedIsSpan
<1>4. \E f \in [1 .. n -> S] : Ordered(f, Query!Ascending)
  BY <1>1, <1>2, ScanGoes, OrderedExists
<1>5. ASSUME NEW f \in [1 .. n -> S]
      PROVE  Ordered(f, Query!Ascending) <=> \A i, j \in DOMAIN f : i < j =>
             Query!Before(f[i], f[j])
  BY ScanGoes DEF Ordered
<1> HIDE DEF S
<1>6. Query!Scan = CHOOSE f \in [1 .. n -> S] : \A i, j \in DOMAIN f : i < j =>
      Query!Before(f[i], f[j])
  BY <1>3, ConnectionAssumed DEF Query!Scan
<1>7. \E f \in [1 .. n -> S] : \A i, j \in DOMAIN f : i < j => Query!Before(f[i], f[j])
  BY <1>4, <1>5
<1> HIDE DEF n
<1>8. Query!Scan \in [1 .. n -> S] /\ \A i, j \in DOMAIN Query!Scan : i < j =>
      Query!Before(Query!Scan[i], Query!Scan[j])
  BY <1>6, <1>7
<1>9. Ordered(Query!Scan, Query!Ascending)
  BY <1>8, <1>5
<1>10. Query!Scan \in Seq(S) /\ Len(Query!Scan) = n
  BY <1>2, <1>8
<1>11. \A i, j \in 1 .. n : i < j => Query!Scan[i] # Query!Scan[j]
  <2> SUFFICES ASSUME NEW i \in 1 .. n, NEW j \in 1 .. n, i < j
                      PROVE Query!Scan[i] # Query!Scan[j]
    OBVIOUS
  <2>1. Query!Before(Query!Scan[i], Query!Scan[j]) /\ Query!Scan[i] \in Nat
    BY <1>1, <1>8
  <2> QED
    BY <2>1, ScanIsTotal
<1>12. \A k \in S : \E i \in 1 .. n : k = Query!Scan[i]
  <2>1. IsFiniteSet(S) /\ Cardinality(S) = n /\ n \in Nat
    BY <1>2 DEF n
  <2> QED
    BY <1>8, <1>11, <2>1, DistinctCounts
<1> QED
  BY <1>2, <1>9, <1>10, <1>12 DEF S, n

(* The page is a beginning of the scan, of the length that was asked for.  *)
LEMMA CutIsPrefix ==
    ASSUME docs \subseteq Keys, IsFiniteSet(docs), q \in Query!Inputs, Query!Size \in Nat
    PROVE  LET m == Cardinality(Span(docs))
               n == IF m < Query!Size THEN m ELSE Query!Size
           IN  /\ Query!Cut \in Seq(Span(docs)) /\ Len(Query!Cut) = n
               /\ \A i \in 1 .. n : Query!Cut[i] = Query!Scan[i]
               /\ Len(Query!Found) > Query!Size <=> m > Query!Size
<1> DEFINE S == Span(docs)
           m == Cardinality(S)
           n == IF m < Query!Size THEN m ELSE Query!Size
<1>1. /\ m \in Nat /\ Query!Scan \in Seq(S) /\ Len(Query!Scan) = m
  BY ScanIsOrdered
<1>2. Query!NoResults => m = 0
  <2> SUFFICES ASSUME Query!NoResults PROVE m = 0
    OBVIOUS
  <2>1. Query!MinKey \in Nat /\ Query!MaxKey \in Nat
    BY CursorsArePositions
  <2>2. \A k \in docs : k \in Nat
    BY KeysArePositive
  <2>3. S = {}
    BY <2>1, <2>2 DEF Span, Query!NoResults
  <2> QED
    BY <2>3, FS_EmptySet
<1> HIDE DEF S, m
<1>3. Query!Found = SubSeq(Query!Scan, 1, IF m < Query!Size + 1 THEN m ELSE Query!Size + 1)
  <2>1. CASE Query!NoResults
    <3>1. m = 0
      BY <1>2, <2>1
    <3>2. (IF m < Query!Size + 1 THEN m ELSE Query!Size + 1) = 0
      BY <3>1
    <3>3. SubSeq(Query!Scan, 1, 0) = <<>>
      BY <1>1, EmptySeq, SubSeqProperties
    <3> QED
      BY <2>1, <3>2, <3>3 DEF Query!Found
  <2>2. CASE ~Query!NoResults
    BY <1>1, <2>2 DEF Query!Found
  <2> QED
    BY <2>1, <2>2
<1> DEFINE l == IF m < Query!Size + 1 THEN m ELSE Query!Size + 1
<1>4. l \in Nat /\ l <= Len(Query!Scan) /\ n \in Nat /\ n <= l /\ n <= m
      /\ n = (IF l < Query!Size THEN l ELSE Query!Size) /\ (l > Query!Size <=> m > Query!Size)
  BY <1>1
<1> HIDE DEF l, n
<1>5. Query!Found \in Seq(S) /\ Len(Query!Found) = l
      /\ \A i \in 1 .. l : Query!Found[i] = Query!Scan[i]
  BY <1>1, <1>3, <1>4 DEF l
<1>6. Query!Cut = SubSeq(Query!Found, 1, n)
  BY <1>4, <1>5 DEF Query!Cut
<1>7. Query!Cut \in Seq(S) /\ Len(Query!Cut) = n
      /\ \A i \in 1 .. n : Query!Cut[i] = Query!Found[i]
  BY <1>4, <1>5, <1>6
<1>8. \A i \in 1 .. n : i \in 1 .. l
  BY <1>4
<1> QED
  BY <1>4, <1>5, <1>7, <1>8 DEF S, m, n

(* A valid input asks for the first or for the last documents.             *)
LEMMA ValidAsks ==
    ASSUME q \in Query!Inputs, Query!Valid
    PROVE  /\ Query!Size \in Nat /\ Query!Size <= Limit
           /\ q.last # Query!NoArg <=> q.first = Query!NoArg
<1>1. q.first \in {Query!NoArg} \cup (0 .. Limit) /\ q.last \in {Query!NoArg} \cup (0 .. Limit)
  BY DEF Query!Valid
<1>2. q.last # Query!NoArg <=> q.first = Query!NoArg
  BY DEF Query!Valid
<1>3. Query!Size \in 0 .. Limit
  BY <1>1, <1>2 DEF Query!Size
<1> QED
  BY <1>2, <1>3, KeysArePositive

(* The scan goes in the direction that was asked for, or, for the last     *)
(* documents, against it.                                                  *)
LEMMA ScanAndDirection ==
    ASSUME q \in Query!Inputs, NEW a \in Nat, NEW b \in Nat
    PROVE  IF q.first # Query!NoArg
             THEN Query!Before(a, b) <=> IF q.dir = "asc" THEN a < b ELSE a > b
             ELSE Query!Before(b, a) <=> IF q.dir = "asc" THEN a < b ELSE a > b
BY DEF Query!Before, Query!Ascending

(* A page of the documents S: in the direction asked for, as long as asked *)
(* for if there are so many; the others come after it in the scan, and     *)
(* then there is a next page.                                              *)
Page(s, S, more) ==
    /\ s \in Seq(S) /\ Query!InOrder(s)
    /\ Len(s) = IF Cardinality(S) < Query!Size THEN Cardinality(S) ELSE Query!Size
    /\ \A k \in S \ Query!ToSet(s), p \in Query!ToSet(s) : Query!Before(p, k)
    /\ \A k \in S \ Query!ToSet(s) : more /\ Len(s) = Query!Size

(* The query finds such a page.                                            *)
LEMMA SortedIsPage ==
    ASSUME docs \subseteq Keys, IsFiniteSet(docs), q \in Query!Inputs, Query!Valid
    PROVE  Page(Query!Sorted, Span(docs), Len(Query!Found) > Query!Size)
<1> DEFINE S == Span(docs)
           m == Cardinality(S)
           n == IF m < Query!Size THEN m ELSE Query!Size
           more == Len(Query!Found) > Query!Size
<1>1. Query!Size \in Nat
  BY ValidAsks
<1>2. /\ m \in Nat /\ Query!Scan \in Seq(S) /\ Len(Query!Scan) = m
      /\ \A i, j \in 1 .. m : i < j => Query!Before(Query!Scan[i], Query!Scan[j])
      /\ \A k \in S : \E i \in 1 .. m : k = Query!Scan[i]
  <2>1. /\ m \in Nat /\ Query!Scan \in Seq(S) /\ Len(Query!Scan) = m
           /\ Ordered(Query!Scan, Query!Ascending)
        /\ \A k \in S : \E i \in 1 .. m : k = Query!Scan[i]
    BY ScanIsOrdered
  <2>2. DOMAIN Query!Scan = 1 .. m
    BY <2>1
  <2> QED
    BY <2>1, <2>2, ScanGoes DEF Ordered
<1>3. Query!Cut \in Seq(S) /\ Len(Query!Cut) = n
      /\ (\A i \in 1 .. n : Query!Cut[i] = Query!Scan[i]) /\ (more <=> m > Query!Size)
  BY <1>1, CutIsPrefix
<1>4. \A k \in S : k \in Nat
  BY KeysArePositive DEF Span
<1>5. n \in Nat /\ n <= m /\ n <= Query!Size /\ (n < m => n = Query!Size /\ m > Query!Size)
  BY <1>1, <1>2
<1> HIDE DEF S, m, n, more
<1>6. \A i \in 1 .. n : i \in 1 .. m /\ Query!Cut[i] \in S
  BY <1>2, <1>3, <1>5
<1>7. /\ Query!Sorted \in Seq(S) /\ Len(Query!Sorted) = n
      /\ \A i \in 1 .. n : Query!Sorted[i] = Query!Scan[IF q.last # Query!NoArg
         THEN n + 1 - i ELSE i]
  <2>1. CASE q.last # Query!NoArg
    <3>1. Query!Sorted = [i \in 1 .. n |-> Query!Cut[(n - i) + 1]]
      BY <1>3, <2>1 DEF Query!Sorted, Query!Reverse
    <3>2. \A i \in 1 .. n : (n - i) + 1 \in 1 .. n /\ n + 1 - i = (n - i) + 1
      BY <1>5
    <3>3. Query!Sorted \in [1 .. n -> S]
      BY <1>6, <3>1, <3>2
    <3>4. Query!Sorted \in Seq(S) /\ Len(Query!Sorted) = n
      BY <1>5, <3>3
    <3> QED
      BY <1>3, <2>1, <3>1, <3>2, <3>4
  <2>2. CASE q.last = Query!NoArg
    BY <1>3, <2>2 DEF Query!Sorted
  <2> QED
    BY <2>1, <2>2
<1>8. DOMAIN Query!Sorted = 1 .. n
  BY <1>7
<1>9. Query!InOrder(Query!Sorted)
  <2> SUFFICES ASSUME NEW i \in 1 .. n, NEW j \in 1 .. n, i < j
               PROVE  IF q.dir = "asc" THEN Query!Sorted[i] < Query!Sorted[j]
                      ELSE Query!Sorted[i] > Query!Sorted[j]
    BY <1>8 DEF Query!InOrder
  <2> DEFINE a == Query!Sorted[i]
             b == Query!Sorted[j]
  <2>1. a \in S /\ b \in S
    BY <1>7
  <2>2. a \in Nat /\ b \in Nat
    BY <1>4, <2>1
  <2>3. CASE q.last # Query!NoArg
    <3>1. n + 1 - j \in 1 .. m /\ n + 1 - i \in 1 .. m /\ n + 1 - j < n + 1 - i
      BY <1>2, <1>5
    <3>2. a = Query!Scan[n + 1 - i] /\ b = Query!Scan[n + 1 - j]
      BY <1>7, <2>3
    <3>3. Query!Before(b, a)
      BY <1>2, <3>1, <3>2
    <3>4. q.first = Query!NoArg
      BY <2>3, ValidAsks
    <3> HIDE DEF a, b
    <3>5. IF q.dir = "asc" THEN a < b ELSE a > b
      BY <2>2, <3>3, <3>4, ScanAndDirection
    <3> QED
      BY <3>5 DEF a, b
  <2>4. CASE q.last = Query!NoArg
    <3>1. a = Query!Scan[i] /\ b = Query!Scan[j] /\ i \in 1 .. m /\ j \in 1 .. m
      BY <1>6, <1>7, <2>4
    <3>2. Query!Before(a, b)
      BY <1>2, <3>1
    <3>3. q.first # Query!NoArg
      BY <2>4, ValidAsks
    <3> HIDE DEF a, b
    <3>4. IF q.dir = "asc" THEN a < b ELSE a > b
      BY <2>2, <3>2, <3>3, ScanAndDirection
    <3> QED
      BY <3>4 DEF a, b
  <2> QED
    BY <2>3, <2>4
<1>10. \A i \in 1 .. n : Query!Scan[i] \in Query!ToSet(Query!Sorted)
  <2> SUFFICES ASSUME NEW i \in 1 .. n PROVE Query!Scan[i] \in Query!ToSet(Query!Sorted)
    OBVIOUS
  <2> DEFINE j == IF q.last # Query!NoArg THEN n + 1 - i ELSE i
  <2>1. j \in 1 .. n /\ (IF q.last # Query!NoArg THEN n + 1 - j ELSE j) = i
    BY <1>5
  <2>2. Query!Sorted[j] = Query!Scan[i]
    BY <1>7, <2>1
  <2> QED
    BY <1>8, <2>1, <2>2 DEF Query!ToSet
<1>11. \A p \in Query!ToSet(Query!Sorted) : \E i \in 1 .. n : p = Query!Scan[i]
  <2> SUFFICES ASSUME NEW j \in 1 .. n PROVE \E i \in 1 .. n : Query!Sorted[j] = Query!Scan[i]
    BY <1>8 DEF Query!ToSet
  <2>1. (IF q.last # Query!NoArg THEN n + 1 - j ELSE j) \in 1 .. n
    BY <1>5
  <2> QED
    BY <1>7, <2>1
<1>12. \A k \in S \ Query!ToSet(Query!Sorted) : \E i \in 1 .. m : k = Query!Scan[i] /\ n < i
  BY <1>2, <1>5, <1>10
<1>13. ASSUME NEW k \in S \ Query!ToSet(Query!Sorted)
       PROVE  /\ \A p \in Query!ToSet(Query!Sorted) : Query!Before(p, k)
              /\ more /\ n = Query!Size
  <2>1. PICK i \in 1 .. m : k = Query!Scan[i] /\ n < i
    BY <1>12
  <2>2. n < m
    BY <1>2, <1>5, <2>1
  <2>3. ASSUME NEW p \in Query!ToSet(Query!Sorted) PROVE Query!Before(p, k)
    <3>1. PICK j \in 1 .. n : p = Query!Scan[j]
      BY <1>11
    <3>2. j \in 1 .. m /\ j < i
      BY <1>2, <1>5, <2>1, <3>1
    <3> QED
      BY <1>2, <2>1, <3>1, <3>2
  <2> QED
    BY <1>3, <1>5, <2>2, <2>3
<1>14. Len(Query!Sorted) = IF Cardinality(S) < Query!Size THEN Cardinality(S) ELSE Query!Size
  BY <1>7 DEF n, m
<1>15. \A k \in S \ Query!ToSet(Query!Sorted) : more /\ Len(Query!Sorted) = Query!Size
  BY <1>7, <1>13
<1>16. \A k \in S \ Query!ToSet(Query!Sorted),
       p \in Query!ToSet(Query!Sorted) : Query!Before(p, k)
  BY <1>13
<1>17. Page(Query!Sorted, S, more)
  BY <1>7, <1>9, <1>14, <1>15, <1>16 DEF Page
<1> QED
  BY <1>17 DEF more, S

-----------------------------------------------------------------------------
(* The invariant.                                                          *)

(* What was there is still there, or has been deleted.                     *)
DocsInv ==
    /\ docs \subseteq Keys /\ IsFiniteSet(docs)
    /\ changes \in 0 .. MaxChanges
    /\ stayed \subseteq docs

(* The client, and the input of its request.                               *)
ClientInv ==
    /\ at_query \in {"idle", "asking", "ended"}
    /\ walk \in BOOLEAN
    /\ q \in Query!Inputs
    /\ walk => /\ Query!Valid
               /\ IF q.first # Query!NoArg THEN q.before = Query!NoCursor
                  ELSE q.after = Query!NoCursor

(* What the query has found is a page of what was there.                   *)
PageInv ==
    /\ once \in {"no", "done", "failed"}
    /\ at \subseteq Keys /\ hasNext \in BOOLEAN
    /\ once # "done" => edges = <<>> /\ hasNext = FALSE
    /\ once = "done" =>
         /\ Query!Valid
         /\ IsFiniteSet(at) /\ stayed \subseteq at
         /\ Page(edges, Span(at), hasNext)

(* The resolvers have answered with what it left; one tells that it failed.*)
ToldInv ==
    /\ told \in [Query!Resolvers -> {Query!Silent, Query!Failed, edges}]
    /\ once = "no" => told = Query!Unanswered
    /\ once = "failed" => Query!Refused

(* Where the walk goes on.                                                 *)
Cursor == IF q.first # Query!NoArg THEN q.after ELSE q.before

(* The pages before the cursor have shown what stayed there.               *)
SeenInv ==
    /\ seen \in Seq(Keys) /\ Query!InOrder(seen)
    /\ at_query = "asking" /\ (~walk \/ Cursor = Query!NoCursor) => seen = <<>>
    /\ at_query = "asking" /\ walk /\ Cursor # Query!NoCursor =>
         /\ \A k \in Query!ToSet(seen) : k = Cursor \/ Query!Before(k, Cursor)
         /\ \A k \in stayed : k = Cursor \/ Query!Before(k, Cursor) => k \in Query!ToSet(seen)
    /\ at_query = "ended" /\ walk /\ ~Query!Refused /\ Query!Size > 0 =>
       stayed \subseteq Query!ToSet(seen)

PagesInv == DocsInv /\ ClientInv /\ PageInv /\ ToldInv /\ SeenInv

(* It holds in the beginning.                                              *)
LEMMA PagesInit == Query!Init => PagesInv
<1> SUFFICES ASSUME Query!Init PROVE PagesInv
  OBVIOUS
<1> USE DEF Query!Init
<1>1. DocsInv
  BY KeysArePositive, ConnectionAssumed DEF DocsInv
<1>2. q \in Query!Inputs
  BY KeysArePositive DEF Query!Inputs, Query!Args, Query!NoArg, Query!NoCursor
<1>3. ClientInv
  BY <1>2 DEF ClientInv
<1>4. PageInv
  BY DEF PageInv
<1>5. ToldInv
  BY DEF ToldInv, Query!Unanswered
<1>6. SeenInv
  BY DEF SeenInv, Query!InOrder
<1> QED
  BY <1>1, <1>3, <1>4, <1>5, <1>6 DEF PagesInv

(* What a request leaves of the one before.                                *)
LEMMA RequestClears ==
    ASSUME NEW input, Query!Request(input)
    PROVE  PageInv' /\ ToldInv'
<1>1. /\ once' = "no" /\ edges' = <<>> /\ hasNext' = FALSE /\ at' = {}
      /\ told' = Query!Unanswered
  BY DEF Query!Request
<1>2. PageInv'
  BY <1>1 DEF PageInv
<1>3. ToldInv'
  BY <1>1 DEF ToldInv, Query!Unanswered
<1> QED
  BY <1>2, <1>3

(* A single request begins.                                                *)
LEMMA AskIInv ==
    ASSUME PagesInv, Query!Ask
    PROVE  PagesInv'
<1> PICK input \in Query!Inputs : Query!Request(input)
  BY DEF Query!Ask
<1>1. /\ at_query' = "asking" /\ q' = input /\ walk' = FALSE /\ seen' = <<>> /\ stayed' = docs
      /\ docs' = docs /\ changes' = changes /\ Query!Request(input)
  BY DEF Query!Ask, Query!Request
<1>2. DocsInv' /\ ClientInv'
  BY <1>1 DEF PagesInv, DocsInv, ClientInv, Query!Inputs
<1>3. SeenInv'
  BY <1>1 DEF SeenInv, Query!InOrder
<1> QED
  BY <1>1, <1>2, <1>3, RequestClears DEF PagesInv

(* A walk begins.                                                          *)
LEMMA WalkIInv ==
    ASSUME PagesInv, NEW dir \in {"asc", "desc"}, NEW n \in 0 .. Limit, NEW forward \in BOOLEAN,
           Query!Walk(dir, n, forward)
    PROVE  PagesInv'
<1> DEFINE input == [dir |-> dir, after |-> Query!NoCursor, before |-> Query!NoCursor,
                     first |-> IF forward THEN n ELSE Query!NoArg,
                     last |-> IF forward THEN Query!NoArg ELSE n]
<1>1. /\ at_query' = "asking" /\ q' = input /\ walk' = TRUE /\ seen' = <<>> /\ stayed' = docs
      /\ docs' = docs /\ changes' = changes /\ Query!Request(input)
  BY DEF Query!Walk, Query!Request
<1>2. n \in Query!Args /\ Query!NoArg \in Query!Args /\ n # Query!NoArg
  BY KeysArePositive DEF Query!Args, Query!NoArg
<1>3. input \in Query!Inputs
  BY <1>2 DEF Query!Inputs
<1>4. Query!Valid'
  BY <1>1, <1>2 DEF Query!Valid
<1>5. DocsInv' /\ ClientInv'
  BY <1>1, <1>3, <1>4 DEF PagesInv, DocsInv, ClientInv, Query!Inputs
<1>6. Cursor' = Query!NoCursor
  BY <1>1 DEF Cursor
<1>7. SeenInv'
  BY <1>1, <1>6 DEF SeenInv, Query!InOrder
<1> QED
  BY <1>1, <1>5, <1>7, RequestClears DEF PagesInv

(* What only the input tells stays as long as the input does.              *)
LEMMA InputKept ==
    ASSUME q' = q
    PROVE  /\ Query!Valid' = Query!Valid /\ Cursor' = Cursor /\ Query!Size' = Query!Size
           /\ \A a, b : Query!Before(a, b)' = Query!Before(a, b)
           /\ \A s : Query!InOrder(s)' = Query!InOrder(s)
           /\ \A S : Span(S)' = Span(S)
           /\ \A s, S, more : Page(s, S, more)' = Page(s, S, more)
<1> USE DEF Query!Valid, Cursor, Query!Size, Query!Before, Query!Ascending, Query!InOrder,
    Span, Query!MinKey, Query!MaxKey
<1>1. Query!Valid' = Query!Valid /\ Cursor' = Cursor /\ Query!Size' = Query!Size
  OBVIOUS
<1>2. \A a, b : Query!Before(a, b)' = Query!Before(a, b)
  OBVIOUS
<1>3. \A s : Query!InOrder(s)' = Query!InOrder(s)
  OBVIOUS
<1>4. \A S : Span(S)' = Span(S)
  OBVIOUS
<1>5. \A s, S, more : Page(s, S, more)' = Page(s, S, more)
  BY DEF Page
<1> QED
  BY <1>1, <1>2, <1>3, <1>4, <1>5

(* The query is made.                                                      *)
LEMMA FindIInv ==
    ASSUME PagesInv, NEW r \in Query!Resolvers, Query!Find(r)
    PROVE  PagesInv'
<1>1. /\ at_query = "asking" /\ once = "no" /\ Query!Valid /\ once' = "done" /\ at' = docs
      /\ edges' = Query!Sorted /\ hasNext' = (Len(Query!Found) > Query!Size)
      /\ told' = [told EXCEPT ![r] = Query!Sorted]
      /\ docs' = docs /\ changes' = changes /\ at_query' = at_query /\ walk' = walk /\ q' = q
      /\ seen' = seen /\ stayed' = stayed
  BY DEF Query!Find, Query!Answer
<1>2. docs \subseteq Keys /\ IsFiniteSet(docs) /\ stayed \subseteq docs /\ q \in Query!Inputs
  BY DEF PagesInv, DocsInv, ClientInv
<1>3. DocsInv' /\ ClientInv'
  BY <1>1, InputKept DEF PagesInv, DocsInv, ClientInv
<1>4. Page(Query!Sorted, Span(docs), Len(Query!Found) > Query!Size)
  BY <1>1, <1>2, SortedIsPage
<1>5. PageInv'
  <2>1. Page(edges, Span(at), hasNext)'
    BY <1>1, <1>4 DEF Page, Span, Query!InOrder, Query!Before, Query!Ascending,
       Query!MinKey, Query!MaxKey, Query!Size
  <2>2. Query!Valid' /\ hasNext' \in BOOLEAN
    BY <1>1, InputKept
  <2> QED
    BY <1>1, <1>2, <2>1, <2>2 DEF PageInv
<1>6. ToldInv'
  BY <1>1 DEF PagesInv, ToldInv, Query!Unanswered
<1>7. SeenInv'
  BY <1>1, InputKept DEF PagesInv, SeenInv
<1> QED
  BY <1>3, <1>5, <1>6, <1>7 DEF PagesInv

(* The query fails.                                                        *)
LEMMA FindFailsIInv ==
    ASSUME PagesInv, NEW r \in Query!Resolvers, Query!FindFails(r)
    PROVE  PagesInv'
<1>1. /\ at_query = "asking" /\ once = "no" /\ once' = "failed" /\ at' = docs
      /\ edges' = edges /\ hasNext' = hasNext
      /\ told' = [told EXCEPT ![r] = Query!Failed]
      /\ docs' = docs /\ changes' = changes /\ at_query' = at_query /\ walk' = walk /\ q' = q
      /\ seen' = seen /\ stayed' = stayed
  BY DEF Query!FindFails, Query!Answer
<1>2. DocsInv' /\ ClientInv'
  BY <1>1, InputKept DEF PagesInv, DocsInv, ClientInv
<1>3. PageInv'
  BY <1>1 DEF PagesInv, PageInv, DocsInv
<1>4. ToldInv'
  BY <1>1 DEF PagesInv, ToldInv, Query!Refused, Query!Unanswered
<1>5. SeenInv'
  BY <1>1, InputKept DEF PagesInv, SeenInv
<1> QED
  BY <1>2, <1>3, <1>4, <1>5 DEF PagesInv

(* Another resolver answers.                                               *)
LEMMA ReuseIInv ==
    ASSUME PagesInv, NEW r \in Query!Resolvers, Query!Reuse(r)
    PROVE  PagesInv'
<1>1. /\ at_query = "asking" /\ once # "no" /\ told[r] = Query!Silent
      /\ told' = [told EXCEPT ![r] = edges]
      /\ UNCHANGED <<docs, changes, at_query, walk, q, once, edges, hasNext, at, seen, stayed>>
  BY DEF Query!Reuse, Query!Answer
<1>2. DocsInv' /\ ClientInv' /\ PageInv'
  BY <1>1, InputKept DEF PagesInv, DocsInv, ClientInv, PageInv
<1>3. ToldInv'
  <2>1. Query!Silent # Query!Failed
    BY DEF Query!Silent, Query!Failed
  <2> QED
    BY <1>1, <2>1 DEF PagesInv, ToldInv, Query!Refused
<1>4. SeenInv'
  BY <1>1, InputKept DEF PagesInv, SeenInv
<1> QED
  BY <1>2, <1>3, <1>4 DEF PagesInv

(* A document comes.                                                       *)
LEMMA InsertIInv ==
    ASSUME PagesInv, NEW k \in Keys, Query!Insert(k)
    PROVE  PagesInv'
<1>1. /\ changes < MaxChanges /\ docs' = docs \cup {k} /\ changes' = changes + 1
      /\ UNCHANGED <<at_query, walk, q, once, edges, hasNext, at, told, seen, stayed>>
  BY DEF Query!Insert, Query!query
<1>2. DocsInv'
  BY <1>1, FS_AddElement, KeysArePositive DEF PagesInv, DocsInv
<1>3. ClientInv' /\ PageInv'
  BY <1>1, InputKept DEF PagesInv, ClientInv, PageInv
<1>4. ToldInv' /\ Query!Refused' = Query!Refused
  BY <1>1 DEF PagesInv, ToldInv, Query!Refused
<1>5. SeenInv'
  BY <1>1, <1>4, InputKept DEF PagesInv, SeenInv
<1> QED
  BY <1>2, <1>3, <1>4, <1>5 DEF PagesInv

(* A document goes.                                                        *)
LEMMA DeleteIInv ==
    ASSUME PagesInv, NEW k \in Keys, Query!Delete(k)
    PROVE  PagesInv'
<1>1. /\ changes < MaxChanges /\ docs' = docs \ {k} /\ changes' = changes + 1
      /\ stayed' = stayed \ {k}
      /\ UNCHANGED <<at_query, walk, q, once, edges, hasNext, at, told, seen>>
  BY DEF Query!Delete, Query!query
<1>2. DocsInv'
  BY <1>1, FS_RemoveElement, KeysArePositive DEF PagesInv, DocsInv
<1>3. ClientInv' /\ PageInv'
  BY <1>1, InputKept DEF PagesInv, ClientInv, PageInv
<1>4. ToldInv' /\ Query!Refused' = Query!Refused
  BY <1>1 DEF PagesInv, ToldInv, Query!Refused
<1>5. SeenInv'
  BY <1>1, <1>4, InputKept DEF PagesInv, SeenInv
<1> QED
  BY <1>2, <1>3, <1>4, <1>5 DEF PagesInv

-----------------------------------------------------------------------------
(* From page to page.                                                      *)

(* Two lists in order, of which the second lies behind the first.          *)
LEMMA OrderedConcat ==
    ASSUME NEW s \in Seq(Nat), NEW t \in Seq(Nat), Query!InOrder(s), Query!InOrder(t),
           \A a \in Query!ToSet(s), b \in Query!ToSet(t) : IF q.dir = "asc" THEN a < b
             ELSE a > b
    PROVE  Query!InOrder(s \o t) /\ Query!ToSet(s \o t) = Query!ToSet(s) \cup Query!ToSet(t)
<1> DEFINE u == s \o t
           m == Len(s)
           n == Len(t)
<1>1. /\ m \in Nat /\ n \in Nat /\ DOMAIN s = 1 .. m /\ DOMAIN t = 1 .. n
      /\ DOMAIN u = 1 .. m + n
      /\ \A i \in 1 .. m : u[i] = s[i]
      /\ \A i \in 1 .. n : u[m + i] = t[i]
  OBVIOUS
<1> HIDE DEF u, m, n
<1>2. \A i \in 1 .. m + n : i \in 1 .. m \/ \E j \in 1 .. n : i = m + j
  <2> SUFFICES ASSUME NEW i \in 1 .. m + n, i \notin 1 .. m PROVE \E j \in 1 .. n : i = m + j
    OBVIOUS
  <2>1. i - m \in 1 .. n /\ i = m + (i - m)
    BY <1>1
  <2> QED
    BY <2>1
<1>3. \A i \in 1 .. m : i \in 1 .. m + n
  BY <1>1
<1>4. \A j \in 1 .. n : m + j \in 1 .. m + n
  BY <1>1
<1>5. Query!ToSet(u) = Query!ToSet(s) \cup Query!ToSet(t)
  <2>1. /\ \A x : x \in Query!ToSet(u) <=> \E i \in 1 .. m + n : x = u[i]
        /\ \A x : x \in Query!ToSet(s) <=> \E i \in 1 .. m : x = s[i]
        /\ \A x : x \in Query!ToSet(t) <=> \E i \in 1 .. n : x = t[i]
    BY <1>1 DEF Query!ToSet
  <2>2. ASSUME NEW x \in Query!ToSet(u) PROVE x \in Query!ToSet(s) \cup Query!ToSet(t)
    <3>1. PICK i \in 1 .. m + n : x = u[i]
      BY <2>1
    <3>2. CASE i \in 1 .. m
      BY <1>1, <2>1, <3>1, <3>2
    <3>3. CASE i \notin 1 .. m
      <4>1. PICK j \in 1 .. n : i = m + j
        BY <1>2, <3>3
      <4> QED
        BY <1>1, <2>1, <3>1, <4>1
    <3> QED
      BY <3>2, <3>3
  <2>3. \A x \in Query!ToSet(s) : x \in Query!ToSet(u)
    BY <1>1, <1>3, <2>1
  <2>4. \A x \in Query!ToSet(t) : x \in Query!ToSet(u)
    BY <1>1, <1>4, <2>1
  <2> QED
    BY <2>2, <2>3, <2>4
<1>6. Query!InOrder(u)
  <2> SUFFICES ASSUME NEW i \in 1 .. m + n, NEW j \in 1 .. m + n, i < j
               PROVE  IF q.dir = "asc" THEN u[i] < u[j] ELSE u[i] > u[j]
    BY <1>1 DEF Query!InOrder
  <2>1. CASE i \in 1 .. m /\ j \in 1 .. m
    BY <1>1, <2>1 DEF Query!InOrder
  <2>2. CASE i \in 1 .. m /\ j \notin 1 .. m
    <3>1. PICK k \in 1 .. n : j = m + k
      BY <1>2, <2>2
    <3>2. u[i] \in Query!ToSet(s) /\ u[j] \in Query!ToSet(t)
      BY <1>1, <2>2, <3>1 DEF Query!ToSet
    <3> QED
      BY <3>2
  <2>3. CASE i \notin 1 .. m
    <3>1. PICK k \in 1 .. n : i = m + k
      BY <1>2, <2>3
    <3>2. j \notin 1 .. m
      BY <1>1, <2>3
    <3>3. PICK l \in 1 .. n : j = m + l
      BY <1>2, <3>2
    <3>4. k < l
      BY <1>1, <3>1, <3>3
    <3> QED
      BY <1>1, <3>1, <3>3, <3>4 DEF Query!InOrder
  <2> QED
    BY <2>1, <2>2, <2>3
<1> QED
  BY <1>5, <1>6 DEF u

(* A page that was answered without an error.                              *)
Turned == PagesInv /\ Query!Answered /\ ~Query!Refused

(* It is the result of the query.                                          *)
LEMMA TurnedIsPage ==
    ASSUME Turned
    PROVE  /\ once = "done" /\ at_query = "asking" /\ Query!Valid /\ Query!Size \in Nat
              /\ Query!Size <= Limit
           /\ Span(at) \subseteq Keys /\ stayed \subseteq at
           /\ Page(edges, Span(at), hasNext) /\ edges \in Seq(Keys)
           /\ \A k \in Query!ToSet(edges) : k \in Span(at) /\ k \in Nat
<1>1. once = "done"
  <2>1. once # "no"
    BY DEF Turned, PagesInv, ToldInv, Query!Answered, Query!Unanswered, Query!Resolvers
  <2> QED
    BY <2>1 DEF Turned, PagesInv, ToldInv, PageInv
<1>2. /\ Query!Valid /\ q \in Query!Inputs /\ at \subseteq Keys /\ stayed \subseteq at
      /\ Page(edges, Span(at), hasNext)
  BY <1>1 DEF Turned, PagesInv, PageInv, ClientInv
<1>3. Span(at) \subseteq Keys
  BY <1>2 DEF Span
<1>4. edges \in Seq(Span(at))
  BY <1>2 DEF Page
<1>5. edges \in Seq(Keys)
  BY <1>3, <1>4
<1>6. \A k \in Query!ToSet(edges) : k \in Span(at)
  BY <1>4 DEF Query!ToSet
<1> QED
  BY <1>1, <1>2, <1>3, <1>5, <1>6, ValidAsks, KeysArePositive DEF Turned, Query!Answered

(* In a walk the documents of the range are those behind the cursor.       *)
LEMMA WalkedSpan ==
    ASSUME Turned, walk, NEW k \in at
    PROVE  k \in Span(at) <=> Cursor = Query!NoCursor \/ Query!Before(Cursor, k)
<1>1. k \in Nat \ {0}
  BY TurnedIsPage, KeysArePositive DEF Turned, PagesInv, PageInv
<1>2. /\ q \in Query!Inputs /\ q.dir \in {"asc", "desc"}
      /\ IF q.first # Query!NoArg THEN q.before = Query!NoCursor ELSE q.after = Query!NoCursor
  BY DEF Turned, PagesInv, ClientInv, Query!Inputs
<1>3. q.after \in Nat /\ q.before \in Nat
  <2>1. \A c \in Keys \cup {Query!NoCursor} : c \in Nat
    BY KeysArePositive DEF Query!NoCursor
  <2> QED
    BY <1>2, <2>1 DEF Query!Inputs
<1> QED
  BY <1>1, <1>2, <1>3 DEF Span, Cursor, Query!Before, Query!Ascending, Query!MinKey,
     Query!MaxKey, Query!NoCursor

(* The pages before and this one, in the direction that was asked for.     *)
LEMMA CollectedInOrder ==
    ASSUME Turned
    PROVE  /\ Query!Collected \in Seq(Keys) /\ Query!InOrder(Query!Collected)
           /\ Query!ToSet(Query!Collected) = Query!ToSet(seen) \cup Query!ToSet(edges)
<1>1. edges \in Seq(Nat) /\ edges \in Seq(Keys) /\ Query!InOrder(edges)
      /\ seen \in Seq(Nat) /\ seen \in Seq(Keys) /\ Query!InOrder(seen)
  <2>1. edges \in Seq(Keys) /\ Page(edges, Span(at), hasNext)
    BY TurnedIsPage
  <2>2. seen \in Seq(Keys) /\ Query!InOrder(seen)
    BY DEF Turned, PagesInv, SeenInv
  <2>3. ASSUME NEW s \in Seq(Keys) PROVE s \in Seq(Nat)
    <3>1. Len(s) \in Nat /\ s \in [1 .. Len(s) -> Keys]
      OBVIOUS
    <3>2. s \in [1 .. Len(s) -> Nat]
      BY <3>1, KeysArePositive
    <3> QED
      BY <3>1, <3>2
  <2>4. Query!InOrder(edges)
    BY <2>1 DEF Page
  <2> QED
    BY <2>1, <2>2, <2>3, <2>4
<1>2. ASSUME NEW a \in Query!ToSet(seen), NEW b \in Query!ToSet(edges) PROVE Query!Before(a, b)
  <2>1. seen # <<>>
    BY <1>2 DEF Query!ToSet
  <2>2. walk /\ Cursor # Query!NoCursor /\ (a = Cursor \/ Query!Before(a, Cursor))
    BY <1>2, <2>1, TurnedIsPage DEF Turned, PagesInv, SeenInv
  <2>3. b \in Span(at) /\ b \in at /\ b \in Nat
    BY <1>2, TurnedIsPage DEF Span
  <2>4. Query!Before(Cursor, b)
    BY <2>2, <2>3, WalkedSpan
  <2>5. a \in Nat /\ Cursor \in Nat
    <3>1. a \in Keys
      BY <1>1, <1>2 DEF Query!ToSet
    <3>2. \A c \in Keys \cup {Query!NoCursor} : c \in Nat
      BY KeysArePositive DEF Query!NoCursor
    <3>3. q.after \in Keys \cup {Query!NoCursor} /\ q.before \in Keys \cup {Query!NoCursor}
      BY DEF Turned, PagesInv, ClientInv, Query!Inputs
    <3> QED
      BY <3>1, <3>2, <3>3 DEF Cursor
  <2> QED
    BY <2>2, <2>3, <2>4, <2>5, ScanIsTotal
<1>3. \A a \in Query!ToSet(seen), b \in Query!ToSet(edges) : a \in Nat /\ b \in Nat
  BY <1>1 DEF Query!ToSet
<1>4. q \in Query!Inputs /\ (q.last # Query!NoArg <=> q.first = Query!NoArg)
  BY TurnedIsPage, ValidAsks DEF Turned, PagesInv, ClientInv
<1>5. CASE q.last # Query!NoArg
  <2>1. \A b \in Query!ToSet(edges), a \in Query!ToSet(seen) : IF q.dir = "asc" THEN b < a
        ELSE b > a
    BY <1>2, <1>3, <1>4, <1>5, ScanAndDirection
  <2>2. Query!Collected = edges \o seen
    BY <1>5 DEF Query!Collected
  <2>3. Query!InOrder(edges \o seen)
        /\ Query!ToSet(edges \o seen) = Query!ToSet(edges) \cup Query!ToSet(seen)
    BY <1>1, <2>1, OrderedConcat
  <2> QED
    BY <1>1, <2>2, <2>3
<1>6. CASE q.last = Query!NoArg
  <2>1. \A a \in Query!ToSet(seen), b \in Query!ToSet(edges) : IF q.dir = "asc" THEN a < b
        ELSE a > b
    BY <1>2, <1>3, <1>4, <1>6, ScanAndDirection
  <2>2. Query!Collected = seen \o edges
    BY <1>6 DEF Query!Collected
  <2>3. Query!InOrder(seen \o edges)
        /\ Query!ToSet(seen \o edges) = Query!ToSet(seen) \cup Query!ToSet(edges)
    BY <1>1, <2>1, OrderedConcat
  <2> QED
    BY <1>1, <2>2, <2>3
<1> QED
  BY <1>5, <1>6

(* A document that stayed was shown before, or is on this page, or lies    *)
(* behind it, where there is a next page.                                  *)
LEMMA StayedIsShown ==
    ASSUME Turned, walk, NEW k \in stayed, k \notin Query!ToSet(Query!Collected)
    PROVE  /\ \A p \in Query!ToSet(edges) : Query!Before(p, k)
           /\ hasNext /\ Len(edges) = Query!Size
<1>1. k \in at /\ k \in Nat
  BY TurnedIsPage, KeysArePositive DEF Turned, PagesInv, PageInv
<1>2. k \notin Query!ToSet(seen) /\ k \notin Query!ToSet(edges)
  BY CollectedInOrder
<1>3. k \in Span(at)
  <2>1. Cursor \in Nat
    <3>1. \A c \in Keys \cup {Query!NoCursor} : c \in Nat
      BY KeysArePositive DEF Query!NoCursor
    <3>2. q.after \in Keys \cup {Query!NoCursor} /\ q.before \in Keys \cup {Query!NoCursor}
      BY DEF Turned, PagesInv, ClientInv, Query!Inputs
    <3> QED
      BY <3>1, <3>2 DEF Cursor
  <2>2. Cursor # Query!NoCursor => k # Cursor /\ ~Query!Before(k, Cursor)
    BY <1>2, TurnedIsPage DEF Turned, PagesInv, SeenInv
  <2> QED
    BY <1>1, <2>1, <2>2, WalkedSpan, ScanIsTotal
<1> QED
  BY <1>2, <1>3, TurnedIsPage DEF Page

(* The edge with which the walk goes on is the last one of the scan.       *)
LEMMA EdgeIsLast ==
    ASSUME Turned, edges # <<>>
    PROVE  LET e == IF q.first # Query!NoArg THEN Query!Last(edges) ELSE Head(edges)
           IN  e \in Query!ToSet(edges) /\ \A p \in Query!ToSet(edges) : p = e
             \/ Query!Before(p, e)
<1> DEFINE n == Len(edges)
           e == IF q.first # Query!NoArg THEN Query!Last(edges) ELSE Head(edges)
<1>1. n \in Nat \ {0} /\ DOMAIN edges = 1 .. n
  BY TurnedIsPage
<1>2. Query!Last(edges) = edges[n] /\ Head(edges) = edges[1]
  BY <1>1 DEF Query!Last
<1>3. e \in Query!ToSet(edges)
  BY <1>1, <1>2 DEF Query!ToSet
<1>4. ASSUME NEW p \in Query!ToSet(edges) PROVE p = e \/ Query!Before(p, e)
  <2>1. PICK i \in 1 .. n : p = edges[i]
    BY <1>1 DEF Query!ToSet
  <2>2. p \in Nat /\ e \in Nat /\ q \in Query!Inputs /\ Query!InOrder(edges)
    BY <1>3, TurnedIsPage DEF Page, Turned, PagesInv, ClientInv
  <2> HIDE DEF n
  <2>3. CASE q.first # Query!NoArg
    <3>1. i = n \/ i < n
      BY <1>1
    <3>2. i < n => IF q.dir = "asc" THEN p < e ELSE p > e
      BY <1>1, <1>2, <2>1, <2>2, <2>3 DEF Query!InOrder
    <3> HIDE DEF e
    <3>3. i < n => Query!Before(p, e)
      BY <2>2, <2>3, <3>2, ScanAndDirection
    <3> QED
      BY <1>2, <2>1, <2>3, <3>1, <3>3 DEF e
  <2>4. CASE q.first = Query!NoArg
    <3>1. i = 1 \/ 1 < i
      BY <1>1
    <3>2. 1 < i => IF q.dir = "asc" THEN e < p ELSE e > p
      BY <1>1, <1>2, <2>1, <2>2, <2>4 DEF Query!InOrder
    <3> HIDE DEF e
    <3>3. 1 < i => Query!Before(p, e)
      BY <2>2, <2>4, <3>2, ScanAndDirection
    <3> QED
      BY <1>2, <2>1, <2>4, <3>1, <3>3 DEF e
  <2> QED
    BY <2>3, <2>4
<1> QED
  BY <1>3, <1>4

(* The client asks for the next page.                                      *)
LEMMA NextPageIInv ==
    ASSUME PagesInv, Query!NextPage
    PROVE  PagesInv'
<1> DEFINE e == IF q.first # Query!NoArg THEN Query!Last(edges) ELSE Head(edges)
<1>1. Turned /\ walk /\ UNCHANGED <<docs, changes, walk, stayed>> /\ seen' = Query!Collected
  BY DEF Query!NextPage, Turned
<1>2. q \in Query!Inputs /\ Query!Valid /\ (q.last # Query!NoArg <=> q.first = Query!NoArg)
  BY <1>1, ValidAsks, TurnedIsPage DEF Turned, PagesInv, ClientInv
<1>3. /\ edges # <<>>
      /\ q' = IF q.first # Query!NoArg THEN [q EXCEPT !.after = e] ELSE [q EXCEPT !.before = e]
      /\ Query!Request(q')
  BY <1>2 DEF Query!NextPage, Query!HasNextPage, Query!HasPreviousPage, Query!Request
<1>4. e \in Query!ToSet(edges) /\ e \in Keys /\ e \in Span(at) /\ e \in Nat \ {0}
      /\ \A p \in Query!ToSet(edges) : p = e \/ Query!Before(p, e)
  <2>1. e \in Query!ToSet(edges) /\ \A p \in Query!ToSet(edges) : p = e \/ Query!Before(p, e)
    BY <1>1, <1>3, EdgeIsLast
  <2> HIDE DEF e
  <2> QED
    BY <1>1, <2>1, TurnedIsPage, KeysArePositive
<1> HIDE DEF e
<1>5. /\ q' \in Query!Inputs /\ q'.first = q.first /\ q'.last = q.last /\ q'.dir = q.dir
      /\ IF q.first # Query!NoArg THEN q'.after = e /\ q'.before = q.before
                                  ELSE q'.before = e /\ q'.after = q.after
  BY <1>2, <1>3, <1>4 DEF Query!Inputs
<1>6. /\ Query!Valid' /\ Cursor' = e
      /\ \A a, b : Query!Before(a, b)' = Query!Before(a, b)
      /\ \A s : Query!InOrder(s)' = Query!InOrder(s)
  BY <1>2, <1>5 DEF Query!Valid, Cursor, Query!Before, Query!Ascending, Query!InOrder
<1>7. at_query' = "asking" /\ DocsInv' /\ PageInv' /\ ToldInv'
  BY <1>1, <1>3, RequestClears DEF PagesInv, DocsInv, Query!Request
<1>8. ClientInv'
  BY <1>1, <1>5, <1>6, <1>7 DEF PagesInv, ClientInv
<1>9. ASSUME NEW k \in Query!ToSet(Query!Collected) PROVE k = e \/ Query!Before(k, e)
  <2>1. CASE k \in Query!ToSet(edges)
    BY <1>4, <2>1
  <2>2. CASE k \in Query!ToSet(seen)
    <3>1. seen # <<>> /\ k \in Keys
      BY <2>2 DEF Query!ToSet, PagesInv, SeenInv
    <3>2. Cursor # Query!NoCursor /\ (k = Cursor \/ Query!Before(k, Cursor))
      BY <1>1, <1>7, <2>2, <3>1, TurnedIsPage DEF PagesInv, SeenInv
    <3>3. Query!Before(Cursor, e)
      BY <1>1, <1>4, <3>2, WalkedSpan DEF Span
    <3>4. k \in Nat /\ Cursor \in Nat
      <4>1. \A c \in Keys \cup {Query!NoCursor} : c \in Nat
        BY KeysArePositive DEF Query!NoCursor
      <4>2. q.after \in Keys \cup {Query!NoCursor} /\ q.before \in Keys \cup {Query!NoCursor}
        BY <1>2 DEF Query!Inputs
      <4> QED
        BY <3>1, <4>1, <4>2 DEF Cursor
    <3> QED
      BY <1>4, <3>2, <3>3, <3>4, ScanIsTotal
  <2> QED
    BY <1>1, <2>1, <2>2, CollectedInOrder
<1>10. ASSUME NEW k \in stayed, k = e \/ Query!Before(k, e)
              PROVE k \in Query!ToSet(Query!Collected)
  <2> SUFFICES ASSUME k \notin Query!ToSet(Query!Collected) PROVE FALSE
    OBVIOUS
  <2>1. Query!Before(e, k)
    BY <1>1, <1>4, StayedIsShown
  <2>2. k \in Nat
    BY <1>1, KeysArePositive DEF PagesInv, DocsInv
  <2> QED
    BY <1>4, <1>10, <2>1, <2>2, ScanIsTotal
<1>11. Query!Collected \in Seq(Keys) /\ Query!InOrder(Query!Collected)
  BY <1>1, CollectedInOrder
<1>12. e # Query!NoCursor
  BY <1>4 DEF Query!NoCursor
<1>13. SeenInv'
  BY <1>1, <1>6, <1>7, <1>9, <1>10, <1>11, <1>12 DEF SeenInv
<1> QED
  BY <1>7, <1>8, <1>13 DEF PagesInv

(* The client ends.                                                        *)
LEMMA EndIInv ==
    ASSUME PagesInv, Query!End
    PROVE  PagesInv'
<1>1. /\ at_query = "asking" /\ at_query' = "ended" /\ Query!Answered
      /\ UNCHANGED <<docs, changes, walk, q, once, edges, hasNext, at, told, stayed>>
      /\ seen' = IF Query!Refused THEN seen ELSE Query!Collected
  BY DEF Query!End, Query!query, Query!Answered
<1>2. DocsInv' /\ ClientInv' /\ PageInv'
  BY <1>1, InputKept DEF PagesInv, DocsInv, ClientInv, PageInv
<1>3. ToldInv' /\ Query!Refused' = Query!Refused
  BY <1>1 DEF PagesInv, ToldInv, Query!Refused
<1>4. CASE Query!Refused
  <2>1. seen' = seen /\ at_query' = "ended" /\ Query!Refused'
    BY <1>1, <1>3, <1>4
  <2>2. seen' \in Seq(Keys)
    BY <2>1 DEF PagesInv, SeenInv
  <2>3. Query!InOrder(seen)'
    BY <1>1, <2>1 DEF PagesInv, SeenInv, Query!InOrder
  <2>4. SeenInv'
    BY <2>1, <2>2, <2>3 DEF SeenInv
  <2> QED
    BY <1>2, <1>3, <2>4 DEF PagesInv
<1>5. CASE ~Query!Refused
  <2>1. Turned
    BY <1>1, <1>5 DEF Turned
  <2>2. Query!Collected \in Seq(Keys) /\ Query!InOrder(Query!Collected)
    BY <2>1, CollectedInOrder
  <2>3. ASSUME walk, Query!Size > 0, NEW k \in stayed PROVE k \in Query!ToSet(Query!Collected)
    <3> SUFFICES ASSUME k \notin Query!ToSet(Query!Collected) PROVE FALSE
      OBVIOUS
    <3>1. hasNext /\ Len(edges) = Query!Size
      BY <2>1, <2>3, StayedIsShown
    <3>2. edges # <<>>
      BY <2>3, <3>1
    <3>3. q \in Query!Inputs /\ (q.last # Query!NoArg <=> q.first = Query!NoArg)
      BY <2>1, ValidAsks, TurnedIsPage DEF Turned, PagesInv, ClientInv
    <3>4. IF q.first # Query!NoArg THEN Query!HasNextPage ELSE Query!HasPreviousPage
      BY <3>1, <3>2, <3>3 DEF Query!HasNextPage, Query!HasPreviousPage, Query!Size
    <3> QED
      BY <1>5, <2>3, <3>3, <3>4 DEF Query!End
  <2>4. seen' = Query!Collected /\ at_query' = "ended"
    BY <1>1, <1>5
  <2>5. Query!InOrder(seen)'
    BY <1>1, <2>2, <2>4 DEF Query!InOrder
  <2>6. walk' /\ Query!Size' > 0 => stayed' \subseteq Query!ToSet(seen')
    BY <1>1, <2>3, <2>4, InputKept
  <2>7. SeenInv'
    BY <2>2, <2>4, <2>5, <2>6 DEF SeenInv
  <2> QED
    BY <1>2, <1>3, <2>7 DEF PagesInv
<1> QED
  BY <1>4, <1>5

(* Every step keeps the invariant.                                         *)
LEMMA PagesNext == PagesInv /\ [Query!Next]_(Query!vars) => PagesInv'
<1> SUFFICES ASSUME PagesInv, [Query!Next]_(Query!vars) PROVE PagesInv'
  OBVIOUS
<1>1. CASE UNCHANGED Query!vars
  <2> USE <1>1 DEF Query!vars, Query!query
  <2>1. DocsInv' /\ ClientInv' /\ PageInv'
    BY InputKept DEF PagesInv, DocsInv, ClientInv, PageInv
  <2>2. ToldInv' /\ Query!Refused' = Query!Refused
    BY DEF PagesInv, ToldInv, Query!Refused
  <2>3. SeenInv'
    BY <2>2, InputKept DEF PagesInv, SeenInv
  <2> QED
    BY <2>1, <2>2, <2>3 DEF PagesInv
<1>2. CASE Query!Next
  BY <1>2, AskIInv, WalkIInv, FindIInv, FindFailsIInv, ReuseIInv, NextPageIInv, EndIInv,
     InsertIInv, DeleteIInv DEF Query!Next, Query!Client
<1> QED
  BY <1>1, <1>2

(* It holds in every state.                                                *)
LEMMA IInvHolds == Query!Spec => []PagesInv
BY PagesInit, PagesNext, PTL DEF Query!Spec

-----------------------------------------------------------------------------
(* The properties.                                                         *)

(* The variables have their types.                                         *)
LEMMA TypesFollow == PagesInv => Query!TypeOK
<1> SUFFICES ASSUME PagesInv PROVE Query!TypeOK
  OBVIOUS
<1>1. edges \in Seq(Keys) /\ Len(edges) <= Limit
  <2>1. CASE once = "done"
    <3>1. Page(edges, Span(at), hasNext) /\ Query!Valid /\ q \in Query!Inputs /\ IsFiniteSet(at)
          /\ at \subseteq Keys
      BY <2>1 DEF PagesInv, PageInv, ClientInv
    <3>2. Span(at) \subseteq Keys /\ Span(at) \in SUBSET at
      BY <3>1 DEF Span
    <3>3. Cardinality(Span(at)) \in Nat
      BY <3>1, <3>2, FS_Subset, FS_CardinalityType
    <3>4. Query!Size \in Nat /\ Query!Size <= Limit
      BY <3>1, ValidAsks
    <3>5. edges \in Seq(Span(at))
          /\ Len(edges) = IF Cardinality(Span(at)) < Query!Size THEN Cardinality(Span(at))
             ELSE Query!Size
      BY <3>1 DEF Page
    <3>6. edges \in Seq(Keys)
      BY <3>2, <3>5
    <3> QED
      BY <3>3, <3>4, <3>5, <3>6, KeysArePositive
  <2>2. CASE once # "done"
    BY <2>2, KeysArePositive DEF PagesInv, PageInv
  <2> QED
    BY <2>1, <2>2
<1>2. \A r \in Query!Resolvers : told[r] \in {Query!Silent, Query!Failed}
      \/ told[r] \in Seq(Keys)
  BY <1>1 DEF PagesInv, ToldInv
<1> QED
  BY <1>1, <1>2 DEF PagesInv, DocsInv, ClientInv, PageInv, SeenInv, Query!TypeOK

(* The page is the range.                                                  *)
LEMMA PagesFollow == PagesInv => Query!PageIsRange
<1> SUFFICES ASSUME PagesInv, once = "done" PROVE Query!PageIsRange
  BY DEF Query!PageIsRange
<1> DEFINE follows(a, b) == IF q.dir = "asc" THEN a > b ELSE a < b
           range == {k \in at : /\ q.after # Query!NoCursor => follows(k, q.after)
                                /\ q.before # Query!NoCursor => follows(q.before, k)}
           page == Query!ToSet(edges)
<1>1. /\ Page(edges, Span(at), hasNext) /\ Query!Valid /\ q \in Query!Inputs /\ IsFiniteSet(at)
      /\ at \subseteq Keys
  BY DEF PagesInv, PageInv, ClientInv
<1>2. /\ edges \in Seq(Span(at)) /\ Query!InOrder(edges)
      /\ Len(edges) = IF Cardinality(Span(at)) < Query!Size THEN Cardinality(Span(at))
         ELSE Query!Size
      /\ \A k \in Span(at) \ page, p \in page : Query!Before(p, k)
  BY <1>1 DEF Page
<1>3. \A k \in at : k \in Nat \ {0}
  BY <1>1, KeysArePositive
<1>4. Span(at) = range
  <2>1. q.after \in Nat /\ q.before \in Nat
    <3>1. \A c \in Keys \cup {Query!NoCursor} : c \in Nat
      BY KeysArePositive DEF Query!NoCursor
    <3>2. q.after \in Keys \cup {Query!NoCursor} /\ q.before \in Keys \cup {Query!NoCursor}
      BY <1>1 DEF Query!Inputs
    <3> QED
      BY <3>1, <3>2
  <2>2. q.dir \in {"asc", "desc"}
    BY <1>1 DEF Query!Inputs
  <2> QED
    BY <1>3, <2>1, <2>2 DEF Span, Query!MinKey, Query!MaxKey, Query!NoCursor
<1>5. \A k \in page : k \in Span(at) /\ k \in at
  BY <1>2 DEF Query!ToSet, Span
<1>6. Cardinality(page) = Len(edges)
  <2> DEFINE n == Len(edges)
  <2>1. n \in Nat /\ edges \in [1 .. n -> Span(at)]
    BY <1>2
  <2>2. \A i \in 1 .. n : edges[i] \in Nat
    BY <1>3, <2>1 DEF Span
  <2> HIDE DEF n
  <2>3. \A i, j \in 1 .. n : i < j => edges[i] # edges[j]
    BY <1>2, <2>1, <2>2 DEF Query!InOrder
  <2>4. \A x : x \in page <=> \E i \in 1 .. n : x = edges[i]
    BY <2>1 DEF Query!ToSet
  <2> HIDE DEF page
  <2>5. Cardinality(page) = n
    BY <2>1, <2>3, <2>4, DistinctCounts
  <2> QED
    BY <2>5 DEF n
<1>7. ASSUME NEW k \in range \ page, NEW p \in page
      PROVE  IF q.first # Query!NoArg THEN follows(k, p) ELSE follows(p, k)
  <2>1. Query!Before(p, k)
    BY <1>2, <1>4, <1>7
  <2>2. p \in Nat /\ k \in Nat
    BY <1>3, <1>5, <1>7
  <2> QED
    BY <1>1, <2>1, <2>2, ScanAndDirection
<1>8. page \subseteq range
  BY <1>4, <1>5
<1> HIDE DEF range, page
<1>9. Cardinality(page) = IF Cardinality(range) < Query!Size THEN Cardinality(range)
      ELSE Query!Size
  BY <1>2, <1>4, <1>6
<1> QED
  BY <1>2, <1>7, <1>8, <1>9, ConnectionAssumed DEF Query!PageIsRange, range, page

(* The resolvers tell of one page.                                         *)
LEMMA OnePageFollows == PagesInv => Query!OnePage
<1> SUFFICES ASSUME PagesInv PROVE Query!OnePage
  OBVIOUS
<1>1. \A r \in Query!Resolvers : told[r] \in {Query!Silent, Query!Failed, edges}
  BY DEF PagesInv, ToldInv
<1>2. once = "failed" => Query!Refused
  BY DEF PagesInv, ToldInv
<1> QED
  BY <1>1, <1>2 DEF Query!OnePage

(* The walk is complete.                                                   *)
LEMMA WalksFollow == PagesInv => Query!WalkComplete
BY DEF PagesInv, SeenInv, Query!WalkComplete

-----------------------------------------------------------------------------
(* The list moves alone or not at all.                                     *)
LEMMA ListRuns ==
    ASSUME [ListsNext]_<<listed, ListVars>>, listed \/ listed'
    PROVE  listed /\ listed' /\ [Query!Next]_(Query!vars)
  BY DEF ListsNext, ListVars, Query!vars, Query!query

(* The invariant holds while the list is asked for.                        *)
LEMMA ListHolds == ListsSpec => [](listed => PagesInv)
<1> DEFINE Inv == listed => PagesInv
<1>1. ListsInit => Inv
  BY PagesInit DEF ListsInit
<1>2. Inv /\ [ListsNext]_<<listed, ListVars>> => Inv'
  BY PagesNext, ListRuns
<1>3. QED
  BY <1>1, <1>2, PTL DEF ListsSpec

(* ItemConnection answers as it is asked, whatever the arguments, however  *)
(* many documents there are and whatever comes and goes: the page is the   *)
(* range between the cursors from the end that was asked for, its edges,   *)
(* its nodes and its page information are of one query, and a client who   *)
(* follows the cursors to the end has seen in order and once every         *)
(* document that stayed.                                                   *)
THEOREM ListsArePaged == ListsSpec => []ListsPaged
<1>1. (listed => PagesInv) => ListsPaged
  BY TypesFollow, PagesFollow, OnePageFollows, WalksFollow DEF ListsPaged
<1>2. QED
  BY <1>1, ListHolds, PTL
=============================================================================

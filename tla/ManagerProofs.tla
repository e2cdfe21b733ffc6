--------------------------- MODULE ManagerProofs ---------------------------
(***************************************************************************)
(* Proofs about the job manager, for any set of repositories and jobs, any *)
(* assignment of actions to jobs and any worker limits; the last part      *)
(* shows that it implements the safety part of SerialJobs as long as no    *)
(* repository is stopped: every step of it is a step of SerialJobs or      *)
(* leaves the mapped variables alone.                                      *)
(***************************************************************************)
EXTENDS ManagerSerial, SequenceTheorems, FiniteSetTheorems, TLAPS

-----------------------------------------------------------------------------
(* Sequences.                                                              *)

(* The empty list has no element (a repository without waiting jobs).      *)
LEMMA RangeEmpty == Range(<<>>) = {}
BY DEF Range

(* The empty list has no element twice.                                    *)
LEMMA InjectiveEmpty == IsInjective(<<>>)
BY DEF IsInjective

(* A list of one element (the first job of a waiting repository).          *)
LEMMA RangeSingleton == \A x : Range(<<x>>) = {x} /\ IsInjective(<<x>>) /\ Head(<<x>>) = x
BY DEF Range, IsInjective

(* Appending to a list that is not empty leaves its head (a job appended   *)
(* behind the one that is run or will be first).                           *)
LEMMA HeadAppend ==
    ASSUME NEW S, NEW s \in Seq(S), NEW x \in S, s # <<>>
    PROVE  Head(Append(s, x)) = Head(s) /\ Tail(Append(s, x)) = Append(Tail(s), x)
OBVIOUS

(* Appending an element adds it to the elements of a list (Queue.push,     *)
(* JobInfo.Append).                                                        *)
LEMMA RangeAppend ==
    ASSUME NEW S, NEW s \in Seq(S), NEW x \in S
    PROVE  /\ Append(s, x) \in Seq(S)
           /\ Append(s, x) # <<>>
           /\ Range(Append(s, x)) = Range(s) \cup {x}
<1>1. <<x>> \in Seq(S) /\ Range(<<x>>) = {x}
  BY DEF Range
<1>2. Append(s, x) = s \o <<x>>
  BY AppendIsConcat
<1>3. Range(s \o <<x>>) = Range(s) \cup Range(<<x>>)
  BY <1>1, RangeConcatenation
<1>4. QED
  BY <1>1, <1>2, <1>3, AppendProperties

(* The elements of a list are its head and those of its tail (Queue.pup,   *)
(* JobInfo.Next).                                                          *)
LEMMA RangeTail ==
    ASSUME NEW S, NEW s \in Seq(S), s # <<>>
    PROVE  /\ Head(s) \in S
           /\ Tail(s) \in Seq(S)
           /\ Head(s) \in Range(s)
           /\ Range(Tail(s)) \subseteq Range(s)
           /\ Range(s) = {Head(s)} \cup Range(Tail(s))
<1>1. /\ Head(s) \in S /\ Tail(s) \in Seq(S) /\ <<Head(s)>> \in Seq(S)
      /\ Range(<<Head(s)>>) = {Head(s)}
  BY DEF Range
<1>2. s = <<Head(s)>> \o Tail(s)
  BY ConcatProperties, HeadTailProperties
<1>3. \A a, b \in Seq(S) : Range(a \o b) = Range(a) \cup Range(b)
  BY RangeConcatenation
<1>4. Range(s) = Range(<<Head(s)>>) \cup Range(Tail(s))
  BY <1>1, <1>2, <1>3, Zenon
<1>5. QED
  BY <1>1, <1>4

(* A list of distinct elements stays one when a new element is appended.   *)
LEMMA InjectiveAppend ==
    ASSUME NEW S, NEW s \in Seq(S), NEW x \in S, IsInjective(s), x \notin Range(s)
    PROVE  IsInjective(Append(s, x))
<1>1. /\ DOMAIN s = 1..Len(s) /\ DOMAIN Append(s, x) = 1..Len(s) + 1
      /\ \A i \in 1..Len(s) : Append(s, x)[i] = s[i]
      /\ Append(s, x)[Len(s) + 1] = x
  BY AppendProperties
<1>2. \A i \in 1..Len(s) : s[i] # x
  BY <1>1 DEF Range
<1>3. QED
  BY <1>1, <1>2 DEF IsInjective

(* The tail of a list of distinct elements is one, without the head.       *)
LEMMA InjectiveTail ==
    ASSUME NEW S, NEW s \in Seq(S), s # <<>>, IsInjective(s)
    PROVE  IsInjective(Tail(s)) /\ Head(s) \notin Range(Tail(s))
<1>1. /\ Len(s) \in Nat \ {0} /\ DOMAIN s = 1..Len(s) /\ Head(s) = s[1]
      /\ DOMAIN Tail(s) = 1..Len(s) - 1
      /\ \A i \in 1..Len(s) - 1 : Tail(s)[i] = s[i + 1]
  OBVIOUS
<1>2. QED
  BY <1>1 DEF IsInjective, Range

----------------------------------------------------------------------------
(* Queues. *)

LEMMA QueueOfJob == \A j : FindQueueID(j) \in QueueIDs
BY DEF FindQueueID, QueueIDs

----------------------------------------------------------------------------
(* Types, and what they rest on: an idle process is one without a job, and *)
(* the jobs of a process or of a waiting entry are of one repository.      *)

IdleHasNoJob == \A p \in Jobs : pc[p] = "idle" <=> chain[p] = <<>>

JobsOfRepo ==
    /\ \A p \in Jobs : \A j \in Range(chain[p]) : RepoOf[j] = RepoOf[p]
    /\ \A r \in Repos : \A j \in Range(queued[r]) : RepoOf[j] = r

TypeInv == TypeOK /\ IdleHasNoJob /\ JobsOfRepo /\ EntryIsActive

LEMMA InitTypeInv == Init => TypeInv
<1> SUFFICES ASSUME Init PROVE TypeInv
  OBVIOUS
<1>1. TypeOK
  <2>1. queued \in [Repos -> Seq(Jobs)] /\ chain \in [Jobs -> Seq(Jobs)]
    BY DEF Init
  <2>2. items \in [QueueIDs -> Seq(Repos)] /\ processing \in [QueueIDs -> Int]
    BY DEF Init
  <2>3. /\ processes \in [Repos -> Jobs \cup {NoJob}]
        /\ pc \in [Jobs -> {"idle", "spawned", "running", "reported"}]
        /\ ctxDone \in [Jobs -> BOOLEAN]
    BY DEF Init
  <2>4. QED
    BY <2>1, <2>2, <2>3 DEF Init, TypeOK
<1>2. \A p \in Jobs : Range(chain[p]) = {}
  BY DEF Init, Range
<1>3. \A r \in Repos : Range(queued[r]) = {}
  BY DEF Init, Range
<1>4. IdleHasNoJob /\ EntryIsActive
  BY DEF Init, IdleHasNoJob, EntryIsActive
<1>5. QED
  BY <1>1, <1>2, <1>3, <1>4 DEF TypeInv, JobsOfRepo

LEMMA ProcessRepositoryTypeInv ==
    ASSUME TypeInv, NEW j \in Jobs, ProcessRepository(j)
    PROVE  TypeInv'
<1> USE ManagerAssumption
<1>1. RepoOf[j] \in Repos
  OBVIOUS
<1>2. UNCHANGED <<run, processing, processes, pc, ctxDone, ended, agenda, stopping>>
      /\ created' = created \cup {j}
  BY DEF ProcessRepository
<1>3. CASE AppendToProcess(j, RepoOf[j])
  <2> DEFINE p == processes[RepoOf[j]]
  <2>1. p \in Jobs /\ Active(p) /\ RepoOf[p] = RepoOf[j]
    BY <1>1, <1>3 DEF AppendToProcess, TypeInv, TypeOK, EntryIsActive
  <2>2. chain[p] \in Seq(Jobs)
    BY <2>1 DEF TypeInv, TypeOK
  <2>3. /\ chain' = [chain EXCEPT ![p] = Append(chain[p], j)]
        /\ UNCHANGED <<queued, items, cur>>
    BY <1>3 DEF AppendToProcess, append
  <2>4. /\ Append(chain[p], j) \in Seq(Jobs) /\ Append(chain[p], j) # <<>>
        /\ Range(Append(chain[p], j)) = Range(chain[p]) \cup {j}
    BY <2>2, RangeAppend
  <2>5. /\ chain'[p] = Append(chain[p], j)
        /\ \A x \in Jobs \ {p} : chain'[x] = chain[x]
    BY <2>1, <2>3 DEF TypeInv, TypeOK
  <2>6. TypeOK'
    BY <1>2, <2>1, <2>3, <2>4 DEF TypeInv, TypeOK
  <2>7. IdleHasNoJob'
    BY <1>2, <2>1, <2>4, <2>5 DEF TypeInv, IdleHasNoJob, Active
  <2>8. JobsOfRepo'
    BY <2>1, <2>3, <2>4, <2>5 DEF TypeInv, JobsOfRepo
  <2>9. EntryIsActive'
    BY <1>2 DEF TypeInv, EntryIsActive, Active
  <2>10. QED
    BY <2>6, <2>7, <2>8, <2>9 DEF TypeInv
<1>4. CASE AppendToQueued(j, RepoOf[j])
  <2> DEFINE r == RepoOf[j]
  <2>1. queued[r] \in Seq(Jobs)
    BY <1>1 DEF TypeInv, TypeOK
  <2>2. /\ queued' = [queued EXCEPT ![r] = Append(queued[r], j)]
        /\ UNCHANGED <<chain, items, cur>>
    BY <1>4 DEF AppendToQueued, append
  <2>3. /\ Append(queued[r], j) \in Seq(Jobs)
        /\ Range(Append(queued[r], j)) = Range(queued[r]) \cup {j}
    BY <2>1, RangeAppend
  <2>4. /\ queued'[r] = Append(queued[r], j)
        /\ \A x \in Repos \ {r} : queued'[x] = queued[x]
    BY <1>1, <2>2 DEF TypeInv, TypeOK
  <2>5. TypeOK'
    BY <1>1, <1>2, <2>2, <2>3 DEF TypeInv, TypeOK
  <2>6. JobsOfRepo'
    BY <2>2, <2>3, <2>4 DEF TypeInv, JobsOfRepo
  <2>7. QED
    BY <1>2, <2>2, <2>5, <2>6 DEF TypeInv, IdleHasNoJob, EntryIsActive, Active
<1>5. CASE PushOnQueue(j, RepoOf[j])
  <2> DEFINE r == RepoOf[j]
  <2>1. /\ queued' = [queued EXCEPT ![r] = <<j>>]
        /\ items' = [items EXCEPT ![FindQueueID(j)] = Append(items[FindQueueID(j)], r)]
        /\ cur' \in QueueIDs \cup {NoQueue}
        /\ UNCHANGED chain
    BY <1>5, QueueOfJob DEF PushOnQueue
  <2>2. /\ queued'[r] = <<j>>
        /\ \A x \in Repos \ {r} : queued'[x] = queued[x]
    BY <1>1, <2>1 DEF TypeInv, TypeOK
  <2>3. Range(<<j>>) = {j}
    BY DEF Range
  <2>4. TypeOK'
    BY <1>1, <1>2, <2>1, QueueOfJob DEF TypeInv, TypeOK
  <2>5. JobsOfRepo'
    BY <2>1, <2>2, <2>3 DEF TypeInv, JobsOfRepo
  <2>6. QED
    BY <1>2, <2>1, <2>4, <2>5 DEF TypeInv, IdleHasNoJob, EntryIsActive, Active
<1>6. QED
  BY <1>3, <1>4, <1>5 DEF ProcessRepository

(* Steps that leave the chains, the waiting jobs and the entries alone. *)
LEMMA SameJobsTypeInv ==
    ASSUME TypeInv, TypeOK',
           UNCHANGED <<queued, processes, chain>>,
           \A p \in Jobs : pc[p] = "idle" <=> pc'[p] = "idle"
    PROVE  TypeInv'
<1>1. IdleHasNoJob'
  BY DEF TypeInv, IdleHasNoJob
<1>2. JobsOfRepo'
  BY DEF TypeInv, JobsOfRepo
<1>3. EntryIsActive'
  BY DEF TypeInv, TypeOK, EntryIsActive, Active
<1>4. QED
  BY <1>1, <1>2, <1>3 DEF TypeInv

LEMMA StartNextTypeInv ==
    ASSUME TypeInv, StartNext
    PROVE  TypeInv'
<1> USE ManagerAssumption
<1> DEFINE r == Head(items[cur])
           p == Head(queued[r])
<1>1. /\ cur \in QueueIDs /\ items[cur] # <<>> /\ items[cur] \in Seq(Repos)
      /\ items' = [items EXCEPT ![cur] = Tail(items[cur])]
      /\ addProcess(cur, r)
      /\ UNCHANGED <<run, created, ended, cur, agenda, stopping>>
  BY DEF StartNext, CanStart, TypeInv, TypeOK
<1>2. r \in Repos /\ Tail(items[cur]) \in Seq(Repos)
  BY <1>1
<1>3. items' \in [QueueIDs -> Seq(Repos)]
  BY <1>1, <1>2 DEF TypeInv, TypeOK
<1>4. CASE queued[r] = <<>>
  <2>1. UNCHANGED <<queued, processes, chain, pc, ctxDone, processing>>
    BY <1>1, <1>4 DEF addProcess
  <2>2. TypeOK'
    BY <1>1, <1>3, <2>1 DEF TypeInv, TypeOK
  <2>3. QED
    BY <2>1, <2>2, SameJobsTypeInv
<1>5. CASE queued[r] # <<>>
  <2>1. queued[r] \in Seq(Jobs)
    BY <1>2 DEF TypeInv, TypeOK
  <2>2. p \in Jobs /\ p \in Range(queued[r])
    BY <1>5, <2>1, RangeTail
  <2>3. RepoOf[p] = r /\ \A j \in Range(queued[r]) : RepoOf[j] = r
    BY <1>2, <2>2 DEF TypeInv, JobsOfRepo
  <2>4. queued' = [queued EXCEPT ![r] = <<>>]
    BY <1>1, <1>5 DEF addProcess, unqueue
  <2>5. queued'[r] = <<>> /\ \A x \in Repos \ {r} : queued'[x] = queued[x]
    BY <1>2, <2>4 DEF TypeInv, TypeOK
  <2>6. \A x \in Repos : \A j \in Range(queued'[x]) : RepoOf[j] = x
    BY <2>5, RangeEmpty DEF TypeInv, JobsOfRepo
  <2>7. CASE processes[r] # NoJob
    <3> DEFINE o == processes[r]
               c == chain[o] \o queued[r]
    <3>1. o \in Jobs /\ Active(o) /\ RepoOf[o] = r /\ chain[o] \in Seq(Jobs)
      BY <1>2, <2>7 DEF TypeInv, TypeOK, EntryIsActive
    <3>2. /\ chain' = [chain EXCEPT ![o] = c]
          /\ UNCHANGED <<processes, pc, ctxDone, processing>>
      BY <1>1, <1>5, <2>7 DEF addProcess
    <3>3. c \in Seq(Jobs) /\ c # <<>>
      BY <1>5, <2>1, <3>1
    <3>4. Range(c) = Range(chain[o]) \cup Range(queued[r])
      BY <2>1, <3>1, RangeConcatenation
    <3>5. chain'[o] = c /\ \A x \in Jobs \ {o} : chain'[x] = chain[x]
      BY <3>1, <3>2 DEF TypeInv, TypeOK
    <3>6. TypeOK'
      <4>1. chain' \in [Jobs -> Seq(Jobs)]
        BY <3>2, <3>3 DEF TypeInv, TypeOK
      <4>2. queued' \in [Repos -> Seq(Jobs)]
        <5>1. queued \in [Repos -> Seq(Jobs)] /\ <<>> \in Seq(Jobs)
          BY DEF TypeInv, TypeOK
        <5>2. QED
          BY <2>4, <5>1
      <4>3. QED
        BY <1>1, <1>3, <3>2, <4>1, <4>2 DEF TypeInv, TypeOK
    <3>7. IdleHasNoJob'
      BY <3>1, <3>2, <3>3, <3>5 DEF TypeInv, IdleHasNoJob, Active
    <3>8. JobsOfRepo'
      BY <2>3, <2>6, <3>1, <3>4, <3>5 DEF TypeInv, JobsOfRepo
    <3>9. EntryIsActive'
      BY <3>2 DEF TypeInv, EntryIsActive, Active
    <3>10. QED
      BY <3>6, <3>7, <3>8, <3>9 DEF TypeInv
  <2>8. CASE processes[r] = NoJob
    <3>1. /\ processes' = [processes EXCEPT ![r] = p]
          /\ chain' = [chain EXCEPT ![p] = queued[r]]
          /\ pc' = [pc EXCEPT ![p] = "spawned"]
          /\ ctxDone' = [ctxDone EXCEPT ![p] = FALSE]
          /\ processing' = [processing EXCEPT ![cur] = processing[cur] + 1]
      BY <1>1, <1>5, <2>8 DEF addProcess
    <3>2. /\ chain'[p] = queued[r] /\ pc'[p] = "spawned"
          /\ \A x \in Jobs \ {p} : chain'[x] = chain[x] /\ pc'[x] = pc[x]
          /\ processes'[r] = p
          /\ \A x \in Repos \ {r} : processes'[x] = processes[x]
      BY <1>2, <2>2, <3>1 DEF TypeInv, TypeOK
    <3>3. /\ processes' \in [Repos -> Jobs \cup {NoJob}]
          /\ chain' \in [Jobs -> Seq(Jobs)]
          /\ pc' \in [Jobs -> {"idle", "spawned", "running", "reported"}]
          /\ ctxDone' \in [Jobs -> BOOLEAN]
          /\ queued' \in [Repos -> Seq(Jobs)]
      BY <1>2, <2>1, <2>2, <2>4, <3>1 DEF TypeInv, TypeOK
    <3>4. processing' \in [QueueIDs -> Int]
      BY <1>1, <3>1 DEF TypeInv, TypeOK
    <3>5. TypeOK'
      BY <1>1, <1>3, <3>3, <3>4 DEF TypeInv, TypeOK
    <3>6. IdleHasNoJob'
      BY <1>5, <3>2 DEF TypeInv, IdleHasNoJob
    <3>7. JobsOfRepo'
      BY <2>3, <2>6, <3>2 DEF TypeInv, JobsOfRepo
    <3>8. EntryIsActive'
      <4> SUFFICES ASSUME NEW x \in Repos, processes'[x] # NoJob
                   PROVE  pc'[processes'[x]] # "idle" /\ RepoOf[processes'[x]] = x
        BY DEF EntryIsActive, Active
      <4>1. CASE x = r
        BY <2>3, <3>2, <4>1
      <4>2. CASE x # r
        <5>1. processes'[x] = processes[x] /\ processes[x] \in Jobs
          BY <3>2, <4>2 DEF TypeInv, TypeOK
        <5>2. pc[processes[x]] # "idle" /\ RepoOf[processes[x]] = x
          BY <5>1 DEF TypeInv, EntryIsActive, Active
        <5>3. QED
          BY <3>2, <5>1, <5>2
      <4>3. QED
        BY <4>1, <4>2
    <3>9. QED
      BY <3>5, <3>6, <3>7, <3>8 DEF TypeInv
  <2>9. QED
    BY <2>7, <2>8
<1>6. QED
  BY <1>4, <1>5

LEMMA FinishTypeInv ==
    ASSUME TypeInv, NEW p \in Jobs, NEW stageFailed \in BOOLEAN, Finish(p, stageFailed)
    PROVE  TypeInv'
<1>1. /\ pc[p] = "running" /\ chain[p] # <<>> /\ chain[p] \in Seq(Jobs)
      /\ pc' = [pc EXCEPT ![p] = "reported"]
      /\ ended' = ended \cup {Head(chain[p])}
      /\ UNCHANGED <<run, created, queued, items, processing, processes,
                     ctxDone, cur, agenda, stopping>>
  BY DEF Finish, TypeInv, TypeOK, IdleHasNoJob
<1>2. Head(chain[p]) \in Jobs /\ Head(chain[p]) \in Range(chain[p])
  BY <1>1, RangeTail
<1>3. /\ pc'[p] = "reported"
      /\ \A x \in Jobs \ {p} : pc'[x] = pc[x]
      /\ pc' \in [Jobs -> {"idle", "spawned", "running", "reported"}]
  BY <1>1 DEF TypeInv, TypeOK
<1>4. CASE chain' = chain
  <2>1. TypeOK'
    BY <1>1, <1>2, <1>3, <1>4 DEF TypeInv, TypeOK
  <2>2. QED
    BY <1>1, <1>3, <1>4, <2>1, SameJobsTypeInv
<1>5. CASE chain' = [chain EXCEPT ![p] = <<Head(chain[p])>>]
  <2>1. /\ chain'[p] = <<Head(chain[p])>> /\ chain'[p] # <<>>
        /\ \A x \in Jobs \ {p} : chain'[x] = chain[x]
        /\ chain' \in [Jobs -> Seq(Jobs)]
    BY <1>2, <1>5 DEF TypeInv, TypeOK
  <2>2. Range(chain'[p]) = {Head(chain[p])}
    BY <2>1 DEF Range
  <2>3. TypeOK'
    BY <1>1, <1>2, <1>3, <2>1 DEF TypeInv, TypeOK
  <2>4. IdleHasNoJob'
    BY <1>1, <1>3, <2>1 DEF TypeInv, IdleHasNoJob
  <2>5. JobsOfRepo'
    <3>1. ASSUME NEW x \in Jobs, NEW j \in Range(chain'[x]) PROVE RepoOf[j] = RepoOf[x]
      <4>1. CASE x = p
        BY <1>2, <2>2, <4>1 DEF TypeInv, JobsOfRepo
      <4>2. CASE x # p
        BY <2>1, <4>2 DEF TypeInv, JobsOfRepo
      <4>3. QED
        BY <4>1, <4>2
    <3>2. QED
      BY <1>1, <3>1 DEF TypeInv, JobsOfRepo
  <2>6. EntryIsActive'
    BY <1>1, <1>3 DEF TypeInv, TypeOK, EntryIsActive, Active
  <2>7. QED
    BY <2>3, <2>4, <2>5, <2>6 DEF TypeInv
<1>6. QED
  BY <1>4, <1>5 DEF Finish

LEMMA RunNextTypeInv ==
    ASSUME TypeInv, NEW p \in Jobs, RunNext(p)
    PROVE  TypeInv'
<1> USE ManagerAssumption
<1>1. /\ pc[p] = "reported" /\ chain[p] # <<>> /\ chain[p] \in Seq(Jobs)
      /\ ctxDone' = [ctxDone EXCEPT ![p] = FALSE]
      /\ agenda' = QueuesOfQueued
      /\ UNCHANGED <<run, created, queued, items, ended, stopping>>
  BY DEF RunNext, TypeInv, TypeOK, IdleHasNoJob
<1>2. /\ Tail(chain[p]) \in Seq(Jobs) /\ Range(Tail(chain[p])) \subseteq Range(chain[p])
      /\ Head(chain[p]) \in Jobs
  BY <1>1, RangeTail
<1>3. agenda' \in SUBSET QueueIDs
  BY <1>1, QueueOfJob DEF QueuesOfQueued
<1>4. CASE RunNextLast(p)
  <2> DEFINE q == FindQueueID(Head(chain[p]))
             r == RepoOf[p]
  <2>1. /\ processing' = [processing EXCEPT ![q] = processing[q] - 1]
        /\ processes' = [processes EXCEPT ![r] = NoJob]
        /\ chain' = [chain EXCEPT ![p] = <<>>]
        /\ pc' = [pc EXCEPT ![p] = "idle"]
        /\ cur' = q
    BY <1>4 DEF RunNextLast, deleteProcess
  <2>2. q \in QueueIDs /\ r \in Repos
    BY QueueOfJob
  <2>3. /\ chain'[p] = <<>> /\ pc'[p] = "idle"
        /\ \A x \in Jobs \ {p} : chain'[x] = chain[x] /\ pc'[x] = pc[x]
        /\ processes'[r] = NoJob
        /\ \A x \in Repos \ {r} : processes'[x] = processes[x]
    BY <2>1, <2>2 DEF TypeInv, TypeOK
  <2>4. TypeOK'
    <3>1. processing' \in [QueueIDs -> Int]
      BY <2>1, <2>2 DEF TypeInv, TypeOK
    <3>2. /\ processes' \in [Repos -> Jobs \cup {NoJob}]
          /\ chain' \in [Jobs -> Seq(Jobs)]
          /\ pc' \in [Jobs -> {"idle", "spawned", "running", "reported"}]
          /\ ctxDone' \in [Jobs -> BOOLEAN]
      BY <1>1, <2>1, <2>2 DEF TypeInv, TypeOK
    <3>3. QED
      BY <1>1, <1>3, <2>1, <2>2, <3>1, <3>2 DEF TypeInv, TypeOK
  <2>5. IdleHasNoJob'
    BY <2>3 DEF TypeInv, IdleHasNoJob
  <2>6. JobsOfRepo'
    <3>1. Range(chain'[p]) = {}
      BY <2>3 DEF Range
    <3>2. ASSUME NEW x \in Jobs, NEW j \in Range(chain'[x]) PROVE RepoOf[j] = RepoOf[x]
      BY <2>3, <3>1 DEF TypeInv, JobsOfRepo
    <3>3. QED
      BY <1>1, <3>2 DEF TypeInv, JobsOfRepo
  <2>7. EntryIsActive'
    <3> SUFFICES ASSUME NEW x \in Repos, processes'[x] # NoJob
                 PROVE  pc'[processes'[x]] # "idle" /\ RepoOf[processes'[x]] = x
      BY DEF EntryIsActive, Active
    <3>1. x # r /\ processes'[x] = processes[x] /\ processes[x] \in Jobs
      BY <2>3 DEF TypeInv, TypeOK
    <3>2. pc[processes[x]] # "idle" /\ RepoOf[processes[x]] = x
      BY <3>1 DEF TypeInv, EntryIsActive, Active
    <3>3. QED
      BY <2>3, <3>1, <3>2
  <2>8. QED
    BY <2>4, <2>5, <2>6, <2>7 DEF TypeInv
<1>5. CASE RunNextFollower(p)
  <2> DEFINE d == FindQueueID(Head(chain[p]))
             f == FindQueueID(Head(Tail(chain[p])))
             h == [processing EXCEPT ![d] = processing[d] - 1]
  <2>1. /\ Tail(chain[p]) # <<>>
        /\ processing' = [h EXCEPT ![f] = h[f] + 1]
        /\ chain' = [chain EXCEPT ![p] = Tail(chain[p])]
        /\ pc' = [pc EXCEPT ![p] = "spawned"]
        /\ UNCHANGED <<processes, cur>>
    BY <1>5 DEF RunNextFollower, handOver
  <2>2. d \in QueueIDs /\ f \in QueueIDs
    BY QueueOfJob
  <2>3. h \in [QueueIDs -> Int]
    BY <2>2 DEF TypeInv, TypeOK
  <2>4. processing' \in [QueueIDs -> Int]
    BY <2>1, <2>2, <2>3
  <2>5. /\ chain'[p] = Tail(chain[p]) /\ pc'[p] = "spawned"
        /\ \A x \in Jobs \ {p} : chain'[x] = chain[x] /\ pc'[x] = pc[x]
    BY <2>1 DEF TypeInv, TypeOK
  <2>6. TypeOK'
    <3>1. /\ chain' \in [Jobs -> Seq(Jobs)]
          /\ pc' \in [Jobs -> {"idle", "spawned", "running", "reported"}]
          /\ ctxDone' \in [Jobs -> BOOLEAN]
      BY <1>1, <1>2, <2>1 DEF TypeInv, TypeOK
    <3>2. QED
      BY <1>1, <1>3, <2>1, <2>4, <3>1 DEF TypeInv, TypeOK
  <2>7. IdleHasNoJob'
    BY <1>1, <2>1, <2>5 DEF TypeInv, IdleHasNoJob
  <2>8. JobsOfRepo'
    <3>1. ASSUME NEW x \in Jobs, NEW j \in Range(chain'[x]) PROVE RepoOf[j] = RepoOf[x]
      <4>1. j \in Range(chain[x])
        BY <1>2, <2>5
      <4>2. QED
        BY <4>1 DEF TypeInv, JobsOfRepo
    <3>2. QED
      BY <1>1, <3>1 DEF TypeInv, JobsOfRepo
  <2>9. EntryIsActive'
    <3> SUFFICES ASSUME NEW x \in Repos, processes[x] # NoJob
                 PROVE  pc'[processes[x]] # "idle" /\ RepoOf[processes[x]] = x
      BY <2>1 DEF EntryIsActive, Active
    <3>1. processes[x] \in Jobs /\ pc[processes[x]] # "idle" /\ RepoOf[processes[x]] = x
      BY DEF TypeInv, TypeOK, EntryIsActive, Active
    <3>2. QED
      BY <2>5, <3>1
  <2>10. QED
    BY <2>6, <2>7, <2>8, <2>9 DEF TypeInv
<1>6. QED
  BY <1>4, <1>5 DEF RunNext

LEMMA RemoveRepositoryType ==
    ASSUME NEW s \in Seq(Repos), NEW r \in Repos
    PROVE  removeRepository(s, r) \in Seq(Repos)
<1>1. CASE ~\E i \in DOMAIN s : s[i] = r
  BY <1>1 DEF removeRepository
<1>2. CASE \E i \in DOMAIN s : s[i] = r
  <2> DEFINE k == CHOOSE i \in DOMAIN s : s[i] = r
             t == [i \in 1..(Len(s) - 1) |-> IF i < k THEN s[i] ELSE s[i + 1]]
  <2>1. Len(s) - 1 \in Nat /\ DOMAIN s = 1..Len(s)
    BY <1>2
  <2>2. \A i \in 1..(Len(s) - 1) : s[i] \in Repos /\ s[i + 1] \in Repos
    BY <2>1
  <2>3. t \in Seq(Repos)
    <3> HIDE DEF k
    <3>1. QED
      BY <2>1, <2>2
  <2>4. removeRepository(s, r) = t
    BY <1>2 DEF removeRepository
  <2>5. QED
    BY <2>3, <2>4
<1>3. QED
  BY <1>1, <1>2

LEMMA StopTypeInv ==
    ASSUME TypeInv, NEW r \in Repos, Stop(r)
    PROVE  TypeInv'
<1> DEFINE p == processes[r]
<1>1. /\ UNCHANGED <<run, created, processing, chain, pc, ended, cur, agenda>>
      /\ stopping' \in SUBSET Repos
  BY DEF Stop, StopRepository, TypeInv, TypeOK
<1>2. queued' = queued \/ queued' = [queued EXCEPT ![r] = <<>>]
  BY DEF Stop, StopRepository, unqueue
<1>3. items' \in [QueueIDs -> Seq(Repos)]
  <2>1. CASE items' = items
    BY <2>1 DEF TypeInv, TypeOK
  <2>2. CASE items' = [q \in QueueIDs |-> removeRepository(items[q], r)]
    <3>1. \A q \in QueueIDs : removeRepository(items[q], r) \in Seq(Repos)
      BY RemoveRepositoryType DEF TypeInv, TypeOK
    <3>2. QED
      BY <2>2, <3>1
  <2>3. QED
    BY <2>1, <2>2 DEF Stop, StopRepository
<1>4. processes' = processes \/ processes' = [processes EXCEPT ![r] = NoJob]
  BY DEF Stop, StopRepository, deleteProcess
<1>5. ctxDone' \in [Jobs -> BOOLEAN]
  <2>1. ctxDone' = ctxDone \/ ctxDone' = [ctxDone EXCEPT ![p] = TRUE]
    BY DEF Stop, StopRepository
  <2>2. QED
    BY <2>1 DEF TypeInv, TypeOK
<1>6. TypeOK'
  <2>1. queued' \in [Repos -> Seq(Jobs)]
    <3>1. queued \in [Repos -> Seq(Jobs)] /\ <<>> \in Seq(Jobs)
      BY DEF TypeInv, TypeOK
    <3>2. QED
      BY <1>2, <3>1
  <2>2. processes' \in [Repos -> Jobs \cup {NoJob}]
    BY <1>4 DEF TypeInv, TypeOK
  <2>3. QED
    BY <1>1, <1>3, <1>5, <2>1, <2>2 DEF TypeInv, TypeOK
<1>7. IdleHasNoJob'
  BY <1>1 DEF TypeInv, IdleHasNoJob
<1>8. JobsOfRepo'
  <2>1. ASSUME NEW x \in Repos, NEW j \in Range(queued'[x]) PROVE RepoOf[j] = x
    <3>1. queued'[x] = queued[x] \/ queued'[x] = <<>>
      BY <1>2 DEF TypeInv, TypeOK
    <3>2. QED
      BY <3>1, RangeEmpty DEF TypeInv, JobsOfRepo
  <2>2. QED
    BY <1>1, <2>1 DEF TypeInv, JobsOfRepo
<1>9. EntryIsActive'
  <2>1. \A x \in Repos : processes'[x] = processes[x] \/ processes'[x] = NoJob
    BY <1>4 DEF TypeInv, TypeOK
  <2>2. QED
    BY <1>1, <2>1 DEF TypeInv, EntryIsActive, Active
<1>10. QED
  BY <1>6, <1>7, <1>8, <1>9 DEF TypeInv

LEMMA NextTypeInv == TypeInv /\ [Next]_vars => TypeInv'
<1> SUFFICES ASSUME TypeInv, [Next]_vars PROVE TypeInv'
  OBVIOUS
<1>1. ASSUME NEW j \in Jobs, ProcessRepository(j) PROVE TypeInv'
  BY <1>1, ProcessRepositoryTypeInv
<1>2. CASE Run
  BY <1>2, QueueOfJob, SameJobsTypeInv DEF Run, QueuesOfQueued, TypeInv, TypeOK
<1>3. CASE StartNext
  BY <1>3, StartNextTypeInv
<1>4. CASE QueueDone
  BY <1>4, SameJobsTypeInv DEF QueueDone, TypeInv, TypeOK
<1>5. ASSUME NEW q \in QueueIDs, NextQueue(q) PROVE TypeInv'
  BY <1>5, SameJobsTypeInv DEF NextQueue, TypeInv, TypeOK
<1>6. ASSUME NEW p \in Jobs, Begin(p) PROVE TypeInv'
  BY <1>6, SameJobsTypeInv DEF Begin, TypeInv, TypeOK
<1>7. ASSUME NEW p \in Jobs, RunNext(p) PROVE TypeInv'
  BY <1>7, RunNextTypeInv
<1>8. ASSUME NEW p \in Jobs, NEW f \in BOOLEAN, Finish(p, f) PROVE TypeInv'
  BY <1>8, FinishTypeInv
<1>9. ASSUME NEW r \in Repos, Stop(r) PROVE TypeInv'
  BY <1>9, StopTypeInv
<1>10. ASSUME NEW r \in Repos, StopReturns(r) PROVE TypeInv'
  BY <1>10, SameJobsTypeInv DEF StopReturns, TypeInv, TypeOK
<1>11. CASE UNCHANGED vars
  BY <1>11, SameJobsTypeInv DEF vars, TypeInv, TypeOK
<1>12. QED
  BY <1>1, <1>2, <1>3, <1>4, <1>5, <1>6, <1>7, <1>8, <1>9, <1>10, <1>11
     DEF Next, NextNoStop

LEMMA TypeInvariance == Spec => []TypeInv
<1>1. QED
  BY InitTypeInv, NextTypeInv, PTL DEF Spec

(* In every reachable state the variables of the manager have their types. *)
THEOREM TypeCorrect == Spec => []TypeOK
<1>1. TypeInv => TypeOK
  BY DEF TypeInv
<1>2. QED
  BY TypeInvariance, <1>1, PTL

(* The processes map only names goroutines that are not over, whoever      *)
(* deletes entries: nobody appends a job to a process that is gone.        *)
THEOREM EntriesAreActive == Spec => []EntryIsActive
<1>1. TypeInv => EntryIsActive
  BY DEF TypeInv
<1>2. QED
  BY TypeInvariance, <1>1, PTL

----------------------------------------------------------------------------
(* Queue.removeRepository takes the repository out and leaves the others,  *)
(* in their order.                                                         *)
LEMMA RemoveRepositoryRange ==
    ASSUME NEW s \in Seq(Repos), NEW r \in Repos, IsInjective(s)
    PROVE  /\ Range(removeRepository(s, r)) = Range(s) \ {r}
           /\ IsInjective(removeRepository(s, r))
<1>1. CASE ~\E i \in DOMAIN s : s[i] = r
  BY <1>1 DEF removeRepository, Range
<1>2. CASE \E i \in DOMAIN s : s[i] = r
  <2> DEFINE k == CHOOSE i \in DOMAIN s : s[i] = r
             n == Len(s) - 1
             t == [i \in 1..n |-> IF i < k THEN s[i] ELSE s[i + 1]]
  <2>1. removeRepository(s, r) = t
    BY <1>2 DEF removeRepository
  <2>2. k \in DOMAIN s /\ s[k] = r
    BY <1>2
  <2> HIDE DEF k
  <2>3. n \in Nat /\ DOMAIN s = 1..(n + 1) /\ k \in 1..(n + 1)
    BY <2>2
  <2> HIDE DEF n
  <2>4. \A i \in 1..(n + 1) : s[i] = r => i = k
    BY <2>2, <2>3 DEF IsInjective
  <2>5. DOMAIN t = 1..n /\ \A i \in 1..n : t[i] = IF i < k THEN s[i] ELSE s[i + 1]
    OBVIOUS
  <2> HIDE DEF t
  <2>6. IsInjective(t)
    <3> SUFFICES ASSUME NEW a \in 1..n, NEW b \in 1..n, t[a] = t[b] PROVE a = b
      BY <2>5 DEF IsInjective
    <3> DEFINE u(i) == IF i < k THEN i ELSE i + 1
    <3>1. u(a) \in 1..(n + 1) /\ u(b) \in 1..(n + 1) /\ s[u(a)] = s[u(b)]
      BY <2>3, <2>5
    <3>2. u(a) = u(b)
      BY <2>3, <3>1 DEF IsInjective
    <3>3. QED
      BY <2>3, <3>2
  <2>7. Range(t) \subseteq Range(s) \ {r}
    <3> SUFFICES ASSUME NEW a \in 1..n PROVE t[a] \in Range(s) \ {r}
      BY <2>5 DEF Range
    <3> DEFINE b == IF a < k THEN a ELSE a + 1
    <3>1. b \in 1..(n + 1) /\ b # k /\ t[a] = s[b]
      BY <2>3, <2>5
    <3> HIDE DEF b
    <3>2. QED
      BY <2>3, <2>4, <3>1 DEF Range
  <2>8. Range(s) \ {r} \subseteq Range(t)
    <3> SUFFICES ASSUME NEW b \in 1..(n + 1), s[b] # r PROVE s[b] \in Range(t)
      BY <2>3 DEF Range
    <3> DEFINE a == IF b < k THEN b ELSE b - 1
    <3>1. b # k
      BY <2>2
    <3>2. a \in 1..n /\ t[a] = s[b]
      BY <2>3, <2>5, <3>1
    <3> HIDE DEF a
    <3>3. QED
      BY <2>5, <3>2 DEF Range
  <2>9. QED
    BY <2>1, <2>6, <2>7, <2>8
<1>3. QED
  BY <1>1, <1>2

----------------------------------------------------------------------------
(* The queues agree with the waiting jobs. *)

(* A step that moves no repository between queues and adds no entry keeps  *)
(* the agreement.                                                          *)
LEMMA SameQueues ==
    ASSUME TypeInv, QueuedAgreement, UNCHANGED <<queued, items>>,
           \A r \in Repos : processes'[r] \in {processes[r], NoJob}
    PROVE  QueuedAgreement'
BY DEF QueuedAgreement

(* A submission pushes a repository only when it waits nowhere.            *)
LEMMA ProcessRepositoryQueues ==
    ASSUME TypeInv, QueuedAgreement, NEW j \in Jobs, ProcessRepository(j)
    PROVE  QueuedAgreement'
<1> DEFINE r == RepoOf[j]
<1>1. r \in Repos /\ processes' = processes
  BY ManagerAssumption DEF ProcessRepository
<1>2. CASE AppendToProcess(j, r)
  BY <1>1, <1>2, SameQueues DEF AppendToProcess
<1>3. CASE AppendToQueued(j, r)
  <2> DEFINE s == Append(queued[r], j)
  <2>1. /\ processes[r] = NoJob /\ queued[r] # <<>> /\ queued[r] \in Seq(Jobs)
        /\ queued' = [queued EXCEPT ![r] = s] /\ items' = items
    BY <1>1, <1>3 DEF AppendToQueued, append, TypeInv, TypeOK
  <2>2. Head(s) = Head(queued[r]) /\ s # <<>>
    BY <2>1, HeadAppend, RangeAppend
  <2> HIDE DEF s
  <2>3. \A x \in Repos : /\ queued'[x] = <<>> <=> queued[x] = <<>>
                         /\ queued[x] # <<>> => Head(queued'[x]) = Head(queued[x])
    BY <1>1, <2>1, <2>2 DEF TypeInv, TypeOK
  <2>4. QED
    BY <1>1, <2>1, <2>3 DEF QueuedAgreement
<1>4. CASE PushOnQueue(j, r)
  <2> DEFINE q == FindQueueID(j)
             t == Append(items[q], r)
  <2>1. /\ processes[r] = NoJob /\ queued[r] = <<>>
        /\ queued' = [queued EXCEPT ![r] = <<j>>]
        /\ items' = [items EXCEPT ![q] = t]
    BY <1>4 DEF PushOnQueue
  <2>2. q \in QueueIDs /\ items[q] \in Seq(Repos)
    BY QueueOfJob DEF TypeInv, TypeOK
  <2>3. \A x \in QueueIDs : r \notin Range(items[x])
    BY <1>1, <2>1 DEF QueuedAgreement
  <2>4. Range(t) = Range(items[q]) \cup {r} /\ IsInjective(t)
    BY <1>1, <2>2, <2>3, RangeAppend, InjectiveAppend DEF QueuedAgreement
  <2>5. /\ queued'[r] = <<j>> /\ \A x \in Repos \ {r} : queued'[x] = queued[x]
        /\ items'[q] = t /\ \A x \in QueueIDs \ {q} : items'[x] = items[x]
    BY <1>1, <2>1, <2>2 DEF TypeInv, TypeOK
  <2> HIDE DEF t
  <2>6. ASSUME NEW x \in QueueIDs, NEW y \in Repos
        PROVE  y \in Range(items'[x]) <=> queued'[y] # <<>> /\ FindQueueID(Head(queued'[y])) = x
    <3> HIDE DEF q, r
    <3>1. y \in Range(items'[x]) <=> y \in Range(items[x]) \/ (x = q /\ y = r)
      BY <2>4, <2>5
    <3>2. CASE y = r
      <4>1. queued'[y] = <<j>> /\ <<j>> # <<>> /\ Head(<<j>>) = j
        BY <2>5, <3>2
      <4>2. y \notin Range(items[x])
        BY <2>3, <3>2
      <4>3. QED
        BY <3>1, <3>2, <4>1, <4>2 DEF q
    <3>3. CASE y # r
      BY <2>5, <3>1, <3>3 DEF QueuedAgreement
    <3>4. QED
      BY <3>2, <3>3
  <2>7. \A x \in QueueIDs : IsInjective(items'[x])
    BY <2>4, <2>5 DEF QueuedAgreement
  <2>8. \A x \in Repos : queued'[x] # <<>> => processes'[x] = NoJob
    BY <1>1, <2>1, <2>5 DEF QueuedAgreement
  <2>9. QED
    BY <2>6, <2>7, <2>8 DEF QueuedAgreement
<1>5. QED
  BY <1>2, <1>3, <1>4 DEF ProcessRepository

(* What StartNext finds: the repository at the head of the queue has a     *)
(* waiting job and no process, so addProcess cannot fail.                  *)
LEMMA StartNextStarts ==
    ASSUME TypeInv, QueuedAgreement, StartNext,
           NEW r, r = Head(items[cur]), NEW p, p = Head(queued[r])
    PROVE  /\ cur \in QueueIDs /\ items[cur] \in Seq(Repos) /\ items[cur] # <<>>
           /\ r \in Repos /\ queued[r] \in Seq(Jobs) /\ queued[r] # <<>>
           /\ p \in Jobs /\ p \in Range(queued[r]) /\ RepoOf[p] = r
           /\ FindQueueID(p) = cur /\ processes[r] = NoJob
           /\ items' = [items EXCEPT ![cur] = Tail(items[cur])]
           /\ queued' = [queued EXCEPT ![r] = <<>>]
           /\ processes' = [processes EXCEPT ![r] = p]
           /\ chain' = [chain EXCEPT ![p] = queued[r]]
           /\ pc' = [pc EXCEPT ![p] = "spawned"]
           /\ processing' = [processing EXCEPT ![cur] = processing[cur] + 1]
           /\ UNCHANGED <<run, created, ended, cur, agenda, stopping>>
<1>1. /\ cur \in QueueIDs /\ items[cur] # <<>> /\ items[cur] \in Seq(Repos)
      /\ items' = [items EXCEPT ![cur] = Tail(items[cur])]
      /\ addProcess(cur, r)
      /\ UNCHANGED <<run, created, ended, cur, agenda, stopping>>
  BY DEF StartNext, CanStart, TypeInv, TypeOK
<1>2. r \in Repos /\ r \in Range(items[cur])
  BY <1>1, RangeTail
<1>3. queued[r] # <<>> /\ FindQueueID(p) = cur /\ processes[r] = NoJob
  BY <1>1, <1>2 DEF QueuedAgreement
<1>4. queued[r] \in Seq(Jobs)
  BY <1>2 DEF TypeInv, TypeOK
<1>5. p \in Jobs /\ p \in Range(queued[r])
  BY <1>3, <1>4, RangeTail
<1>6. RepoOf[p] = r
  BY <1>2, <1>5 DEF TypeInv, JobsOfRepo
<1>7. /\ queued' = [queued EXCEPT ![r] = <<>>]
      /\ processes' = [processes EXCEPT ![r] = p]
      /\ chain' = [chain EXCEPT ![p] = queued[r]]
      /\ pc' = [pc EXCEPT ![p] = "spawned"]
      /\ processing' = [processing EXCEPT ![cur] = processing[cur] + 1]
  BY <1>1, <1>3 DEF addProcess, unqueue
<1>8. QED
  BY <1>1, <1>2, <1>3, <1>4, <1>5, <1>6, <1>7

(* Starting a process takes the repository out of its queue and its        *)
(* waiting job with it.                                                    *)
LEMMA StartNextQueues ==
    ASSUME TypeInv, QueuedAgreement, StartNext
    PROVE  QueuedAgreement'
<1> DEFINE r == Head(items[cur])
           p == Head(queued[r])
           t == Tail(items[cur])
<1>1. /\ cur \in QueueIDs /\ items[cur] \in Seq(Repos) /\ items[cur] # <<>>
      /\ r \in Repos /\ queued[r] # <<>> /\ FindQueueID(p) = cur
      /\ items' = [items EXCEPT ![cur] = t]
      /\ queued' = [queued EXCEPT ![r] = <<>>]
      /\ processes' = [processes EXCEPT ![r] = p]
  BY StartNextStarts
<1>2. Range(items[cur]) = {r} \cup Range(t) /\ IsInjective(t) /\ r \notin Range(t)
  BY <1>1, RangeTail, InjectiveTail DEF QueuedAgreement
<1>3. \A x \in QueueIDs \ {cur} : r \notin Range(items[x])
  BY <1>1 DEF QueuedAgreement
<1>4. /\ queued'[r] = <<>> /\ \A x \in Repos \ {r} : queued'[x] = queued[x]
      /\ items'[cur] = t /\ \A x \in QueueIDs \ {cur} : items'[x] = items[x]
      /\ \A x \in Repos \ {r} : processes'[x] = processes[x]
  BY <1>1 DEF TypeInv, TypeOK
<1> HIDE DEF r, p, t
<1>5. ASSUME NEW x \in QueueIDs, NEW y \in Repos
      PROVE  y \in Range(items'[x]) <=> queued'[y] # <<>> /\ FindQueueID(Head(queued'[y])) = x
  <2>1. y \in Range(items'[x]) <=> y \in Range(items[x]) /\ y # r
    BY <1>1, <1>2, <1>3, <1>4
  <2>2. QED
    BY <1>4, <2>1 DEF QueuedAgreement
<1>6. \A x \in QueueIDs : IsInjective(items'[x])
  BY <1>1, <1>2, <1>4 DEF QueuedAgreement
<1>7. \A x \in Repos : queued'[x] # <<>> => processes'[x] = NoJob
  BY <1>4 DEF QueuedAgreement
<1>8. QED
  BY <1>5, <1>6, <1>7 DEF QueuedAgreement

(* StopRepository takes the repository out of every queue.                 *)
LEMMA StopQueues ==
    ASSUME TypeInv, QueuedAgreement, NEW r \in Repos, Stop(r)
    PROVE  QueuedAgreement'
<1>1. \A x \in Repos : processes'[x] \in {processes[x], NoJob}
  <2>1. processes' = processes \/ processes' = [processes EXCEPT ![r] = NoJob]
    BY DEF Stop, StopRepository, deleteProcess
  <2>2. QED
    BY <2>1 DEF TypeInv, TypeOK
<1>2. CASE queued[r] = <<>>
  BY <1>1, <1>2, SameQueues DEF Stop, StopRepository
<1>3. CASE queued[r] # <<>>
  <2>1. /\ queued' = [queued EXCEPT ![r] = <<>>]
        /\ items' = [q \in QueueIDs |-> removeRepository(items[q], r)]
    BY <1>3 DEF Stop, StopRepository, unqueue
  <2>2. queued'[r] = <<>> /\ \A x \in Repos \ {r} : queued'[x] = queued[x]
    BY <2>1 DEF TypeInv, TypeOK
  <2>3. \A x \in QueueIDs : Range(items'[x]) = Range(items[x]) \ {r} /\ IsInjective(items'[x])
    BY <2>1, RemoveRepositoryRange DEF QueuedAgreement, TypeInv, TypeOK
  <2>4. ASSUME NEW x \in QueueIDs, NEW y \in Repos
        PROVE  y \in Range(items'[x]) <=> queued'[y] # <<>> /\ FindQueueID(Head(queued'[y])) = x
    BY <2>2, <2>3 DEF QueuedAgreement
  <2>5. \A x \in Repos : queued'[x] # <<>> => processes'[x] = NoJob
    BY <1>1, <2>2 DEF QueuedAgreement
  <2>6. QED
    BY <2>3, <2>4, <2>5 DEF QueuedAgreement
<1>4. QED
  BY <1>2, <1>3

----------------------------------------------------------------------------
(* Where jobs are. JobInOnePlace alone is not inductive: that a process is *)
(* idle when it is made of a waiting job needs to know that a process is   *)
(* named by a job it has or had, that only its first job can be over, and  *)
(* that nothing holds a job nobody has created.                            *)

(* No list of jobs names a job twice.                                      *)
Distinct ==
    /\ \A p \in Jobs : IsInjective(chain[p])
    /\ \A r \in Repos : IsInjective(queued[r])

(* No two processes share a job.                                           *)
ChainsApart ==
    \A p1, p2 \in Jobs : p1 # p2 => Range(chain[p1]) \cap Range(chain[p2]) = {}

(* A waiting job is in no process, and has not been run.                   *)
WaitingApart ==
    \A r \in Repos, p \in Jobs : Range(queued[r]) \cap (Range(chain[p]) \cup ended) = {}

(* Nothing holds a job that CreateJob has not inserted.                    *)
JobsCreated ==
    /\ \A p \in Jobs : Range(chain[p]) \subseteq created
    /\ \A r \in Repos : Range(queued[r]) \subseteq created
    /\ ended \subseteq created

(* The first job of a process is over exactly when the process has         *)
(* reported it; its followers have not been run.                           *)
EndedIsReported ==
    \A p \in Jobs : Range(chain[p]) \cap ended =
        IF pc[p] = "reported" THEN {Head(chain[p])} ELSE {}

(* A process is named by the job it runs, or by one whose run is over.     *)
NamedByFirst == \A p \in Jobs : Active(p) => p = Head(chain[p]) \/ p \in ended

(* The inductive invariant about where jobs are.                           *)
Places == /\ Distinct /\ ChainsApart /\ WaitingApart
          /\ JobsCreated /\ EndedIsReported /\ NamedByFirst

(* A step that moves no job.                                               *)
LEMMA SamePlaces ==
    ASSUME TypeInv, Places, UNCHANGED <<created, queued, chain, ended>>,
           \A p \in Jobs : /\ pc'[p] = "reported" <=> pc[p] = "reported"
                           /\ pc'[p] = "idle" <=> pc[p] = "idle"
    PROVE  Places'
<1>1. Distinct' /\ ChainsApart' /\ WaitingApart' /\ JobsCreated'
  BY DEF Places, Distinct, ChainsApart, WaitingApart, JobsCreated
<1>2. EndedIsReported'
  BY DEF Places, EndedIsReported
<1>3. NamedByFirst'
  BY DEF Places, NamedByFirst, Active
<1>4. QED
  BY <1>1, <1>2, <1>3 DEF Places

(* A new job is appended to one list and is in no other.                   *)
LEMMA ProcessRepositoryPlaces ==
    ASSUME TypeInv, Places, NEW j \in Jobs, ProcessRepository(j)
    PROVE  Places'
<1> DEFINE r == RepoOf[j]
<1>1. /\ r \in Repos /\ j \notin created /\ created' = created \cup {j}
      /\ UNCHANGED <<processes, pc, ended>>
  BY ManagerAssumption DEF ProcessRepository
<1>2. /\ \A p \in Jobs : j \notin Range(chain[p])
      /\ \A x \in Repos : j \notin Range(queued[x])
      /\ j \notin ended
  BY <1>1 DEF Places, JobsCreated
<1>3. CASE AppendToProcess(j, r)
  <2> DEFINE p == processes[r]
             s == Append(chain[p], j)
  <2>1. /\ p \in Jobs /\ Active(p) /\ chain[p] \in Seq(Jobs) /\ chain[p] # <<>>
        /\ chain' = [chain EXCEPT ![p] = s] /\ queued' = queued
    BY <1>1, <1>3 DEF AppendToProcess, append, TypeInv, TypeOK, EntryIsActive, IdleHasNoJob, Active
  <2>2. Range(s) = Range(chain[p]) \cup {j} /\ IsInjective(s) /\ Head(s) = Head(chain[p])
    BY <1>2, <2>1, RangeAppend, InjectiveAppend, HeadAppend DEF Places, Distinct
  <2>3. chain'[p] = s /\ \A x \in Jobs \ {p} : chain'[x] = chain[x]
    BY <2>1 DEF TypeInv, TypeOK
  <2> HIDE DEF p, s, r
  <2>4. Distinct'
    BY <2>1, <2>2, <2>3 DEF Places, Distinct
  <2>5. ChainsApart'
    <3>1. \A x \in Jobs : Range(chain'[x]) \subseteq Range(chain[x]) \cup (IF x = p THEN {j} ELSE {})
      BY <2>2, <2>3
    <3>2. QED
      BY <1>2, <3>1 DEF Places, ChainsApart
  <2>6. WaitingApart'
    BY <1>1, <1>2, <2>1, <2>2, <2>3 DEF Places, WaitingApart
  <2>7. JobsCreated'
    BY <1>1, <2>1, <2>2, <2>3 DEF Places, JobsCreated
  <2>8. EndedIsReported'
    <3> SUFFICES ASSUME NEW x \in Jobs
                 PROVE  Range(chain'[x]) \cap ended = IF pc[x] = "reported" THEN {Head(chain'[x])} ELSE {}
      BY <1>1 DEF EndedIsReported
    <3>1. Range(chain'[x]) \cap ended = Range(chain[x]) \cap ended
      BY <1>2, <2>2, <2>3
    <3>2. Head(chain'[x]) = Head(chain[x])
      BY <2>2, <2>3
    <3>3. QED
      BY <3>1, <3>2 DEF Places, EndedIsReported
  <2>9. NamedByFirst'
    <3> SUFFICES ASSUME NEW x \in Jobs, pc[x] # "idle"
                 PROVE  x = Head(chain'[x]) \/ x \in ended
      BY <1>1 DEF NamedByFirst, Active
    <3>1. Head(chain'[x]) = Head(chain[x])
      BY <2>2, <2>3
    <3>2. QED
      BY <1>1, <3>1 DEF Places, NamedByFirst, Active
  <2>10. QED
    BY <2>4, <2>5, <2>7, <2>8, <2>9, <2>6 DEF Places
<1>4. ASSUME chain' = chain, NEW s \in Seq(Jobs), queued' = [queued EXCEPT ![r] = s],
             Range(s) = Range(queued[r]) \cup {j}, IsInjective(s)
      PROVE  Places'
  <2>1. queued'[r] = s /\ \A x \in Repos \ {r} : queued'[x] = queued[x]
    BY <1>1, <1>4 DEF TypeInv, TypeOK
  <2> HIDE DEF r
  <2>2. Distinct'
    BY <1>4, <2>1 DEF Places, Distinct
  <2>3. ChainsApart' /\ WaitingApart'
    <3>1. ChainsApart'
      BY <1>4 DEF Places, ChainsApart
    <3>2. \A x \in Repos : Range(queued'[x]) \subseteq Range(queued[x]) \cup {j}
      BY <1>4, <2>1
    <3>3. WaitingApart'
      BY <1>1, <1>2, <1>4, <3>2 DEF Places, WaitingApart
    <3>4. QED
      BY <3>1, <3>3
  <2>4. JobsCreated'
    BY <1>1, <1>4, <2>1 DEF Places, JobsCreated
  <2>5. EndedIsReported' /\ NamedByFirst'
    BY <1>1, <1>4 DEF Places, EndedIsReported, NamedByFirst, Active
  <2>6. QED
    BY <2>2, <2>3, <2>4, <2>5 DEF Places
<1>5. CASE AppendToQueued(j, r)
  <2>1. /\ queued[r] \in Seq(Jobs) /\ chain' = chain
        /\ queued' = [queued EXCEPT ![r] = Append(queued[r], j)]
    BY <1>1, <1>5 DEF AppendToQueued, append, TypeInv, TypeOK
  <2>2. /\ Append(queued[r], j) \in Seq(Jobs)
        /\ Range(Append(queued[r], j)) = Range(queued[r]) \cup {j}
        /\ IsInjective(Append(queued[r], j))
    BY <1>1, <1>2, <2>1, RangeAppend, InjectiveAppend DEF Places, Distinct
  <2>3. QED
    BY <1>4, <2>1, <2>2
<1>6. CASE PushOnQueue(j, r)
  <2>1. /\ queued[r] = <<>> /\ chain' = chain /\ queued' = [queued EXCEPT ![r] = <<j>>]
    BY <1>6 DEF PushOnQueue
  <2>2. <<j>> \in Seq(Jobs) /\ Range(<<j>>) = Range(queued[r]) \cup {j} /\ IsInjective(<<j>>)
    BY <2>1, RangeEmpty, RangeSingleton
  <2>3. QED
    BY <1>4, <2>1, <2>2
<1>7. QED
  BY <1>3, <1>5, <1>6 DEF ProcessRepository

(* The process that StartNext makes is named by a job that waits, so it is *)
(* not one that exists.                                                    *)
LEMMA StartNextIsIdle ==
    ASSUME TypeInv, Places, NEW r \in Repos, NEW p \in Jobs, p \in Range(queued[r])
    PROVE  pc[p] = "idle" /\ chain[p] = <<>>
<1>1. p \notin Range(chain[p]) /\ p \notin ended
  BY DEF Places, WaitingApart
<1>2. chain[p] # <<>> => Head(chain[p]) \in Range(chain[p])
  BY RangeTail DEF TypeInv, TypeOK
<1>3. QED
  BY <1>1, <1>2 DEF Places, NamedByFirst, Active, TypeInv, IdleHasNoJob

(* The waiting list becomes the chain of a process that had none.          *)
LEMMA StartNextPlaces ==
    ASSUME TypeInv, QueuedAgreement, Places, StartNext
    PROVE  Places'
<1> DEFINE r == Head(items[cur])
           p == Head(queued[r])
<1>1. /\ r \in Repos /\ p \in Jobs /\ p \in Range(queued[r])
      /\ queued' = [queued EXCEPT ![r] = <<>>]
      /\ chain' = [chain EXCEPT ![p] = queued[r]]
      /\ pc' = [pc EXCEPT ![p] = "spawned"]
      /\ UNCHANGED <<created, ended>>
  BY StartNextStarts
<1>2. pc[p] = "idle" /\ chain[p] = <<>>
  BY <1>1, StartNextIsIdle
<1>3. /\ queued'[r] = <<>> /\ \A x \in Repos \ {r} : queued'[x] = queued[x]
      /\ chain'[p] = queued[r] /\ \A x \in Jobs \ {p} : chain'[x] = chain[x]
      /\ pc'[p] = "spawned" /\ \A x \in Jobs \ {p} : pc'[x] = pc[x]
  BY <1>1 DEF TypeInv, TypeOK
<1> HIDE DEF r, p
<1>4. Distinct'
  BY <1>1, <1>3, InjectiveEmpty DEF Places, Distinct
<1>5. ChainsApart'
  BY <1>1, <1>3 DEF Places, ChainsApart, WaitingApart
<1>6. WaitingApart'
  <2> SUFFICES ASSUME NEW x \in Repos, NEW y \in Jobs
               PROVE  Range(queued'[x]) \cap (Range(chain'[y]) \cup ended) = {}
    BY <1>1 DEF WaitingApart
  <2>1. CASE x = r
    BY <1>3, <2>1, RangeEmpty
  <2>2. CASE x # r
    <3>1. Range(queued[x]) \cap Range(queued[r]) = {}
      BY <1>1, <2>2 DEF TypeInv, JobsOfRepo
    <3>2. QED
      BY <1>1, <1>3, <2>2, <3>1 DEF Places, WaitingApart
  <2>3. QED
    BY <2>1, <2>2
<1>7. JobsCreated'
  BY <1>1, <1>3, RangeEmpty DEF Places, JobsCreated
<1>8. EndedIsReported'
  BY <1>1, <1>3 DEF Places, EndedIsReported, WaitingApart
<1>9. NamedByFirst'
  <2>1. Head(chain'[p]) = p
    BY <1>3 DEF p
  <2>2. QED
    BY <1>1, <1>3, <2>1 DEF Places, NamedByFirst, Active
<1>10. QED
  BY <1>4, <1>5, <1>6, <1>7, <1>8, <1>9 DEF Places

(* The job that ends was not over before; CancelNext only takes followers  *)
(* away.                                                                   *)
LEMMA FinishPlaces ==
    ASSUME TypeInv, Places, NEW p \in Jobs, NEW stageFailed \in BOOLEAN, Finish(p, stageFailed)
    PROVE  Places'
<1> DEFINE h == Head(chain[p])
<1>1. /\ pc[p] = "running" /\ chain[p] # <<>> /\ chain[p] \in Seq(Jobs)
      /\ pc' = [pc EXCEPT ![p] = "reported"]
      /\ ended' = ended \cup {h}
      /\ chain' = chain \/ chain' = [chain EXCEPT ![p] = <<h>>]
      /\ UNCHANGED <<created, queued>>
  BY DEF Finish, TypeInv, TypeOK, IdleHasNoJob
<1>2. h \in Jobs /\ h \in Range(chain[p])
  BY <1>1, RangeTail
<1>3. pc'[p] = "reported" /\ \A x \in Jobs \ {p} : pc'[x] = pc[x]
  BY <1>1 DEF TypeInv, TypeOK
<1>4. /\ \A x \in Jobs \ {p} : chain'[x] = chain[x]
      /\ IsInjective(chain'[p]) /\ Head(chain'[p]) = h /\ h \in Range(chain'[p])
      /\ Range(chain'[p]) \subseteq Range(chain[p])
  <2>1. CASE chain' = chain
    BY <1>2, <2>1 DEF Places, Distinct
  <2>2. CASE chain' = [chain EXCEPT ![p] = <<h>>]
    <3>1. chain'[p] = <<h>> /\ \A x \in Jobs \ {p} : chain'[x] = chain[x]
      BY <2>2 DEF TypeInv, TypeOK
    <3>2. QED
      BY <1>2, <3>1, RangeSingleton
  <2>3. QED
    BY <1>1, <2>1, <2>2
<1> HIDE DEF h
<1>5. Distinct'
  BY <1>1, <1>4 DEF Places, Distinct
<1>6. ChainsApart'
  BY <1>4 DEF Places, ChainsApart
<1>7. WaitingApart'
  BY <1>1, <1>2, <1>4 DEF Places, WaitingApart
<1>8. JobsCreated'
  BY <1>1, <1>2, <1>4 DEF Places, JobsCreated
<1>9. EndedIsReported'
  <2> SUFFICES ASSUME NEW x \in Jobs
               PROVE  Range(chain'[x]) \cap ended' =
                          IF pc'[x] = "reported" THEN {Head(chain'[x])} ELSE {}
    BY DEF EndedIsReported
  <2>1. CASE x = p
    <3>1. Range(chain[p]) \cap ended = {}
      BY <1>1 DEF Places, EndedIsReported
    <3>2. QED
      BY <1>1, <1>3, <1>4, <2>1, <3>1
  <2>2. CASE x # p
    <3>1. h \notin Range(chain[x])
      BY <1>2, <2>2 DEF Places, ChainsApart
    <3>2. chain'[x] = chain[x] /\ pc'[x] = pc[x] /\ Range(chain'[x]) \cap ended' = Range(chain[x]) \cap ended
      BY <1>1, <1>3, <1>4, <2>2, <3>1
    <3>3. QED
      BY <3>2 DEF Places, EndedIsReported
  <2>3. QED
    BY <2>1, <2>2
<1>10. NamedByFirst'
  <2> SUFFICES ASSUME NEW x \in Jobs, pc'[x] # "idle"
               PROVE  x = Head(chain'[x]) \/ x \in ended'
    BY DEF NamedByFirst, Active
  <2>1. Head(chain'[x]) = Head(chain[x]) /\ pc[x] # "idle"
    BY <1>1, <1>3, <1>4 DEF h
  <2>2. QED
    BY <1>1, <2>1 DEF Places, NamedByFirst, Active
<1>11. QED
  BY <1>5, <1>6, <1>7, <1>8, <1>9, <1>10 DEF Places

(* A chain loses its first job, which is over.                             *)
LEMMA RunNextPlaces ==
    ASSUME TypeInv, Places, NEW p \in Jobs, RunNext(p)
    PROVE  Places'
<1> DEFINE h == Head(chain[p])
           t == Tail(chain[p])
<1>1. /\ pc[p] = "reported" /\ chain[p] \in Seq(Jobs) /\ chain[p] # <<>>
      /\ UNCHANGED <<created, queued, ended>>
  BY DEF RunNext, TypeInv, TypeOK, IdleHasNoJob
<1>2. /\ chain' = [chain EXCEPT ![p] = t]
      /\ pc' = [pc EXCEPT ![p] = IF t = <<>> THEN "idle" ELSE "spawned"]
  BY DEF RunNext, RunNextLast, RunNextFollower
<1>3. /\ chain'[p] = t /\ \A x \in Jobs \ {p} : chain'[x] = chain[x]
      /\ pc'[p] \in {"idle", "spawned"} /\ \A x \in Jobs \ {p} : pc'[x] = pc[x]
  BY <1>2 DEF TypeInv, TypeOK
<1>4. Range(chain[p]) = {h} \cup Range(t) /\ IsInjective(t) /\ h \notin Range(t)
  BY <1>1, RangeTail, InjectiveTail DEF Places, Distinct
<1>5. Range(chain[p]) \cap ended = {h}
  BY <1>1 DEF Places, EndedIsReported
<1> HIDE DEF h, t
<1>6. Distinct'
  BY <1>1, <1>3, <1>4 DEF Places, Distinct
<1>7. \A x \in Jobs : Range(chain'[x]) \subseteq Range(chain[x])
  BY <1>3, <1>4
<1>8. ChainsApart'
  BY <1>7 DEF Places, ChainsApart
<1>9. WaitingApart'
  BY <1>1, <1>7 DEF Places, WaitingApart
<1>10. JobsCreated'
  BY <1>1, <1>7 DEF Places, JobsCreated
<1>11. EndedIsReported'
  <2> SUFFICES ASSUME NEW x \in Jobs
               PROVE  Range(chain'[x]) \cap ended =
                          IF pc'[x] = "reported" THEN {Head(chain'[x])} ELSE {}
    BY <1>1 DEF EndedIsReported
  <2>1. CASE x = p
    BY <1>3, <1>4, <1>5, <2>1
  <2>2. CASE x # p
    BY <1>3, <2>2 DEF Places, EndedIsReported
  <2>3. QED
    BY <2>1, <2>2
<1>12. NamedByFirst'
  <2> SUFFICES ASSUME NEW x \in Jobs, pc'[x] # "idle"
               PROVE  x = Head(chain'[x]) \/ x \in ended
    BY <1>1 DEF NamedByFirst, Active
  <2>1. CASE x = p
    <3>1. p = h \/ p \in ended
      BY <1>1 DEF Places, NamedByFirst, Active, h
    <3>2. QED
      BY <1>5, <2>1, <3>1
  <2>2. CASE x # p
    BY <1>3, <2>2 DEF Places, NamedByFirst, Active
  <2>3. QED
    BY <2>1, <2>2
<1>13. QED
  BY <1>6, <1>8, <1>9, <1>10, <1>11, <1>12 DEF Places

(* StopRepository only empties a waiting list.                             *)
LEMMA StopPlaces ==
    ASSUME TypeInv, Places, NEW r \in Repos, Stop(r)
    PROVE  Places'
<1>1. UNCHANGED <<created, chain, pc, ended>>
  BY DEF Stop, StopRepository
<1>2. \A x \in Repos : queued'[x] \in {queued[x], <<>>}
  <2>1. queued' = queued \/ queued' = [queued EXCEPT ![r] = <<>>]
    BY DEF Stop, StopRepository, unqueue
  <2>2. QED
    BY <2>1 DEF TypeInv, TypeOK
<1>3. Distinct'
  BY <1>1, <1>2, InjectiveEmpty DEF Places, Distinct
<1>4. ChainsApart' /\ EndedIsReported' /\ NamedByFirst'
  BY <1>1 DEF Places, ChainsApart, EndedIsReported, NamedByFirst, Active
<1>5. \A x \in Repos : Range(queued'[x]) \subseteq Range(queued[x])
  BY <1>2, RangeEmpty
<1>6. WaitingApart' /\ JobsCreated'
  BY <1>1, <1>5 DEF Places, WaitingApart, JobsCreated
<1>7. QED
  BY <1>3, <1>4, <1>6 DEF Places

(* What the proofs about jobs, workers and serial runs rest on.            *)
JobInv == TypeInv /\ QueuedAgreement /\ Places

(* A new manager has no job.                                               *)
LEMMA InitJobInv == Init => JobInv
<1> SUFFICES ASSUME Init PROVE QueuedAgreement /\ Places
  BY InitTypeInv DEF JobInv
<1>1. /\ \A r \in Repos : queued[r] = <<>>
      /\ \A p \in Jobs : chain[p] = <<>> /\ pc[p] = "idle"
      /\ \A q \in QueueIDs : items[q] = <<>>
      /\ ended = {}
  BY DEF Init
<1>2. QueuedAgreement
  BY <1>1, RangeEmpty, InjectiveEmpty DEF QueuedAgreement
<1>3. Distinct /\ ChainsApart /\ WaitingApart
  BY <1>1, RangeEmpty, InjectiveEmpty DEF Distinct, ChainsApart, WaitingApart
<1>4. JobsCreated /\ EndedIsReported /\ NamedByFirst
  BY <1>1, RangeEmpty DEF JobsCreated, EndedIsReported, NamedByFirst, Active
<1>5. QED
  BY <1>2, <1>3, <1>4 DEF Places

(* Every step of the manager keeps the invariant.                          *)
LEMMA NextJobInv == JobInv /\ [Next]_vars => JobInv'
<1> SUFFICES ASSUME JobInv, [Next]_vars PROVE QueuedAgreement' /\ Places'
  BY NextTypeInv DEF JobInv
<1> USE DEF JobInv
<1>1. ASSUME NEW j \in Jobs, ProcessRepository(j) PROVE QueuedAgreement' /\ Places'
  BY <1>1, ProcessRepositoryQueues, ProcessRepositoryPlaces
<1>2. CASE StartNext
  BY <1>2, StartNextQueues, StartNextPlaces
<1>3. ASSUME NEW p \in Jobs, NEW f \in BOOLEAN, Finish(p, f) PROVE QueuedAgreement' /\ Places'
  BY <1>3, FinishPlaces, SameQueues DEF Finish
<1>4. ASSUME NEW p \in Jobs, RunNext(p) PROVE QueuedAgreement' /\ Places'
  <2>1. processes' \in {processes, [processes EXCEPT ![RepoOf[p]] = NoJob]}
    BY <1>4 DEF RunNext, RunNextLast, RunNextFollower, deleteProcess
  <2>2. \A r \in Repos : processes'[r] \in {processes[r], NoJob}
    BY <2>1 DEF TypeInv, TypeOK
  <2>3. UNCHANGED <<queued, items>>
    BY <1>4 DEF RunNext
  <2>4. QED
    BY <1>4, <2>2, <2>3, RunNextPlaces, SameQueues
<1>5. ASSUME NEW r \in Repos, Stop(r) PROVE QueuedAgreement' /\ Places'
  BY <1>5, StopQueues, StopPlaces
<1>6. ASSUME NEW p \in Jobs, Begin(p) PROVE QueuedAgreement' /\ Places'
  <2>1. /\ pc[p] = "spawned" /\ pc' = [pc EXCEPT ![p] = "running"]
        /\ UNCHANGED <<created, queued, items, processes, chain, ended>>
    BY <1>6 DEF Begin
  <2>2. \A x \in Jobs : /\ pc'[x] = "reported" <=> pc[x] = "reported"
                        /\ pc'[x] = "idle" <=> pc[x] = "idle"
    BY <2>1 DEF TypeInv, TypeOK
  <2>3. QED
    BY <2>1, <2>2, SameQueues, SamePlaces
<1>7. CASE UNCHANGED <<created, queued, items, processes, chain, pc, ended>>
  BY <1>7, SameQueues, SamePlaces
<1>8. QED
  BY <1>1, <1>2, <1>3, <1>4, <1>5, <1>6, <1>7
     DEF Next, NextNoStop, Run, QueueDone, NextQueue, StopReturns, vars

(* The invariant holds in every reachable state.                           *)
LEMMA JobInvariance == Spec => []JobInv
BY InitJobInv, NextJobInv, PTL DEF Spec

(* The invariant gives what JobsPlaced says of positions.                  *)
LEMMA PlacesPlaced == JobInv => JobsPlaced
<1> SUFFICES ASSUME JobInv PROVE JobInOnePlace
  BY DEF JobInv, JobsPlaced
<1>1. ASSUME NEW p1 \in Jobs, NEW p2 \in Jobs, NEW i \in DOMAIN chain[p1],
             NEW k \in DOMAIN chain[p2], chain[p1][i] = chain[p2][k]
      PROVE  p1 = p2 /\ i = k
  <2>1. p1 = p2
    BY <1>1 DEF JobInv, Places, ChainsApart, Range
  <2>2. QED
    BY <1>1, <2>1 DEF JobInv, Places, Distinct, IsInjective
<1>2. QED
  BY <1>1 DEF JobInv, Places, Distinct, WaitingApart, JobInOnePlace

(* A repository waits in the queue of its waiting job and nowhere else,    *)
(* and a job is in one chain or one waiting list, once, until its run is   *)
(* over, whatever is submitted, stopped and handed over.                   *)
THEOREM JobsArePlaced == Spec => []JobsPlaced
BY JobInvariance, PlacesPlaced, PTL

----------------------------------------------------------------------------
(* What a step may never do with a job. *)

(* A process that is spawned is about to run a job that is not over.       *)
LEMMA StepRunsNoJobTwice ==
    ASSUME JobInv
    PROVE  \A p \in Jobs : pc[p] = "spawned" /\ pc'[p] = "running" => Head(chain[p]) \notin ended
<1> SUFFICES ASSUME NEW p \in Jobs, pc[p] = "spawned" PROVE Head(chain[p]) \notin ended
  OBVIOUS
<1>1. chain[p] # <<>> /\ chain[p] \in Seq(Jobs)
  BY DEF JobInv, TypeInv, TypeOK, IdleHasNoJob
<1>2. Head(chain[p]) \in Range(chain[p])
  BY <1>1, RangeTail
<1>3. Range(chain[p]) \cap ended = {}
  BY DEF JobInv, Places, EndedIsReported
<1>4. QED
  BY <1>2, <1>3

(* A job leaves the manager unrun when its waiting entry is deleted by     *)
(* StopRepository or when CancelNext drops it behind a job.                *)
DropsOnCancel(j) ==
    InSystem(j) /\ ~InSystem(j)' /\ j \notin ended =>
        \/ queued[RepoOf[j]] # <<>> /\ UNCHANGED <<run, chain, pc>>
        \/ \E p \in Jobs : /\ pc[p] = "running" /\ pc'[p] = "reported"
                           /\ j \in Range(chain[p])
                           /\ ctxDone[p] \/ HasParallelStage(Head(chain[p]))

(* A job that stays in its list is not given up.                           *)
LEMMA KeptInSystem ==
    ASSUME NEW j \in Jobs,
           \A r \in Repos : j \in Range(queued[r]) => j \in Range(queued'[r]),
           \A p \in Jobs : j \in Range(chain[p]) => j \in Range(chain'[p])
    PROVE  DropsOnCancel(j)
BY DEF DropsOnCancel, InSystem

(* A submission takes no job out.                                          *)
LEMMA ProcessRepositoryKeeps ==
    ASSUME JobInv, NEW i \in Jobs, ProcessRepository(i), NEW j \in Jobs
    PROVE  DropsOnCancel(j)
<1> DEFINE r == RepoOf[i]
<1>1. r \in Repos
  BY ManagerAssumption
<1>2. CASE AppendToProcess(i, r)
  <2>1. /\ processes[r] \in Jobs /\ queued' = queued
        /\ chain' = [chain EXCEPT ![processes[r]] = Append(chain[processes[r]], i)]
    BY <1>1, <1>2 DEF AppendToProcess, append, JobInv, TypeInv, TypeOK
  <2>2. Range(Append(chain[processes[r]], i)) = Range(chain[processes[r]]) \cup {i}
    BY <2>1, RangeAppend DEF JobInv, TypeInv, TypeOK
  <2>3. \A p \in Jobs : j \in Range(chain[p]) => j \in Range(chain'[p])
    BY <2>1, <2>2 DEF JobInv, TypeInv, TypeOK
  <2>4. QED
    BY <2>1, <2>3, KeptInSystem
<1>3. CASE AppendToQueued(i, r)
  <2>1. chain' = chain /\ queued' = [queued EXCEPT ![r] = Append(queued[r], i)]
    BY <1>3 DEF AppendToQueued, append
  <2>2. Range(Append(queued[r], i)) = Range(queued[r]) \cup {i}
    BY <1>1, RangeAppend DEF JobInv, TypeInv, TypeOK
  <2>3. \A x \in Repos : j \in Range(queued[x]) => j \in Range(queued'[x])
    BY <1>1, <2>1, <2>2 DEF JobInv, TypeInv, TypeOK
  <2>4. QED
    BY <2>1, <2>3, KeptInSystem
<1>4. CASE PushOnQueue(i, r)
  <2>1. chain' = chain /\ queued[r] = <<>> /\ queued' = [queued EXCEPT ![r] = <<i>>]
    BY <1>4 DEF PushOnQueue
  <2>2. \A x \in Repos : j \in Range(queued[x]) => j \in Range(queued'[x])
    BY <1>1, <2>1, RangeEmpty DEF JobInv, TypeInv, TypeOK
  <2>3. QED
    BY <2>1, <2>2, KeptInSystem
<1>5. QED
  BY <1>2, <1>3, <1>4 DEF ProcessRepository

(* The waiting jobs of the repository go on in the chain of its process,   *)
(* which replaces no other chain.                                          *)
LEMMA StartNextKeeps ==
    ASSUME JobInv, StartNext, NEW j \in Jobs
    PROVE  DropsOnCancel(j)
<1> DEFINE r == Head(items[cur])
           p == Head(queued[r])
<1>1. /\ r \in Repos /\ p \in Jobs /\ p \in Range(queued[r])
      /\ queued' = [queued EXCEPT ![r] = <<>>]
      /\ chain' = [chain EXCEPT ![p] = queued[r]]
  BY StartNextStarts DEF JobInv
<1>2. chain[p] = <<>>
  BY <1>1, StartNextIsIdle DEF JobInv
<1>3. /\ chain'[p] = queued[r] /\ \A x \in Jobs \ {p} : chain'[x] = chain[x]
      /\ \A x \in Repos \ {r} : queued'[x] = queued[x]
  BY <1>1 DEF JobInv, TypeInv, TypeOK
<1> HIDE DEF r, p
<1>4. InSystem(j) => InSystem(j)'
  BY <1>1, <1>2, <1>3, RangeEmpty DEF InSystem
<1>5. QED
  BY <1>4 DEF DropsOnCancel

(* Only a run whose context is done drops its followers.                   *)
LEMMA FinishDrops ==
    ASSUME JobInv, NEW p \in Jobs, NEW stageFailed \in BOOLEAN, Finish(p, stageFailed),
           NEW j \in Jobs
    PROVE  DropsOnCancel(j)
<1>1. /\ pc[p] = "running" /\ pc' = [pc EXCEPT ![p] = "reported"]
      /\ stageFailed => HasParallelStage(Head(chain[p]))
      /\ queued' = queued
  BY DEF Finish
<1>2. pc'[p] = "reported"
  BY <1>1 DEF JobInv, TypeInv, TypeOK
<1>3. CASE ctxDone[p] \/ stageFailed
  <2>1. chain' = [chain EXCEPT ![p] = <<Head(chain[p])>>]
    BY <1>3 DEF Finish
  <2>2. \A x \in Jobs \ {p} : chain'[x] = chain[x]
    BY <2>1 DEF JobInv, TypeInv, TypeOK
  <2>3. CASE j \in Range(chain[p])
    BY <1>1, <1>2, <1>3, <2>3 DEF DropsOnCancel
  <2>4. CASE j \notin Range(chain[p])
    <3>1. \A x \in Jobs : j \in Range(chain[x]) => j \in Range(chain'[x])
      BY <2>2, <2>4
    <3>2. QED
      BY <1>1, <3>1, KeptInSystem
  <2>5. QED
    BY <2>3, <2>4
<1>4. CASE ~(ctxDone[p] \/ stageFailed)
  <2>1. chain' = chain
    BY <1>4 DEF Finish
  <2>2. QED
    BY <1>1, <2>1, KeptInSystem
<1>5. QED
  BY <1>3, <1>4

(* The job that leaves a chain is over.                                    *)
LEMMA RunNextKeeps ==
    ASSUME JobInv, NEW p \in Jobs, RunNext(p), NEW j \in Jobs
    PROVE  DropsOnCancel(j)
<1>1. /\ pc[p] = "reported" /\ queued' = queued
      /\ chain' = [chain EXCEPT ![p] = Tail(chain[p])]
  BY DEF RunNext, RunNextLast, RunNextFollower
<1>2. /\ chain'[p] = Tail(chain[p]) /\ \A x \in Jobs \ {p} : chain'[x] = chain[x]
      /\ chain[p] \in Seq(Jobs) /\ chain[p] # <<>>
  BY <1>1 DEF JobInv, TypeInv, TypeOK, IdleHasNoJob
<1>3. Range(chain[p]) = {Head(chain[p])} \cup Range(Tail(chain[p]))
  BY <1>2, RangeTail
<1>4. Head(chain[p]) \in ended
  BY <1>1 DEF JobInv, Places, EndedIsReported
<1>5. CASE j = Head(chain[p])
  BY <1>4, <1>5 DEF DropsOnCancel
<1>6. CASE j # Head(chain[p])
  <2>1. \A x \in Jobs : j \in Range(chain[x]) => j \in Range(chain'[x])
    BY <1>2, <1>3, <1>6
  <2>2. QED
    BY <1>1, <2>1, KeptInSystem
<1>7. QED
  BY <1>5, <1>6

(* A stop takes out jobs that wait.                                        *)
LEMMA StopDrops ==
    ASSUME JobInv, NEW r \in Repos, Stop(r), NEW j \in Jobs
    PROVE  DropsOnCancel(j)
<1>1. UNCHANGED <<run, chain, pc>>
  BY DEF Stop, StopRepository
<1>2. CASE queued[RepoOf[j]] # <<>>
  BY <1>1, <1>2 DEF DropsOnCancel
<1>3. CASE queued[RepoOf[j]] = <<>>
  <2>1. \A x \in Repos : j \notin Range(queued[x])
    BY <1>3, RangeEmpty DEF JobInv, TypeInv, JobsOfRepo
  <2>2. QED
    BY <1>1, <2>1, KeptInSystem
<1>4. QED
  BY <1>2, <1>3

(* No step drops a job but for a cancellation.                             *)
LEMMA StepDrops == JobInv /\ [Next]_vars => \A j \in Jobs : DropsOnCancel(j)
<1> SUFFICES ASSUME JobInv, [Next]_vars, NEW j \in Jobs PROVE DropsOnCancel(j)
  OBVIOUS
<1>1. ASSUME NEW i \in Jobs, ProcessRepository(i) PROVE DropsOnCancel(j)
  BY <1>1, ProcessRepositoryKeeps
<1>2. CASE StartNext
  BY <1>2, StartNextKeeps
<1>3. ASSUME NEW p \in Jobs, NEW f \in BOOLEAN, Finish(p, f) PROVE DropsOnCancel(j)
  BY <1>3, FinishDrops
<1>4. ASSUME NEW p \in Jobs, RunNext(p) PROVE DropsOnCancel(j)
  BY <1>4, RunNextKeeps
<1>5. ASSUME NEW r \in Repos, Stop(r) PROVE DropsOnCancel(j)
  BY <1>5, StopDrops
<1>6. CASE UNCHANGED <<queued, chain>>
  BY <1>6, KeptInSystem
<1>7. QED
  BY <1>1, <1>2, <1>3, <1>4, <1>5, <1>6
     DEF Next, NextNoStop, Run, QueueDone, NextQueue, Begin, StopReturns, vars

(* No job is run twice, and an accepted job is given up without having     *)
(* been run only by a stop of its repository while it waits, or behind a   *)
(* job whose context was done.                                             *)
THEOREM JobsAreKept == Spec => JobsKept
<1>1. JobInv /\ [Next]_vars =>
        (\A p \in Jobs : pc[p] = "spawned" /\ pc'[p] = "running" => Head(chain[p]) \notin ended)
  BY StepRunsNoJobTwice
<1>2. JobInv /\ [Next]_vars =>
        (\A j \in Jobs : InSystem(j) /\ ~InSystem(j)' /\ j \notin ended =>
          \/ queued[RepoOf[j]] # <<>> /\ UNCHANGED <<run, chain, pc>>
          \/ \E p \in Jobs : /\ pc[p] = "running" /\ pc'[p] = "reported"
                             /\ j \in Range(chain[p])
                             /\ ctxDone[p] \/ HasParallelStage(Head(chain[p])))
  BY StepDrops DEF DropsOnCancel
<1>3. QED
  BY <1>1, <1>2, JobInvariance, PTL DEF Spec, JobsKept, NoJobTwice, DropOnlyOnCancel

----------------------------------------------------------------------------
(* Workers. Counting needs that the goroutines are finitely many, that a   *)
(* counter is the size of a set of goroutines, and that the sets of the    *)
(* three queues are disjoint and cover the goroutines.                     *)

(* The process goroutines.                                                 *)
ActiveSet == {p \in Jobs : Active(p)}
(* Those whose current job belongs to a queue.                             *)
Workers(q) == {p \in Jobs : Active(p) /\ FindQueueID(Head(chain[p])) = q}

(* The inductive invariant about workers.                                  *)
WorkersInv ==
    /\ IsFiniteSet(ActiveSet)
    /\ \A q \in QueueIDs : processing[q] = Cardinality(Workers(q))
    /\ NumProcessing <= DefaultManagerWorkersCount

(* The counter of the manager is the number of its goroutines.             *)
LEMMA CountersAddUp ==
    ASSUME IsFiniteSet(ActiveSet),
           \A q \in QueueIDs : processing[q] = Cardinality(Workers(q))
    PROVE  NumProcessing = Cardinality(ActiveSet)
<1> DEFINE A == Workers("QueueNewRepos")
           B == Workers("QueueNewCommits")
           C == Workers("QueueRecovered")
<1>1. /\ A \subseteq ActiveSet /\ B \subseteq ActiveSet /\ C \subseteq ActiveSet
      /\ A \cap B = {} /\ (A \cup B) \cap C = {}
  BY DEF Workers, ActiveSet
<1>2. ActiveSet = (A \cup B) \cup C
  <2>1. ASSUME NEW p \in ActiveSet PROVE p \in (A \cup B) \cup C
    BY QueueOfJob DEF ActiveSet, Workers, QueueIDs
  <2>2. QED
    BY <1>1, <2>1
<1> HIDE DEF A, B, C
<1>3. IsFiniteSet(A) /\ IsFiniteSet(B) /\ IsFiniteSet(C)
  BY <1>1, FS_Subset
<1>4. /\ Cardinality(A) \in Nat /\ Cardinality(B) \in Nat /\ Cardinality(C) \in Nat
      /\ Cardinality({}) = 0
  BY <1>3, FS_CardinalityType, FS_EmptySet
<1>5. IsFiniteSet(A \cup B) /\ Cardinality(A \cup B) = Cardinality(A) + Cardinality(B)
  <2>1. IsFiniteSet(A \cup B)
        /\ Cardinality(A \cup B) = Cardinality(A) + Cardinality(B) - Cardinality(A \cap B)
    BY <1>3, FS_Union
  <2>2. Cardinality(A \cap B) = 0
    BY <1>1, <1>4, Zenon
  <2>3. QED
    BY <1>4, <2>1, <2>2
<1>6. Cardinality((A \cup B) \cup C) = Cardinality(A \cup B) + Cardinality(C)
  <2>1. Cardinality((A \cup B) \cup C) =
          Cardinality(A \cup B) + Cardinality(C) - Cardinality((A \cup B) \cap C)
    BY <1>3, <1>5, FS_Union
  <2>2. Cardinality((A \cup B) \cap C) = 0
    BY <1>1, <1>4, Zenon
  <2>3. QED
    BY <1>4, <1>5, <2>1, <2>2
<1>7. /\ processing["QueueNewRepos"] = Cardinality(A)
      /\ processing["QueueNewCommits"] = Cardinality(B)
      /\ processing["QueueRecovered"] = Cardinality(C)
  BY DEF QueueIDs, A, B, C
<1>8. QED
  BY <1>2, <1>4, <1>5, <1>6, <1>7 DEF NumProcessing

(* A step that keeps the goroutines and the queues of their jobs.          *)
LEMMA SameWorkers ==
    ASSUME WorkersInv, processing' = processing, ActiveSet' = ActiveSet,
           \A p \in ActiveSet : Head(chain'[p]) = Head(chain[p])
    PROVE  WorkersInv'
<1>1. \A q \in QueueIDs : Workers(q)' = Workers(q)
  BY DEF Workers, ActiveSet, Active
<1>2. QED
  BY <1>1 DEF WorkersInv, NumProcessing

(* A submission starts nothing and changes no current job.                 *)
LEMMA ProcessRepositoryWorkers ==
    ASSUME JobInv, WorkersInv, NEW j \in Jobs, ProcessRepository(j)
    PROVE  WorkersInv'
<1>1. processing' = processing /\ pc' = pc /\ ActiveSet' = ActiveSet
  BY DEF ProcessRepository, ActiveSet, Active
<1>2. CASE AppendToProcess(j, RepoOf[j])
  <2> DEFINE p == processes[RepoOf[j]]
  <2>1. /\ p \in Jobs /\ chain[p] \in Seq(Jobs) /\ chain[p] # <<>>
        /\ chain' = [chain EXCEPT ![p] = Append(chain[p], j)]
    <3>1. RepoOf[j] \in Repos
      BY ManagerAssumption
    <3>2. QED
      BY <1>2, <3>1 DEF AppendToProcess, append, JobInv, TypeInv, TypeOK, EntryIsActive,
           IdleHasNoJob, Active
  <2>2. Head(Append(chain[p], j)) = Head(chain[p])
    BY <2>1, HeadAppend
  <2>3. \A x \in Jobs : Head(chain'[x]) = Head(chain[x])
    BY <2>1, <2>2 DEF JobInv, TypeInv, TypeOK
  <2>4. QED
    BY <1>1, <2>3, SameWorkers DEF ActiveSet
<1>3. CASE chain' = chain
  BY <1>1, <1>3, SameWorkers
<1>4. QED
  BY <1>2, <1>3 DEF ProcessRepository, AppendToQueued, PushOnQueue

(* One goroutine more, in the queue whose counter is raised, and only      *)
(* while the manager has a free worker.                                    *)
LEMMA StartNextWorkers ==
    ASSUME JobInv, WorkersInv, StartNext
    PROVE  WorkersInv'
<1> DEFINE r == Head(items[cur])
           p == Head(queued[r])
<1>1. PICK k \in QueueIDs : k = cur
  BY StartNextStarts DEF JobInv
<1>2. /\ r \in Repos /\ p \in Jobs /\ p \in Range(queued[r])
      /\ FindQueueID(p) = k
      /\ chain' = [chain EXCEPT ![p] = queued[r]]
      /\ pc' = [pc EXCEPT ![p] = "spawned"]
      /\ processing' = [processing EXCEPT ![k] = processing[k] + 1]
  BY <1>1, StartNextStarts DEF JobInv
<1>3. pc[p] = "idle"
  BY <1>2, StartNextIsIdle DEF JobInv
<1>4. Head(chain'[p]) = p /\ pc'[p] = "spawned"
  BY <1>2 DEF JobInv, TypeInv, TypeOK
<1>5. \A x \in Jobs \ {p} : chain'[x] = chain[x] /\ pc'[x] = pc[x]
  BY <1>2 DEF JobInv, TypeInv, TypeOK
<1> HIDE DEF r, p
<1>6. ActiveSet' = ActiveSet \cup {p}
  BY <1>2, <1>4, <1>5 DEF ActiveSet, Active
<1>7. Workers(k)' = Workers(k) \cup {p} /\ p \notin Workers(k)
  BY <1>2, <1>3, <1>4, <1>5 DEF Workers, Active
<1>8. \A q \in QueueIDs \ {k} : Workers(q)' = Workers(q)
  BY <1>2, <1>3, <1>4, <1>5 DEF Workers, Active
<1>9. IsFiniteSet(ActiveSet')
  BY <1>6, FS_AddElement DEF WorkersInv
<1>10. /\ processing'[k] = processing[k] + 1
      /\ \A q \in QueueIDs \ {k} : processing'[q] = processing[q]
  BY <1>2 DEF JobInv, TypeInv, TypeOK
<1>11. Cardinality(Workers(k)') = Cardinality(Workers(k)) + 1
  <2>1. IsFiniteSet(Workers(k))
    <3>1. Workers(k) \subseteq ActiveSet
      BY DEF Workers, ActiveSet
    <3>2. QED
      BY <3>1, FS_Subset DEF WorkersInv
  <2>2. QED
    BY <1>7, <2>1, FS_AddElement
<1>12. \A q \in QueueIDs : processing'[q] = Cardinality(Workers(q)')
  BY <1>2, <1>8, <1>10, <1>11 DEF WorkersInv
<1>13. NumProcessing' = NumProcessing + 1
  BY <1>2, <1>10 DEF NumProcessing, QueueIDs, JobInv, TypeInv, TypeOK
<1>14. DefaultManagerWorkersCount > NumProcessing
  BY DEF StartNext, CanStart, HasFreeWorkers
<1>15. NumProcessing \in Int
  BY DEF NumProcessing, QueueIDs, JobInv, TypeInv, TypeOK
<1>16. NumProcessing' <= DefaultManagerWorkersCount
  BY <1>13, <1>14, <1>15, ManagerAssumption
<1>17. QED
  BY <1>9, <1>12, <1>16 DEF WorkersInv

(* A run that ends keeps its worker until the manager receives it.         *)
LEMMA FinishWorkers ==
    ASSUME JobInv, WorkersInv, NEW p \in Jobs, NEW stageFailed \in BOOLEAN,
           Finish(p, stageFailed)
    PROVE  WorkersInv'
<1>1. /\ pc[p] = "running" /\ pc' = [pc EXCEPT ![p] = "reported"]
      /\ chain' = chain \/ chain' = [chain EXCEPT ![p] = <<Head(chain[p])>>]
      /\ processing' = processing
  BY DEF Finish
<1>2. \A x \in Jobs : Head(chain'[x]) = Head(chain[x])
  BY <1>1, RangeSingleton DEF JobInv, TypeInv, TypeOK
<1>3. ActiveSet' = ActiveSet
  BY <1>1 DEF ActiveSet, Active, JobInv, TypeInv, TypeOK
<1>4. QED
  BY <1>1, <1>2, <1>3, SameWorkers DEF ActiveSet

(* A process that is over frees the worker of its job; a follower moves it *)
(* to the queue of its own.                                                *)
LEMMA RunNextWorkers ==
    ASSUME JobInv, WorkersInv, NEW p \in Jobs, RunNext(p)
    PROVE  WorkersInv'
<1>1. pc[p] = "reported"
  BY DEF RunNext
<1>2. PICK d \in QueueIDs : d = FindQueueID(Head(chain[p]))
  BY QueueOfJob
<1>3. PICK f \in QueueIDs : f = FindQueueID(Head(Tail(chain[p])))
  BY QueueOfJob
<1>4. \A q \in QueueIDs : IsFiniteSet(Workers(q)) /\ Cardinality(Workers(q)) \in Nat
  <2>1. \A q \in QueueIDs : Workers(q) \subseteq ActiveSet
    BY DEF Workers, ActiveSet
  <2>2. QED
    BY <2>1, FS_Subset, FS_CardinalityType DEF WorkersInv
<1>5. \A q \in QueueIDs : processing[q] \in Int
  BY DEF JobInv, TypeInv, TypeOK
<1>6. p \in Workers(d) /\ \A q \in QueueIDs \ {d} : p \notin Workers(q)
  BY <1>1, <1>2 DEF Workers, Active
<1>7. IsFiniteSet(Workers(d) \ {p}) /\ Cardinality(Workers(d) \ {p}) = Cardinality(Workers(d)) - 1
  BY <1>1, <1>4, <1>6, FS_RemoveElement
<1>8. CASE RunNextLast(p)
  <2>1. /\ processing' = [processing EXCEPT ![d] = processing[d] - 1]
        /\ chain' = [chain EXCEPT ![p] = <<>>]
        /\ pc' = [pc EXCEPT ![p] = "idle"]
    BY <1>8, <1>2 DEF RunNextLast
  <2>2. pc'[p] = "idle" /\ \A x \in Jobs \ {p} : chain'[x] = chain[x] /\ pc'[x] = pc[x]
    BY <2>1 DEF JobInv, TypeInv, TypeOK
  <2>3. /\ processing'[d] = processing[d] - 1
        /\ \A q \in QueueIDs \ {d} : processing'[q] = processing[q]
    BY <1>1, <2>1 DEF JobInv, TypeInv, TypeOK
  <2>4. ActiveSet' = ActiveSet \ {p}
    BY <2>2 DEF ActiveSet, Active
  <2>5. Workers(d)' = Workers(d) \ {p} /\ \A q \in QueueIDs \ {d} : Workers(q)' = Workers(q)
    BY <1>1, <1>2, <2>2 DEF Workers, Active
  <2>6. IsFiniteSet(ActiveSet')
    BY <2>4, FS_RemoveElement DEF WorkersInv
  <2>7. \A q \in QueueIDs : processing'[q] = Cardinality(Workers(q)')
    BY <1>1, <1>7, <2>3, <2>5 DEF WorkersInv
  <2>8. NumProcessing' <= NumProcessing /\ NumProcessing \in Int /\ NumProcessing' \in Int
    BY <1>1, <1>5, <2>3 DEF NumProcessing, QueueIDs
  <2>9. QED
    BY <2>6, <2>7, <2>8, ManagerAssumption DEF WorkersInv
<1>9. CASE RunNextFollower(p)
  <2> DEFINE h == [processing EXCEPT ![d] = processing[d] - 1]
  <2>1. /\ processing' = [h EXCEPT ![f] = h[f] + 1]
        /\ chain' = [chain EXCEPT ![p] = Tail(chain[p])]
        /\ pc' = [pc EXCEPT ![p] = "spawned"]
    BY <1>9, <1>2, <1>3 DEF RunNextFollower, handOver
  <2>2. /\ pc'[p] = "spawned" /\ chain'[p] = Tail(chain[p])
        /\ \A x \in Jobs \ {p} : chain'[x] = chain[x] /\ pc'[x] = pc[x]
    BY <2>1 DEF JobInv, TypeInv, TypeOK
  <2>3. FindQueueID(Head(chain'[p])) = f
    BY <1>3, <2>2
  <2>4. ActiveSet' = ActiveSet
    BY <1>1, <2>2 DEF ActiveSet, Active
  <2>5. /\ h \in [QueueIDs -> Int] /\ h[d] = processing[d] - 1
        /\ \A q \in QueueIDs \ {d} : h[q] = processing[q]
    BY <1>1 DEF JobInv, TypeInv, TypeOK
  <2>6. processing'[f] = h[f] + 1 /\ \A q \in QueueIDs \ {f} : processing'[q] = h[q]
    BY <1>1, <2>1, <2>5
  <2> HIDE DEF h
  <2>7. CASE d = f
    <3>1. \A q \in QueueIDs : processing'[q] = processing[q]
      BY <1>1, <1>5, <2>5, <2>6, <2>7
    <3>2. \A q \in QueueIDs : Workers(q)' = Workers(q)
      BY <1>1, <2>2, <2>3, <2>7, <1>2 DEF Workers, Active
    <3>3. NumProcessing' = NumProcessing
      BY <3>1 DEF NumProcessing, QueueIDs
    <3>4. QED
      BY <2>4, <3>1, <3>2, <3>3 DEF WorkersInv
  <2>8. CASE d # f
    <3>1. /\ processing'[d] = processing[d] - 1 /\ processing'[f] = processing[f] + 1
          /\ \A q \in QueueIDs \ {d, f} : processing'[q] = processing[q]
      BY <1>1, <2>5, <2>6, <2>8
    <3>2. Workers(d)' = Workers(d) \ {p}
      BY <1>1, <2>2, <2>3, <2>8, <1>2 DEF Workers, Active
    <3>3. Workers(f)' = Workers(f) \cup {p} /\ p \notin Workers(f)
      BY <1>1, <2>2, <2>3, <2>8, <1>2 DEF Workers, Active
    <3>4. \A q \in QueueIDs \ {d, f} : Workers(q)' = Workers(q)
      BY <1>1, <1>2, <2>2, <2>3 DEF Workers, Active
    <3>5. Cardinality(Workers(f)') = Cardinality(Workers(f)) + 1
      BY <1>1, <1>4, <3>3, FS_AddElement
    <3>6. \A q \in QueueIDs : processing'[q] = Cardinality(Workers(q)')
      BY <1>1, <1>7, <3>1, <3>2, <3>4, <3>5 DEF WorkersInv
    <3>7. NumProcessing' = NumProcessing
      <4>1. CASE d = "QueueNewRepos"
        BY <1>5, <2>8, <3>1, <4>1 DEF NumProcessing, QueueIDs
      <4>2. CASE d = "QueueNewCommits"
        BY <1>5, <2>8, <3>1, <4>2 DEF NumProcessing, QueueIDs
      <4>3. CASE d = "QueueRecovered"
        BY <1>5, <2>8, <3>1, <4>3 DEF NumProcessing, QueueIDs
      <4>4. QED
        BY <4>1, <4>2, <4>3 DEF QueueIDs
    <3>8. QED
      BY <2>4, <3>6, <3>7 DEF WorkersInv
  <2>9. QED
    BY <2>7, <2>8
<1>10. QED
  BY <1>8, <1>9 DEF RunNext

(* Every step of the manager keeps the counts.                             *)
LEMMA NextWorkersInv == JobInv /\ WorkersInv /\ [Next]_vars => WorkersInv'
<1> SUFFICES ASSUME JobInv, WorkersInv, [Next]_vars PROVE WorkersInv'
  OBVIOUS
<1>1. ASSUME NEW j \in Jobs, ProcessRepository(j) PROVE WorkersInv'
  BY <1>1, ProcessRepositoryWorkers
<1>2. CASE StartNext
  BY <1>2, StartNextWorkers
<1>3. ASSUME NEW p \in Jobs, NEW f \in BOOLEAN, Finish(p, f) PROVE WorkersInv'
  BY <1>3, FinishWorkers
<1>4. ASSUME NEW p \in Jobs, RunNext(p) PROVE WorkersInv'
  BY <1>4, RunNextWorkers
<1>5. ASSUME NEW p \in Jobs, Begin(p) PROVE WorkersInv'
  <2>1. pc[p] = "spawned" /\ pc' = [pc EXCEPT ![p] = "running"] /\ UNCHANGED <<processing, chain>>
    BY <1>5 DEF Begin
  <2>2. ActiveSet' = ActiveSet
    BY <2>1 DEF ActiveSet, Active, JobInv, TypeInv, TypeOK
  <2>3. QED
    BY <2>1, <2>2, SameWorkers
<1>6. CASE UNCHANGED <<processing, chain, pc>>
  <2>1. ActiveSet' = ActiveSet
    BY <1>6 DEF ActiveSet, Active
  <2>2. QED
    BY <1>6, <2>1, SameWorkers
<1>7. QED
  BY <1>1, <1>2, <1>3, <1>4, <1>5, <1>6
     DEF Next, NextNoStop, Run, QueueDone, NextQueue, Stop, StopRepository, StopReturns, vars

(* A new manager has no goroutine.                                         *)
LEMMA InitWorkersInv == Init => WorkersInv
<1> SUFFICES ASSUME Init PROVE WorkersInv
  OBVIOUS
<1>1. ActiveSet = {} /\ \A q \in QueueIDs : Workers(q) = {} /\ processing[q] = 0
  BY DEF Init, ActiveSet, Workers, Active
<1>2. NumProcessing = 0
  BY <1>1 DEF NumProcessing, QueueIDs
<1>3. QED
  BY <1>1, <1>2, FS_EmptySet, ManagerAssumption DEF WorkersInv

(* The counts hold in every reachable state.                               *)
LEMMA WorkersInvariance == Spec => []WorkersInv
BY InitWorkersInv, NextWorkersInv, JobInvariance, PTL DEF Spec

(* At most numWorkers goroutines run jobs, and the counter of each queue   *)
(* is the number of those whose job is of that queue, over all hand-overs  *)
(* of runNext, which looks at no limit.                                    *)
THEOREM WorkersAreCounted == Spec => []WorkersCounted
<1>1. WorkersInv => WorkersCounted
  <2> SUFFICES ASSUME WorkersInv PROVE WorkersCounted
    OBVIOUS
  <2>1. NumProcessing = Cardinality(ActiveSet)
    BY CountersAddUp DEF WorkersInv
  <2>2. WorkerBound
    BY <2>1 DEF WorkersInv, WorkerBound, ActiveSet
  <2>3. QED
    BY <2>2 DEF WorkersInv, WorkersCounted, ProcessingCounts, Workers
<1>2. QED
  BY WorkersInvariance, <1>1, PTL

----------------------------------------------------------------------------
(* No worker idles. What the holder of the lock still has to visit covers  *)
(* every queue that could start a job.                                     *)

(* Every queue that could start a job is the current one or still to come. *)
WillBeVisited == run => \A q \in QueueIDs : CanStart(q) => q = cur \/ q \in agenda

(* processQueuedRepositories visits every queue that is not empty.         *)
LEMMA SweepCovers ==
    ASSUME JobInv, NEW q \in QueueIDs, items[q] # <<>>
    PROVE  q \in QueuesOfQueued
<1> DEFINE r == Head(items[q])
<1>1. r \in Repos /\ r \in Range(items[q])
  BY RangeTail DEF JobInv, TypeInv, TypeOK
<1>2. queued[r] # <<>> /\ FindQueueID(Head(queued[r])) = q
  BY <1>1 DEF JobInv, QueuedAgreement
<1>3. QED
  BY <1>1, <1>2 DEF QueuesOfQueued

(* A step that takes no worker back and fills no queue.                    *)
LEMMA NoNewStarts ==
    ASSUME WillBeVisited, run' = run, cur' = cur, agenda' = agenda,
           \A q \in QueueIDs : CanStart(q)' => CanStart(q)
    PROVE  WillBeVisited'
BY DEF WillBeVisited

(* Every step keeps what is still to visit.                                *)
LEMMA NextWillBeVisited == JobInv /\ WillBeVisited /\ [Next]_vars => WillBeVisited'
<1> SUFFICES ASSUME JobInv, WillBeVisited, [Next]_vars PROVE WillBeVisited'
  OBVIOUS
<1>1. ASSUME NEW j \in Jobs, ProcessRepository(j) PROVE WillBeVisited'
  <2>1. UNCHANGED <<run, processing, agenda>>
    BY <1>1 DEF ProcessRepository
  <2>2. \A q \in QueueIDs : items'[q] = items[q] => (CanStart(q)' => CanStart(q))
    BY <2>1 DEF CanStart, QueueHasFreeWorkers, HasFreeWorkers, NumProcessing
  <2>3. CASE AppendToProcess(j, RepoOf[j]) \/ AppendToQueued(j, RepoOf[j])
    BY <2>1, <2>2, <2>3, NoNewStarts DEF AppendToProcess, AppendToQueued
  <2>4. CASE PushOnQueue(j, RepoOf[j])
    <3>1. cur = NoQueue /\ agenda = {}
      BY <1>1 DEF ProcessRepository, Unlocked
    <3>2. run => cur' = FindQueueID(j)
      BY <2>4 DEF PushOnQueue
    <3>3. \A q \in QueueIDs \ {FindQueueID(j)} : items'[q] = items[q]
      BY <2>4 DEF PushOnQueue, JobInv, TypeInv, TypeOK
    <3>4. \A q \in QueueIDs : q # NoQueue
      BY DEF QueueIDs, NoQueue
    <3>5. QED
      BY <2>1, <2>2, <3>1, <3>2, <3>3, <3>4 DEF WillBeVisited
  <2>5. QED
    BY <1>1, <2>3, <2>4 DEF ProcessRepository
<1>2. CASE Run
  <2>1. agenda' = QueuesOfQueued /\ items' = items
    BY <1>2 DEF Run
  <2>2. QED
    BY <2>1, SweepCovers DEF WillBeVisited, CanStart
<1>3. ASSUME NEW p \in Jobs, RunNext(p) PROVE WillBeVisited'
  <2>1. agenda' = QueuesOfQueued /\ items' = items
    BY <1>3 DEF RunNext
  <2>2. QED
    BY <2>1, SweepCovers DEF WillBeVisited, CanStart
<1>4. CASE StartNext
  <2>1. /\ cur \in QueueIDs /\ UNCHANGED <<run, cur, agenda>>
        /\ items' = [items EXCEPT ![cur] = Tail(items[cur])]
        /\ processing' = [processing EXCEPT ![cur] = processing[cur] + 1]
    BY <1>4, StartNextStarts DEF JobInv
  <2>2. /\ processing'[cur] = processing[cur] + 1
        /\ \A q \in QueueIDs \ {cur} : processing'[q] = processing[q] /\ items'[q] = items[q]
        /\ \A q \in QueueIDs : processing[q] \in Int
    BY <2>1 DEF JobInv, TypeInv, TypeOK
  <2>3. NumProcessing' = NumProcessing + 1 /\ NumProcessing \in Int
    BY <2>1, <2>2 DEF NumProcessing, QueueIDs
  <2>4. HasFreeWorkers' => HasFreeWorkers
    BY <2>3, ManagerAssumption DEF HasFreeWorkers
  <2>5. \A q \in QueueIDs \ {cur} : CanStart(q)' => CanStart(q)
    BY <2>2, <2>4 DEF CanStart, QueueHasFreeWorkers
  <2>6. QED
    BY <2>1, <2>5 DEF WillBeVisited
<1>5. CASE QueueDone
  BY <1>5 DEF QueueDone, WillBeVisited, CanStart, QueueHasFreeWorkers, HasFreeWorkers, NumProcessing
<1>6. ASSUME NEW q \in QueueIDs, NextQueue(q) PROVE WillBeVisited'
  <2>1. \A x \in QueueIDs : x # NoQueue
    BY DEF QueueIDs, NoQueue
  <2>2. QED
    BY <1>6, <2>1 DEF NextQueue, WillBeVisited, CanStart, QueueHasFreeWorkers, HasFreeWorkers, NumProcessing
<1>7. ASSUME NEW r \in Repos, Stop(r) PROVE WillBeVisited'
  <2>1. UNCHANGED <<run, processing, cur, agenda>>
    BY <1>7 DEF Stop, StopRepository
  <2>2. \A q \in QueueIDs : items[q] = <<>> => items'[q] = <<>>
    BY <1>7 DEF Stop, StopRepository, removeRepository
  <2>3. \A q \in QueueIDs : CanStart(q)' => CanStart(q)
    BY <2>1, <2>2 DEF CanStart, QueueHasFreeWorkers, HasFreeWorkers, NumProcessing
  <2>4. QED
    BY <2>1, <2>3, NoNewStarts
<1>8. CASE UNCHANGED <<run, items, processing, cur, agenda>>
  BY <1>8 DEF WillBeVisited, CanStart, QueueHasFreeWorkers, HasFreeWorkers, NumProcessing
<1>9. QED
  BY <1>1, <1>2, <1>3, <1>4, <1>5, <1>6, <1>7, <1>8
     DEF Next, NextNoStop, Begin, Finish, StopReturns, vars

(* Once the manager runs and its lock is free, no repository waits in a    *)
(* queue that has a free worker while the manager has one too.             *)
THEOREM NoWorkerIdles == Spec => []NoIdleWorker
<1>1. Init => WillBeVisited
  BY DEF Init, WillBeVisited
<1>2. WillBeVisited => NoIdleWorker
  <2>1. \A q \in QueueIDs : q # NoQueue
    BY DEF QueueIDs, NoQueue
  <2>2. QED
    BY <2>1 DEF WillBeVisited, NoIdleWorker, Unlocked
<1>3. QED
  BY <1>1, <1>2, NextWillBeVisited, JobInvariance, PTL DEF Spec

----------------------------------------------------------------------------
(* One process per repository, which JobInv does not give: after a stop    *)
(* there may be two.                                                       *)

(* A manager that nobody stops is a manager.                               *)
LEMMA NoStopIsNext == [NextNoStop]_vars => [Next]_vars
BY DEF Next

(* So it has the invariant about jobs.                                     *)
LEMMA NoStopJobInvariance == SpecNoStop => []JobInv
<1>1. JobInv /\ [NextNoStop]_vars => JobInv'
  BY NextJobInv, NoStopIsNext
<1>2. QED
  BY InitJobInv, <1>1, PTL DEF SpecNoStop

(* The repository of a new process had none.                               *)
LEMMA StartNextOneProcess ==
    ASSUME JobInv, OneProcessPerRepo, StartNext
    PROVE  OneProcessPerRepo'
<1> DEFINE r == Head(items[cur])
           p == Head(queued[r])
<1>1. /\ r \in Repos /\ p \in Jobs /\ RepoOf[p] = r /\ processes[r] = NoJob
      /\ processes' = [processes EXCEPT ![r] = p]
      /\ pc' = [pc EXCEPT ![p] = "spawned"]
  BY StartNextStarts DEF JobInv
<1>2. /\ processes'[r] = p /\ \A x \in Repos \ {r} : processes'[x] = processes[x]
      /\ \A x \in Jobs \ {p} : pc'[x] = pc[x]
  BY <1>1 DEF JobInv, TypeInv, TypeOK
<1> HIDE DEF r, p
<1>3. SUFFICES ASSUME NEW x \in Jobs, pc'[x] # "idle" PROVE processes'[RepoOf[x]] = x
  BY DEF OneProcessPerRepo, Active
<1>4. CASE x = p
  BY <1>1, <1>2, <1>4
<1>5. CASE x # p
  <2>1. processes[RepoOf[x]] = x /\ RepoOf[x] \in Repos
    BY <1>2, <1>3, <1>5, ManagerAssumption DEF OneProcessPerRepo, Active
  <2>2. RepoOf[x] # r
    BY <1>1, <2>1, ManagerAssumption
  <2>3. QED
    BY <1>2, <2>1, <2>2
<1>6. QED
  BY <1>4, <1>5

(* The entry that runNext deletes is the one of the process that is over.  *)
LEMMA RunNextOneProcess ==
    ASSUME JobInv, OneProcessPerRepo, NEW p \in Jobs, RunNext(p)
    PROVE  OneProcessPerRepo'
<1>1. SUFFICES ASSUME NEW x \in Jobs, pc'[x] # "idle" PROVE processes'[RepoOf[x]] = x
  BY DEF OneProcessPerRepo, Active
<1>2. RepoOf[x] \in Repos /\ RepoOf[p] \in Repos
  BY ManagerAssumption
<1>3. pc[p] = "reported" /\ processes[RepoOf[p]] = p
  BY DEF RunNext, OneProcessPerRepo, Active
<1>4. CASE RunNextLast(p)
  <2>1. /\ processes' = [processes EXCEPT ![RepoOf[p]] = NoJob]
        /\ pc' = [pc EXCEPT ![p] = "idle"]
    BY <1>4 DEF RunNextLast, deleteProcess
  <2>2. x # p /\ pc[x] # "idle"
    BY <1>1, <2>1 DEF JobInv, TypeInv, TypeOK
  <2>3. processes[RepoOf[x]] = x
    BY <2>2 DEF OneProcessPerRepo, Active
  <2>4. RepoOf[x] # RepoOf[p]
    BY <1>3, <2>2, <2>3
  <2>5. QED
    BY <1>2, <2>1, <2>3, <2>4 DEF JobInv, TypeInv, TypeOK
<1>5. CASE RunNextFollower(p)
  <2>1. processes' = processes /\ pc' = [pc EXCEPT ![p] = "spawned"]
    BY <1>5 DEF RunNextFollower
  <2>2. pc[x] # "idle"
    BY <1>1, <1>3, <2>1 DEF JobInv, TypeInv, TypeOK
  <2>3. QED
    BY <2>1, <2>2 DEF OneProcessPerRepo, Active
<1>6. QED
  BY <1>4, <1>5 DEF RunNext

(* Every step but a stop keeps one process per repository.                 *)
LEMMA NextOneProcess == JobInv /\ OneProcessPerRepo /\ [NextNoStop]_vars => OneProcessPerRepo'
<1> SUFFICES ASSUME JobInv, OneProcessPerRepo, [NextNoStop]_vars PROVE OneProcessPerRepo'
  OBVIOUS
<1>1. CASE StartNext
  BY <1>1, StartNextOneProcess
<1>2. ASSUME NEW p \in Jobs, RunNext(p) PROVE OneProcessPerRepo'
  BY <1>2, RunNextOneProcess
<1>3. ASSUME processes' = processes, \A p \in Jobs : pc[p] = "idle" => pc'[p] = "idle"
      PROVE  OneProcessPerRepo'
  BY <1>3 DEF OneProcessPerRepo, Active
<1>4. ASSUME NEW p \in Jobs, Begin(p) PROVE OneProcessPerRepo'
  BY <1>3, <1>4 DEF Begin, JobInv, TypeInv, TypeOK
<1>5. ASSUME NEW p \in Jobs, NEW f \in BOOLEAN, Finish(p, f) PROVE OneProcessPerRepo'
  BY <1>3, <1>5 DEF Finish, JobInv, TypeInv, TypeOK
<1>6. CASE UNCHANGED <<processes, pc>>
  BY <1>3, <1>6
<1>7. QED
  BY <1>1, <1>2, <1>4, <1>5, <1>6 DEF NextNoStop, ProcessRepository, Run, QueueDone, NextQueue, vars

(* As long as nobody stops a repository, every goroutine is the process    *)
(* the map has for its repository: no two run jobs of one repository.      *)
THEOREM NoStopOneProcess == SpecNoStop => []OneProcessPerRepo
<1>1. Init => OneProcessPerRepo
  BY DEF Init, OneProcessPerRepo, Active
<1>2. QED
  BY <1>1, NextOneProcess, NoStopJobInvariance, PTL DEF SpecNoStop

----------------------------------------------------------------------------
(* The refinement of SerialJobs, step by step. *)

(* A step of one repository: the abstract variables of the others stay.    *)
LEMMA OneRepositoryMoves ==
    ASSUME NEW r \in Repos,
           \A x \in Repos \ {r} : /\ queued'[x] = queued[x] /\ processes'[x] = processes[x]
                                  /\ processes[x] # NoJob => chain'[processes[x]] = chain[processes[x]]
    PROVE  /\ activeJob' = [activeJob EXCEPT ![r] = activeJob'[r]]
           /\ waitingJobs' = [waitingJobs EXCEPT ![r] = waitingJobs'[r]]
<1>1. \A x \in Repos \ {r} : activeJob'[x] = activeJob[x] /\ waitingJobs'[x] = waitingJobs[x]
  BY DEF activeJob, waitingJobs
<1>2. /\ activeJob = [x \in Repos |-> activeJob[x]]
      /\ waitingJobs = [x \in Repos |-> waitingJobs[x]]
      /\ activeJob' = [x \in Repos |-> activeJob'[x]]
      /\ waitingJobs' = [x \in Repos |-> waitingJobs'[x]]
  BY DEF activeJob, waitingJobs
<1>3. QED
  BY <1>1, <1>2

(* A process that moves is the one of its repository, and no other entry   *)
(* names it.                                                               *)
LEMMA OneProcessMoves ==
    ASSUME TypeInv, NEW p \in Jobs, NEW r \in Repos, r = RepoOf[p],
           \A x \in Jobs \ {p} : chain'[x] = chain[x]
    PROVE  \A x \in Repos \ {r} : processes[x] # NoJob => chain'[processes[x]] = chain[processes[x]]
BY DEF TypeInv, TypeOK, EntryIsActive

(* A step of queues, workers and locks is a stutter.                       *)
LEMMA SameAbstract ==
    ASSUME UNCHANGED <<created, queued, processes, chain>>
    PROVE  UNCHANGED Serial!svars
BY DEF Serial!svars, activeJob, waitingJobs

(* ProcessRepository is Submit, wherever the job goes.                     *)
LEMMA ProcessRepositorySubmits ==
    ASSUME JobInv, NEW j \in Jobs, ProcessRepository(j)
    PROVE  Serial!Submit(j)
<1> PICK r \in Repos : r = RepoOf[j]
  BY ManagerAssumption
<1>1. j \notin created /\ created' = created \cup {j} /\ processes' = processes
  BY DEF ProcessRepository
<1>2. SUFFICES waitingJobs' = [waitingJobs EXCEPT ![r] = Append(waitingJobs[r], j)]
               /\ activeJob' = activeJob
  BY <1>1 DEF Serial!Submit
<1>3. CASE AppendToProcess(j, r)
  <2> PICK p \in Jobs : p = processes[r]
    BY <1>3 DEF AppendToProcess, JobInv, TypeInv, TypeOK
  <2>1. /\ RepoOf[p] = r /\ chain[p] \in Seq(Jobs) /\ chain[p] # <<>> /\ processes[r] # NoJob
        /\ chain' = [chain EXCEPT ![p] = Append(chain[p], j)] /\ queued' = queued
    BY <1>3 DEF AppendToProcess, append, JobInv, TypeInv, TypeOK, EntryIsActive, IdleHasNoJob, Active
  <2>2. chain'[p] = Append(chain[p], j) /\ \A x \in Jobs \ {p} : chain'[x] = chain[x]
    BY <2>1 DEF JobInv, TypeInv, TypeOK
  <2>3. Head(chain'[p]) = Head(chain[p]) /\ Tail(chain'[p]) = Append(Tail(chain[p]), j)
    BY <2>1, <2>2, HeadAppend
  <2>4. activeJob'[r] = activeJob[r] /\ waitingJobs'[r] = Append(waitingJobs[r], j)
    BY <1>1, <2>1, <2>3 DEF activeJob, waitingJobs
  <2>5. /\ activeJob' = [activeJob EXCEPT ![r] = activeJob'[r]]
        /\ waitingJobs' = [waitingJobs EXCEPT ![r] = waitingJobs'[r]]
    BY <1>1, <2>1, <2>2, OneProcessMoves, OneRepositoryMoves DEF JobInv
  <2>6. activeJob = [activeJob EXCEPT ![r] = activeJob[r]]
    BY DEF activeJob
  <2>7. QED
    BY <2>4, <2>5, <2>6
<1>4. ASSUME chain' = chain, processes[r] = NoJob, NEW s, s = Append(queued[r], j),
             queued' = [queued EXCEPT ![r] = s]
      PROVE  waitingJobs' = [waitingJobs EXCEPT ![r] = Append(waitingJobs[r], j)]
             /\ activeJob' = activeJob
  <2>1. queued'[r] = s /\ \A x \in Repos \ {r} : queued'[x] = queued[x]
    BY <1>4 DEF JobInv, TypeInv, TypeOK
  <2>2. waitingJobs'[r] = Append(waitingJobs[r], j)
    BY <1>1, <1>4, <2>1 DEF waitingJobs
  <2>3. waitingJobs' = [waitingJobs EXCEPT ![r] = waitingJobs'[r]]
    BY <1>1, <1>4, <2>1, OneRepositoryMoves
  <2>4. activeJob' = activeJob
    BY <1>1, <1>4 DEF activeJob
  <2>5. QED
    BY <2>2, <2>3, <2>4
<1>5. CASE AppendToQueued(j, r)
  BY <1>4, <1>5 DEF AppendToQueued, append
<1>6. CASE PushOnQueue(j, r)
  <2>1. <<j>> = Append(<<>>, j)
    OBVIOUS
  <2>2. QED
    BY <1>4, <1>6, <2>1 DEF PushOnQueue
<1>7. QED
  BY <1>3, <1>5, <1>6 DEF ProcessRepository

(* StartNext is Start.                                                     *)
LEMMA StartNextStartsActive ==
    ASSUME JobInv, StartNext
    PROVE  \E r \in Repos : Serial!Start(r)
<1> PICK r \in Repos : r = Head(items[cur])
  BY StartNextStarts DEF JobInv
<1> PICK p \in Jobs : p = Head(queued[r])
  BY StartNextStarts DEF JobInv
<1>1. /\ queued[r] # <<>> /\ p \in Range(queued[r]) /\ RepoOf[p] = r /\ processes[r] = NoJob
      /\ queued' = [queued EXCEPT ![r] = <<>>]
      /\ processes' = [processes EXCEPT ![r] = p]
      /\ chain' = [chain EXCEPT ![p] = queued[r]]
      /\ created' = created
  BY StartNextStarts DEF JobInv
<1>2. /\ processes'[r] = p /\ chain'[p] = queued[r]
      /\ \A x \in Repos \ {r} : queued'[x] = queued[x] /\ processes'[x] = processes[x]
      /\ \A x \in Jobs \ {p} : chain'[x] = chain[x]
  BY <1>1 DEF JobInv, TypeInv, TypeOK
<1>3. activeJob'[r] = Head(queued[r]) /\ waitingJobs'[r] = Tail(queued[r])
  BY <1>2, ManagerAssumption DEF activeJob, waitingJobs
<1>4. waitingJobs[r] = queued[r]
  BY <1>1 DEF waitingJobs
<1>5. /\ activeJob' = [activeJob EXCEPT ![r] = activeJob'[r]]
      /\ waitingJobs' = [waitingJobs EXCEPT ![r] = waitingJobs'[r]]
  BY <1>1, <1>2, OneProcessMoves, OneRepositoryMoves DEF JobInv
<1>6. QED
  BY <1>1, <1>3, <1>4, <1>5 DEF Serial!Start

(* Finish is GiveUp when the context is done, and otherwise a stutter.     *)
LEMMA FinishGivesUp ==
    ASSUME JobInv, OneProcessPerRepo, NEW p \in Jobs, NEW stageFailed \in BOOLEAN,
           Finish(p, stageFailed)
    PROVE  (\E r \in Repos : Serial!GiveUp(r)) \/ UNCHANGED Serial!svars
<1> PICK r \in Repos : r = RepoOf[p]
  BY ManagerAssumption
<1>1. /\ pc[p] = "running" /\ chain[p] \in Seq(Jobs) /\ chain[p] # <<>>
      /\ UNCHANGED <<created, queued, processes>>
  BY DEF Finish, JobInv, TypeInv, TypeOK, IdleHasNoJob
<1>2. processes[r] = p /\ processes[r] # NoJob
  BY <1>1, ManagerAssumption DEF OneProcessPerRepo, Active
<1>3. CASE chain' = chain
  BY <1>1, <1>3, SameAbstract
<1>4. CASE chain' = [chain EXCEPT ![p] = <<Head(chain[p])>>]
  <2>1. chain'[p] = <<Head(chain[p])>> /\ \A x \in Jobs \ {p} : chain'[x] = chain[x]
    BY <1>4 DEF JobInv, TypeInv, TypeOK
  <2>2. Head(chain'[p]) = Head(chain[p]) /\ Tail(chain'[p]) = <<>>
    BY <1>1, <2>1
  <2>3. activeJob'[r] = activeJob[r] /\ waitingJobs'[r] = <<>>
    BY <1>1, <1>2, <2>2 DEF activeJob, waitingJobs
  <2>4. /\ activeJob' = [activeJob EXCEPT ![r] = activeJob'[r]]
        /\ waitingJobs' = [waitingJobs EXCEPT ![r] = waitingJobs'[r]]
    BY <1>1, <2>1, OneProcessMoves, OneRepositoryMoves DEF JobInv
  <2>5. activeJob[r] \in Jobs
    BY <1>1, <1>2, RangeTail DEF activeJob
  <2>6. activeJob = [activeJob EXCEPT ![r] = activeJob[r]]
    BY DEF activeJob
  <2>7. Serial!GiveUp(r)
    BY <1>1, <2>3, <2>4, <2>5, <2>6, ManagerAssumption DEF Serial!GiveUp
  <2>8. QED
    BY <2>7
<1>5. QED
  BY <1>3, <1>4 DEF Finish

(* runNext is Start with a follower and Complete without.                  *)
LEMMA RunNextStartsOrCompletes ==
    ASSUME JobInv, OneProcessPerRepo, NEW p \in Jobs, RunNext(p)
    PROVE  \E r \in Repos : Serial!Start(r) \/ Serial!Complete(r)
<1> PICK r \in Repos : r = RepoOf[p]
  BY ManagerAssumption
<1>1. /\ pc[p] = "reported" /\ chain[p] \in Seq(Jobs) /\ chain[p] # <<>>
      /\ chain' = [chain EXCEPT ![p] = Tail(chain[p])]
      /\ UNCHANGED <<created, queued>>
  BY DEF RunNext, RunNextLast, RunNextFollower, JobInv, TypeInv, TypeOK, IdleHasNoJob
<1>2. processes[r] = p /\ processes[r] # NoJob
  BY <1>1, ManagerAssumption DEF OneProcessPerRepo, Active
<1>3. /\ activeJob[r] = Head(chain[p]) /\ activeJob[r] \in Jobs
      /\ waitingJobs[r] = Tail(chain[p])
  BY <1>1, <1>2, RangeTail DEF activeJob, waitingJobs
<1>4. chain'[p] = Tail(chain[p]) /\ \A x \in Jobs \ {p} : chain'[x] = chain[x]
  BY <1>1 DEF JobInv, TypeInv, TypeOK
<1>5. queued[r] = <<>>
  BY <1>2 DEF JobInv, QueuedAgreement
<1>6. \A x \in Repos \ {r} : processes'[x] = processes[x]
  BY DEF RunNext, RunNextLast, RunNextFollower, deleteProcess, JobInv, TypeInv, TypeOK
<1>7. /\ activeJob' = [activeJob EXCEPT ![r] = activeJob'[r]]
      /\ waitingJobs' = [waitingJobs EXCEPT ![r] = waitingJobs'[r]]
  BY <1>1, <1>4, <1>6, OneProcessMoves, OneRepositoryMoves DEF JobInv
<1>8. CASE RunNextLast(p)
  <2>1. Tail(chain[p]) = <<>> /\ processes'[r] = NoJob
    BY <1>8 DEF RunNextLast, deleteProcess, JobInv, TypeInv, TypeOK
  <2>2. activeJob'[r] = NoJob /\ waitingJobs'[r] = <<>>
    BY <1>1, <1>5, <2>1 DEF activeJob, waitingJobs
  <2>3. waitingJobs = [waitingJobs EXCEPT ![r] = waitingJobs[r]]
    BY DEF waitingJobs
  <2>4. waitingJobs[r] = <<>> /\ waitingJobs' = waitingJobs
    BY <1>3, <1>7, <2>1, <2>2, <2>3
  <2>5. Serial!Complete(r)
    BY <1>1, <1>3, <1>7, <2>2, <2>4, ManagerAssumption DEF Serial!Complete
  <2>6. QED
    BY <2>5
<1>9. CASE RunNextFollower(p)
  <2>1. Tail(chain[p]) # <<>> /\ processes'[r] = p
    BY <1>2, <1>9 DEF RunNextFollower
  <2>2. activeJob'[r] = Head(Tail(chain[p])) /\ waitingJobs'[r] = Tail(Tail(chain[p]))
    BY <1>2, <1>4, <2>1 DEF activeJob, waitingJobs
  <2>3. Serial!Start(r)
    BY <1>1, <1>3, <1>7, <2>1, <2>2 DEF Serial!Start
  <2>4. QED
    BY <2>3
<1>10. QED
  BY <1>8, <1>9 DEF RunNext

(* Every step but a stop is a step of SerialJobs or a stutter.             *)
LEMMA StepRefines ==
    JobInv /\ OneProcessPerRepo /\ [NextNoStop]_vars => [Serial!Next]_(Serial!svars)
<1> SUFFICES ASSUME JobInv, OneProcessPerRepo, [NextNoStop]_vars
             PROVE  Serial!Next \/ UNCHANGED Serial!svars
  OBVIOUS
<1>1. ASSUME NEW j \in Jobs, ProcessRepository(j) PROVE Serial!Next
  BY <1>1, ProcessRepositorySubmits DEF Serial!Next
<1>2. CASE StartNext
  BY <1>2, StartNextStartsActive DEF Serial!Next
<1>3. ASSUME NEW p \in Jobs, RunNext(p) PROVE Serial!Next
  BY <1>3, RunNextStartsOrCompletes DEF Serial!Next
<1>4. ASSUME NEW p \in Jobs, NEW f \in BOOLEAN, Finish(p, f)
      PROVE  Serial!Next \/ UNCHANGED Serial!svars
  BY <1>4, FinishGivesUp DEF Serial!Next
<1>5. CASE UNCHANGED <<created, queued, processes, chain>>
  BY <1>5, SameAbstract
<1>6. QED
  BY <1>1, <1>2, <1>3, <1>4, <1>5 DEF NextNoStop, Run, QueueDone, NextQueue, Begin, vars

(* Without stops the manager is a manager that runs the jobs of each       *)
(* repository one at a time, in the order of their submission.             *)
THEOREM SerialSafety == SpecNoStop => Serial!Spec
<1>1. Init => Serial!Init
  BY DEF Init, Serial!Init, activeJob, waitingJobs
<1>2. QED
  BY <1>1, StepRefines, NoStopJobInvariance, NoStopOneProcess, PTL DEF SpecNoStop, Serial!Spec
=============================================================================

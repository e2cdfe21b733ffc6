--------------------------- MODULE PipelineProofs ---------------------------
(***************************************************************************)
(* Proofs about Pipeline: whatever a run of a job meets (a failure, a      *)
(* panic, a stop, a lost write at any point), for any set of actions and   *)
(* any number of pull requests, it tells its outcome, drops its followers  *)
(* only with a reason, leaves no goroutine behind and predicts before it   *)
(* is Ready.                                                               *)
(*                                                                         *)
(* The pipeline of a check is as long as its pull requests are many, so    *)
(* the proofs first establish what every pipeline looks like (PipeShape);  *)
(* the invariant is IInv, one conjunct for each thing that is told.        *)
(***************************************************************************)
EXTENDS Pipeline, SequenceTheorems, WellFoundedInduction, FiniteSetTheorems,
    TLAPS

-----------------------------------------------------------------------------
(* Numbers and sequences.                                                  *)

(* A set of natural numbers that is not empty has a least element: the     *)
(* form of induction that the proofs use.                                  *)
LEMMA NatLeast ==
    ASSUME NEW T \in SUBSET Nat, T # {}
    PROVE  \E x \in T : \A y \in T : x <= y
<1>1. PICK x \in T : \A y \in T : <<y, x>> \notin OpToRel(<, Nat)
  BY NatLessThanWellFounded, WFMin, Zenon
<1>2. \A y \in T : ~(y < x)
  BY <1>1 DEF OpToRel
<1>3. QED
  BY <1>2

(* FlattenSeq, a recursive function, lays the copies of a list of eight    *)
(* elements one after the other: the stages of a check                     *)
(* (routeCheckPipelines).                                                  *)
LEMMA FlattenCopies ==
    ASSUME NEW S, NEW P \in Seq(S), Len(P) = 8, NEW N \in Nat \ {0}
    PROVE  LET s == FlattenSeq([n \in 1..N |-> P])
           IN  /\ s \in Seq(S) /\ Len(s) = 8 * N
               /\ \A n \in 1..N, k \in 1..8 : s[8 * (n - 1) + k] = P[k]
<1> DEFINE copies == [n \in 1..N |-> P]
           copy(k) == P[((k - 1) % 8) + 1]
           first(n) == [k \in 1..8 * n |-> copy(k)]
           step(f, i) == IF i = 1 THEN copies[i] ELSE f[i - 1] \o copies[i]
           flatten == CHOOSE f : f = [i \in 1..N |-> step(f, i)]
<1>1. P \in [1..8 -> S]
  BY LenProperties
<1>2. FlattenSeq(copies) = flatten[N]
  <2>1. copies \in Seq(Seq(S)) /\ Len(copies) = N
    OBVIOUS
  <2>2. FlattenSeq(copies) = flatten[Len(copies)]
    BY <2>1 DEF FlattenSeq
  <2>3. QED
    BY <2>1, <2>2
<1>3. \A n \in Nat \ {0} : first(n) \in Seq(S) /\ Len(first(n)) = 8 * n
  <2>1. \A k \in Nat \ {0} : copy(k) \in S
    <3>1. \A k \in Nat \ {0} : ((k - 1) % 8) + 1 \in 1..8
      OBVIOUS
    <3>2. QED
      BY <1>1, <3>1
  <2> HIDE DEF copy
  <2>2. QED
    BY <2>1
<1>4. first(1) = P
  <2>1. \A k \in 1..8 : ((k - 1) % 8) + 1 = k
    OBVIOUS
  <2>2. QED
    BY <1>1, <2>1
<1>5. \A n \in Nat \ {0} : first(n) \o P = first(n + 1)
  <2> SUFFICES ASSUME NEW n \in Nat \ {0} PROVE first(n) \o P = first(n + 1)
    OBVIOUS
  <2>1. \A k \in 1..8 * (n + 1) : k > 8 * n => P[k - 8 * n] = copy(k)
    <3>1. \A k \in 1..8 * (n + 1) : k > 8 * n => ((k - 1) % 8) + 1 = k - 8 * n
      OBVIOUS
    <3>2. QED
      BY <3>1
  <2> HIDE DEF copy
  <2>2. Len(first(n)) = 8 * n /\ Len(first(n)) + Len(P) = 8 * (n + 1)
    OBVIOUS
  <2>3. /\ first(n) \o P \in Seq(S) /\ Len(first(n) \o P) = 8 * (n + 1)
        /\ \A k \in 1..8 * (n + 1) :
              (first(n) \o P)[k] = IF k <= 8 * n THEN first(n)[k] ELSE P[k - 8 * n]
    <3> HIDE DEF first
    <3>1. first(n) \in Seq(S)
      BY <1>3
    <3>2. /\ first(n) \o P \in Seq(S)
          /\ Len(first(n) \o P) = Len(first(n)) + Len(P)
          /\ \A k \in 1..Len(first(n)) + Len(P) :
                (first(n) \o P)[k] =
                   IF k <= Len(first(n)) THEN first(n)[k] ELSE P[k - Len(first(n))]
      BY <3>1, ConcatProperties, Zenon
    <3>3. QED
      BY <2>2, <3>2
  <2>4. \A k \in 1..8 * (n + 1) : (first(n) \o P)[k] = first(n + 1)[k]
    BY <2>1, <2>3
  <2>5. first(n + 1) \in Seq(S) /\ Len(first(n + 1)) = 8 * (n + 1)
    <3> HIDE DEF first
    <3>1. n + 1 \in Nat \ {0}
      OBVIOUS
    <3>2. QED
      BY <1>3, <3>1
  <2>6. QED
    <3> HIDE DEF first
    <3> QED
      BY <2>3, <2>4, <2>5, SeqEqual
<1> DEFINE g == [n \in 1..N |-> first(n)]
<1> HIDE DEF first
<1>6. \A i \in 1..N : g[i] = step(g, i)
  <2> SUFFICES ASSUME NEW i \in 1..N PROVE g[i] = step(g, i)
    OBVIOUS
  <2>1. CASE i = 1
    BY <1>4, <2>1
  <2>2. CASE i # 1
    <3>1. i - 1 \in 1..N /\ i - 1 \in Nat \ {0} /\ (i - 1) + 1 = i
      BY <2>2
    <3>2. g[i - 1] = first(i - 1) /\ g[i] = first(i) /\ copies[i] = P
      BY <3>1
    <3>3. first(i - 1) \o P = first(i)
      BY <1>5, <3>1
    <3>4. QED
      BY <2>2, <3>2, <3>3
  <2>3. QED
    BY <2>1, <2>2
<1>7. \A i \in 1..N : flatten[i] = step(flatten, i)
  <2> DEFINE Rec(f) == f = [i \in 1..N |-> step(f, i)]
  <2>1. Rec(g)
    <3> HIDE DEF step
    <3> QED BY <1>6
  <2>2. Rec(CHOOSE f : Rec(f))
    BY <2>1
  <2>3. QED
    BY <2>2
<1> HIDE DEF flatten, g
<1>8. flatten[N] = g[N]
  <2> DEFINE T == {i \in 1..N : flatten[i] # g[i]}
  <2> SUFFICES ASSUME T # {} PROVE FALSE
    OBVIOUS
  <2>1. PICK i \in T : \A j \in T : i <= j
    <3>1. T \in SUBSET Nat
      OBVIOUS
    <3> HIDE DEF T
    <3> QED BY <3>1, NatLeast
  <2>2. i # 1 => i - 1 \in 1..N /\ i - 1 \notin T
    BY <2>1
  <2>3. QED
    BY <1>6, <1>7, <2>2
<1>9. FlattenSeq(copies) = first(N)
  BY <1>2, <1>8 DEF g
<1>10. \A n \in 1..N, k \in 1..8 : first(N)[8 * (n - 1) + k] = P[k]
  <2> SUFFICES ASSUME NEW n \in 1..N, NEW k \in 1..8 PROVE first(N)[8 * (n - 1) + k] = P[k]
    OBVIOUS
  <2>1. 8 * (n - 1) + k \in 1..8 * N /\ ((8 * (n - 1) + k - 1) % 8) + 1 = k
    OBVIOUS
  <2>2. QED
    BY <2>1 DEF first
<1>11. first(N) \in Seq(S) /\ Len(first(N)) = 8 * N
  BY <1>3
<1>12. QED
  BY <1>9, <1>10, <1>11, Zenon

(* Where the elements of a concatenation come from.                        *)
LEMMA ConcatElements ==
    ASSUME NEW S, NEW s \in Seq(S), NEW t \in Seq(S)
    PROVE  /\ s \o t \in Seq(S)
           /\ Len(s \o t) = Len(s) + Len(t)
           /\ \A i \in 1..Len(s) : (s \o t)[i] = s[i]
           /\ \A i \in 1..Len(t) : (s \o t)[Len(s) + i] = t[i]
<1>1. Len(s) \in Nat /\ Len(t) \in Nat
  OBVIOUS
<1>2. /\ s \o t \in Seq(S)
      /\ Len(s \o t) = Len(s) + Len(t)
      /\ \A i \in 1..Len(s) + Len(t) :
            (s \o t)[i] = IF i <= Len(s) THEN s[i] ELSE t[i - Len(s)]
  BY ConcatProperties, Zenon
<1>3. QED
  BY <1>1, <1>2

----------------------------------------------------------------------------
(* The stages of a check of pull requests.                                 *)

(* Every stage of a pipeline is one of these (strategy.go, and             *)
(* ProcessCheckRun around them).                                           *)
StageSets ==
    {{"StatusInProgress"}, {"PrepareGitRepository"},
     {"PrepareGitRepository", "RecoverFromLastPredicting"},
     {"PrepareGitRepository", "UpdateCollaborators"},
     {"PreparePullRequest"}, {"ingestLocalBranchesTask"},
     {"ingestLocalBranchesTask", "AddPullRequests"}, {"ingestPullRequestTask"},
     {"analyze"}, {"FinalizePullRequestAnalysis"}, {"Predict"}, {"StatusIsReady"},
     {"StartCheckRun"}, {"pullRequestEntities"}, {"ReportPushCheckResult"},
     {"ReportPullRequestCheckResult"}, {"RepoStatusInProgress"}, {"RepoStatusIsReady"}}

(* The pipeline of a pull request has eight stages.                        *)
LEMMA UpdateIsASeq == pipelineUpdatePullRequest \in Seq(StageSets) /\ Len(pipelineUpdatePullRequest) = 8
BY DEF pipelineUpdatePullRequest, StageSets

(* The stages of a PullRequestCheck: the work on pull request n is at the  *)
(* stages 8 * n - 4 to 8 * n + 3, whatever their number.                   *)
LEMMA CheckStages ==
    ASSUME PipelineAssumption, action = "PullRequestCheck"
    PROVE  /\ pipe \in Seq(StageSets)
           /\ Len(Before) = 2 /\ Len(routeCheckPipelines) = 1 + 8 * NumPulls
           /\ Len(pipe) = 5 + 8 * NumPulls
           /\ pipe[1] = {"RepoStatusInProgress"}
           /\ pipe[2] = {"StartCheckRun"}
           /\ pipe[3] = {"pullRequestEntities"}
           /\ \A i \in 4..(3 + 8 * NumPulls) : pipe[i] = pipelineUpdatePullRequest[((i - 4) % 8) + 1]
           /\ pipe[4 + 8 * NumPulls] = {"ReportPullRequestCheckResult"}
           /\ pipe[5 + 8 * NumPulls] = {"RepoStatusIsReady"}
<1> DEFINE N == NumPulls
           s == FlattenSeq([n \in 1..N |-> pipelineUpdatePullRequest])
           a == <<{"RepoStatusInProgress"}, {"StartCheckRun"}>>
           b == <<{"pullRequestEntities"}>>
           z == <<{"ReportPullRequestCheckResult"}, {"RepoStatusIsReady"}>>
<1>1. N \in Nat \ {0}
  BY DEF PipelineAssumption
<1>2. /\ s \in Seq(StageSets) /\ Len(s) = 8 * N
      /\ \A n \in 1..N, k \in 1..8 : s[8 * (n - 1) + k] = pipelineUpdatePullRequest[k]
  BY <1>1, UpdateIsASeq, FlattenCopies
<1>3. Before = a /\ routeCheckPipelines = b \o s /\ pipe = a \o (b \o s) \o z
  BY DEF Before, routeCheckPipelines, pipe
<1> HIDE DEF s
<1>4. \A i \in 1..8 * N : s[i] = pipelineUpdatePullRequest[((i - 1) % 8) + 1]
  <2> SUFFICES ASSUME NEW i \in 1..8 * N PROVE s[i] = pipelineUpdatePullRequest[((i - 1) % 8) + 1]
    OBVIOUS
  <2>1. PICK n \in 1..N, k \in 1..8 : i = 8 * (n - 1) + k
    <3>1. ((i - 1) \div 8) + 1 \in 1..N /\ ((i - 1) % 8) + 1 \in 1..8
      BY <1>1
    <3>2. i = 8 * ((((i - 1) \div 8) + 1) - 1) + (((i - 1) % 8) + 1)
      OBVIOUS
    <3>3. QED
      BY <3>1, <3>2
  <2>2. ((i - 1) % 8) + 1 = k
    BY <2>1
  <2>3. QED
    BY <1>2, <2>1, <2>2
<1>5. a \in Seq(StageSets) /\ Len(a) = 2 /\ b \in Seq(StageSets) /\ Len(b) = 1
      /\ z \in Seq(StageSets) /\ Len(z) = 2
  BY DEF StageSets
<1> DEFINE u == b \o s
<1>6. /\ u \in Seq(StageSets) /\ Len(u) = 1 + 8 * N /\ u[1] = b[1]
      /\ \A i \in 1..8 * N : u[1 + i] = s[i]
  <2> HIDE DEF a, b, z
  <2>1. /\ u \in Seq(StageSets) /\ Len(u) = Len(b) + Len(s)
        /\ \A i \in 1..Len(b) : u[i] = b[i]
        /\ \A i \in 1..Len(s) : u[Len(b) + i] = s[i]
    <3>1. b \in Seq(StageSets) /\ s \in Seq(StageSets)
      BY <1>2, <1>5
    <3>2. QED
      BY <3>1, ConcatElements
  <2>2. Len(b) = 1 /\ Len(s) = 8 * N
    BY <1>2, <1>5
  <2>3. QED
    BY <1>1, <2>1, <2>2
<1> HIDE DEF u
<1> DEFINE v == a \o u
<1>7. /\ v \in Seq(StageSets) /\ Len(v) = 3 + 8 * N
      /\ v[1] = a[1] /\ v[2] = a[2]
      /\ \A i \in 1..1 + 8 * N : v[2 + i] = u[i]
  <2> HIDE DEF a, b, z
  <2>1. /\ v \in Seq(StageSets) /\ Len(v) = Len(a) + Len(u)
        /\ \A i \in 1..Len(a) : v[i] = a[i]
        /\ \A i \in 1..Len(u) : v[Len(a) + i] = u[i]
    <3>1. a \in Seq(StageSets) /\ u \in Seq(StageSets)
      BY <1>5, <1>6
    <3>2. QED
      BY <3>1, ConcatElements
  <2>2. QED
    BY <1>1, <1>5, <1>6, <2>1
<1> HIDE DEF v
<1> DEFINE w == v \o z
<1>8. /\ w \in Seq(StageSets) /\ Len(w) = 5 + 8 * N
      /\ \A i \in 1..3 + 8 * N : w[i] = v[i]
      /\ w[4 + 8 * N] = z[1]
      /\ w[5 + 8 * N] = z[2]
  <2> HIDE DEF a, b, z
  <2>1. /\ w \in Seq(StageSets) /\ Len(w) = Len(v) + Len(z)
        /\ \A i \in 1..Len(v) : w[i] = v[i]
        /\ \A i \in 1..Len(z) : w[Len(v) + i] = z[i]
    <3>1. v \in Seq(StageSets) /\ z \in Seq(StageSets)
      BY <1>5, <1>7
    <3>2. QED
      BY <3>1, ConcatElements
  <2>2. w[(3 + 8 * N) + 1] = z[1] /\ w[(3 + 8 * N) + 2] = z[2]
    BY <1>5, <1>7, <2>1
  <2>3. QED
    BY <1>1, <1>5, <1>7, <2>1, <2>2
<1> HIDE DEF w
<1>9. w[1] = a[1] /\ w[2] = a[2] /\ w[3] = b[1]
  <2>1. v[2 + 1] = u[1]
    BY <1>1, <1>7
  <2>2. QED
    BY <1>1, <1>6, <1>7, <1>8, <2>1
<1>10. \A i \in 4..(3 + 8 * N) : w[i] = pipelineUpdatePullRequest[((i - 4) % 8) + 1]
  <2> SUFFICES ASSUME NEW i \in 4..(3 + 8 * N) PROVE w[i] = pipelineUpdatePullRequest[((i - 4) % 8) + 1]
    OBVIOUS
  <2>1. i - 3 \in 1..8 * N /\ i - 2 \in 1..1 + 8 * N /\ 1 + (i - 3) = i - 2 /\ 2 + (i - 2) = i
        /\ (i - 3) - 1 = i - 4 /\ i \in 1..3 + 8 * N
    BY <1>1
  <2>2. w[i] = s[i - 3]
    BY <1>6, <1>7, <1>8, <2>1
  <2>3. QED
    BY <1>4, <2>1, <2>2
<1>11. pipe = w /\ Len(Before) = 2 /\ routeCheckPipelines = u
  <2>1. Before = a /\ routeCheckPipelines = u /\ pipe = w
    BY <1>3 DEF u, v, w
  <2>2. QED
    BY <1>5, <2>1
<1>12. QED
  BY <1>6, <1>8, <1>9, <1>10, <1>11

(* The stages of a PushCheck: those of a push between the start of the     *)
(* check run and its report.                                               *)
LEMMA CheckPush ==
    ASSUME action = "PushCheck"
    PROVE  /\ pipe \in Seq(StageSets)
           /\ Len(Before) = 1 /\ Len(routeCheckPipelines) = 6 /\ Len(pipe) = 8
           /\ pipe[1] = {"StartCheckRun"}
           /\ \A i \in 2..7 : pipe[i] = pipelineUpdateRepository[i - 1]
           /\ pipe[8] = {"ReportPushCheckResult"}
<1> DEFINE a == <<{"StartCheckRun"}>>
           u == pipelineUpdateRepository
           z == <<{"ReportPushCheckResult"}>>
           v == a \o u
<1>1. Before = a /\ routeCheckPipelines = u /\ pipe = v \o z
  BY DEF Before, routeCheckPipelines, pipe
<1>2. a \in Seq(StageSets) /\ Len(a) = 1 /\ u \in Seq(StageSets) /\ Len(u) = 6
      /\ z \in Seq(StageSets) /\ Len(z) = 1
  BY DEF StageSets, pipelineUpdateRepository
<1>3. /\ v \in Seq(StageSets) /\ Len(v) = 7 /\ v[1] = a[1]
      /\ \A i \in 2..7 : v[i] = u[i - 1]
  <2> HIDE DEF a, u, z
  <2>1. /\ v \in Seq(StageSets) /\ Len(v) = Len(a) + Len(u)
        /\ \A i \in 1..Len(a) : v[i] = a[i]
        /\ \A i \in 1..Len(u) : v[Len(a) + i] = u[i]
    <3>1. a \in Seq(StageSets) /\ u \in Seq(StageSets)
      BY <1>2
    <3>2. QED
      BY <3>1, ConcatElements
  <2>2. \A i \in 2..7 : i - 1 \in 1..6 /\ 1 + (i - 1) = i
    OBVIOUS
  <2>3. QED
    BY <1>2, <2>1, <2>2
<1>4. /\ v \o z \in Seq(StageSets) /\ Len(v \o z) = 8
      /\ \A i \in 1..7 : (v \o z)[i] = v[i]
      /\ (v \o z)[8] = z[1]
  <2> HIDE DEF a, u, v, z
  <2>1. /\ v \o z \in Seq(StageSets) /\ Len(v \o z) = Len(v) + Len(z)
        /\ \A i \in 1..Len(v) : (v \o z)[i] = v[i]
        /\ \A i \in 1..Len(z) : (v \o z)[Len(v) + i] = z[i]
    <3>1. v \in Seq(StageSets) /\ z \in Seq(StageSets)
      BY <1>2, <1>3
    <3>2. QED
      BY <3>1, ConcatElements
  <2>2. (v \o z)[7 + 1] = z[1]
    BY <1>2, <1>3, <2>1
  <2>3. QED
    BY <1>2, <1>3, <2>1, <2>2
<1> HIDE DEF v
<1>5. QED
  BY <1>1, <1>2, <1>3, <1>4

(* What the proofs use of a pipeline: the stage that starts the check run  *)
(* is alone and before the others, a prediction and the step to Ready are  *)
(* stages of their own, the one right before the other, and after the last *)
(* step to Ready come only the reports.                                    *)
Shape(p, before, within, last) ==
    /\ p \in Seq(StageSets) /\ Len(p) \in Nat \ {0}
    /\ before \in Nat /\ within \in Nat /\ before + within <= Len(p)
    /\ before > 0 => p[before] = {"StartCheckRun"}
    /\ last \in 1..Len(p) /\ p[last] = {"StatusIsReady"}
    /\ before = 0 => last = Len(p)
    /\ before > 0 => last = before + within
    /\ \A i \in 1..Len(p) :
          /\ "StartCheckRun" \in p[i] => i = before
          /\ "Predict" \in p[i] => p[i] = {"Predict"}
          /\ "StatusIsReady" \in p[i] => p[i] = {"StatusIsReady"} /\ i > 1 /\ p[i - 1] = {"Predict"}
          /\ i > last => p[i] \in {{"ReportPushCheckResult"}, {"ReportPullRequestCheckResult"},
                                   {"RepoStatusIsReady"}}

(* The stage of the last StatusIsReady.                                    *)
LastReady == IF Len(Before) = 0 THEN Len(pipe) ELSE Len(Before) + Len(routeCheckPipelines)

(* Every pipeline of every action has that shape, for any number of pull   *)
(* requests.                                                               *)
LEMMA PipeShape ==
    ASSUME PipelineAssumption, action \in RunActions
    PROVE  Shape(pipe, Len(Before), Len(routeCheckPipelines), LastReady)
<1>1. CASE action = "PushCheck"
  <2> DEFINE u == pipelineUpdateRepository
  <2>1. /\ pipe \in Seq(StageSets)
        /\ Len(Before) = 1 /\ Len(routeCheckPipelines) = 6 /\ Len(pipe) = 8
        /\ pipe[1] = {"StartCheckRun"}
        /\ \A i \in 2..7 : pipe[i] = u[i - 1]
        /\ pipe[8] = {"ReportPushCheckResult"}
    BY <1>1, CheckPush
  <2>2. pipe[2] = u[1] /\ pipe[3] = u[2] /\ pipe[4] = u[3] /\ pipe[5] = u[4]
        /\ pipe[6] = u[5] /\ pipe[7] = u[6]
    <3> HIDE DEF u
    <3>1. pipe[2] = u[2 - 1] /\ pipe[3] = u[3 - 1] /\ pipe[4] = u[4 - 1] /\ pipe[5] = u[5 - 1]
          /\ pipe[6] = u[6 - 1] /\ pipe[7] = u[7 - 1]
      BY <2>1
    <3>2. QED
      BY <3>1
  <2>3. LastReady = 7
    BY <2>1 DEF LastReady
  <2>4. \A i \in 1..8 : i \in {1, 2, 3, 4, 5, 6, 7, 8}
    OBVIOUS
  <2>5. QED
    BY <2>1, <2>2, <2>3, <2>4 DEF Shape, pipelineUpdateRepository
<1>2. CASE action = "PullRequestCheck"
  <2> DEFINE N == NumPulls
  <2>1. N \in Nat \ {0}
    BY DEF PipelineAssumption
  <2>2. LastReady = 3 + 8 * N
    <3>1. Len(Before) = 2 /\ Len(routeCheckPipelines) = 1 + 8 * N
      BY <1>2, CheckStages
    <3>2. QED
      BY <2>1, <3>1 DEF LastReady
  <2>3. \A i \in 4..(3 + 8 * N) : pipe[i] = pipelineUpdatePullRequest[((i - 4) % 8) + 1]
    BY <1>2, CheckStages
  <2>4. \A k \in 1..8 : /\ "StartCheckRun" \notin pipelineUpdatePullRequest[k]
                        /\ "Predict" \in pipelineUpdatePullRequest[k] => k = 7 
                        /\ "StatusIsReady" \in pipelineUpdatePullRequest[k] => k = 8
        /\ pipelineUpdatePullRequest[7] = {"Predict"}
        /\ pipelineUpdatePullRequest[8] = {"StatusIsReady"}
    BY DEF pipelineUpdatePullRequest
  <2>5. \A i \in 4..(3 + 8 * N) :
           /\ "StartCheckRun" \notin pipe[i]
           /\ "Predict" \in pipe[i] => pipe[i] = {"Predict"}
           /\ "StatusIsReady" \in pipe[i] =>
                 pipe[i] = {"StatusIsReady"} /\ i > 1 /\ pipe[i - 1] = {"Predict"}
    <3> SUFFICES ASSUME NEW i \in 4..(3 + 8 * N)
                 PROVE  /\ "StartCheckRun" \notin pipe[i]
                        /\ "Predict" \in pipe[i] => pipe[i] = {"Predict"}
                        /\ "StatusIsReady" \in pipe[i] =>
                              pipe[i] = {"StatusIsReady"} /\ i > 1 /\ pipe[i - 1] = {"Predict"}
      OBVIOUS
    <3>1. ((i - 4) % 8) + 1 \in 1..8
      BY <2>1
    <3>2. ((i - 4) % 8) + 1 = 8 => i - 1 \in 4..(3 + 8 * N) /\ ((i - 1 - 4) % 8) + 1 = 7
      BY <2>1
    <3>3. QED
      BY <2>1, <2>3, <2>4, <3>1, <3>2
  <2>6. pipe[3 + 8 * N] = {"StatusIsReady"}
    <3> DEFINE i == 3 + 8 * N
    <3>1. ((i - 4) % 8) + 1 = 8 /\ i \in 4..(3 + 8 * N)
      BY <2>1
    <3> HIDE DEF i
    <3>2. pipe[i] = {"StatusIsReady"}
      BY <2>3, <2>4, <3>1
    <3>3. QED
      BY <3>2 DEF i
  <2>7. /\ pipe \in Seq(StageSets)
        /\ Len(Before) = 2 /\ Len(routeCheckPipelines) = 1 + 8 * N
        /\ Len(pipe) = 5 + 8 * N
        /\ pipe[1] = {"RepoStatusInProgress"}
        /\ pipe[2] = {"StartCheckRun"}
        /\ pipe[3] = {"pullRequestEntities"}
        /\ pipe[4 + 8 * N] = {"ReportPullRequestCheckResult"}
        /\ pipe[5 + 8 * N] = {"RepoStatusIsReady"}
    BY <1>2, CheckStages
  <2>8. \A i \in 1..Len(pipe) :
          \/ i \in {1, 2, 3} \/ i \in 4..(3 + 8 * N) \/ i = 4 + 8 * N \/ i = 5 + 8 * N
    BY <2>1, <2>7
  <2> DEFINE Stage(i) ==
          /\ "StartCheckRun" \in pipe[i] => i = 2
          /\ "Predict" \in pipe[i] => pipe[i] = {"Predict"}
          /\ "StatusIsReady" \in pipe[i] =>
                pipe[i] = {"StatusIsReady"} /\ i > 1 /\ pipe[i - 1] = {"Predict"}
          /\ i > 3 + 8 * N => pipe[i] \in {{"ReportPushCheckResult"}, {"ReportPullRequestCheckResult"},
                                   {"RepoStatusIsReady"}}
  <2>9. Stage(1) /\ Stage(2) /\ Stage(3) /\ Stage(4 + 8 * N) /\ Stage(5 + 8 * N)
    BY <2>1, <2>7
  <2>10. \A i \in 4..(3 + 8 * N) : Stage(i)
    BY <2>1, <2>5
  <2> HIDE DEF Stage
  <2>11. \A i \in 1..Len(pipe) : Stage(i)
    BY <2>8, <2>9, <2>10
  <2> USE DEF Stage
  <2>12. QED
    BY <2>1, <2>2, <2>6, <2>7, <2>11 DEF Shape
<1>3. CASE action \in {"RepositoryAdded", "MonitorRepository", "RepositoryPush", "PullRequestUpdate"}
  <2>1. Before = <<>> /\ routeCheckPipelines = <<>>
    BY <1>3 DEF Before, routeCheckPipelines
  <2>2. Len(Before) = 0 /\ Len(routeCheckPipelines) = 0 /\ LastReady = Len(pipe)
    BY <2>1 DEF LastReady
  <2>3. CASE action = "RepositoryAdded"
    <3>1. pipe = <<{"StatusInProgress"}, {"PrepareGitRepository", "UpdateCollaborators"},
      {"ingestLocalBranchesTask", "AddPullRequests"}, {"analyze"}, {"Predict"},
      {"StatusIsReady"}>>
      BY <2>3 DEF pipe, pipelineNewRepository
    <3>2. QED
      BY <2>2, <3>1 DEF Shape, StageSets
  <2>4. CASE action = "MonitorRepository"
    <3>1. pipe = <<{"StatusInProgress"}, {"PrepareGitRepository"},
      {"ingestLocalBranchesTask", "AddPullRequests"}, {"analyze"}, {"Predict"},
      {"StatusIsReady"}>>
      <4>1. pipe = pipelineNewPublicRepository
        BY <2>4 DEF pipe
      <4>2. QED
        BY <4>1 DEF pipelineNewPublicRepository, pipelineNewRepository
    <3>2. QED
      BY <2>2, <3>1 DEF Shape, StageSets
  <2>5. CASE action = "RepositoryPush"
    <3>1. pipe = pipelineUpdateRepository
      BY <2>5 DEF pipe
    <3>2. QED
      BY <2>2, <3>1 DEF Shape, StageSets, pipelineUpdateRepository
  <2>6. CASE action = "PullRequestUpdate"
    <3>1. pipe = pipelineUpdatePullRequest
      BY <2>6 DEF pipe
    <3>2. QED
      BY <2>2, <3>1 DEF Shape, StageSets, pipelineUpdatePullRequest
  <2>7. QED
    BY <1>3, <2>3, <2>4, <2>5, <2>6
<1>4. QED
  BY <1>1, <1>2, <1>3 DEF PipelineAssumption

----------------------------------------------------------------------------
(* The invariant.                                                          *)

(* What a task has returned, and how far the goroutines of its stage are.  *)
TaskInv ==
    /\ pc = "stage" => idx <= Len(pipe)
    /\ pc = "stage" /\ Single => /\ err = "none"
                                 /\ \A t \in Tasks : t \in stage =>
                                        tpc[t] \in {"todo", "logged", "saved", "returned"}
    /\ \A t \in Tasks : /\ tpc[t] \in {"todo", "logged", "saved"} => res[t] = "ok"
                        /\ tpc[t] \in {"failed", "cancelled"} => res[t] # "ok"
    /\ pc \in {"failCheck", "log", "save"} => err # "none"
    /\ pc \in {"wrapup", "reported"} /\ err = "none" => idx = Len(pipe) + 1

(* Somebody stopped the job, or a task next to another one failed.         *)
Justified == stopped \/ ConcurrentFailed

(* What cancels the context, and what is canceled, has a reason; followers *)
(* are dropped only by a run that is over.                                 *)
CancelInv ==
    /\ ctxDone /\ pc # "reported" => Justified
    /\ err = "canceled" => Justified
    /\ \A t \in Tasks : res[t] = "canceled" => Justified
    /\ dropped => pc = "reported" /\ Justified

(* The goroutines of a concurrent stage: one that failed and is done has   *)
(* found or left an error, and all are done when the run has left.         *)
StageInv ==
    /\ pc # "stage" /\ idx <= Len(pipe) /\ Concurrent => \A t \in stage : tpc[t] = "done"
    /\ pc = "stage" /\ Concurrent =>
          \A t \in Tasks \cap stage : tpc[t] = "done" /\ res[t] # "ok" => err # "none"

(* A check run is begun by the stage that is for it. After the deferred    *)
(* part has begun it is in progress only with one of the excuses.          *)
CheckInv ==
    checkRun = "in_progress" =>
        /\ \/ idx > Len(Before)
           \/ /\ idx = Len(Before) /\ pc = "stage"
              /\ tpc["StartCheckRun"] = "returned" /\ res["StartCheckRun"] = "ok"
        /\ pc \in {"log", "save", "wrapup", "reported"} =>
              \/ dropped \/ (pc # "reported" /\ ctxDone)
              \/ "checkRun" \in lost
              \/ idx <= Len(pipe) /\ Single /\ \E t \in stage : tpc[t] # "returned"
              \/ idx > Len(Before) + Len(routeCheckPipelines)

(* New commits were predicted before the job becomes ready.                *)
PredictInv ==
    pc = "stage" /\ startPoints =>
        /\ stage = {"Predict"} =>
              \/ tpc["Predict"] = "todo"
              \/ jobStatus = "Predicting"
              \/ res["Predict"] # "ok"
              \/ tpc["Predict"] = "gone"
        /\ stage = {"StatusIsReady"} /\ tpc["StatusIsReady"] = "todo" => jobStatus = "Predicting"

(* The run has met no error so far.                                        *)
Passed == err = "none" /\ pc \in {"stage", "wrapup", "reported"}

(* The statuses follow the run: Ready from the last StatusIsReady on, each *)
(* pull request of a check from its own on, the outcome once checkErrors   *)
(* has written it.                                                         *)
OutcomeInv ==
    /\ Passed /\ idx > LastReady => jobStatus = "Ready" /\ status[Target] = "Ready"
    /\ Passed /\ pc = "stage" /\ stage = {"StatusIsReady"} =>
          /\ tpc["StatusIsReady"] # "todo" /\ res["StatusIsReady"] = "ok" => jobStatus = "Ready"
          /\ tpc["StatusIsReady"] \in {"saved", "returned"} /\ res["StatusIsReady"] = "ok" =>
                status[Target] = "Ready"
    /\ Passed /\ action = "PullRequestCheck" =>
          /\ \A n \in 1..NumPulls : idx > 3 + 8 * n => status[n] = "Ready"
          /\ pc = "stage" /\ idx = Len(pipe) /\ tpc["RepoStatusIsReady"] \in {"saved", "returned"}
             /\ res["RepoStatusIsReady"] = "ok" => status[0] = "Ready"
          /\ idx > Len(pipe) => status[0] = "Ready"
    /\ tpc["RepoStatusIsReady"] # "logged"
    /\ err # "none" /\ "outcome" \notin lost =>
          /\ pc \in {"save", "wrapup", "reported"} => jobStatus = Outcome
          /\ pc \in {"wrapup", "reported"} => status[Target] = Outcome

(* The inductive invariant.                                                *)
IInv == TypeOK /\ TaskInv /\ CancelInv /\ StageInv /\ CheckInv /\ PredictInv /\ OutcomeInv

(* The pipeline and what is read of it depend on the action and the stage  *)
(* only.                                                                   *)
LEMMA SamePipe ==
    ASSUME action' = action
    PROVE  /\ pipe' = pipe /\ Before' = Before /\ routeCheckPipelines' = routeCheckPipelines
           /\ LastReady' = LastReady
           /\ idx' = idx => /\ stage' = stage /\ Target' = Target
                            /\ (Single' <=> Single) /\ (InCheckRun' <=> InCheckRun)
<1>1. Before' = Before /\ routeCheckPipelines' = routeCheckPipelines
  BY DEF Before, routeCheckPipelines
<1>2. pipe' = pipe
  BY <1>1 DEF pipe
<1>3. LastReady' = LastReady
  BY <1>1, <1>2 DEF LastReady
<1>4. ASSUME idx' = idx
      PROVE /\ stage' = stage /\ Target' = Target
            /\ (Single' <=> Single) /\ (InCheckRun' <=> InCheckRun)
  <2>1. stage' = stage
    BY <1>2, <1>4 DEF stage
  <2>2. Target' = Target
    BY <1>4 DEF Target
  <2>3. (Single' <=> Single) /\ (InCheckRun' <=> InCheckRun)
    BY <1>1, <1>4, <2>1 DEF Single, InCheckRun
  <2>4. QED
    BY <2>1, <2>2, <2>3
<1>5. QED
  BY <1>1, <1>2, <1>3, <1>4

(* Which tasks save which status (saveStatus, repoStatus).                 *)
LEMMA SavesStages ==
    \A t : /\ Saves(t) \subseteq Stages
           /\ "Ready" \in Saves(t) => t \in {"StatusIsReady", "RepoStatusIsReady"}
           /\ t = "Predict" => Saves(t) = {"Predicting"}
           /\ t \in {"StatusIsReady", "RepoStatusIsReady"} => Saves(t) = {"Ready"}
           /\ t \in {"ReportPushCheckResult", "ReportPullRequestCheckResult"} => Saves(t) = {}
BY DEF Saves, Stages

(* The entity whose status is saved at a stage.                            *)
LEMMA TargetOfStage ==
    ASSUME PipelineAssumption, idx \in Nat \ {0}
    PROVE  /\ Target \in 0..NumPulls
           /\ action = "PullRequestCheck" =>
                 /\ idx <= 3 => Target = 0
                 /\ idx > 3 => Target = IF (idx - 4) \div 8 + 1 > NumPulls THEN NumPulls
                                                                       ELSE (idx - 4) \div 8 + 1
           /\ action = "PullRequestUpdate" => Target = 1
           /\ action \notin {"PullRequestUpdate", "PullRequestCheck"} => Target = 0
<1>1. NumPulls \in Nat \ {0}
  BY DEF PipelineAssumption
<1>2. Len(pipelineUpdatePullRequest) = 8
  BY UpdateIsASeq
<1>3. CASE action = "PullRequestCheck" /\ idx > 3
  <2>1. Target = LET n == (idx - 4) \div 8 + 1 IN IF n > NumPulls THEN NumPulls ELSE n
    BY <1>2, <1>3 DEF Target
  <2>2. (idx - 4) \div 8 \in Nat
    BY <1>3
  <2>3. QED
    BY <1>1, <1>3, <2>1, <2>2
<1>4. CASE action = "PullRequestUpdate"
  <2>1. Target = 1
    BY <1>4 DEF Target
  <2>2. QED
    BY <1>1, <1>4, <2>1
<1>5. CASE action # "PullRequestUpdate" /\ ~(action = "PullRequestCheck" /\ idx > 3)
  <2>1. Target = 0
    BY <1>5 DEF Target
  <2>2. QED
    BY <1>1, <1>5, <2>1
<1>6. QED
  BY <1>3, <1>4, <1>5

(* Only StartCheckRun puts a check run in progress.                        *)
LEMMA CheckRuns ==
    \A t : /\ CheckRunAfter(t) \in {"in_progress", "neutral", checkRun}
           /\ t # "StartCheckRun" /\ CheckRunAfter(t) = "in_progress" => checkRun = "in_progress"
BY DEF CheckRunAfter

(* The lengths the arithmetic below needs.                                 *)
LEMMA Lengths ==
    ASSUME PipelineAssumption, TypeOK
    PROVE  /\ Len(pipe) \in Nat \ {0} /\ idx \in Nat \ {0}
           /\ Len(Before) \in Nat /\ Len(routeCheckPipelines) \in Nat
           /\ Len(Before) + Len(routeCheckPipelines) <= Len(pipe)
           /\ LastReady \in 1..Len(pipe)
<1>1. Shape(pipe, Len(Before), Len(routeCheckPipelines), LastReady)
  BY PipeShape DEF TypeOK
<1>2. QED
  BY <1>1 DEF Shape, TypeOK

(* No step changes the action of the job.                                  *)
LEMMA StepStays ==
    ASSUME [Next]_vars
    PROVE  /\ action' = action
           /\ pipe' = pipe /\ Before' = Before /\ routeCheckPipelines' = routeCheckPipelines
           /\ LastReady' = LastReady
           /\ idx' = idx => /\ stage' = stage /\ Target' = Target
                            /\ (Single' <=> Single) /\ (InCheckRun' <=> InCheckRun)
<1>1. action' = action
  BY DEF Next, TaskStep, GoroutineStep, RunStep, LogStatus, SaveStatus, Finish, Fail, Panic,
         SingleDone, LookAtErr, CancelCtx, AssignErr, StageDone, FailCheckRun, LogOutcome,
         SaveOutcome, WrapUp, Stop, vars
<1>2. QED
  BY <1>1, SamePipe

----------------------------------------------------------------------------
(* How runPipeline leaves a stage.                                         *)

(* What leaving a stage does not touch.                                    *)
Stays == UNCHANGED <<action, ctxDone, stopped, jobStatus, status, checkRun, startPoints,
                     includeAfter, dropped, lost>>

(* How runPipeline leaves a stage with one task.                           *)
LEMMA SingleMoves ==
    ASSUME TypeOK, TaskInv, NEW t \in Tasks, SingleDone(t)
    PROVE  /\ Stays /\ pc = "stage" /\ Single /\ t \in stage /\ tpc[t] = "returned" /\ err = "none"
           /\ \/ res[t] = "ok" /\ NextStage
              \/ res[t] \in {"failure", "canceled"} /\ Leave(res[t])
BY DEF SingleDone, TypeOK, TaskInv, InStage, Stays, stored, fields

(* How runPipeline leaves a stage with several tasks.                      *)
LEMMA StageMoves ==
    ASSUME TypeOK, StageDone
    PROVE  /\ Stays /\ pc = "stage" /\ ~Single /\ Join
           /\ \/ err = "none" /\ ~ctxDone /\ NextStage
              \/ err \in {"failure", "canceled"} /\ Leave(err)
              \/ err = "none" /\ ctxDone /\ Leave("canceled")
<1>1. Stays /\ pc = "stage" /\ ~Single /\ Join
  BY DEF StageDone, Stays, Concurrent, stored, fields
<1>2. CASE err # "none"
  <2>1. Leave(err)
    BY <1>2 DEF StageDone
  <2>2. QED
    BY <1>1, <1>2, <2>1 DEF TypeOK
<1>3. CASE err = "none" /\ ctxDone
  <2>1. Leave("canceled")
    BY <1>3 DEF StageDone
  <2>2. QED
    BY <1>1, <1>3, <2>1
<1>4. CASE err = "none" /\ ~ctxDone
  <2>1. NextStage
    BY <1>4 DEF StageDone
  <2>2. QED
    BY <1>1, <1>4, <2>1
<1>5. QED
  BY <1>2, <1>3, <1>4

(* Every step keeps the types.                                             *)
LEMMA NextTypeOK ==
    ASSUME PipelineAssumption, TypeOK, TaskInv, [Next]_vars
    PROVE  TypeOK'
<1>1. idx \in Nat \ {0} /\ Len(pipe) \in Nat \ {0}
  BY Lengths
<1>2. action' = action /\ pipe' = pipe
  BY StepStays
<1>3. Target \in 0..NumPulls
  BY <1>1, TargetOfStage
<1> USE DEF TypeOK
<1>4. ASSUME NEW t \in Tasks, LogStatus(t) PROVE TypeOK'
  BY <1>2, <1>4, SavesStages DEF LogStatus, fields
<1>5. ASSUME NEW t \in Tasks, SaveStatus(t) PROVE TypeOK'
  <2>1. status' \in [0..NumPulls -> Stages]
    <3>1. 0 \in 0..NumPulls
      BY DEF PipelineAssumption
    <3>2. QED
      BY <1>3, <1>5, <3>1, SavesStages DEF SaveStatus
  <2>2. QED
    BY <1>2, <1>5, <2>1 DEF SaveStatus, fields
<1>6. ASSUME NEW t \in Tasks, Finish(t) PROVE TypeOK'
  <2>1. checkRun' \in {"queued", "in_progress", "neutral", "cancelled"}
    BY <1>6, CheckRuns DEF Finish
  <2>2. {startPoints', includeAfter'} \subseteq BOOLEAN
    BY <1>6 DEF Finish
  <2>3. QED
    BY <1>2, <1>6, <2>1, <2>2 DEF Finish, Return
<1>7. ASSUME NEW t \in Tasks, Fail(t) PROVE TypeOK'
  BY <1>2, <1>7 DEF Fail, Return, Failures, stored, fields
<1>8. ASSUME NEW t \in Tasks, Panic(t) PROVE TypeOK'
  BY <1>2, <1>8 DEF Panic, stored, fields
<1>9. ASSUME Stays, pc = "stage", NextStage \/ \E e \in {"failure", "canceled"} : Leave(e)
      PROVE  TypeOK'
  <2>1. CASE NextStage
    <3>1. idx' \in 1..(Len(pipe') + 1)
      BY <1>1, <1>2, <1>9, <2>1 DEF NextStage, TaskInv
    <3>2. QED
      BY <1>2, <1>9, <2>1, <3>1 DEF NextStage, NoTask, NoResult, Stays
  <2>2. ASSUME NEW e \in {"failure", "canceled"}, Leave(e) PROVE TypeOK'
    BY <1>2, <1>9, <2>2 DEF Leave, Stays
  <2>3. QED
    BY <1>9, <2>1, <2>2
<1>10. ASSUME NEW t \in Tasks, LookAtErr(t) \/ CancelCtx(t) \/ AssignErr(t) PROVE TypeOK'
  <2>1. CASE LookAtErr(t)
    BY <1>2, <2>1 DEF LookAtErr, stored, fields
  <2>2. CASE CancelCtx(t)
    BY <1>2, <2>2 DEF CancelCtx, stored, fields
  <2>3. CASE AssignErr(t)
    <3>1. err' \in {"none", "failure", "canceled"}
      <4>1. res[t] # "ok"
        BY <2>3 DEF AssignErr, TaskInv
      <4>2. QED
        BY <2>3, <4>1 DEF AssignErr
    <3>2. QED
      BY <1>2, <2>3, <3>1 DEF AssignErr, AfterAssign, stored, fields
  <2>4. QED
    BY <1>10, <2>1, <2>2, <2>3
<1>11. CASE FailCheckRun
  BY <1>2, <1>11 DEF FailCheckRun, fields
<1>12. CASE LogOutcome
  BY <1>2, <1>12 DEF LogOutcome, OutcomeNotWritten, OutcomeCtxDone, Outcome, Stages, fields
<1>13. CASE SaveOutcome
  BY <1>2, <1>3, <1>13 DEF SaveOutcome, OutcomeNotWritten, OutcomeCtxDone, Outcome, Stages, fields
<1>14. CASE WrapUp \/ Stop
  BY <1>2, <1>14 DEF WrapUp, Stop, stored, fields
<1>15. CASE UNCHANGED vars
  BY <1>2, <1>15 DEF vars
<1>16. ASSUME NEW t \in Tasks, SingleDone(t) PROVE TypeOK'
  BY <1>9, <1>16, SingleMoves
<1>17. CASE StageDone
  BY <1>9, <1>17, StageMoves
<1>18. QED
  BY <1>4, <1>5, <1>6, <1>7, <1>8, <1>10, <1>11, <1>12, <1>13, <1>14, <1>15, <1>16, <1>17
     DEF Next, TaskStep, GoroutineStep, RunStep

(* Every step keeps what tasks have returned.                              *)
LEMMA NextTaskInv ==
    ASSUME PipelineAssumption, TypeOK, TaskInv, [Next]_vars
    PROVE  TaskInv'
<1>1. idx \in Nat \ {0} /\ Len(pipe) \in Nat \ {0}
  BY Lengths
<1>2. /\ pipe' = pipe
      /\ idx' = idx => stage' = stage /\ (Single' <=> Single)
  BY StepStays
<1> USE DEF TaskInv, TypeOK
<1>3. ASSUME NEW t \in Tasks, LogStatus(t) PROVE TaskInv'
  BY <1>2, <1>3 DEF LogStatus, Working, InStage, fields
<1>4. ASSUME NEW t \in Tasks, SaveStatus(t) PROVE TaskInv'
  BY <1>2, <1>4 DEF SaveStatus, Working, InStage, fields
<1>5. ASSUME NEW t \in Tasks, Finish(t) PROVE TaskInv'
  BY <1>2, <1>5 DEF Finish, Return, InStage, fields
<1>6. ASSUME NEW t \in Tasks, Fail(t) PROVE TaskInv'
  BY <1>2, <1>6 DEF Fail, Return, Failures, Working, InStage, stored, fields
<1>7. ASSUME NEW t \in Tasks, Panic(t) PROVE TaskInv'
  BY <1>2, <1>7 DEF Panic, Working, InStage, Concurrent, stored, fields
<1>8. ASSUME pc = "stage", err = "none", NextStage PROVE TaskInv'
  BY <1>1, <1>2, <1>8 DEF NextStage, NoTask, NoResult
<1>9. ASSUME pc = "stage", NEW e \in {"failure", "canceled"}, Leave(e) PROVE TaskInv'
  BY <1>2, <1>9 DEF Leave
<1>10. ASSUME NEW t \in Tasks, SingleDone(t) PROVE TaskInv'
  BY <1>8, <1>9, <1>10, SingleMoves
<1>11. CASE StageDone
  BY <1>8, <1>9, <1>11, StageMoves
<1>12. ASSUME NEW t \in Tasks, LookAtErr(t) PROVE TaskInv'
  BY <1>2, <1>12 DEF LookAtErr, InStage, Concurrent
<1>13. ASSUME NEW t \in Tasks, CancelCtx(t) PROVE TaskInv'
  BY <1>2, <1>13 DEF CancelCtx, InStage
<1>14. ASSUME NEW t \in Tasks, AssignErr(t) PROVE TaskInv'
  BY <1>2, <1>14 DEF AssignErr, AfterAssign, InStage
<1>15. CASE FailCheckRun
  BY <1>2, <1>15 DEF FailCheckRun
<1>16. CASE LogOutcome \/ SaveOutcome
  BY <1>2, <1>16 DEF LogOutcome, SaveOutcome, OutcomeNotWritten
<1>17. CASE WrapUp \/ Stop \/ UNCHANGED vars
  BY <1>2, <1>17 DEF WrapUp, Stop, vars
<1>18. QED
  BY <1>3, <1>4, <1>5, <1>6, <1>7, <1>10, <1>11, <1>12, <1>13, <1>14, <1>15, <1>16, <1>17
     DEF Next, TaskStep, GoroutineStep, RunStep

(* A stage that names one task is not concurrent.                          *)
LEMMA SingletonStage ==
    ASSUME NEW t, stage = {t}
    PROVE  Single
BY FS_Singleton DEF Single

(* Every step keeps StageInv.                                              *)
LEMMA NextStageInv ==
    ASSUME PipelineAssumption, TypeOK, TaskInv, StageInv, [Next]_vars
    PROVE  StageInv'
<1>1. idx \in Nat \ {0} /\ Len(pipe) \in Nat \ {0}
  BY Lengths
<1>2. /\ pipe' = pipe
      /\ idx' = idx => stage' = stage /\ (Single' <=> Single)
  BY StepStays
<1>3. /\ tpc \in [Tasks -> {"todo", "logged", "saved", "returned", "failed", "cancelled",
                            "done", "gone"}]
      /\ res \in [Tasks -> {"ok", "failure", "canceled"}]
  BY DEF TypeOK
<1> USE DEF StageInv, Concurrent
<1>4. CASE UNCHANGED <<pc, tpc, idx, res, err>>
  BY <1>2, <1>4
<1>5. ASSUME NEW t \in Tasks, TaskStep(t) PROVE StageInv'
  <2>1. /\ pc = "stage" /\ UNCHANGED <<pc, idx, err>>
        /\ tpc'[t] # "done" /\ \A u \in Tasks : u # t => tpc'[u] = tpc[u] /\ res'[u] = res[u]
    BY <1>3, <1>5 DEF TaskStep, LogStatus, SaveStatus, Finish, Fail, Return, Working, InStage
  <2>2. stage' = stage /\ (Single' <=> Single)
    BY <1>2, <2>1
  <2>3. QED
    BY <2>1, <2>2
<1>6. ASSUME NEW t \in Tasks, LookAtErr(t) \/ CancelCtx(t) \/ AssignErr(t) PROVE StageInv'
  <2>1. /\ pc = "stage" /\ t \in stage /\ UNCHANGED <<pc, idx, res>>
        /\ tpc'[t] = "done" => res[t] = "ok" \/ err' # "none"
        /\ err # "none" => err' # "none"
        /\ \A u \in Tasks : u # t => tpc'[u] = tpc[u]
    BY <1>3, <1>6 DEF LookAtErr, CancelCtx, AssignErr, AfterAssign, InStage, TaskInv
  <2>2. stage' = stage /\ (Single' <=> Single)
    BY <1>2, <2>1
  <2>3. QED
    BY <2>1, <2>2
<1>7. ASSUME NEW t \in Tasks, Panic(t) PROVE StageInv'
  BY <1>2, <1>3, <1>7 DEF Panic, Working, InStage
<1>8. CASE NextStage /\ pc = "stage"
  BY <1>1, <1>2, <1>8 DEF NextStage, NoTask
<1>9. ASSUME NEW t \in Tasks, SingleDone(t) PROVE StageInv'
  BY <1>2, <1>8, <1>9, SingleMoves DEF Leave
<1>10. CASE StageDone
  BY <1>2, <1>8, <1>10, StageMoves DEF Leave, Join
<1>11. CASE FailCheckRun \/ LogOutcome \/ SaveOutcome \/ WrapUp
  BY <1>2, <1>11 DEF FailCheckRun, LogOutcome, SaveOutcome, OutcomeNotWritten, WrapUp
<1>12. QED
  BY <1>4, <1>5, <1>6, <1>7, <1>9, <1>10, <1>11 DEF Next, GoroutineStep, RunStep, Stop, vars

(* The run goes on only behind tasks that have succeeded.                  *)
LEMMA NextStageStep ==
    ASSUME PipelineAssumption, TypeOK, TaskInv, StageInv, [Next]_vars
    PROVE  StageStep
<1>1. CASE UNCHANGED idx
  BY <1>1 DEF StageStep
<1>2. ASSUME NEW t \in Tasks, SingleDone(t) PROVE StageStep
  <2>1. /\ pc = "stage" /\ Single /\ t \in stage /\ tpc[t] = "returned"
        /\ res[t] = "ok" \/ UNCHANGED idx
    BY <1>2, SingleMoves DEF Leave
  <2>2. IsFiniteSet(stage)
    <3>1. idx \in 1..Len(pipe) /\ pipe \in Seq(StageSets)
      BY <2>1, Lengths, PipeShape DEF Shape, TaskInv, TypeOK
    <3>2. stage \in StageSets
      BY <3>1 DEF stage
    <3>3. \A S \in StageSets : \E x, y : S = {x, y}
      BY DEF StageSets
    <3>4. PICK x, y : stage = {x} \cup {y}
      <4>1. PICK x, y : stage = {x, y}
        BY <3>2, <3>3
      <4>2. QED
        BY <4>1
    <3>5. IsFiniteSet({x} \cup {y})
      <4>1. IsFiniteSet({x}) /\ IsFiniteSet({y})
        BY FS_Singleton
      <4>2. QED
        BY <4>1, FS_Union
    <3>6. QED
      BY <3>4, <3>5
  <2>3. stage = {t}
    BY <2>1, <2>2, FS_Singleton DEF Single
  <2>4. QED
    BY <2>1, <2>3 DEF StageStep
<1>3. CASE StageDone
  <2>1. pc = "stage" /\ ~Single /\ Join /\ (err = "none" \/ UNCHANGED idx)
    BY <1>3, StageMoves DEF Leave
  <2>2. QED
    BY <2>1 DEF StageStep, StageInv, Concurrent, Join
<1>4. Next => UNCHANGED idx \/ StageDone \/ \E t \in Tasks : SingleDone(t)
  <2>1. ASSUME NEW t \in Tasks, TaskStep(t) \/ GoroutineStep(t) \/ Panic(t)
        PROVE  SingleDone(t) \/ UNCHANGED idx
    BY <2>1 DEF TaskStep, GoroutineStep, LogStatus, SaveStatus, Finish, Fail, Panic, LookAtErr,
                CancelCtx, AssignErr
  <2>2. RunStep \/ Stop => StageDone \/ UNCHANGED idx
    BY DEF RunStep, FailCheckRun, LogOutcome, SaveOutcome, OutcomeNotWritten, WrapUp, Stop
  <2>3. QED
    BY <2>1, <2>2 DEF Next
<1>5. QED
  BY <1>1, <1>2, <1>3, <1>4 DEF vars

----------------------------------------------------------------------------
(* Cancellations.                                                          *)

(* A reason stays one while the stage and the results stay.                *)
LEMMA JustifiedStays ==
    ASSUME [Next]_vars, idx' = idx, stopped => stopped', UNCHANGED res
    PROVE  Justified => Justified'
<1>1. pipe' = pipe /\ stage' = stage /\ (Single' <=> Single)
  BY StepStays
<1>2. QED
  BY <1>1 DEF Justified, ConcurrentFailed, Concurrent

(* Every step keeps that a cancellation has a reason.                      *)
LEMMA NextCancelInv ==
    ASSUME PipelineAssumption, TypeOK, TaskInv, CancelInv, [Next]_vars
    PROVE  CancelInv'
<1>1. idx \in Nat \ {0} /\ Len(pipe) \in Nat \ {0}
  BY Lengths
<1>2. /\ pipe' = pipe
      /\ idx' = idx => stage' = stage /\ (Single' <=> Single)
  BY StepStays
<1>3. ASSUME NEW t \in Tasks, LogStatus(t) \/ SaveStatus(t) \/ LookAtErr(t) PROVE CancelInv'
  <2>1. UNCHANGED <<pc, idx, res, stopped, ctxDone, err, dropped>>
    BY <1>3 DEF LogStatus, SaveStatus, LookAtErr
  <2>2. QED
    BY <2>1, JustifiedStays DEF CancelInv
<1>4. ASSUME NEW t \in Tasks, Finish(t) PROVE CancelInv'
  <2>1. UNCHANGED <<pc, idx, stopped, ctxDone, err, dropped>> /\ res' = [res EXCEPT ![t] = "ok"]
    BY <1>4 DEF Finish, Return
  <2>2. res[t] = "ok"
    BY <1>4 DEF Finish, TaskInv
  <2>3. res' = res
    BY <2>1, <2>2 DEF TypeOK
  <2>4. QED
    BY <2>1, <2>3, JustifiedStays DEF CancelInv
<1>5. ASSUME NEW t \in Tasks, Fail(t) PROVE CancelInv'
  <2>1. PICK r \in Failures : res' = [res EXCEPT ![t] = r]
    BY <1>5 DEF Fail, Return
  <2>2. /\ UNCHANGED <<pc, idx, stopped, ctxDone, err, dropped>>
        /\ pc = "stage" /\ t \in stage
    BY <1>5 DEF Fail, Working, InStage
  <2>3. r # "ok" /\ (r = "canceled" => ctxDone)
    BY DEF Failures
  <2>4. res'[t] # "ok" /\ (\A u \in Tasks : res'[u] = "canceled" => res[u] = "canceled" \/ ctxDone)
    BY <2>1, <2>3 DEF TypeOK
  <2>5. Justified => Justified'
    BY <1>2, <2>2, <2>4 DEF Justified, ConcurrentFailed, Concurrent
  <2>6. ctxDone => Justified
    BY <2>2 DEF CancelInv
  <2>7. QED
    BY <2>2, <2>4, <2>5, <2>6 DEF CancelInv
<1>6. ASSUME NEW t \in Tasks, Panic(t) PROVE CancelInv'
  <2>1. /\ UNCHANGED <<idx, res, stopped, ctxDone, dropped>>
        /\ (UNCHANGED err \/ err' = "failure") /\ pc = "stage" /\ pc' # "reported"
    BY <1>6 DEF Panic, Working, InStage
  <2>2. QED
    BY <2>1, JustifiedStays DEF CancelInv
<1>7. ASSUME pc = "stage", NextStage, Stays, err = "none", ctxDone => stopped PROVE CancelInv'
  <2>1. \A u \in Tasks : res'[u] = "ok"
    BY <1>7 DEF NextStage, NoResult
  <2>2. stopped => Justified'
    BY <1>7 DEF Justified, Stays
  <2>3. UNCHANGED <<stopped, ctxDone, err, dropped>>
    BY <1>7 DEF NextStage, Stays
  <2>4. QED
    BY <1>7, <2>1, <2>2, <2>3 DEF CancelInv
<1>8. ASSUME pc = "stage", NEW e, Leave(e), Stays, e = "canceled" => Justified PROVE CancelInv'
  <2>1. UNCHANGED <<idx, res, stopped, ctxDone, dropped>> /\ err' = e /\ pc' # "reported"
    BY <1>8 DEF Leave, Stays
  <2>2. QED
    BY <1>8, <2>1, JustifiedStays DEF CancelInv
<1>9. ASSUME NEW t \in Tasks, SingleDone(t) PROVE CancelInv'
  <2>1. Stays /\ pc = "stage" /\ Single /\ err = "none"
    BY <1>9, SingleMoves
  <2>2. ctxDone => stopped
    BY <2>1 DEF CancelInv, Justified, ConcurrentFailed, Concurrent
  <2>3. res[t] = "canceled" => Justified
    BY DEF CancelInv
  <2>4. NextStage \/ Leave(res[t])
    BY <1>9, SingleMoves
  <2>5. QED
    BY <1>7, <1>8, <2>1, <2>2, <2>3, <2>4
<1>10. CASE StageDone
  <2>1. Stays /\ pc = "stage"
    BY <1>10, StageMoves
  <2>2. (err = "canceled" => Justified) /\ (ctxDone => Justified)
    BY <2>1 DEF CancelInv
  <2>3. \/ err = "none" /\ ~ctxDone /\ NextStage
        \/ Leave(err)
        \/ ctxDone /\ Leave("canceled")
    BY <1>10, StageMoves
  <2>4. QED
    BY <1>7, <1>8, <2>1, <2>2, <2>3
<1>11. ASSUME NEW t \in Tasks, CancelCtx(t) PROVE CancelInv'
  <2>1. /\ UNCHANGED <<pc, idx, res, stopped, err, dropped>> /\ pc = "stage" /\ t \in stage
        /\ tpc[t] = "failed"
    BY <1>11 DEF CancelCtx, InStage
  <2>2. Justified
    BY <2>1 DEF TaskInv, Justified, ConcurrentFailed, Concurrent
  <2>3. QED
    BY <2>1, <2>2, JustifiedStays DEF CancelInv
<1>12. ASSUME NEW t \in Tasks, AssignErr(t) PROVE CancelInv'
  <2>1. UNCHANGED <<pc, idx, res, stopped, ctxDone, dropped>> /\ err' = res[t]
    BY <1>12 DEF AssignErr
  <2>2. QED
    BY <2>1, JustifiedStays DEF CancelInv
<1>13. CASE FailCheckRun \/ LogOutcome \/ SaveOutcome
  <2>1. UNCHANGED <<idx, res, stopped, ctxDone, err, dropped>> /\ pc # "reported" /\ pc' # "reported"
    BY <1>13 DEF FailCheckRun, LogOutcome, SaveOutcome, OutcomeNotWritten
  <2>2. QED
    BY <2>1, JustifiedStays DEF CancelInv
<1>14. CASE WrapUp
  <2>1. /\ UNCHANGED <<idx, res, stopped, err>> /\ pc = "wrapup" /\ pc' = "reported"
        /\ dropped' = ctxDone
    BY <1>14 DEF WrapUp
  <2>2. QED
    BY <2>1, JustifiedStays DEF CancelInv
<1>15. CASE Stop
  <2>1. /\ UNCHANGED <<idx, res, err, dropped, pc>> /\ stopped'
    BY <1>15 DEF Stop
  <2>2. QED
    BY <2>1 DEF CancelInv, Justified
<1>16. CASE UNCHANGED vars
  <2>1. UNCHANGED <<pc, idx, res, stopped, ctxDone, err, dropped>>
    BY <1>16 DEF vars
  <2>2. QED
    BY <2>1, JustifiedStays DEF CancelInv
<1>17. QED
  BY <1>3, <1>4, <1>5, <1>6, <1>9, <1>10, <1>11, <1>12, <1>13, <1>14, <1>15, <1>16
     DEF Next, TaskStep, GoroutineStep, RunStep

----------------------------------------------------------------------------
(* Check runs.                                                             *)

(* The check run is started by a stage of its own, right before the        *)
(* others.                                                                 *)
LEMMA StartStage ==
    ASSUME PipelineAssumption, TypeOK, idx <= Len(pipe)
    PROVE  /\ "StartCheckRun" \in stage => idx = Len(Before)
           /\ idx = Len(Before) => stage = {"StartCheckRun"} /\ Single
<1>1. Shape(pipe, Len(Before), Len(routeCheckPipelines), LastReady)
  BY PipeShape DEF TypeOK
<1>2. idx \in 1..Len(pipe)
  BY Lengths
<1>3. "StartCheckRun" \in stage => idx = Len(Before)
  BY <1>1, <1>2 DEF Shape, stage
<1>4. idx = Len(Before) => stage = {"StartCheckRun"}
  BY <1>1, <1>2 DEF Shape, stage
<1>5. QED
  BY <1>3, <1>4, SingletonStage

(* Every step keeps what is known of a check run in progress.              *)
LEMMA NextCheckInv ==
    ASSUME PipelineAssumption, TypeOK, TaskInv, CancelInv, CheckInv, [Next]_vars
    PROVE  CheckInv'
<1>1. /\ idx \in Nat \ {0} /\ Len(pipe) \in Nat \ {0}
      /\ Len(Before) \in Nat /\ Len(routeCheckPipelines) \in Nat
      /\ Len(Before) + Len(routeCheckPipelines) <= Len(pipe)
  BY Lengths
<1>2. /\ pipe' = pipe /\ Before' = Before /\ routeCheckPipelines' = routeCheckPipelines
      /\ idx' = idx => stage' = stage /\ (Single' <=> Single)
  BY StepStays
<1>3. pc = "stage" =>
        /\ "StartCheckRun" \in stage => idx = Len(Before)
        /\ idx = Len(Before) => stage = {"StartCheckRun"} /\ Single
  BY StartStage DEF TaskInv
<1>4. "StartCheckRun" \in Tasks
  BY DEF Tasks
<1>5. ASSUME NEW t \in Tasks, LogStatus(t) \/ SaveStatus(t) \/ Fail(t) \/ LookAtErr(t)
                                \/ CancelCtx(t) \/ AssignErr(t)
      PROVE  CheckInv'
  <2>1. UNCHANGED <<pc, idx, checkRun>> /\ pc = "stage"
    BY <1>5 DEF LogStatus, SaveStatus, Fail, LookAtErr, CancelCtx, AssignErr, Working, InStage, stored
  <2>2. idx = Len(Before) /\ tpc["StartCheckRun"] = "returned" /\ res["StartCheckRun"] = "ok" =>
           tpc'["StartCheckRun"] = "returned" /\ res'["StartCheckRun"] = "ok"
    BY <1>3, <1>4, <1>5 DEF LogStatus, SaveStatus, Fail, Return, LookAtErr, CancelCtx, AssignErr,
       Working, InStage, Concurrent, TypeOK
  <2>3. QED
    BY <1>2, <2>1, <2>2 DEF CheckInv
<1>6. ASSUME NEW t \in Tasks, Finish(t) PROVE CheckInv'
  <2>1. /\ UNCHANGED <<pc, idx>> /\ pc = "stage" /\ t \in stage /\ checkRun' = CheckRunAfter(t)
        /\ tpc[t] # "returned"
        /\ tpc' = [tpc EXCEPT ![t] = "returned"] /\ res' = [res EXCEPT ![t] = "ok"]
    BY <1>6 DEF Finish, Return, InStage
  <2>2. CASE t = "StartCheckRun"
    <3>1. idx = Len(Before) /\ tpc'["StartCheckRun"] = "returned" /\ res'["StartCheckRun"] = "ok"
      BY <1>3, <2>1, <2>2 DEF TypeOK
    <3>2. QED
      BY <1>2, <2>1, <3>1 DEF CheckInv
  <2>3. CASE t # "StartCheckRun"
    <3>1. checkRun' = "in_progress" => checkRun = "in_progress"
      BY <2>1, <2>3, CheckRuns
    <3>2. tpc'["StartCheckRun"] = tpc["StartCheckRun"] /\ res'["StartCheckRun"] = res["StartCheckRun"]
      BY <1>4, <2>1, <2>3 DEF TypeOK
    <3>3. QED
      BY <1>2, <2>1, <3>1, <3>2 DEF CheckInv
  <2>4. QED
    BY <2>2, <2>3
<1>7. ASSUME NEW t \in Tasks, Panic(t) PROVE CheckInv'
  <2>1. /\ UNCHANGED <<idx, checkRun>> /\ pc = "stage" /\ t \in stage
        /\ tpc[t] \in {"todo", "logged", "saved"}
        /\ \/ UNCHANGED pc /\ tpc' = [tpc EXCEPT ![t] = "gone"]
           \/ Single /\ pc' = "log" /\ UNCHANGED tpc
        /\ UNCHANGED res
    BY <1>7 DEF Panic, Working, InStage, Concurrent, stored
  <2>2. CASE UNCHANGED pc /\ tpc' = [tpc EXCEPT ![t] = "gone"]
    <3>1. tpc["StartCheckRun"] = "returned" => tpc'["StartCheckRun"] = "returned"
      BY <1>4, <2>1, <2>2 DEF TypeOK
    <3>2. QED
      BY <1>2, <2>1, <2>2, <3>1 DEF CheckInv
  <2>3. CASE Single /\ pc' = "log" /\ UNCHANGED tpc
    <3>1. checkRun = "in_progress" => idx > Len(Before)
      BY <1>3, <2>1 DEF CheckInv
    <3>2. idx <= Len(pipe)
      BY <2>1 DEF TaskInv
    <3>3. idx' <= Len(pipe') /\ Single' /\ t \in stage' /\ tpc'[t] # "returned"
      BY <1>2, <2>1, <2>3, <3>2
    <3>4. QED
      BY <1>2, <2>1, <3>1, <3>3 DEF CheckInv
  <2>4. QED
    BY <2>1, <2>2, <2>3
<1>8. ASSUME pc = "stage", NextStage, Stays PROVE CheckInv'
  <2>1. checkRun = "in_progress" => idx + 1 > Len(Before)
    BY <1>1 DEF CheckInv
  <2>2. idx' = idx + 1 /\ checkRun' = checkRun
        /\ pc' = IF idx = Len(pipe) THEN "wrapup" ELSE "stage"
    BY <1>8 DEF NextStage, Stays
  <2>3. idx = Len(pipe) => idx + 1 > Len(Before) + Len(routeCheckPipelines)
    BY <1>1
  <2>4. QED
    BY <1>2, <2>1, <2>2, <2>3 DEF CheckInv
<1>9. ASSUME pc = "stage", NEW e, Leave(e), Stays,
             checkRun = "in_progress" => idx > Len(Before)
      PROVE  CheckInv'
  <2>1. UNCHANGED <<idx, checkRun>>
        /\ pc' = IF InCheckRun THEN "failCheck" ELSE "log"
    BY <1>9 DEF Leave, Stays
  <2>2. idx > Len(Before) /\ ~InCheckRun => idx > Len(Before) + Len(routeCheckPipelines)
    BY <1>1 DEF InCheckRun
  <2>3. QED
    BY <1>2, <1>9, <2>1, <2>2 DEF CheckInv
<1>10. ASSUME NEW t \in Tasks, SingleDone(t) PROVE CheckInv'
  <2>1. Stays /\ pc = "stage" /\ t \in stage
        /\ (NextStage \/ (res[t] # "ok" /\ Leave(res[t])))
    BY <1>10, SingleMoves
  <2>2. res[t] # "ok" /\ checkRun = "in_progress" => idx > Len(Before)
    BY <1>3, <2>1 DEF CheckInv
  <2>3. QED
    BY <1>8, <1>9, <2>1, <2>2
<1>11. CASE StageDone
  <2>1. Stays /\ pc = "stage" /\ ~Single
        /\ (NextStage \/ \E e \in {"failure", "canceled"} : Leave(e))
    BY <1>11, StageMoves
  <2>2. checkRun = "in_progress" => idx > Len(Before)
    BY <1>3, <2>1 DEF CheckInv
  <2>3. QED
    BY <1>8, <1>9, <2>1, <2>2
<1>12. CASE FailCheckRun
  <2>1. UNCHANGED <<idx, dropped, ctxDone>> /\ pc = "failCheck" /\ pc' = "log"
        /\ \/ checkRun' = "cancelled"
           \/ UNCHANGED checkRun /\ (ctxDone \/ "checkRun" \in lost')
    BY <1>12 DEF FailCheckRun
  <2>2. QED
    BY <1>2, <2>1 DEF CheckInv
<1>13. CASE LogOutcome \/ SaveOutcome
  <2>1. /\ UNCHANGED <<idx, tpc, res, dropped, ctxDone, checkRun>> /\ pc \in {"log", "save"}
        /\ pc' \in {"save", "wrapup"} /\ lost \subseteq lost'
    BY <1>13 DEF LogOutcome, SaveOutcome, OutcomeNotWritten
  <2>2. QED
    BY <1>2, <2>1 DEF CheckInv
<1>14. CASE WrapUp
  <2>1. /\ UNCHANGED <<idx, tpc, res, checkRun, lost>> /\ pc = "wrapup" /\ pc' = "reported"
        /\ dropped' = ctxDone
    BY <1>14 DEF WrapUp, stored
  <2>2. ~dropped
    BY <2>1 DEF CancelInv
  <2>3. QED
    BY <1>2, <2>1, <2>2 DEF CheckInv
<1>15. CASE Stop
  <2>1. UNCHANGED <<idx, pc, tpc, res, checkRun, lost, dropped>> /\ ctxDone'
    BY <1>15 DEF Stop, stored
  <2>2. QED
    BY <1>2, <2>1 DEF CheckInv
<1>16. CASE UNCHANGED vars
  <2>1. UNCHANGED <<idx, pc, tpc, res, checkRun, lost, dropped, ctxDone>>
    BY <1>16 DEF vars
  <2>2. QED
    BY <1>2, <2>1 DEF CheckInv
<1>17. QED
  BY <1>5, <1>6, <1>7, <1>10, <1>11, <1>12, <1>13, <1>14, <1>15, <1>16
     DEF Next, TaskStep, GoroutineStep, RunStep

----------------------------------------------------------------------------
(* Predictions.                                                            *)

(* A stage that predicts or steps to Ready has no other task, and a        *)
(* prediction is right before the step to Ready.                           *)
LEMMA ReadyStage ==
    ASSUME PipelineAssumption, TypeOK
    PROVE  /\ idx <= Len(pipe) /\ "StatusIsReady" \in stage => stage = {"StatusIsReady"}
           /\ idx <= Len(pipe) /\ "Predict" \in stage => stage = {"Predict"}
           /\ idx + 1 <= Len(pipe) /\ "StatusIsReady" \in pipe[idx + 1] =>
                 pipe[idx + 1] = {"StatusIsReady"} /\ stage = {"Predict"}
<1>1. Shape(pipe, Len(Before), Len(routeCheckPipelines), LastReady)
  BY PipeShape DEF TypeOK
<1>2. idx \in Nat \ {0} /\ Len(pipe) \in Nat
  BY Lengths
<1>3. idx <= Len(pipe) => idx \in 1..Len(pipe)
  BY <1>2
<1>4. idx + 1 <= Len(pipe) => idx + 1 \in 1..Len(pipe) /\ (idx + 1) - 1 = idx
  BY <1>2
<1>5. QED
  BY <1>1, <1>3, <1>4 DEF Shape, stage

(* Names that are tasks.                                                   *)
LEMMA TaskNames ==
    {"Predict", "StatusIsReady", "RepoStatusIsReady"} \subseteq Tasks
<1> DEFINE a == pipelineUpdateRepository
           b == pipelineUpdatePullRequest
           c == pipelineNewRepository
<1>1. a \in Seq(StageSets) /\ b \in Seq(StageSets) /\ c \in Seq(StageSets) /\ Len(a) = 6
  BY DEF pipelineUpdateRepository, pipelineUpdatePullRequest, pipelineNewRepository, StageSets
<1>2. a[5] = {"Predict"} /\ a[6] = {"StatusIsReady"}
  BY DEF pipelineUpdateRepository
<1>3. Tasks = (UNION Range(a \o b \o c))
                 \cup {"StartCheckRun", "pullRequestEntities", "ReportPushCheckResult",
                       "ReportPullRequestCheckResult", "RepoStatusInProgress", "RepoStatusIsReady"}
  BY DEF Tasks
<1> HIDE DEF a, b, c
<1>4. /\ a \o b \in Seq(StageSets) /\ Len(a \o b) = 6 + Len(b)
      /\ (a \o b)[5] = a[5] /\ (a \o b)[6] = a[6]
  <2>1. a \in Seq(StageSets) /\ b \in Seq(StageSets)
    BY <1>1
  <2>2. /\ a \o b \in Seq(StageSets) /\ Len(a \o b) = Len(a) + Len(b)
        /\ \A i \in 1..Len(a) : (a \o b)[i] = a[i]
    BY <2>1, ConcatElements
  <2>3. QED
    BY <1>1, <2>2
<1>5. /\ (a \o b) \o c \in Seq(StageSets) /\ Len((a \o b) \o c) = 6 + Len(b) + Len(c)
      /\ ((a \o b) \o c)[5] = {"Predict"} /\ ((a \o b) \o c)[6] = {"StatusIsReady"}
  <2>1. a \o b \in Seq(StageSets) /\ c \in Seq(StageSets)
    BY <1>1, <1>4
  <2>2. /\ (a \o b) \o c \in Seq(StageSets) /\ Len((a \o b) \o c) = Len(a \o b) + Len(c)
        /\ \A i \in 1..Len(a \o b) : ((a \o b) \o c)[i] = (a \o b)[i]
    BY <2>1, ConcatElements
  <2>3. Len(b) \in Nat
    BY <1>1
  <2>4. QED
    BY <1>1, <1>2, <1>4, <2>2, <2>3
<1>6. 5 \in DOMAIN (a \o b \o c) /\ 6 \in DOMAIN (a \o b \o c)
  BY <1>1, <1>5
<1>7. {"Predict"} \in Range(a \o b \o c) /\ {"StatusIsReady"} \in Range(a \o b \o c)
  BY <1>5, <1>6 DEF Range
<1>8. QED
  BY <1>3, <1>7

(* Every step keeps that commits are predicted on the way to Ready.        *)
LEMMA NextPredictInv ==
    ASSUME PipelineAssumption, TypeOK, TaskInv, PredictInv, [Next]_vars
    PROVE  PredictInv'
<1>1. /\ pipe' = pipe
      /\ idx' = idx => stage' = stage /\ (Single' <=> Single)
  BY StepStays
<1>2. (stage = {"StatusIsReady"} => Single) /\ (stage = {"Predict"} => Single)
  BY SingletonStage
<1>3. idx \in Nat \ {0} /\ Len(pipe) \in Nat
  BY Lengths
<1>4. ASSUME NEW t \in Tasks, LogStatus(t) PROVE PredictInv'
  <2>1. /\ UNCHANGED <<pc, idx, startPoints, res>> /\ pc = "stage" /\ t \in stage
        /\ tpc' = [tpc EXCEPT ![t] = "logged"] /\ jobStatus' \in Saves(t)
    BY <1>4 DEF LogStatus, Working, InStage, fields
  <2>2. tpc'[t] = "logged" /\ (t = "Predict" => jobStatus' = "Predicting")
    BY <2>1, SavesStages DEF TypeOK
  <2>3. (stage = {"Predict"} => t = "Predict") /\ (stage = {"StatusIsReady"} => t = "StatusIsReady")
    BY <2>1
  <2>4. QED
    BY <1>1, <2>1, <2>2, <2>3 DEF PredictInv
<1>5. ASSUME NEW t \in Tasks, SaveStatus(t) PROVE PredictInv'
  <2>1. /\ UNCHANGED <<pc, idx, startPoints, res, jobStatus>> /\ pc = "stage" /\ t \in stage
        /\ tpc' = [tpc EXCEPT ![t] = "saved"]
        /\ t = "Predict" => tpc[t] = "logged"
    BY <1>5 DEF SaveStatus, Working, InStage, fields
  <2>2. tpc'[t] = "saved"
    BY <2>1 DEF TypeOK
  <2>3. (stage = {"Predict"} => t = "Predict") /\ (stage = {"StatusIsReady"} => t = "StatusIsReady")
    BY <2>1
  <2>4. QED
    BY <1>1, <2>1, <2>2, <2>3 DEF PredictInv
<1>6. ASSUME NEW t \in Tasks, Finish(t) PROVE PredictInv'
  <2>1. /\ UNCHANGED <<pc, idx, jobStatus>> /\ pc = "stage" /\ t \in stage
        /\ tpc' = [tpc EXCEPT ![t] = "returned"] /\ res' = [res EXCEPT ![t] = "ok"]
        /\ t \notin {"ingestLocalBranchesTask", "ingestPullRequestTask"} => UNCHANGED startPoints
        /\ tpc[t] = "saved" \/ (tpc[t] = "todo" /\ (Saves(t) = {} \/ Skips(t)))
    BY <1>6 DEF Finish, Return, InStage
  <2>2. tpc'[t] = "returned"
    BY <2>1 DEF TypeOK
  <2>3. (stage = {"Predict"} => t = "Predict") /\ (stage = {"StatusIsReady"} => t = "StatusIsReady")
    BY <2>1
  <2>4. t = "Predict" /\ startPoints => tpc[t] = "saved"
    <3>1. t = "Predict" => Saves(t) # {}
      BY SavesStages
    <3>2. QED
      BY <2>1, <3>1 DEF Skips
  <2>5. t = "Predict" /\ tpc[t] = "saved" => res[t] = "ok"
    BY DEF TaskInv
  <2>6. QED
    BY <1>1, <2>1, <2>2, <2>3, <2>4, <2>5 DEF PredictInv
<1>7. ASSUME NEW t \in Tasks, Fail(t) PROVE PredictInv'
  <2>1. PICK r \in Failures : tpc' = [tpc EXCEPT ![t] = "returned"] /\ res' = [res EXCEPT ![t] = r]
    BY <1>7 DEF Fail, Return
  <2>2. UNCHANGED <<pc, idx, jobStatus, startPoints>> /\ pc = "stage" /\ t \in stage
    BY <1>7 DEF Fail, Working, InStage, stored, fields
  <2>3. tpc'[t] = "returned" /\ res'[t] # "ok"
    BY <2>1 DEF TypeOK, Failures
  <2>4. (stage = {"Predict"} => t = "Predict") /\ (stage = {"StatusIsReady"} => t = "StatusIsReady")
    BY <2>2
  <2>5. QED
    BY <1>1, <2>2, <2>3, <2>4 DEF PredictInv
<1>8. ASSUME NEW t \in Tasks, Panic(t) PROVE PredictInv'
  <2>1. UNCHANGED idx /\ t \in stage /\ (~Single \/ pc' = "log")
    BY <1>8 DEF Panic, Working, InStage, Concurrent
  <2>2. QED
    BY <1>1, <1>2, <2>1 DEF PredictInv
<1>9. ASSUME pc = "stage", NextStage, Stays,
             stage = {"Predict"} /\ startPoints => jobStatus = "Predicting"
      PROVE  PredictInv'
  <2>1. /\ tpc' = NoTask /\ idx' = idx + 1 /\ UNCHANGED <<jobStatus, startPoints>>
        /\ pc' = "stage" => idx # Len(pipe)
    BY <1>9 DEF NextStage, Stays
  <2>2. pc' = "stage" => idx + 1 <= Len(pipe)
    BY <1>3, <1>9, <2>1 DEF TaskInv
  <2>3. stage' = pipe[idx + 1]
    BY <1>1, <2>1 DEF stage
  <2>4. pc' = "stage" /\ stage' = {"StatusIsReady"} => stage = {"Predict"}
    BY <2>2, <2>3, ReadyStage
  <2>5. stage' = {"Predict"} => tpc'["Predict"] = "todo"
    <3>1. "Predict" \in Tasks
      BY TaskNames
    <3>2. QED
      BY <2>1, <3>1 DEF NoTask
  <2>6. QED
    BY <1>9, <2>1, <2>4, <2>5 DEF PredictInv
<1>10. ASSUME NEW t \in Tasks, SingleDone(t) PROVE PredictInv'
  <2>1. /\ Stays /\ pc = "stage" /\ t \in stage /\ tpc[t] = "returned"
        /\ (res[t] = "ok" /\ NextStage) \/ \E e : Leave(e)
    BY <1>10, SingleMoves
  <2>2. res[t] = "ok" /\ stage = {"Predict"} /\ startPoints => jobStatus = "Predicting"
    BY <2>1 DEF PredictInv
  <2>3. (\E e : Leave(e)) => pc' # "stage"
    BY DEF Leave
  <2>4. QED
    BY <1>9, <2>1, <2>2, <2>3 DEF PredictInv
<1>11. CASE StageDone
  <2>1. /\ Stays /\ pc = "stage" /\ ~Single
        /\ NextStage \/ \E e : Leave(e)
    BY <1>11, StageMoves
  <2>2. (\E e : Leave(e)) => pc' # "stage"
    BY DEF Leave
  <2>3. QED
    BY <1>2, <1>9, <2>1, <2>2 DEF PredictInv
<1>12. ASSUME NEW t \in Tasks, LookAtErr(t) \/ CancelCtx(t) \/ AssignErr(t) PROVE PredictInv'
  <2>1. UNCHANGED idx /\ ~Single
    BY <1>12 DEF LookAtErr, CancelCtx, AssignErr, InStage, Concurrent, TaskInv
  <2>2. QED
    BY <1>1, <1>2, <2>1 DEF PredictInv
<1>13. CASE RunStep /\ ~StageDone
  <2>1. pc' # "stage"
    BY <1>13 DEF RunStep, FailCheckRun, LogOutcome, SaveOutcome, OutcomeNotWritten, WrapUp
  <2>2. QED
    BY <2>1 DEF PredictInv
<1>14. CASE Stop \/ UNCHANGED vars
  <2>1. UNCHANGED <<idx, pc, tpc, res, startPoints, jobStatus>>
    BY <1>14 DEF Stop, vars, stored, fields
  <2>2. QED
    BY <1>1, <2>1 DEF PredictInv
<1>15. QED
  BY <1>4, <1>5, <1>6, <1>7, <1>8, <1>10, <1>11, <1>12, <1>13, <1>14
     DEF Next, TaskStep, GoroutineStep

(* No step makes a job Ready that found commits and has not just           *)
(* predicted.                                                              *)
LEMMA NextReadyStep ==
    ASSUME PipelineAssumption, TypeOK, TaskInv, PredictInv, [Next]_vars
    PROVE  ReadyStep
<1>1. ASSUME NEW t \in Tasks, LogStatus(t) PROVE ReadyStep
  <2>1. SUFFICES ASSUME jobStatus' = "Ready", startPoints PROVE jobStatus = "Predicting"
    BY DEF ReadyStep
  <2>2. pc = "stage" /\ t \in stage /\ tpc[t] = "todo" /\ t # "RepoStatusIsReady"
        /\ "Ready" \in Saves(t)
    BY <1>1, <2>1 DEF LogStatus, Working, InStage
  <2>3. t = "StatusIsReady"
    BY <2>2, SavesStages
  <2>4. stage = {"StatusIsReady"}
    BY <2>2, <2>3, ReadyStage DEF TaskInv
  <2>5. QED
    BY <2>1, <2>2, <2>3, <2>4 DEF PredictInv
<1>2. CASE LogOutcome
  BY <1>2 DEF LogOutcome, Outcome, OutcomeNotWritten, ReadyStep
<1>3. CASE UNCHANGED jobStatus
  BY <1>3 DEF ReadyStep
<1>4. ASSUME Next PROVE LogOutcome \/ UNCHANGED jobStatus \/ \E t \in Tasks : LogStatus(t)
  <2>1. ASSUME NEW t \in Tasks, TaskStep(t) \/ GoroutineStep(t) \/ Panic(t)
        PROVE  LogStatus(t) \/ UNCHANGED jobStatus
    BY <2>1 DEF TaskStep, GoroutineStep, SaveStatus, Finish, Fail, Panic, SingleDone, LookAtErr,
                CancelCtx, AssignErr, stored
  <2>2. RunStep \/ Stop => LogOutcome \/ UNCHANGED jobStatus
    BY DEF RunStep, StageDone, FailCheckRun, SaveOutcome, OutcomeNotWritten, WrapUp, Stop, stored
  <2>3. QED
    BY <1>4, <2>1, <2>2 DEF Next
<1>5. QED
  BY <1>1, <1>2, <1>3, <1>4 DEF vars

----------------------------------------------------------------------------
(* Outcomes.                                                               *)

(* The stages at which the last status is saved, and those after it.       *)
LEMMA EndStages ==
    ASSUME PipelineAssumption, TypeOK
    PROVE  /\ idx = LastReady => stage = {"StatusIsReady"}
           /\ idx <= Len(pipe) /\ idx > LastReady =>
                 stage \in {{"ReportPushCheckResult"}, {"ReportPullRequestCheckResult"},
                            {"RepoStatusIsReady"}}
           /\ action = "PullRequestCheck" =>
                 /\ LastReady = 3 + 8 * NumPulls /\ Len(pipe) = 5 + 8 * NumPulls
                 /\ \A n \in 1..NumPulls : idx = 3 + 8 * n => stage = {"StatusIsReady"}
                 /\ idx = Len(pipe) => stage = {"RepoStatusIsReady"}
<1>1. Shape(pipe, Len(Before), Len(routeCheckPipelines), LastReady)
  BY PipeShape DEF TypeOK
<1>2. idx \in Nat \ {0} /\ Len(pipe) \in Nat
  BY Lengths
<1>3. idx = LastReady => stage = {"StatusIsReady"}
  BY <1>1 DEF Shape, stage
<1>4. idx <= Len(pipe) /\ idx > LastReady =>
         stage \in {{"ReportPushCheckResult"}, {"ReportPullRequestCheckResult"},
                    {"RepoStatusIsReady"}}
  <2>1. idx <= Len(pipe) => idx \in 1..Len(pipe)
    BY <1>2
  <2>2. QED
    BY <1>1, <2>1 DEF Shape, stage
<1>5. CASE action = "PullRequestCheck"
  <2>1. NumPulls \in Nat \ {0}
    BY DEF PipelineAssumption
  <2>2. /\ Len(Before) = 2 /\ Len(routeCheckPipelines) = 1 + 8 * NumPulls
        /\ Len(pipe) = 5 + 8 * NumPulls
        /\ \A i \in 4..(3 + 8 * NumPulls) : pipe[i] = pipelineUpdatePullRequest[((i - 4) % 8) + 1]
        /\ pipe[5 + 8 * NumPulls] = {"RepoStatusIsReady"}
    BY <1>5, CheckStages
  <2>3. LastReady = 3 + 8 * NumPulls
    BY <2>1, <2>2 DEF LastReady
  <2>4. ASSUME NEW n \in 1..NumPulls, idx = 3 + 8 * n PROVE stage = {"StatusIsReady"}
    <3>1. idx \in 4..(3 + 8 * NumPulls) /\ ((idx - 4) % 8) + 1 = 8
      BY <2>1, <2>4
    <3>2. pipelineUpdatePullRequest[8] = {"StatusIsReady"}
      BY DEF pipelineUpdatePullRequest
    <3>3. QED
      BY <2>2, <3>1, <3>2 DEF stage
  <2>5. idx = Len(pipe) => stage = {"RepoStatusIsReady"}
    BY <2>2 DEF stage
  <2>6. QED
    BY <1>3, <1>4, <2>2, <2>3, <2>4, <2>5
<1>6. QED
  BY <1>3, <1>4, <1>5

(* At the end of the work on pull request n the status saved is that of n, *)
(* and later it is only when n is the last.                                *)
LEMMA TargetOfPull ==
    ASSUME PipelineAssumption, TypeOK, action = "PullRequestCheck", NEW n \in 1..NumPulls
    PROVE  /\ idx = 3 + 8 * n => Target = n
           /\ idx > 3 + 8 * n /\ Target = n => idx > LastReady
<1>1. NumPulls \in Nat \ {0} /\ idx \in Nat \ {0}
  BY Lengths DEF PipelineAssumption
<1>2. idx > 3 => Target = IF (idx - 4) \div 8 + 1 > NumPulls THEN NumPulls ELSE (idx - 4) \div 8 + 1
  BY <1>1, TargetOfStage
<1>3. LastReady = 3 + 8 * NumPulls
  BY EndStages
<1>4. idx = 3 + 8 * n => (idx - 4) \div 8 + 1 = n
  BY <1>1
<1>5. idx > 3 + 8 * n => (idx - 4) \div 8 + 1 > n
  BY <1>1
<1>6. idx > 3 + 8 * n /\ n = NumPulls => idx > LastReady
  BY <1>3
<1>7. (idx - 4) \div 8 \in Int
  BY <1>1
<1> DEFINE q == (idx - 4) \div 8 + 1
<1>8. q \in Int
  BY <1>7
<1>9. idx = 3 + 8 * n \/ idx > 3 + 8 * n => idx > 3
  BY <1>1
<1> HIDE DEF q
<1>10. /\ idx > 3 => Target = IF q > NumPulls THEN NumPulls ELSE q
       /\ idx = 3 + 8 * n => q = n
       /\ idx > 3 + 8 * n => q > n
  BY <1>2, <1>4, <1>5 DEF q
<1>11. QED
  BY <1>1, <1>6, <1>8, <1>9, <1>10

(* After the last StatusIsReady the target stays.                          *)
LEMMA TargetStays ==
    ASSUME PipelineAssumption, TypeOK, action' = action, idx' = idx + 1, idx >= LastReady
    PROVE  Target' = Target
<1>1. NumPulls \in Nat \ {0} /\ idx \in Nat \ {0}
  BY Lengths DEF PipelineAssumption
<1>2. CASE action = "PullRequestCheck"
  <2>1. idx >= 3 + 8 * NumPulls
    BY <1>2, EndStages
  <2>2. Target = IF (idx - 4) \div 8 + 1 > NumPulls THEN NumPulls ELSE (idx - 4) \div 8 + 1
    BY <1>1, <1>2, <2>1, TargetOfStage
  <2>3. (idx - 4) \div 8 + 1 >= NumPulls /\ (idx' - 4) \div 8 + 1 >= NumPulls
        /\ (idx - 4) \div 8 \in Int /\ (idx' - 4) \div 8 \in Int
    BY <1>1, <2>1
  <2>4. Target = NumPulls
    BY <1>1, <2>2, <2>3
  <2>5. Target' = LET n == (idx' - 4) \div Len(pipelineUpdatePullRequest) + 1
                  IN  IF n > NumPulls THEN NumPulls ELSE n
    <3>1. idx' > 3 /\ action' = "PullRequestCheck"
      BY <1>1, <1>2, <2>1
    <3>2. QED
      BY <3>1 DEF Target
  <2>6. Len(pipelineUpdatePullRequest) = 8
    BY UpdateIsASeq
  <2>7. Target' = LET n == (idx' - 4) \div 8 + 1 IN  IF n > NumPulls THEN NumPulls ELSE n
    BY <2>5, <2>6, Zenon
  <2>8. QED
    BY <1>1, <2>3, <2>4, <2>7
<1>3. CASE action = "PullRequestUpdate"
  BY <1>3 DEF Target
<1>4. CASE action # "PullRequestCheck" /\ action # "PullRequestUpdate"
  BY <1>4 DEF Target
<1>5. QED
  BY <1>2, <1>3, <1>4

(* Every step keeps that the statuses follow the run.                      *)
LEMMA NextOutcomeInv ==
    ASSUME PipelineAssumption, TypeOK, TaskInv, OutcomeInv, [Next]_vars
    PROVE  OutcomeInv'
<1>1. /\ NumPulls \in Nat \ {0} /\ idx \in Nat \ {0} /\ Len(pipe) \in Nat \ {0}
      /\ LastReady \in 1..Len(pipe)
  BY Lengths DEF PipelineAssumption
<1>2. /\ action' = action /\ pipe' = pipe /\ LastReady' = LastReady
      /\ idx' = idx => stage' = stage /\ Target' = Target /\ (Single' <=> Single)
  BY StepStays
<1>3. /\ Target \in 0..NumPulls
      /\ stage = {"StatusIsReady"} => Single
      /\ stage = {"RepoStatusIsReady"} => Single
  BY <1>1, TargetOfStage, SingletonStage
<1>4. action = "PullRequestCheck" /\ idx = Len(pipe) => stage = {"RepoStatusIsReady"}
  BY EndStages
<1>5. ASSUME NEW t \in Tasks, LogStatus(t) PROVE OutcomeInv'
  <2>1. /\ UNCHANGED <<pc, idx, err, res, status, lost>> /\ pc = "stage" /\ t \in stage
        /\ tpc' = [tpc EXCEPT ![t] = "logged"] /\ jobStatus' \in Saves(t)
        /\ t # "RepoStatusIsReady"
    BY <1>5 DEF LogStatus, Working, InStage, fields
  <2>2. tpc'[t] = "logged" /\ (\A u \in Tasks : u # t => tpc'[u] = tpc[u])
    BY <2>1 DEF TypeOK
  <2>3. t = "StatusIsReady" => jobStatus' = "Ready"
    BY <2>1, SavesStages
  <2>4. ~(idx > LastReady)
    <3>1. idx <= Len(pipe)
      BY <2>1 DEF TaskInv
    <3>2. idx > LastReady => t \in {"ReportPushCheckResult", "ReportPullRequestCheckResult"}
      BY <2>1, <3>1, EndStages
    <3>3. QED
      BY <2>1, <3>2, SavesStages
  <2>5. stage = {"StatusIsReady"} => t = "StatusIsReady"
    BY <2>1
  <2>6. ~(action = "PullRequestCheck" /\ idx = Len(pipe))
    BY <1>4, <2>1
  <2>7. "RepoStatusIsReady" \in Tasks
    BY TaskNames
  <2>8. QED
    BY <1>2, <2>1, <2>2, <2>3, <2>4, <2>5, <2>6, <2>7 DEF OutcomeInv, Passed
<1>6. ASSUME NEW t \in Tasks, SaveStatus(t) PROVE OutcomeInv'
  <2>1. /\ UNCHANGED <<pc, idx, err, res, jobStatus, lost>> /\ pc = "stage" /\ t \in stage
        /\ tpc' = [tpc EXCEPT ![t] = "saved"] /\ tpc[t] \in {"todo", "logged"}
        /\ \/ /\ tpc[t] = "logged" /\ t # "RepoStatusIsReady"
              /\ status' = [status EXCEPT ![Target] = jobStatus]
           \/ /\ t \in {"RepoStatusInProgress", "RepoStatusIsReady"}
              /\ \E s \in Saves(t) : status' = [status EXCEPT ![0] = s]
    BY <1>6 DEF SaveStatus, Working, InStage, OutcomeInv
  <2>2. /\ tpc'[t] = "saved" /\ (\A u \in Tasks : u # t => tpc'[u] = tpc[u])
        /\ res[t] = "ok"
    BY <2>1 DEF TypeOK, TaskInv
  <2>3. (stage = {"StatusIsReady"} => t = "StatusIsReady")
        /\ (stage = {"RepoStatusIsReady"} => t = "RepoStatusIsReady")
    BY <2>1
  <2>4. idx <= Len(pipe)
    BY <2>1 DEF TaskInv
  <2>5. "RepoStatusIsReady" \in Tasks
    BY TaskNames
  <2>6. \A n \in 1..NumPulls : action = "PullRequestCheck" /\ idx > 3 + 8 * n /\ Target = n =>
            idx > LastReady
    BY TargetOfPull
  <2>7. CASE tpc[t] = "logged" /\ t # "RepoStatusIsReady"
             /\ status' = [status EXCEPT ![Target] = jobStatus]
    <3>1. status'[Target] = jobStatus /\ (\A n \in 0..NumPulls : n # Target => status'[n] = status[n])
      BY <1>3, <2>7 DEF TypeOK
    <3>2. ~(action = "PullRequestCheck" /\ idx = Len(pipe))
      BY <1>4, <2>1, <2>7
    <3>3. ~(idx > Len(pipe))
      BY <1>1, <2>4
    <3>4. Passed' => Passed
      BY <2>1 DEF Passed
    <3>5. Passed /\ idx > LastReady => jobStatus' = "Ready" /\ status'[Target'] = "Ready"
      BY <1>2, <2>1, <3>1 DEF OutcomeInv
    <3>6. Passed /\ stage = {"StatusIsReady"} => jobStatus = "Ready"
      BY <2>1, <2>2, <2>3, <2>7 DEF OutcomeInv
    <3>7. Passed /\ action = "PullRequestCheck" =>
             \A n \in 1..NumPulls : idx > 3 + 8 * n => status'[n] = "Ready"
      <4>1. SUFFICES ASSUME Passed, action = "PullRequestCheck", NEW n \in 1..NumPulls, idx > 3 + 8 * n
                     PROVE  status'[n] = "Ready"
        OBVIOUS
      <4>2. status[n] = "Ready"
        BY <4>1 DEF OutcomeInv
      <4>3. n = Target => jobStatus = "Ready"
        BY <2>6, <4>1 DEF OutcomeInv
      <4>4. n \in 0..NumPulls
        BY <1>1
      <4>5. QED
        BY <3>1, <4>2, <4>3, <4>4
    <3>8. tpc'["RepoStatusIsReady"] # "logged"
      BY <2>2, <2>5 DEF OutcomeInv
    <3>9. QED
      BY <1>2, <2>1, <2>2, <2>3, <2>7, <3>1, <3>2, <3>3, <3>4, <3>5, <3>6, <3>7, <3>8 DEF OutcomeInv
  <2>8. ASSUME t \in {"RepoStatusInProgress", "RepoStatusIsReady"},
               NEW s \in Saves(t), status' = [status EXCEPT ![0] = s]
        PROVE  OutcomeInv'
    <3>1. status'[0] = s /\ (\A n \in 0..NumPulls : n # 0 => status'[n] = status[n])
          /\ (t = "RepoStatusIsReady" => s = "Ready")
      BY <1>1, <2>8, SavesStages DEF TypeOK
    <3>2. stage # {"StatusIsReady"}
      BY <2>3, <2>8
    <3>3. ~(idx > Len(pipe))
      BY <1>1, <2>4
    <3>4. Passed' => Passed
      BY <2>1 DEF Passed
    <3>5. idx > LastReady => t = "RepoStatusIsReady"
      BY <2>1, <2>4, <2>8, EndStages
    <3>6. Passed /\ idx > LastReady => jobStatus' = "Ready" /\ status'[Target'] = "Ready"
      BY <1>2, <1>3, <2>1, <3>1, <3>5 DEF OutcomeInv
    <3>7. action = "PullRequestCheck" /\ idx = Len(pipe) => status'[0] = "Ready"
      BY <1>4, <2>3, <3>1
    <3>8. tpc'["RepoStatusIsReady"] # "logged"
      BY <2>2, <2>5 DEF OutcomeInv
    <3>9. \A n \in 1..NumPulls : status'[n] = status[n]
      BY <1>1, <3>1
    <3>10. QED
      BY <1>2, <2>1, <3>2, <3>3, <3>4, <3>6, <3>7, <3>8, <3>9 DEF OutcomeInv
  <2>9. QED
    BY <2>1, <2>7, <2>8
<1>7. ASSUME NEW t \in Tasks, Finish(t) PROVE OutcomeInv'
  <2>1. /\ UNCHANGED <<pc, idx, err, jobStatus, status, lost>> /\ pc = "stage" /\ t \in stage
        /\ tpc' = [tpc EXCEPT ![t] = "returned"]
        /\ tpc[t] = "saved" \/ (tpc[t] = "todo" /\ (Saves(t) = {} \/ Skips(t)))
        /\ res' = [res EXCEPT ![t] = "ok"]
    BY <1>7 DEF Finish, Return, InStage
  <2>2. /\ tpc'[t] = "returned" /\ (\A u \in Tasks : u # t => tpc'[u] = tpc[u])
        /\ res[t] = "ok"
    BY <2>1 DEF TypeOK, TaskInv
  <2>3. res' = res
    BY <2>1, <2>2 DEF TypeOK
  <2>4. (stage = {"StatusIsReady"} => t = "StatusIsReady")
        /\ (stage = {"RepoStatusIsReady"} => t = "RepoStatusIsReady")
    BY <2>1
  <2>5. t \in {"StatusIsReady", "RepoStatusIsReady"} => tpc[t] = "saved"
    <3>1. t \in {"StatusIsReady", "RepoStatusIsReady"} => Saves(t) # {}
      BY SavesStages
    <3>2. t \in {"StatusIsReady", "RepoStatusIsReady"} => ~Skips(t)
      BY DEF Skips
    <3>3. QED
      BY <2>1, <3>1, <3>2
  <2>6. "RepoStatusIsReady" \in Tasks
    BY TaskNames
  <2>7. tpc'["RepoStatusIsReady"] # "logged"
    BY <2>2, <2>6 DEF OutcomeInv
  <2>8. QED
    BY <1>2, <1>4, <2>1, <2>2, <2>3, <2>4, <2>5, <2>7 DEF OutcomeInv, Passed
<1>8. ASSUME NEW t \in Tasks, Fail(t) PROVE OutcomeInv'
  <2>1. PICK r \in Failures : tpc' = [tpc EXCEPT ![t] = "returned"] /\ res' = [res EXCEPT ![t] = r]
    BY <1>8 DEF Fail, Return
  <2>2. UNCHANGED <<pc, idx, err, jobStatus, status, lost>> /\ pc = "stage" /\ t \in stage
    BY <1>8 DEF Fail, Working, InStage, stored
  <2>3. tpc'[t] = "returned" /\ res'[t] # "ok" /\ (\A u \in Tasks : u # t => tpc'[u] = tpc[u])
    BY <2>1 DEF TypeOK, Failures
  <2>4. (stage = {"StatusIsReady"} => t = "StatusIsReady")
        /\ (stage = {"RepoStatusIsReady"} => t = "RepoStatusIsReady")
    BY <2>2
  <2>5. "RepoStatusIsReady" \in Tasks
    BY TaskNames
  <2>6. QED
    BY <1>2, <1>4, <2>2, <2>3, <2>4, <2>5 DEF OutcomeInv, Passed
<1>9. ASSUME NEW t \in Tasks, Panic(t) PROVE OutcomeInv'
  <2>1. /\ UNCHANGED <<idx, res, jobStatus, status, lost>> /\ pc = "stage"
        /\ \/ ~Single /\ tpc' = [tpc EXCEPT ![t] = "gone"] /\ UNCHANGED <<pc, err>>
           \/ pc' = "log" /\ err' = "failure" /\ UNCHANGED tpc
    BY <1>9 DEF Panic, Working, InStage, Concurrent, stored
  <2>2. tpc'["RepoStatusIsReady"] # "logged"
    <3>1. "RepoStatusIsReady" \in Tasks
      BY TaskNames
    <3>2. QED
      BY <2>1, <3>1 DEF TypeOK, OutcomeInv
  <2>3. QED
    BY <1>2, <1>3, <1>4, <2>1, <2>2 DEF OutcomeInv, Passed
<1>10. ASSUME NEW t \in Tasks, LookAtErr(t) \/ CancelCtx(t) \/ AssignErr(t) PROVE OutcomeInv'
  <2>1. /\ UNCHANGED <<pc, idx, res, jobStatus, status, lost>> /\ pc = "stage" /\ ~Single
        /\ (UNCHANGED err \/ err' # "none")
        /\ \E s \in {"failed", "done", "cancelled"} : tpc' = [tpc EXCEPT ![t] = s]
    <3>1. CASE LookAtErr(t)
      BY <3>1 DEF LookAtErr, InStage, Concurrent, stored
    <3>2. CASE CancelCtx(t)
      BY <3>2 DEF CancelCtx, InStage, TaskInv, stored
    <3>3. CASE AssignErr(t)
      <4>1. UNCHANGED <<pc, idx, res, jobStatus, status, lost>> /\ pc = "stage" /\ t \in stage
            /\ tpc[t] = "cancelled" /\ err' = res[t]
        BY <3>3 DEF AssignErr, InStage, stored
      <4>2. ~Single /\ res[t] # "ok"
        BY <4>1 DEF TaskInv
      <4>3. tpc' = [tpc EXCEPT ![t] = "done"]
        BY <3>3 DEF AssignErr, AfterAssign
      <4>4. err' # "none"
        BY <4>1, <4>2 DEF TypeOK
      <4>5. QED
        BY <4>1, <4>2, <4>3, <4>4
    <3>4. QED
      BY <1>10, <3>1, <3>2, <3>3
  <2>2. tpc'["RepoStatusIsReady"] # "logged"
    <3>1. "RepoStatusIsReady" \in Tasks
      BY TaskNames
    <3>2. QED
      BY <2>1, <3>1 DEF TypeOK, OutcomeInv
  <2>3. QED
    BY <1>2, <1>3, <1>4, <2>1, <2>2 DEF OutcomeInv, Passed
<1>11. ASSUME pc = "stage", err = "none", NextStage, Stays,
              stage \in {{"StatusIsReady"}, {"RepoStatusIsReady"}} =>
                 \E t \in stage : tpc[t] = "returned" /\ res[t] = "ok"
       PROVE  OutcomeInv'
  <2>1. /\ tpc' = NoTask /\ res' = NoResult /\ idx' = idx + 1
        /\ pc' = IF idx = Len(pipe) THEN "wrapup" ELSE "stage"
        /\ UNCHANGED <<err, jobStatus, status, lost>>
    BY <1>11 DEF NextStage, Stays
  <2>2. Passed
    BY <1>11 DEF Passed
  <2>3. tpc'["StatusIsReady"] = "todo" /\ tpc'["RepoStatusIsReady"] = "todo"
    BY <2>1, TaskNames DEF NoTask
  <2>4. idx + 1 > LastReady => jobStatus = "Ready" /\ status[Target'] = "Ready"
    <3>1. SUFFICES ASSUME idx + 1 > LastReady
                   PROVE  jobStatus = "Ready" /\ status[Target] = "Ready"
      BY <1>1, <1>2, <2>1, TargetStays
    <3>2. CASE idx = LastReady
      <4>1. stage = {"StatusIsReady"}
        BY <3>2, EndStages
      <4>2. QED
        BY <1>11, <2>2, <4>1 DEF OutcomeInv
    <3>3. CASE idx > LastReady
      BY <2>2, <3>3 DEF OutcomeInv
    <3>4. QED
      BY <1>1, <3>1, <3>2, <3>3
  <2>5. action = "PullRequestCheck" => \A n \in 1..NumPulls : idx + 1 > 3 + 8 * n => status[n] = "Ready"
    <3>1. SUFFICES ASSUME action = "PullRequestCheck", NEW n \in 1..NumPulls, idx + 1 > 3 + 8 * n
                   PROVE  status[n] = "Ready"
      OBVIOUS
    <3>2. CASE idx = 3 + 8 * n
      <4>1. stage = {"StatusIsReady"} /\ Target = n
        BY <3>1, <3>2, EndStages, TargetOfPull
      <4>2. QED
        BY <1>11, <2>2, <4>1 DEF OutcomeInv
    <3>3. CASE idx > 3 + 8 * n
      BY <2>2, <3>1, <3>3 DEF OutcomeInv
    <3>4. QED
      BY <1>1, <3>1, <3>2, <3>3
  <2>6. action = "PullRequestCheck" /\ idx + 1 > Len(pipe) => status[0] = "Ready"
    <3>1. SUFFICES ASSUME action = "PullRequestCheck", idx + 1 > Len(pipe) PROVE status[0] = "Ready"
      OBVIOUS
    <3>2. CASE idx = Len(pipe)
      BY <1>4, <1>11, <2>2, <3>1, <3>2 DEF OutcomeInv
    <3>3. CASE idx > Len(pipe)
      BY <2>2, <3>1, <3>3 DEF OutcomeInv
    <3>4. QED
      BY <1>1, <3>1, <3>2, <3>3
  <2>7. QED
    BY <1>2, <1>11, <2>1, <2>3, <2>4, <2>5, <2>6 DEF OutcomeInv, Passed
<1>12. ASSUME pc = "stage", NEW e \in {"failure", "canceled"}, Leave(e), Stays PROVE OutcomeInv'
  <2>1. UNCHANGED tpc /\ err' # "none" /\ pc' \in {"failCheck", "log"}
    BY <1>12 DEF Leave
  <2>2. QED
    BY <2>1 DEF OutcomeInv, Passed
<1>13. ASSUME NEW t \in Tasks, SingleDone(t) PROVE OutcomeInv'
  <2>1. Stays /\ pc = "stage" /\ t \in stage /\ tpc[t] = "returned" /\ err = "none"
        /\ ((res[t] = "ok" /\ NextStage) \/ \E e \in {"failure", "canceled"} : Leave(e))
    BY <1>13, SingleMoves
  <2>2. QED
    BY <1>11, <1>12, <2>1
<1>14. CASE StageDone
  <2>1. Stays /\ pc = "stage" /\ ~Single
        /\ ((err = "none" /\ NextStage) \/ \E e \in {"failure", "canceled"} : Leave(e))
    BY <1>14, StageMoves
  <2>2. QED
    BY <1>3, <1>11, <1>12, <2>1
<1>15. CASE FailCheckRun
  <2>1. UNCHANGED <<tpc, err>> /\ err # "none" /\ pc' = "log"
    BY <1>15 DEF FailCheckRun, TaskInv
  <2>2. QED
    BY <2>1 DEF OutcomeInv, Passed
<1>16. CASE LogOutcome
  <2>1. /\ UNCHANGED <<idx, tpc, err>> /\ err # "none"
        /\ \/ jobStatus' = Outcome /\ pc' = "save"
           \/ "outcome" \in lost'
    BY <1>16 DEF LogOutcome, OutcomeNotWritten, OutcomeCtxDone, TaskInv
  <2>2. Outcome' = Outcome
    BY <2>1 DEF Outcome
  <2>3. QED
    BY <2>1, <2>2 DEF OutcomeInv, Passed
<1>17. CASE SaveOutcome
  <2>1. /\ UNCHANGED <<idx, tpc, err>> /\ err # "none" /\ pc = "save"
        /\ \/ status' = [status EXCEPT ![Target] = Outcome] /\ UNCHANGED <<jobStatus, lost>>
           \/ "outcome" \in lost'
    BY <1>17 DEF SaveOutcome, OutcomeNotWritten, OutcomeCtxDone, TaskInv
  <2>2. Outcome' = Outcome
    BY <2>1 DEF Outcome
  <2>3. status' = [status EXCEPT ![Target] = Outcome] => status'[Target] = Outcome
    BY <1>3 DEF TypeOK
  <2>4. QED
    BY <1>2, <2>1, <2>2, <2>3 DEF OutcomeInv, Passed
<1>18. CASE WrapUp
  <2>1. UNCHANGED <<idx, tpc, res, err, jobStatus, status, lost>> /\ pc = "wrapup" /\ pc' = "reported"
    BY <1>18 DEF WrapUp, stored
  <2>2. Outcome' = Outcome
    BY <2>1 DEF Outcome
  <2>3. QED
    BY <1>2, <2>1, <2>2 DEF OutcomeInv, Passed
<1>19. CASE Stop \/ UNCHANGED vars
  <2>1. UNCHANGED <<idx, pc, tpc, res, err, jobStatus, status, lost>>
    BY <1>19 DEF Stop, vars, stored
  <2>2. Outcome' = Outcome
    BY <2>1 DEF Outcome
  <2>3. QED
    BY <1>2, <2>1, <2>2 DEF OutcomeInv, Passed
<1>20. QED
  BY <1>5, <1>6, <1>7, <1>8, <1>9, <1>10, <1>13, <1>14, <1>15, <1>16, <1>17, <1>18, <1>19
     DEF Next, TaskStep, GoroutineStep, RunStep

----------------------------------------------------------------------------
(* The theorems.                                                           *)

(* A run begins in the invariant.                                          *)
LEMMA InitIInv ==
    ASSUME PipelineAssumption, Init
    PROVE  IInv
<1>1. /\ action \in RunActions /\ idx = 1 /\ pc = "stage" /\ tpc = NoTask /\ res = NoResult
      /\ err = "none" /\ ctxDone = FALSE /\ stopped = FALSE /\ jobStatus = "Queued"
      /\ checkRun = "queued" /\ dropped = FALSE /\ lost = {}
  BY DEF Init
<1>2. Shape(pipe, Len(Before), Len(routeCheckPipelines), LastReady)
  BY <1>1, PipeShape
<1>3. /\ Len(pipe) \in Nat \ {0} /\ LastReady \in 1..Len(pipe)
      /\ stage # {"StatusIsReady"} /\ idx # LastReady
  BY <1>1, <1>2 DEF Shape, stage
<1>4. (\A t \in Tasks : tpc[t] = "todo" /\ res[t] = "ok")
      /\ tpc["RepoStatusIsReady"] = "todo" /\ tpc["Predict"] = "todo"
  BY <1>1, TaskNames DEF NoTask, NoResult
<1>5. TypeOK
  <2>1. idx \in 1..(Len(pipe) + 1)
    BY <1>1, <1>3
  <2>2. /\ tpc \in [Tasks -> {"todo", "logged", "saved", "returned", "failed", "cancelled",
                             "done", "gone"}]
        /\ res \in [Tasks -> {"ok", "failure", "canceled"}]
    BY <1>1 DEF NoTask, NoResult
  <2>3. jobStatus \in Stages /\ status \in [0..NumPulls -> Stages]
    BY DEF Init, Stages
  <2>4. startPoints \in BOOLEAN /\ includeAfter \in BOOLEAN
    BY DEF Init
  <2>5. QED
    BY <1>1, <2>1, <2>2, <2>3, <2>4 DEF TypeOK
<1>6. TaskInv
  BY <1>1, <1>3, <1>4 DEF TaskInv
<1>7. CancelInv /\ StageInv /\ CheckInv /\ PredictInv
  BY <1>1, <1>3, <1>4 DEF CancelInv, StageInv, CheckInv, PredictInv, NoTask
<1>8. OutcomeInv
  <2>1. \A n \in 1..NumPulls : ~(1 > 3 + 8 * n)
    BY DEF PipelineAssumption
  <2>2. QED
    BY <1>1, <1>3, <1>4, <2>1 DEF OutcomeInv
<1>9. QED
  BY <1>5, <1>6, <1>7, <1>8 DEF IInv

(* Every step keeps the invariant.                                         *)
LEMMA NextIInv ==
    ASSUME PipelineAssumption, IInv, [Next]_vars
    PROVE  IInv'
<1> USE DEF IInv
<1>1. TypeOK' /\ TaskInv'
  BY NextTypeOK, NextTaskInv
<1>2. CancelInv' /\ StageInv'
  BY NextCancelInv, NextStageInv
<1>3. CheckInv' /\ PredictInv'
  BY NextCheckInv, NextPredictInv
<1>4. OutcomeInv'
  BY NextOutcomeInv
<1>5. QED
  BY <1>1, <1>2, <1>3, <1>4

(* The invariant holds in every reachable state.                           *)
THEOREM InvariantHolds ==
    ASSUME PipelineAssumption
    PROVE  Spec => []IInv
<1>1. Init => IInv
  BY InitIInv
<1>2. IInv /\ [Next]_vars => IInv'
  BY NextIInv
<1>3. QED
  BY <1>1, <1>2, PTL DEF Spec

(* The invariant implies it.                                               *)
LEMMA OutcomeFollows ==
    ASSUME PipelineAssumption, IInv
    PROVE  OutcomeTold
<1>1. TypeOK /\ TaskInv /\ OutcomeInv /\ CheckInv
  BY DEF IInv
<1>2. /\ NumPulls \in Nat \ {0} /\ idx \in Nat \ {0} /\ Len(pipe) \in Nat \ {0}
      /\ LastReady \in 1..Len(pipe)
  BY <1>1, Lengths DEF PipelineAssumption
<1>3. OutcomeRecorded
  <2>1. SUFFICES ASSUME pc = "reported", "outcome" \notin lost
                 PROVE  IF err = "none"
                          THEN /\ jobStatus = "Ready" /\ status[Target] = "Ready"
                               /\ action = "PullRequestCheck" =>
                                     \A n \in 0..NumPulls : status[n] = "Ready"
                          ELSE jobStatus = Outcome /\ status[Target] = Outcome
    BY DEF OutcomeRecorded
  <2>2. CASE err = "none"
    <3>1. Passed /\ idx = Len(pipe) + 1 /\ idx > LastReady
      BY <1>1, <1>2, <2>1, <2>2 DEF TaskInv, Passed
    <3>2. ASSUME action = "PullRequestCheck", NEW n \in 0..NumPulls PROVE status[n] = "Ready"
      <4>1. Len(pipe) = 5 + 8 * NumPulls
        BY <1>1, <3>2, EndStages
      <4>2. CASE n = 0
        BY <1>1, <1>2, <3>1, <3>2, <4>2 DEF OutcomeInv
      <4>3. CASE n # 0
        <5>1. n \in 1..NumPulls /\ idx > 3 + 8 * n
          BY <1>2, <3>1, <4>1, <4>3
        <5>2. QED
          BY <1>1, <3>1, <3>2, <5>1 DEF OutcomeInv
      <4>4. QED
        BY <4>2, <4>3
    <3>3. QED
      BY <1>1, <2>2, <3>1, <3>2 DEF OutcomeInv
  <2>3. CASE err # "none"
    BY <1>1, <2>1, <2>3 DEF OutcomeInv
  <2>4. QED
    BY <2>2, <2>3
<1>4. CheckRunClosed
  BY <1>1 DEF CheckInv, CheckRunClosed, ReportedAt
<1>5. QED
  BY <1>1, <1>3, <1>4 DEF OutcomeTold

(* OutcomeTold holds in every reachable state (run, checkErrors and        *)
(* saveStatus in job.go).                                                  *)
THEOREM OutcomesAreTold ==
    ASSUME PipelineAssumption
    PROVE  Spec => []OutcomeTold
BY InvariantHolds, OutcomeFollows, PTL

(* A job counts as canceled, or drops its followers, only if somebody      *)
(* stopped it or a task next to another one failed (the deferred function  *)
(* of run).                                                                *)
THEOREM CancelsAreJustified ==
    ASSUME PipelineAssumption
    PROVE  Spec => []CancelJustified
<1>1. IInv => CancelJustified
  BY DEF IInv, CancelInv, CancelJustified, Justified
<1>2. QED
  BY <1>1, InvariantHolds, PTL

(* A job that found commits to analyse becomes Ready only right after it   *)
(* predicted them, in every pipeline (strategy.go, Predict and             *)
(* StatusIsReady).                                                         *)
THEOREM PredictedBeforeReady ==
    ASSUME PipelineAssumption
    PROVE  Spec => ReadyFollowsPrediction
<1>1. IInv /\ [Next]_vars => [ReadyStep]_vars
  BY NextReadyStep DEF IInv
<1>2. QED
  BY <1>1, InvariantHolds, PTL DEF Spec, ReadyFollowsPrediction

(* The next stage begins only when every task of the last one has come to  *)
(* its end and succeeded, in every pipeline and for any number of pull     *)
(* requests: no failure is lost between the goroutines that share err      *)
(* (runPipeline).                                                          *)
THEOREM SuccessBeforeNextStage ==
    ASSUME PipelineAssumption
    PROVE  Spec => StagesFollowSuccess
<1>1. IInv /\ [Next]_vars => [StageStep]_vars
  BY NextStageStep DEF IInv
<1>2. QED
  BY <1>1, InvariantHolds, PTL DEF Spec, StagesFollowSuccess
=============================================================================

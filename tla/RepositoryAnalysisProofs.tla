---------------------- MODULE RepositoryAnalysisProofs ----------------------
(***************************************************************************)
(* That the tags of the commits are exact, that the start points lead to   *)
(* all that is unseen, that heads are recorded as analysed only when their *)
(* commits have documents, and that fixes mark what git blames for what    *)
(* they delete, for every acyclic history of finitely many commits, any    *)
(* branches, pull requests and blame, any number of jobs, and calls of     *)
(* IngestHead that fail anywhere. The first part is about the functions of *)
(* CommitGraph: each returns the least set that is closed under a step of  *)
(* its walk. The inductive invariant IInv says what each step of a job has *)
(* still to do; BugInv adds what the fixes have marked.                    *)
(***************************************************************************)
EXTENDS BugMarks, SequenceTheorems, WellFoundedInduction, FiniteSetTheorems,
    TLAPS

-----------------------------------------------------------------------------
(* Numbers and sequences.                                                  *)

(* The empty list has no element.                                          *)
LEMMA RangeEmpty == Range(<<>>) = {}
BY DEF Range

(* The empty list has no element twice.                                    *)
LEMMA InjectiveEmpty == IsInjective(<<>>)
BY DEF IsInjective

(* Appending an element adds it to the elements of a list.                 *)
LEMMA RangeAppend ==
    ASSUME NEW S, NEW s \in Seq(S), NEW x \in S
    PROVE  /\ Append(s, x) \in Seq(S)
           /\ Append(s, x) # <<>>
           /\ Range(Append(s, x)) = Range(s) \cup {x}
<1>1. <<x>> \in Seq(S) /\ Range(<<x>>) = {x}
  BY DEF Range
<1>2. Append(s, x) = s \o <<x>>
  BY AppendIsConcat
<1>3. Range(s \o <<x>>) = Range(s) \cup Range(<<x>>)
  BY <1>1, RangeConcatenation
<1>4. QED
  BY <1>1, <1>2, <1>3, AppendProperties

(* A list of distinct elements stays one when a new element is appended.   *)
LEMMA InjectiveAppend ==
    ASSUME NEW S, NEW s \in Seq(S), NEW x \in S, IsInjective(s), x \notin Range(s)
    PROVE  IsInjective(Append(s, x))
<1>1. /\ DOMAIN s = 1..Len(s) /\ DOMAIN Append(s, x) = 1..Len(s) + 1
      /\ \A i \in 1..Len(s) : Append(s, x)[i] = s[i]
      /\ Append(s, x)[Len(s) + 1] = x
  BY AppendProperties
<1>2. \A i \in 1..Len(s) : s[i] # x
  BY <1>1 DEF Range
<1>3. QED
  BY <1>1, <1>2 DEF IsInjective

(* Popping takes the last element off a list (CommitsStack.Pop).           *)
LEMMA RangePop ==
    ASSUME NEW S, NEW s \in Seq(S), s # <<>>
    PROVE  /\ s[Len(s)] \in S
           /\ SubSeq(s, 1, Len(s) - 1) \in Seq(S)
           /\ Range(s) = Range(SubSeq(s, 1, Len(s) - 1)) \cup {s[Len(s)]}
<1>1. PICK t \in Seq(S), x \in S : s = Append(t, x)
  BY SequenceEmptyOrAppend
<1>2. /\ Len(s) = Len(t) + 1 /\ s[Len(s)] = x
      /\ \A i \in 1..Len(t) : s[i] = t[i]
  BY <1>1, AppendProperties
<1>3. SubSeq(s, 1, Len(s) - 1) = t
  <2>1. Len(s) - 1 = Len(t) /\ Len(t) \in Nat /\ t = [i \in 1..Len(t) |-> t[i]]
    BY <1>2
  <2>2. SubSeq(s, 1, Len(t)) = [i \in 1..Len(t) |-> s[i]]
    OBVIOUS
  <2>3. QED
    BY <1>2, <2>1, <2>2
<1>4. Range(s) = Range(t) \cup {x}
  BY <1>1, RangeAppend
<1>5. QED
  BY <1>2, <1>3, <1>4

(* A set of natural numbers that is not empty has a least element: the     *)
(* form of induction that the proofs use.                                  *)
LEMMA NatLeast ==
    ASSUME NEW T \in SUBSET Nat, T # {}
    PROVE  \E x \in T : \A y \in T : x <= y
<1>1. PICK x \in T : \A y \in T : <<y, x>> \notin OpToRel(<, Nat)
  BY NatLessThanWellFounded, WFMin, Zenon
<1>2. \A y \in T : ~(y < x)
  BY <1>1 DEF OpToRel
<1>3. QED
  BY <1>2

(* A set that Reach must stay within: it has the commits to start from and *)
(* is closed, up to what is skipped.                                       *)
Holds(S, next, from, skip, until) ==
    /\ from \ skip \subseteq S
    /\ \A c \in S \ until : next[c] \ skip \subseteq S

(* What a round of Reach finds from what was reached before.               *)
Added(next, S, skip, until) == (UNION {next[c] : c \in S \ until}) \ skip

Rounds(R, C, next, from, skip, until) ==
    /\ R \in [Nat -> SUBSET C]
    /\ Reach(next, from, skip, until) = R[Cardinality(C)]
    /\ R[0] = from \ skip
    /\ \A n \in Nat : R[n + 1] = R[n] \cup Added(next, R[n], skip, until)

(* Reach, a recursive function, unfolds: its value after n rounds is what  *)
(* walks of n steps reach that may stay where they are.                    *)
LEMMA ReachRounds ==
    ASSUME NEW C, NEW next \in [C -> SUBSET C], NEW from \in SUBSET C, NEW skip, NEW until
    PROVE  \E R : Rounds(R, C, next, from, skip, until)
<1> DEFINE Round(f, n) == IF n = 0 THEN from \ skip
                          ELSE f[n - 1] \cup Added(next, f[n - 1], skip, until)
           Rec(f) == f = [n \in Nat |-> Round(f, n)]
           step(c, d) == c = d \/ (c \notin until /\ d \in next[c] \ skip)
           Walks(n) == {w \in [0 .. n -> C] : /\ w[0] \in from \ skip
                                              /\ \A i \in 0 .. n - 1 : step(w[i], w[i + 1])}
           g == [n \in Nat |-> {w[n] : w \in Walks(n)}]
<1>1. \A n \in Nat : g[n] \in SUBSET C
  <2> SUFFICES ASSUME NEW n \in Nat, NEW w \in Walks(n) PROVE w[n] \in C
    OBVIOUS
  <2>1. n \in 0 .. n
    OBVIOUS
  <2> QED
    BY <2>1
<1>2. g[0] = from \ skip
  <2>1. ASSUME NEW c \in from \ skip PROVE c \in g[0]
    <3> DEFINE w == [i \in 0 .. 0 |-> c]
    <3>1. w \in Walks(0) /\ w[0] = c
      OBVIOUS
    <3> QED
      BY <3>1
  <2>2. g[0] \subseteq from \ skip
    OBVIOUS
  <2> QED
    BY <2>1, <2>2
<1>3. \A n \in Nat : g[n + 1] = g[n] \cup Added(next, g[n], skip, until)
  <2> SUFFICES ASSUME NEW n \in Nat
               PROVE  g[n + 1] = g[n] \cup Added(next, g[n], skip, until)
    OBVIOUS
  <2>1. ASSUME NEW d \in g[n + 1]
        PROVE  d \in g[n] \cup Added(next, g[n], skip, until)
    <3>1. PICK w \in Walks(n + 1) : d = w[n + 1]
      OBVIOUS
    <3> DEFINE v == [i \in 0 .. n |-> w[i]]
    <3>2. v \in Walks(n) /\ v[n] = w[n]
      OBVIOUS
    <3>3. step(w[n], w[n + 1])
      BY n \in 0 .. (n + 1) - 1
    <3>4. w[n] \in g[n]
      BY <3>2
    <3> HIDE DEF g, Walks
    <3>5. CASE w[n] = w[n + 1]
      BY <3>1, <3>4, <3>5
    <3>6. CASE w[n] \notin until /\ w[n + 1] \in next[w[n]] \ skip
      BY <3>1, <3>4, <3>6 DEF Added
    <3> QED
      BY <3>3, <3>5, <3>6
  <2>2. ASSUME NEW c \in g[n], NEW d \in C, step(c, d) PROVE d \in g[n + 1]
    <3>1. PICK w \in Walks(n) : c = w[n]
      OBVIOUS
    <3> DEFINE v == [i \in 0 .. n + 1 |-> IF i = n + 1 THEN d ELSE w[i]]
    <3>2. v[0] = w[0] /\ v \in [0 .. n + 1 -> C] /\ v[n + 1] = d
      OBVIOUS
    <3>3. ASSUME NEW i \in 0 .. (n + 1) - 1 PROVE step(v[i], v[i + 1])
      <4>1. CASE i = n
        BY <2>2, <3>1, <4>1
      <4>2. CASE i # n
        <5>1. i \in 0 .. n - 1 /\ v[i] = w[i] /\ v[i + 1] = w[i + 1]
          BY <4>2
        <5> QED
          BY <5>1
      <4> QED
        BY <4>1, <4>2
    <3>4. v \in Walks(n + 1)
      <4>1. w[0] \in from \ skip
        BY <3>1
      <4> HIDE DEF step, v
      <4> QED
        BY <3>2, <3>3, <4>1
    <3>5. n + 1 \in Nat
      OBVIOUS
    <3> HIDE DEF Walks, v
    <3> QED
      BY <3>2, <3>4, <3>5
  <2>3. ASSUME NEW d \in g[n] PROVE d \in g[n + 1]
    BY <1>1, <2>2
  <2>4. ASSUME NEW c \in g[n] \ until, NEW d \in next[c] \ skip PROVE d \in g[n + 1]
    <3>1. c \in C /\ d \in C
      BY <1>1
    <3> QED
      BY <2>2, <3>1
  <2> HIDE DEF g
  <2>5. Added(next, g[n], skip, until) \subseteq g[n + 1]
    BY <2>4 DEF Added
  <2> QED
    BY <2>1, <2>3, <2>5
<1>4. Rec(g)
  <2>1. g = [n \in Nat |-> g[n]]
    <3> HIDE DEF Walks
    <3> QED
      OBVIOUS
  <2> HIDE DEF g
  <2>2. ASSUME NEW n \in Nat PROVE g[n] = Round(g, n)
    <3>1. CASE n = 0
      BY <1>2, <3>1
    <3>2. CASE n # 0
      <4>1. n - 1 \in Nat /\ (n - 1) + 1 = n
        BY <3>2
      <4> QED
        BY <1>3, <3>2, <4>1
    <3> QED
      BY <3>1, <3>2
  <2> HIDE DEF Round
  <2>3. [n \in Nat |-> g[n]] = [n \in Nat |-> Round(g, n)]
    BY <2>2, Zenon
  <2> QED
    BY <2>1, <2>3, Zenon
<1> HIDE DEF g
<1> DEFINE R == CHOOSE f : Rec(f)
<1>5. Rec(R)
  BY <1>4
<1>6. Reach(next, from, skip, until) = R[Cardinality(C)]
  BY DEF Reach, Added
<1> HIDE DEF R
<1>7. R[0] = from \ skip
  BY <1>5
<1>8. ASSUME NEW n \in Nat
      PROVE  R[n + 1] = R[n] \cup Added(next, R[n], skip, until)
  <2>1. n + 1 \in Nat /\ n + 1 # 0 /\ (n + 1) - 1 = n
    OBVIOUS
  <2>2. R[n + 1] = Round(R, n + 1)
    <3> HIDE DEF Round
    <3> QED
      BY <1>5, <2>1
  <2> QED
    BY <2>1, <2>2
<1>9. \A n \in Nat : R[n] = g[n]
  <2> DEFINE T == {n \in Nat : R[n] # g[n]}
  <2> SUFFICES ASSUME T # {} PROVE FALSE
    OBVIOUS
  <2>1. PICK n \in T : \A m \in T : n <= m
    <3>1. T \in SUBSET Nat
      OBVIOUS
    <3> HIDE DEF T
    <3> QED
      BY <3>1, NatLeast
  <2>2. CASE n = 0
    BY <1>2, <1>7, <2>2
  <2>3. CASE n # 0
    <3>1. n - 1 \in Nat /\ (n - 1) + 1 = n /\ n - 1 \notin T
      BY <2>1, <2>3
    <3> QED
      BY <1>3, <1>8, <3>1
  <2> QED
    BY <2>2, <2>3
<1>10. R \in [Nat -> SUBSET C]
  <2>1. R = [n \in Nat |-> R[n]]
    <3> HIDE DEF Round
    <3> QED
      BY <1>5
  <2> QED
    BY <1>1, <1>9, <2>1
<1> QED
  BY <1>6, <1>7, <1>8, <1>10 DEF Rounds

IsReach(X, C, next, from, skip, until) ==
    /\ X \in SUBSET C
    /\ X \cap skip = {}
    /\ Holds(X, next, from, skip, until)
    /\ \A S \in SUBSET C : Holds(S, next, from, skip, until) => X \subseteq S

(* What is reached has what was started from, is closed, and is within     *)
(* every set that is: a round that adds nothing comes before the rounds    *)
(* outnumber the commits.                                                  *)
LEMMA ReachLeast ==
    ASSUME NEW C, IsFiniteSet(C), NEW next \in [C -> SUBSET C], NEW from \in SUBSET C,
           NEW skip, NEW until
    PROVE  IsReach(Reach(next, from, skip, until), C, next, from, skip, until)
<1>r. PICK R : Rounds(R, C, next, from, skip, until)
  BY ReachRounds, Zenon
<1>1. /\ R \in [Nat -> SUBSET C]
      /\ Reach(next, from, skip, until) = R[Cardinality(C)]
      /\ R[0] = from \ skip
      /\ \A n \in Nat : R[n + 1] = R[n] \cup Added(next, R[n], skip, until)
  BY <1>r DEF Rounds
<1> DEFINE N == Cardinality(C)
           added(S) == Added(next, S, skip, until)
<1>2. N \in Nat
  BY FS_CardinalityType
<1>3. \A n \in Nat : n + 1 \in Nat /\ R[n] \in SUBSET C /\ R[n + 1] = R[n] \cup added(R[n])
  BY <1>1
<1>4. \A S : \A c \in S \ until : next[c] \ skip \subseteq added(S)
  BY DEF Added
<1>5. ASSUME NEW S \in SUBSET C, Holds(S, next, from, skip, until), NEW n \in Nat
      PROVE  R[n] \subseteq S
  <2> DEFINE T == {m \in Nat : ~(R[m] \subseteq S)}
  <2> SUFFICES ASSUME T # {} PROVE FALSE
    BY <1>5
  <2>1. PICK m \in T : \A k \in T : m <= k
    <3>1. T \in SUBSET Nat
      OBVIOUS
    <3> HIDE DEF T
    <3> QED
      BY <3>1, NatLeast
  <2>2. R[0] \subseteq S
    BY <1>1, <1>5 DEF Holds
  <2>3. m # 0 /\ m - 1 \in Nat /\ (m - 1) + 1 = m
    BY <2>1, <2>2
  <2>4. m - 1 \notin T
    BY <2>1, <2>3
  <2>5. R[m - 1] \subseteq S
    BY <2>3, <2>4
  <2>6. added(R[m - 1]) \subseteq S
    BY <1>5, <2>5 DEF Holds, Added
  <2> HIDE DEF added
  <2> QED
    BY <1>3, <2>1, <2>3, <2>5, <2>6
<1>6. ASSUME NEW n \in Nat PROVE R[n] \cap skip = {} /\ R[0] \subseteq R[n]
  <2> DEFINE T == {m \in Nat : ~(R[m] \cap skip = {} /\ R[0] \subseteq R[m])}
  <2> SUFFICES ASSUME T # {} PROVE FALSE
    OBVIOUS
  <2>1. PICK m \in T : \A k \in T : m <= k
    <3>1. T \in SUBSET Nat
      OBVIOUS
    <3> HIDE DEF T
    <3> QED
      BY <3>1, NatLeast
  <2>2. R[0] \cap skip = {}
    BY <1>1
  <2>3. m # 0 /\ m - 1 \in Nat /\ (m - 1) + 1 = m
    BY <2>1, <2>2
  <2>4. m - 1 \notin T
    BY <2>1, <2>3
  <2>5. R[m - 1] \cap skip = {} /\ R[0] \subseteq R[m - 1]
    BY <2>3, <2>4
  <2>6. added(R[m - 1]) \cap skip = {}
    BY DEF Added
  <2> HIDE DEF added
  <2> QED
    BY <1>3, <2>1, <2>3, <2>5, <2>6
<1> HIDE DEF added
<1>7. PICK n \in Nat : n <= N /\ R[n + 1] = R[n]
  <2> SUFFICES ASSUME \A n \in Nat : n <= N => R[n + 1] # R[n] PROVE FALSE
    OBVIOUS
  <2> DEFINE T == {m \in Nat : m <= N + 1 /\ Cardinality(R[m]) < m}
  <2>1. \A n \in Nat : IsFiniteSet(R[n]) /\ Cardinality(R[n]) \in Nat /\ Cardinality(R[n]) <= N
    BY <1>3, FS_Subset, FS_CardinalityType
  <2>2. N + 1 \in T
    BY <1>2, <2>1
  <2>3. PICK m \in T : \A k \in T : m <= k
    <3>1. T \in SUBSET Nat
      OBVIOUS
    <3> HIDE DEF T
    <3> QED
      BY <2>2, <3>1, NatLeast
  <2>4. m # 0 /\ m - 1 \in Nat /\ (m - 1) + 1 = m /\ m - 1 <= N
    BY <1>2, <2>1, <2>3
  <2>5. Cardinality(R[m - 1]) >= m - 1
    <3>1. m - 1 \notin T
      <4> HIDE DEF T
      <4> QED
        BY <2>3, <2>4
    <3>2. Cardinality(R[m - 1]) \in Nat /\ m - 1 <= N + 1
      BY <1>2, <2>1, <2>4
    <3> QED
      BY <2>4, <3>1, <3>2
  <2>6. R[m - 1] \subseteq R[m] /\ R[m - 1] # R[m]
    BY <1>3, <2>4
  <2>7. Cardinality(R[m - 1]) < Cardinality(R[m])
    <3>1. /\ Cardinality(R[m - 1]) <= Cardinality(R[m])
          /\ Cardinality(R[m - 1]) = Cardinality(R[m]) => R[m] = R[m - 1]
      BY <2>1, <2>3, <2>6, FS_Subset
    <3> QED
      BY <2>1, <2>3, <2>4, <2>6, <3>1
  <2> QED
    BY <2>1, <2>3, <2>4, <2>5, <2>7
<1>8. \A m \in Nat : m >= n => R[m] = R[n]
  <2> DEFINE T == {m \in Nat : m >= n /\ R[m] # R[n]}
  <2> SUFFICES ASSUME T # {} PROVE FALSE
    OBVIOUS
  <2>1. PICK m \in T : \A k \in T : m <= k
    <3>1. T \in SUBSET Nat
      OBVIOUS
    <3> HIDE DEF T
    <3> QED
      BY <3>1, NatLeast
  <2>2. m # n /\ m - 1 \in Nat /\ (m - 1) + 1 = m /\ m - 1 >= n /\ m - 1 \notin T
    BY <1>7, <2>1
  <2>3. R[m - 1] = R[n]
    BY <2>2
  <2> QED
    BY <1>3, <1>7, <2>1, <2>2, <2>3
<1>9. R[N] = R[n] /\ added(R[N]) \subseteq R[N]
  <2>1. R[N] = R[n]
    BY <1>2, <1>7, <1>8
  <2> QED
    BY <1>3, <1>7, <2>1
<1>10. Holds(R[N], next, from, skip, until)
  <2>1. from \ skip \subseteq R[N]
    BY <1>1, <1>2, <1>6
  <2> QED
    BY <1>4, <1>9, <2>1 DEF Holds
<1> QED
  BY <1>1, <1>2, <1>3, <1>5, <1>6, <1>10 DEF IsReach

----------------------------------------------------------------------------
(* What the functions of CommitGraph return, for a history h of the        *)
(* commits C.                                                              *)

(* A set with the parents of its commits.                                  *)
Closed(S, h) == \A c \in S : Range(h[c]) \subseteq S

(* The parents of a commit as a set.                                       *)
LEMMA ParentsType ==
    ASSUME NEW C, NEW h \in [C -> Seq(C)]
    PROVE  Parents(h) \in [C -> SUBSET C] /\ \A c \in C : Parents(h)[c] = Range(h[c])
<1>1. \A c \in C : Range(h[c]) \in SUBSET C
  BY RangeOfSeq
<1>2. DOMAIN h = C
  OBVIOUS
<1> QED
  BY <1>1, <1>2 DEF Parents

(* The children among the known commits.                                   *)
LEMMA ChildrenType ==
    ASSUME NEW C, NEW h \in [C -> Seq(C)], NEW K \in SUBSET C
    PROVE  /\ Children(h, K) \in [C -> SUBSET C]
           /\ \A c \in C : Children(h, K)[c] = {d \in K : c \in Range(h[d])}
<1>1. DOMAIN h = C
  OBVIOUS
<1> QED
  BY <1>1 DEF Children

(* Repository.BranchCommits, AncestorsList: the least set that has the     *)
(* heads and all parents.                                                  *)
LEMMA AncestorsLeast ==
    ASSUME NEW C, IsFiniteSet(C), NEW h \in [C -> Seq(C)], NEW H \in SUBSET C
    PROVE  /\ AncestorsList(h, H) \in SUBSET C
           /\ H \subseteq AncestorsList(h, H)
           /\ Closed(AncestorsList(h, H), h)
           /\ \A S \in SUBSET C : H \subseteq S /\ Closed(S, h) => AncestorsList(h, H) \subseteq S
<1> DEFINE next == Parents(h)
           X == Reach(next, H, {}, {})
<1>1. next \in [C -> SUBSET C] /\ \A c \in C : next[c] = Range(h[c])
  BY ParentsType
<1> HIDE DEF next
<1>2. /\ X \in SUBSET C
      /\ Holds(X, next, H, {}, {})
      /\ \A S \in SUBSET C : Holds(S, next, H, {}, {}) => X \subseteq S
  <2>1. IsReach(X, C, next, H, {}, {})
    BY <1>1, ReachLeast
  <2> QED
    BY <2>1 DEF IsReach
<1>3. \A S \in SUBSET C : Holds(S, next, H, {}, {}) <=> (H \subseteq S /\ Closed(S, h))
  BY <1>1 DEF Holds, Closed
<1>4. AncestorsList(h, H) = X
  BY DEF AncestorsList, next
<1> HIDE DEF X
<1> QED
  BY <1>2, <1>3, <1>4

(* What a set of ancestors contains, it contains with its ancestors.       *)
LEMMA AncestorsWithin ==
    ASSUME NEW C, IsFiniteSet(C), NEW h \in [C -> Seq(C)], NEW H \in SUBSET C,
           NEW S \in SUBSET C, Closed(S, h), H \subseteq S
    PROVE  AncestorsList(h, H) \subseteq S
BY AncestorsLeast

(* The walk of TagBranchesOnCommits goes back to the stop points.          *)
LEMMA AncestorsUntil ==
    ASSUME NEW C, IsFiniteSet(C), NEW h \in [C -> Seq(C)], NEW H \in SUBSET C,
           NEW stop \in SUBSET C
    PROVE  /\ AncestorsListUntil(h, stop, H) \in SUBSET C
           /\ H \subseteq AncestorsListUntil(h, stop, H)
           /\ \A c \in AncestorsListUntil(h, stop, H) \ stop :
                Range(h[c]) \subseteq AncestorsListUntil(h, stop, H)
           /\ AncestorsListUntil(h, stop, H) \subseteq AncestorsList(h, H)
<1> DEFINE next == Parents(h)
           X == Reach(next, H, {}, stop)
           A == AncestorsList(h, H)
<1>1. next \in [C -> SUBSET C] /\ \A c \in C : next[c] = Range(h[c])
  BY ParentsType
<1> HIDE DEF next
<1>2. /\ X \in SUBSET C
      /\ Holds(X, next, H, {}, stop)
      /\ \A S \in SUBSET C : Holds(S, next, H, {}, stop) => X \subseteq S
  <2>1. IsReach(X, C, next, H, {}, stop)
    BY <1>1, ReachLeast
  <2> QED
    BY <2>1 DEF IsReach
<1>3. AncestorsListUntil(h, stop, H) = X
  BY DEF AncestorsListUntil, next
<1>4. A \in SUBSET C /\ H \subseteq A /\ Closed(A, h)
  BY AncestorsLeast
<1> HIDE DEF X, A
<1>5. Holds(A, next, H, {}, stop)
  BY <1>1, <1>4 DEF Holds, Closed
<1>6. X \subseteq A
  BY <1>2, <1>4, <1>5
<1>7. \A c \in X \ stop : Range(h[c]) \subseteq X
  BY <1>1, <1>2 DEF Holds
<1>8. H \subseteq X
  BY <1>2 DEF Holds
<1> QED
  BY <1>2, <1>3, <1>6, <1>7, <1>8 DEF A

(* UnseenAncestors: the least set that has the unseen heads and parents.   *)
LEMMA UnseenLeast ==
    ASSUME NEW C, IsFiniteSet(C), NEW h \in [C -> Seq(C)], NEW H \in SUBSET C, NEW skip
    PROVE  /\ UnseenAncestors(h, skip, H) \in SUBSET C
           /\ UnseenAncestors(h, skip, H) \cap skip = {}
           /\ H \ skip \subseteq UnseenAncestors(h, skip, H)
           /\ \A c \in UnseenAncestors(h, skip, H) :
                Range(h[c]) \ skip \subseteq UnseenAncestors(h, skip, H)
           /\ \A S \in SUBSET C :
                H \ skip \subseteq S /\ (\A c \in S : Range(h[c]) \ skip \subseteq S)
                    => UnseenAncestors(h, skip, H) \subseteq S
<1> DEFINE next == Parents(h)
           X == Reach(next, H, skip, {})
<1>1. next \in [C -> SUBSET C] /\ \A c \in C : next[c] = Range(h[c])
  BY ParentsType
<1> HIDE DEF next
<1>2. /\ X \in SUBSET C
      /\ X \cap skip = {}
      /\ Holds(X, next, H, skip, {})
      /\ \A S \in SUBSET C : Holds(S, next, H, skip, {}) => X \subseteq S
  <2>1. IsReach(X, C, next, H, skip, {})
    BY <1>1, ReachLeast
  <2> QED
    BY <2>1 DEF IsReach
<1>3. \A S \in SUBSET C : Holds(S, next, H, skip, {})
          <=> (H \ skip \subseteq S /\ \A c \in S : Range(h[c]) \ skip \subseteq S)
  BY <1>1 DEF Holds
<1>4. UnseenAncestors(h, skip, H) = X
  BY DEF UnseenAncestors, next
<1> HIDE DEF X
<1> QED
  BY <1>2, <1>3, <1>4

(* SuccessorList: the least set that has the commits and all children of   *)
(* its commits.                                                            *)
LEMMA SuccessorsLeast ==
    ASSUME NEW C, IsFiniteSet(C), NEW h \in [C -> Seq(C)], NEW K \in SUBSET C,
           NEW H \in SUBSET K
    PROVE  /\ SuccessorList(h, K, H) \in SUBSET K
           /\ H \subseteq SuccessorList(h, K, H)
           /\ \A d \in K : Range(h[d]) \cap SuccessorList(h, K, H) # {}
                               => d \in SuccessorList(h, K, H)
           /\ \A S \in SUBSET C :
                H \subseteq S /\ (\A c \in S, d \in K : c \in Range(h[d]) => d \in S)
                    => SuccessorList(h, K, H) \subseteq S
<1> DEFINE next == Children(h, K)
           X == Reach(next, H, {}, {})
<1>1. next \in [C -> SUBSET C] /\ \A c \in C : next[c] = {d \in K : c \in Range(h[d])}
  BY ChildrenType
<1> HIDE DEF next
<1>2. /\ X \in SUBSET C
      /\ Holds(X, next, H, {}, {})
      /\ \A S \in SUBSET C : Holds(S, next, H, {}, {}) => X \subseteq S
  <2>1. IsReach(X, C, next, H, {}, {})
    BY <1>1, ReachLeast
  <2> QED
    BY <2>1 DEF IsReach
<1>3. \A S \in SUBSET C : Holds(S, next, H, {}, {})
          <=> (H \subseteq S /\ \A c \in S, d \in K : c \in Range(h[d]) => d \in S)
  BY <1>1 DEF Holds
<1>4. SuccessorList(h, K, H) = X
  BY DEF SuccessorList, next
<1> HIDE DEF X
<1>5. H \subseteq X /\ \A c \in X, d \in K : c \in Range(h[d]) => d \in X
  BY <1>2, <1>3
<1>6. \A d \in K : Range(h[d]) \cap X # {} => d \in X
  BY <1>5
<1>7. X \subseteq K
  <2>1. K \in SUBSET C /\ H \subseteq K
    OBVIOUS
  <2>2. \A c \in K, d \in K : c \in Range(h[d]) => d \in K
    OBVIOUS
  <2> QED
    BY <1>2, <1>3, <2>1, <2>2
<1>8. \A S \in SUBSET C : H \subseteq S /\ (\A c \in S, d \in K : c \in Range(h[d]) => d \in S)
                              => X \subseteq S
  BY <1>2, <1>3
<1> QED
  BY <1>4, <1>5, <1>6, <1>7, <1>8

----------------------------------------------------------------------------
(* Start points.                                                           *)

(* A commit with a parent has parents.                                     *)
LEMMA NotRoot == ASSUME NEW S, NEW s \in Seq(S), s # <<>> PROVE Range(s) # {}
<1>1. 1 \in DOMAIN s
  OBVIOUS
<1> QED
  BY <1>1 DEF Range

(* Any commits have a first one among them, none of whose parents is one   *)
(* of them.                                                                *)
LEMMA FirstCommit ==
    ASSUME IsFiniteSet(Commits), NEW h \in [Commits -> Seq(Commits)], Acyclic(h),
           NEW T \in SUBSET Commits, T # {}
    PROVE  \E c \in T : Range(h[c]) \cap T = {}
<1>1. PICK rank \in [Commits -> 0 .. Cardinality(Commits)] :
        \A c \in Commits : \A p \in Range(h[c]) : rank[p] < rank[c]
  BY DEF Acyclic
<1>2. \A c \in Commits : rank[c] \in Nat
  BY FS_CardinalityType
<1> DEFINE ranks == {rank[c] : c \in T}
<1>3. ranks \in SUBSET Nat /\ ranks # {}
  BY <1>2
<1> HIDE DEF ranks
<1>4. PICK n \in ranks : \A m \in ranks : n <= m
  BY <1>3, NatLeast
<1>5. PICK c \in T : n = rank[c]
  BY DEF ranks
<1>6. ASSUME NEW p \in Range(h[c]) \cap T PROVE FALSE
  <2>1. rank[p] < rank[c] /\ rank[p] \in ranks /\ rank[p] \in Nat /\ rank[c] \in Nat
    BY <1>1, <1>2, <1>5 DEF ranks
  <2> QED
    BY <1>4, <1>5, <2>1
<1> QED
  BY <1>6

(* UnseenRoots returns known commits that are not seen, all of whose       *)
(* parents are.                                                            *)
LEMMA UnseenRootsFresh ==
    ASSUME IsFiniteSet(Commits), NEW h \in [Commits -> Seq(Commits)],
           NEW K \in SUBSET Commits, NEW H \in SUBSET Commits, NEW skip
    PROVE  /\ UnseenRoots(h, K, skip, H) \in SUBSET K
           /\ UnseenRoots(h, K, skip, H) \cap skip = {}
           /\ \A c \in UnseenRoots(h, K, skip, H) : Range(h[c]) \subseteq skip
           /\ \A c \in K \ skip, p \in skip :
                 /\ p \in H \cup UNION {Range(h[d]) : d \in UnseenAncestors(h, skip, H)}
                 /\ p \in Range(h[c])
                 /\ Range(h[c]) \subseteq skip
                 => c \in UnseenRoots(h, K, skip, H)
<1> DEFINE U == UnseenAncestors(h, skip, H)
           near == H \cup UNION {Range(h[d]) : d \in U}
           B == near \cap skip
           X == UnseenRoots(h, K, skip, H)
<1>1. U \in SUBSET Commits
  BY UnseenLeast
<1>2. \A c \in Commits : Range(h[c]) \in SUBSET Commits
  BY RangeOfSeq
<1> HIDE DEF U
<1>3. near \in SUBSET Commits
  BY <1>1, <1>2
<1>4. \A c \in Commits : Children(h, K)[c] = {d \in K : c \in Range(h[d])}
  BY ChildrenType
<1>5. X = {c \in (UNION {Children(h, K)[b] : b \in B}) \ skip : Range(h[c]) \subseteq skip}
  BY DEF UnseenRoots, U
<1> HIDE DEF near, X
<1>6. X \subseteq K /\ X \cap skip = {} /\ \A c \in X : Range(h[c]) \subseteq skip
  BY <1>3, <1>4, <1>5
<1>7. ASSUME NEW c \in K \ skip, NEW p \in skip, p \in near, p \in Range(h[c]),
             Range(h[c]) \subseteq skip
      PROVE  c \in X
  <2>1. p \in B /\ p \in Commits
    BY <1>3, <1>7
  <2>2. c \in Children(h, K)[p]
    BY <1>4, <1>7, <2>1
  <2> HIDE DEF B
  <2> QED
    BY <1>5, <1>7, <2>1, <2>2
<1> QED
  BY <1>6, <1>7 DEF X, near, U

(* From its points every unseen commit of the heads can be reached, if     *)
(* none of these has no parent at all; nothing is said of what was seen.   *)
LEMMA UnseenRootsCover ==
    ASSUME IsFiniteSet(Commits), NEW h \in [Commits -> Seq(Commits)], Acyclic(h),
           NEW K \in SUBSET Commits, Closed(K, h), NEW H \in SUBSET K, NEW skip,
           Roots(h, UnseenAncestors(h, skip, H)) = {}
    PROVE  UnseenAncestors(h, skip, H) \subseteq SuccessorList(h, K, UnseenRoots(h, K, skip, H))
<1> DEFINE U == UnseenAncestors(h, skip, H)
           X == UnseenRoots(h, K, skip, H)
           S == SuccessorList(h, K, X)
           T == U \ S
<1>1. H \in SUBSET Commits
  OBVIOUS
<1>2. /\ U \in SUBSET Commits /\ U \cap skip = {}
      /\ \A c \in U : Range(h[c]) \ skip \subseteq U
      /\ \A V \in SUBSET Commits :
           H \ skip \subseteq V /\ (\A c \in V : Range(h[c]) \ skip \subseteq V) => U \subseteq V
  BY <1>1, UnseenLeast
<1>3. /\ X \in SUBSET K
      /\ \A c \in K \ skip, p \in skip :
            /\ p \in H \cup UNION {Range(h[d]) : d \in U}
            /\ p \in Range(h[c])
            /\ Range(h[c]) \subseteq skip
            => c \in X
  BY <1>1, UnseenRootsFresh
<1>4. \A c \in U : h[c] # <<>>
  BY DEF Roots
<1> HIDE DEF U, X
<1>5. U \subseteq K
  BY <1>2 DEF Closed
<1>6. X \subseteq S /\ \A d \in K : Range(h[d]) \cap S # {} => d \in S
  BY <1>3, SuccessorsLeast
<1> HIDE DEF S
<1> SUFFICES ASSUME T # {} PROVE FALSE
  BY DEF U, S, X
<1>7. PICK c \in T : Range(h[c]) \cap T = {}
  <2>1. T \in SUBSET Commits
    BY <1>2
  <2> HIDE DEF T
  <2> QED
    BY <2>1, FirstCommit
<1>8. c \in U /\ c \in K /\ c \notin S /\ c \notin skip
  BY <1>2, <1>5
<1>9. Range(h[c]) \cap S = {}
  BY <1>6, <1>8
<1>10. Range(h[c]) \subseteq skip
  BY <1>2, <1>7, <1>8, <1>9
<1>11. PICK p \in Range(h[c]) : TRUE
  <2>1. h[c] \in Seq(Commits) /\ h[c] # <<>>
    BY <1>4, <1>8
  <2> QED
    BY <2>1, NotRoot
<1>12. p \in H \cup UNION {Range(h[d]) : d \in U}
  BY <1>8
<1>13. c \in X
  BY <1>3, <1>8, <1>10, <1>11, <1>12
<1> QED
  BY <1>6, <1>8, <1>13

(* Of commits that have their parents among them, all are in a set that has*)
(* those without parent, and each one that has a parent in it.             *)
LEMMA RootsReach ==
    ASSUME IsFiniteSet(Commits), NEW h \in [Commits -> Seq(Commits)], Acyclic(h),
           NEW U \in SUBSET Commits, Closed(U, h), NEW S, Roots(h, U) \subseteq S,
           \A d \in U : Range(h[d]) \cap S # {} => d \in S
    PROVE  U \subseteq S
<1> DEFINE T == U \ S
<1> SUFFICES ASSUME T # {} PROVE FALSE
  OBVIOUS
<1>1. PICK c \in T : Range(h[c]) \cap T = {}
  <2>1. T \in SUBSET Commits
    OBVIOUS
  <2> HIDE DEF T
  <2> QED
    BY <2>1, FirstCommit
<1>2. h[c] # <<>>
  BY <1>1 DEF Roots
<1> HIDE DEF T
<1>3. PICK p \in Range(h[c]) : TRUE
  <2>1. h[c] \in Seq(Commits)
    BY <1>1 DEF T
  <2>2. Range(h[c]) # {}
    BY <1>2, <2>1, NotRoot
  <2> QED
    BY <2>2
<1>4. p \in S
  BY <1>1, <1>3 DEF Closed, T
<1> QED
  BY <1>1, <1>3, <1>4 DEF T

----------------------------------------------------------------------------
(* Types, and the two orders in which a job is described: by its step and  *)
(* by what it looks at.                                                    *)

(* The steps of a job before its commits are analysed.                     *)
Preparing == {"tag", "remove", "save", "retag", "load"}

(* The types of all variables. The engine has every commit that it links   *)
(* another to, links commits to parents of theirs only, and has the heads  *)
(* of a job for which all calls of IngestHead went well; only updates      *)
(* rearrange branches, and have no branch left to visit when they go on.   *)
TypeInv ==
    /\ TypeOK
    /\ parents \in Histories
    /\ pc \in {"idle", "failed", "fetched", "ingested", "analyze", "done"} \cup Preparing
    /\ stack \in Seq(Commits)
    /\ Closed(known, links)
    /\ \A c \in Commits : Range(links[c]) \subseteq Range(parents[c])
    /\ \A c \in Commits \ known : links[c] = <<>>
    /\ pc # "failed" => JobHeads \subseteq known \cup heads
    /\ pc \in {"idle", "ingested", "analyze", "done"} \cup Preparing => heads = {}
    /\ pc \in Preparing \ {"load"} => job = Update
    /\ job = Update /\ pc \in {"load", "analyze", "done", "idle"} => todo = {}

(* What the assumption says of the history of a behaviour.                 *)
LEMMA HistoryFacts ==
    ASSUME RepositoryAnalysisAssumption, parents \in Histories
    PROVE  /\ IsFiniteSet(Commits)
           /\ parents \in [Commits -> Seq(Commits)]
           /\ Acyclic(parents)
           /\ NoCommit \notin Commits
           /\ \A c \in Commits : Range(parents[c]) \in SUBSET Commits
BY RangeOfSeq DEF RepositoryAnalysisAssumption

(* AncestorsLeast of the history of a behaviour.                           *)
LEMMA AncFacts ==
    ASSUME RepositoryAnalysisAssumption, parents \in Histories
    PROVE  \A H \in SUBSET Commits :
             /\ Anc(H) \in SUBSET Commits
             /\ H \subseteq Anc(H)
             /\ Closed(Anc(H), parents)
             /\ \A S \in SUBSET Commits : H \subseteq S /\ Closed(S, parents) => Anc(H) \subseteq S
BY HistoryFacts, AncestorsLeast DEF Anc

(* AncestorsLeast of what the engine has of the history: fewer ancestors.  *)
LEMMA EngineFacts ==
    ASSUME RepositoryAnalysisAssumption, TypeInv
    PROVE  /\ links \in [Commits -> Seq(Commits)]
           /\ Acyclic(links)
           /\ \A c \in Commits : Range(links[c]) \in SUBSET Commits
           /\ \A H \in SUBSET Commits :
                /\ EngineAnc(H) \in SUBSET Commits
                /\ H \subseteq EngineAnc(H)
                /\ Closed(EngineAnc(H), links)
                /\ \A S \in SUBSET Commits : H \subseteq S /\ Closed(S, links) => EngineAnc(H) \subseteq S
                /\ EngineAnc(H) \subseteq Anc(H)
<1>1. /\ links \in [Commits -> Seq(Commits)]
      /\ \A c \in Commits : Range(links[c]) \subseteq Range(parents[c])
  BY DEF TypeInv, TypeOK
<1>2. \A c \in Commits : Range(links[c]) \in SUBSET Commits
  BY <1>1, RangeOfSeq
<1>3. Acyclic(links)
  <2>1. Acyclic(parents)
    BY HistoryFacts DEF TypeInv
  <2> QED
    BY <1>1, <2>1 DEF Acyclic
<1>4. ASSUME NEW H \in SUBSET Commits
      PROVE  /\ EngineAnc(H) \in SUBSET Commits
             /\ H \subseteq EngineAnc(H)
             /\ Closed(EngineAnc(H), links)
             /\ \A S \in SUBSET Commits : H \subseteq S /\ Closed(S, links) => EngineAnc(H) \subseteq S
  <2>1. IsFiniteSet(Commits)
    BY DEF RepositoryAnalysisAssumption
  <2> QED
    BY <1>1, <2>1, AncestorsLeast DEF EngineAnc
<1>5. ASSUME NEW H \in SUBSET Commits PROVE EngineAnc(H) \subseteq Anc(H)
  <2>1. Anc(H) \in SUBSET Commits /\ H \subseteq Anc(H) /\ Closed(Anc(H), parents)
    BY AncFacts DEF TypeInv
  <2>2. Closed(Anc(H), links)
    BY <1>1, <2>1 DEF Closed
  <2> QED
    BY <1>4, <2>1, <2>2
<1> QED
  BY <1>1, <1>2, <1>3, <1>4, <1>5

(* The heads of the branches are commits, each of some branch there is.    *)
LEMMA HeadsOfType ==
    ASSUME NEW bs \in [Branches -> Commits \cup {NoCommit}]
    PROVE  /\ HeadsOf(bs) \in SUBSET Commits
           /\ Names(bs) \in SUBSET Branches
           /\ \A b \in Names(bs) : bs[b] \in HeadsOf(bs)
           /\ \A c \in HeadsOf(bs) : \E b \in Names(bs) : c = bs[b]
           /\ Names(bs) = {} => HeadsOf(bs) = {}
BY DEF HeadsOf, Names, Range

(* What a job looks at, and what its start points lead to.                 *)
LEMMA JobTypes ==
    ASSUME RepositoryAnalysisAssumption, TypeInv
    PROVE  /\ SeenAtStart \in SUBSET Commits
           /\ Closed(SeenAtStart, links)
           /\ JobHeads \in SUBSET Commits
           /\ Unseen \in SUBSET Commits
           /\ newCommits \in SUBSET known
           /\ start \subseteq newCommits
<1>1. /\ known \in SUBSET Commits /\ start \in SUBSET known
      /\ branches \in [Branches -> Commits \cup {NoCommit}]
      /\ analyzed \in [Branches -> Commits \cup {NoCommit}]
      /\ job \in Pulls \cup {Update}
  BY DEF TypeInv, TypeOK
<1>2. parents \in Histories
  BY DEF TypeInv
<1>3. SeenAtStart \in SUBSET Commits /\ Closed(SeenAtStart, links)
  <2> DEFINE H == (HeadsOf(analyzed) \cup (IF job = Update THEN {} ELSE {analyzedHead})) \cap known
  <2>1. H \in SUBSET Commits
    BY <1>1
  <2>2. SeenAtStart = EngineAnc(H)
    BY DEF SeenAtStart
  <2> HIDE DEF H
  <2> QED
    BY <2>1, <2>2, EngineFacts
<1>4. JobHeads \in SUBSET Commits
  <2>1. CASE job = Update
    BY <1>1, <2>1, HeadsOfType DEF JobHeads
  <2>2. CASE job # Update
    <3>1. job \in [head : Commits, base : Commits, fork : BOOLEAN]
      BY <1>1, <2>2 DEF RepositoryAnalysisAssumption
    <3> QED
      BY <2>2, <3>1 DEF JobHeads
  <2> QED
    BY <2>1, <2>2
<1>5. Unseen \in SUBSET Commits
  BY <1>2, <1>4, HistoryFacts, UnseenLeast DEF Unseen
<1>6. newCommits \in SUBSET known /\ start \subseteq newCommits
  BY <1>1, <1>2, HistoryFacts, EngineFacts, SuccessorsLeast DEF newCommits
<1> QED
  BY <1>3, <1>4, <1>5, <1>6

(* The orders in which children or start points are put on the stack.      *)
LEMMA OrderOfSet ==
    ASSUME NEW S, IsFiniteSet(S), NEW order \in SetToSeqs(S)
    PROVE  order \in Seq(S) /\ Range(order) = S
<1> DEFINE n == Cardinality(S)
<1>1. n \in Nat
  BY FS_CardinalityType
<1>2. order \in [1 .. n -> S] /\ \A i, j \in 1 .. n : i # j => order[i] # order[j]
  BY DEF SetToSeqs
<1>3. IsFiniteSet(1 .. n) /\ Cardinality(1 .. n) = n
  BY <1>1, FS_Interval
<1>4. order \in Injection(1 .. n, S)
  BY <1>2 DEF Injection, IsInjective
<1>5. order \in Surjection(1 .. n, S)
  BY <1>3, <1>4, FS_Injection
<1>6. Range(order) = S
  BY <1>2, <1>5 DEF Surjection, Range
<1>7. order \in Seq(S)
  <2> HIDE DEF n
  <2> QED
    BY <1>1, <1>2
<1> QED
  BY <1>6, <1>7

(* TypeOK, variable by variable.                                           *)
Types ==
    /\ branches \in [Branches -> Commits \cup {NoCommit}]
    /\ analyzed \in [Branches -> Commits \cup {NoCommit}]
    /\ tags \in [Commits -> SUBSET Branches]
    /\ mem \in [Commits -> SUBSET Branches]
    /\ stored \in SUBSET Commits /\ pulled \in SUBSET stored
    /\ \A c \in Commits \ stored : tags[c] = {}
    /\ links \in [Commits -> Seq(Commits)]
    /\ known \in SUBSET Commits /\ read \in SUBSET known /\ heads \in SUBSET Commits
    /\ start \in SUBSET known /\ seen \in SUBSET known /\ Range(stack) \in SUBSET known
    /\ todo \in SUBSET Branches /\ affected \in SUBSET Branches
    /\ job \in Pulls \cup {Update} /\ analyzedHead \in Commits \cup {NoCommit}

(* TypeOK says that of each variable, before and after a step.             *)
LEMMA TypesOK == (TypeOK <=> Types) /\ (TypeOK' <=> Types')
BY DEF TypeOK, Types

(* The types hold initially.                                               *)
LEMMA InitTypeInv == ASSUME RepositoryAnalysisAssumption, Init PROVE TypeInv
<1> USE DEF Init
<1>1. HeadsOf(branches) = {}
  BY DEF HeadsOf, Range
<1>2. JobHeads = {}
  BY <1>1 DEF JobHeads
<1>3. Types
  BY RangeEmpty DEF Types
<1>4. parents \in Histories /\ stack \in Seq(Commits) /\ Closed(known, links)
  BY DEF Closed
<1>5. \A c \in Commits : links[c] = <<>> /\ Range(links[c]) \subseteq Range(parents[c])
  BY RangeEmpty
<1> QED
  BY <1>2, <1>3, <1>4, <1>5, TypesOK DEF TypeInv, Preparing

(* The first step of a job keeps the types.                                *)
LEMMA FetchTypeInv ==
    ASSUME RepositoryAnalysisAssumption, TypeInv, UpdateRepository \/ UpdatePullRequest
    PROVE  TypeInv'
<1>1. Types
  BY TypesOK DEF TypeInv
<1>2. /\ Fetch /\ pc' = "fetched"
      /\ \/ job' = Update /\ heads' = HeadsOf(branches')
         \/ job' \in Pulls /\ heads' = {job'.head, job'.base}
  BY DEF UpdateRepository, UpdatePullRequest, Fetch
<1>3. branches' \in [Branches -> Commits \cup {NoCommit}]
  BY <1>2 DEF Fetch
<1>4. /\ UNCHANGED <<parents, repo>>
      /\ affected' = {} /\ todo' = {} /\ start' = {} /\ stack' = <<>> /\ seen' = {}
  BY <1>2 DEF Fetch
<1>5. heads' \in SUBSET Commits /\ JobHeads' \subseteq heads'
  <2>1. CASE job' = Update /\ heads' = HeadsOf(branches')
    <3>1. HeadsOf(branches') \in SUBSET Commits
      BY <1>3, HeadsOfType
    <3>2. JobHeads' = HeadsOf(branches')
      BY <2>1 DEF JobHeads, HeadsOf, Update
    <3> QED
      BY <2>1, <3>1, <3>2
  <2>2. CASE job' \in Pulls /\ heads' = {job'.head, job'.base}
    <3>1. job'.head \in Commits /\ job'.base \in Commits /\ job'.head # NoCommit
      BY <2>2 DEF RepositoryAnalysisAssumption
    <3>2. job' # Update
      BY <3>1 DEF Update
    <3>3. JobHeads' = {job'.head}
      BY <3>2 DEF JobHeads, Update
    <3> QED
      BY <2>2, <3>1, <3>3
  <2> QED
    BY <1>2, <2>1, <2>2
<1>6. /\ links' \in [Commits -> Seq(Commits)] /\ mem' \in [Commits -> SUBSET Branches]
      /\ known' \in SUBSET Commits /\ read' \in SUBSET known' /\ Closed(known', links')
      /\ \A c \in Commits : Range(links'[c]) \subseteq Range(parents[c])
      /\ \A c \in Commits \ known' : links'[c] = <<>>
  <2>1. CASE UNCHANGED engine
    BY <1>1, <2>1 DEF TypeInv, Types, engine
  <2>2. CASE /\ known' = {} /\ read' = {}
             /\ links' = [c \in Commits |-> <<>>]
             /\ mem' = [c \in Commits |-> {}]
    BY <2>2, RangeEmpty DEF Closed
  <2> QED
    BY <1>2, <2>1, <2>2 DEF Fetch
<1>7. Types'
  BY <1>1, <1>2, <1>3, <1>4, <1>5, <1>6, RangeEmpty DEF Types, repo, marks, Update
<1>8. (Closed(known, links) /\ \A c \in Commits : Range(links[c]) \subseteq Range(parents[c]))'
  BY <1>4, <1>6
<1>9. (parents \in Histories)' /\ (stack \in Seq(Commits))' /\ todo' = {}
  BY <1>2, <1>4 DEF TypeInv
<1> QED
  BY <1>2, <1>5, <1>6, <1>7, <1>8, <1>9, TypesOK DEF TypeInv, Preparing

(* The calls of IngestHead, those that go well and those that do not.      *)
IngestStep == \E h \in Commits : IngestHead(h) \/ IngestFails(h)

(* What a call has read, it has registered, with the parents it has linked;*)
(* so every link leads to a registered commit.                             *)
LEMMA IngestLinks ==
    ASSUME RepositoryAnalysisAssumption, TypeInv, NEW h \in Commits, NEW new \in SUBSET Commits,
           NEW cut, NEW n \in Nat, cut \in Commits => n <= Len(parents[cut]),
           new \cap known = {},
           links' = LinksAfter(parents, links, new, cut, n),
           known' \in SUBSET Commits, known \subseteq known', new \subseteq known',
           \A c \in new : Range(links'[c]) \subseteq known'
    PROVE  /\ links' \in [Commits -> Seq(Commits)]
           /\ Closed(known', links')
           /\ \A c \in Commits : Range(links'[c]) \subseteq Range(parents[c])
           /\ \A c \in Commits \ known' : links'[c] = <<>>
<1>1. /\ parents \in [Commits -> Seq(Commits)] /\ links \in [Commits -> Seq(Commits)]
      /\ known \in SUBSET Commits /\ Closed(known, links)
      /\ \A c \in Commits : Range(links[c]) \subseteq Range(parents[c])
      /\ \A c \in Commits \ known : links[c] = <<>>
  BY HistoryFacts DEF TypeInv, TypeOK
<1> DEFINE cutShort(c) == SubSeq(parents[c], 1, n)
           value(c) == IF c \notin new THEN links[c]
                       ELSE IF c = cut THEN cutShort(c) ELSE parents[c]
<1>2. ASSUME NEW c \in Commits, n <= Len(parents[c])
      PROVE  cutShort(c) \in Seq(Commits) /\ Range(cutShort(c)) \subseteq Range(parents[c])
  <2>1. parents[c] \in Seq(Commits) /\ Len(parents[c]) \in Nat
    BY <1>1
  <2>2. cutShort(c) = [i \in 1 .. n |-> parents[c][i]]
    BY <2>1
  <2>3. \A i \in 1 .. n : i \in DOMAIN parents[c] /\ parents[c][i] \in Commits
    BY <1>2, <2>1
  <2>4. [i \in 1 .. n |-> parents[c][i]] \in Seq(Commits)
    BY <2>3
  <2> HIDE DEF cutShort
  <2>5. Range(cutShort(c)) \subseteq Range(parents[c])
    BY <2>2, <2>3 DEF Range
  <2> QED
    BY <2>2, <2>4, <2>5
<1> HIDE DEF cutShort
<1>3. ASSUME NEW c \in Commits
      PROVE  value(c) \in Seq(Commits) /\ Range(value(c)) \subseteq Range(parents[c])
  <2>1. CASE c \in new /\ c = cut
    BY <1>2, <2>1
  <2>2. CASE ~(c \in new /\ c = cut)
    BY <1>1, <2>2
  <2> QED
    BY <2>1, <2>2
<1>4. links' = [c \in Commits |-> value(c)]
  <2>1. DOMAIN parents = Commits
    BY <1>1
  <2> QED
    BY <2>1 DEF LinksAfter, cutShort
<1>5. \A c \in Commits \ new : links'[c] = links[c]
  BY <1>4
<1> HIDE DEF value
<1>6. links' \in [Commits -> Seq(Commits)]
  BY <1>3, <1>4
<1>7. \A c \in Commits : Range(links'[c]) \subseteq Range(parents[c])
  BY <1>3, <1>4
<1>8. Closed(known', links')
  <2> SUFFICES ASSUME NEW c \in known' PROVE Range(links'[c]) \subseteq known'
    BY DEF Closed
  <2>1. CASE c \in new
    BY <2>1
  <2>2. CASE c \in known
    BY <1>1, <1>5, <2>2 DEF Closed
  <2>3. CASE c \notin new /\ c \notin known
    <3>1. links'[c] = <<>>
      BY <1>1, <1>5, <2>3
    <3> QED
      BY <3>1, RangeEmpty
  <2> QED
    BY <2>1, <2>2, <2>3
<1>9. \A c \in Commits \ known' : links'[c] = <<>>
  BY <1>1, <1>5
<1> QED
  BY <1>6, <1>7, <1>8, <1>9

(* What a call registers, and how it links it: all that was missing when it*)
(* goes well; when it fails, what it read was met on its way.              *)
LEMMA IngestedFacts ==
    ASSUME RepositoryAnalysisAssumption, TypeInv, NEW h \in Commits,
           IngestHead(h) \/ IngestFails(h)
    PROVE  /\ links' \in [Commits -> Seq(Commits)]
           /\ Closed(known', links')
           /\ \A c \in Commits : Range(links'[c]) \subseteq Range(parents[c])
           /\ \A c \in Commits \ known' : links'[c] = <<>>
           /\ known' \in SUBSET Commits /\ read' \in SUBSET known'
           /\ known \cup {h} \subseteq known'
<1> DEFINE U == UnseenAncestors(parents, known, {h})
<1>1. /\ IsFiniteSet(Commits) /\ parents \in [Commits -> Seq(Commits)]
      /\ NoCommit \notin Commits /\ known \in SUBSET Commits /\ read \in SUBSET known
      /\ \A c \in Commits : Range(parents[c]) \in SUBSET Commits
  BY HistoryFacts DEF TypeInv, TypeOK
<1>2. /\ U \in SUBSET Commits /\ U \cap known = {} /\ {h} \ known \subseteq U
      /\ \A c \in U : Range(parents[c]) \ known \subseteq U
  <2> DEFINE H == {h}
  <2>1. H \in SUBSET Commits
    OBVIOUS
  <2> HIDE DEF H
  <2>2. /\ UnseenAncestors(parents, known, H) \in SUBSET Commits
        /\ UnseenAncestors(parents, known, H) \cap known = {}
        /\ H \ known \subseteq UnseenAncestors(parents, known, H)
        /\ \A c \in UnseenAncestors(parents, known, H) :
             Range(parents[c]) \ known \subseteq UnseenAncestors(parents, known, H)
    BY <1>1, <2>1, UnseenLeast
  <2> QED
    BY <2>2 DEF H
<1> HIDE DEF U
<1>3. CASE IngestHead(h)
  <2>1. /\ known' = known \cup U /\ read' = read \cup U
        /\ links' = LinksAfter(parents, links, U, NoCommit, 0)
    BY <1>3 DEF IngestHead, U
  <2>2. \A c \in U : links'[c] = parents[c]
    BY <1>1, <1>2, <2>1 DEF LinksAfter
  <2>3. \A c \in U : Range(links'[c]) \subseteq known'
    BY <1>2, <2>1, <2>2
  <2>4. known' \in SUBSET Commits /\ known \subseteq known' /\ U \subseteq known'
    BY <1>1, <1>2, <2>1
  <2>5. 0 \in Nat /\ (NoCommit \in Commits => 0 <= Len(parents[NoCommit]))
    BY <1>1
  <2>6. /\ links' \in [Commits -> Seq(Commits)]
        /\ Closed(known', links')
        /\ \A c \in Commits : Range(links'[c]) \subseteq Range(parents[c])
        /\ \A c \in Commits \ known' : links'[c] = <<>>
    BY <1>2, <2>1, <2>3, <2>4, <2>5, IngestLinks
  <2> QED
    BY <1>1, <1>2, <2>1, <2>4, <2>6
<1>4. CASE IngestFails(h)
  <2> DEFINE Left(cut, new, n) ==
                /\ read' = read \cup new
                /\ links' = LinksAfter(parents, links, new, cut, n)
                /\ known' = known \cup {h} \cup UNION {Range(links'[c]) : c \in new}
  <2>c. PICK cut \in U : \E new \in ReadInPart(parents, known, h, cut),
                            n \in 0 .. Len(parents[cut]) : Left(cut, new, n)
    BY <1>4 DEF IngestFails, U
  <2>n. PICK new \in ReadInPart(parents, known, h, cut), n \in 0 .. Len(parents[cut]) :
          Left(cut, new, n)
    BY <2>c
  <2>1. /\ read' = read \cup new
        /\ links' = LinksAfter(parents, links, new, cut, n)
        /\ known' = known \cup {h} \cup UNION {Range(links'[c]) : c \in new}
        /\ cut \in U /\ new \in ReadInPart(parents, known, h, cut) /\ n \in 0 .. Len(parents[cut])
    BY <2>n
  <2>2. /\ new \in SUBSET U /\ cut \in Commits
        /\ new = Reach(Parents(parents), {h}, Commits \ new, {cut})
    <3>1. DOMAIN parents = Commits
      BY <1>1
    <3> QED
      BY <1>2, <2>1, <3>1 DEF ReadInPart, U
  <2>3. n \in Nat /\ n <= Len(parents[cut])
    BY <1>1, <2>1, <2>2
  <2>4. \A c \in new \ {cut} : links'[c] = parents[c]
    BY <1>1, <1>2, <2>1, <2>2 DEF LinksAfter
  <2>5. /\ Parents(parents) \in [Commits -> SUBSET Commits]
        /\ \A c \in Commits : Parents(parents)[c] = Range(parents[c])
    BY <1>1, ParentsType
  <2>6. new \subseteq known'
    <3> DEFINE S == known' \cap new
               skip == Commits \ new
    <3>1. S \in SUBSET Commits
      BY <1>2, <2>2
    <3>2. {h} \ skip \subseteq S
      BY <2>1
    <3>3. ASSUME NEW c \in S \ {cut} PROVE Parents(parents)[c] \ skip \subseteq S
      <4>1. c \in new \ {cut} /\ c \in Commits
        BY <3>1
      <4>2. Parents(parents)[c] = Range(links'[c]) /\ Range(parents[c]) \in SUBSET Commits
        BY <1>1, <2>4, <2>5, <4>1
      <4>3. Range(links'[c]) \subseteq known'
        BY <2>1, <4>1
      <4> QED
        BY <2>5, <4>1, <4>2, <4>3
    <3>4. IsReach(new, Commits, Parents(parents), {h}, skip, {cut})
      <4> DEFINE H == {h}
                 next == Parents(parents)
                 until == {cut}
      <4>1. H \in SUBSET Commits /\ next \in [Commits -> SUBSET Commits]
        BY <2>5
      <4> HIDE DEF H, next, until, skip
      <4>2. IsReach(Reach(next, H, skip, until), Commits, next, H, skip, until)
        BY <1>1, <4>1, ReachLeast
      <4>3. new = Reach(next, H, skip, until)
        BY <2>2 DEF H, next, until, skip
      <4> QED
        BY <4>2, <4>3 DEF H, next, until
    <3> HIDE DEF S, skip
    <3>5. Holds(S, Parents(parents), {h}, skip, {cut})
      BY <3>2, <3>3 DEF Holds
    <3>6. new \subseteq S
      BY <3>1, <3>4, <3>5 DEF IsReach
    <3> QED
      BY <3>6 DEF S
  <2>7. \A c \in new : Range(links'[c]) \subseteq known'
    BY <2>1
  <2>8. known' \in SUBSET Commits
    <3>1. \A c \in new : Range(links'[c]) \in SUBSET Commits
      <4> SUFFICES ASSUME NEW c \in new PROVE Range(links'[c]) \in SUBSET Commits
        OBVIOUS
      <4>1. CASE c # cut
        BY <1>1, <1>2, <2>2, <2>4, <4>1
      <4>2. CASE c = cut
        <5>1. links'[c] = SubSeq(parents[cut], 1, n)
          BY <1>1, <2>1, <2>2, <4>2 DEF LinksAfter
        <5>2. SubSeq(parents[cut], 1, n) \in Seq(Commits)
          <6>1. parents[cut] \in Seq(Commits) /\ Len(parents[cut]) \in Nat
            BY <1>1, <2>2
          <6>2. \A i \in 1 .. n : i \in 1 .. Len(parents[cut])
            BY <2>3, <6>1
          <6> QED
            BY <2>3, <6>1, <6>2
        <5> QED
          BY <5>1, <5>2, RangeOfSeq
      <4> QED
        BY <4>1, <4>2
    <3> QED
      BY <1>1, <2>1, <3>1
  <2>9. known \subseteq known' /\ new \in SUBSET Commits /\ new \cap known = {}
    BY <1>2, <2>1, <2>2
  <2>10. /\ links' \in [Commits -> Seq(Commits)]
         /\ Closed(known', links')
         /\ \A c \in Commits : Range(links'[c]) \subseteq Range(parents[c])
         /\ \A c \in Commits \ known' : links'[c] = <<>>
    BY <2>1, <2>3, <2>6, <2>7, <2>8, <2>9, IngestLinks
  <2> QED
    BY <1>1, <2>1, <2>6, <2>8, <2>10
<1> QED
  BY <1>3, <1>4

(* The calls of IngestHead keep the types.                                 *)
LEMMA IngestTypeInv ==
    ASSUME RepositoryAnalysisAssumption, TypeInv, IngestStep
    PROVE  TypeInv'
<1>1. PICK h \in Commits : IngestHead(h) \/ IngestFails(h)
  BY DEF IngestStep
<1>2. /\ links' \in [Commits -> Seq(Commits)]
      /\ Closed(known', links')
      /\ \A c \in Commits : Range(links'[c]) \subseteq Range(parents[c])
      /\ \A c \in Commits \ known' : links'[c] = <<>>
      /\ known' \in SUBSET Commits /\ read' \in SUBSET known'
      /\ known \cup {h} \subseteq known'
  BY <1>1, IngestedFacts
<1>3. /\ UNCHANGED <<parents, branches, repo, mem, job, todo, affected, start, stack, seen>>
      /\ pc = "fetched"
      /\ \/ heads' = heads \ {h} /\ pc' = IF heads' = {} THEN "ingested" ELSE "fetched"
         \/ heads' = {} /\ pc' = "failed"
  BY <1>1 DEF IngestHead, IngestFails, IsNextHead
<1>4. Types
  BY TypesOK DEF TypeInv
<1>5. Types'
  BY <1>2, <1>3, <1>4 DEF Types, repo, marks
<1>6. JobHeads' = JobHeads
  BY <1>3 DEF JobHeads
<1>7. pc' # "failed" => JobHeads' \subseteq known' \cup heads'
  BY <1>2, <1>3, <1>6 DEF TypeInv
<1>8. (parents \in Histories)' /\ (stack \in Seq(Commits))'
  BY <1>3 DEF TypeInv
<1> QED
  BY <1>2, <1>3, <1>5, <1>7, <1>8, TypesOK DEF TypeInv, Preparing

(* The steps of a job that has its heads in the engine, or fails.          *)
JobStep ==
    \/ FindStartPoints \/ TagAndRearrange
    \/ \E b \in Branches : RemoveBranch(b) \/ Retag(b)
    \/ Prune \/ SaveBranchesEarly \/ RetagFails \/ Rearranged
    \/ LoadFiles \/ AnalyzeCommit \/ SkipSeen \/ SaveBranches \/ Succeed
    \/ Fail

(* Every step is the first of a job, a call of IngestHead, or another.     *)
LEMMA NextIsFetchOrStep == Next => UpdateRepository \/ UpdatePullRequest \/ IngestStep \/ JobStep
BY DEF Next, JobStep, IngestStep

(* The others are taken between the calls of IngestHead and the end.       *)
LEMMA JobStepsFrom ==
    JobStep => /\ pc \notin {"idle", "failed"} /\ pc' \notin {"fetched", "ingested"}
               /\ pc' # "failed" => pc # "fetched"
BY DEF JobStep, FindStartPoints, TagAndRearrange, RemoveBranch, Retag, Prune, SaveBranchesEarly,
       RetagFails, Rearranged, LoadFiles, RunFrom, AnalyzeCommit, SkipSeen, SaveBranches, Succeed,
       Fail

(* None of the others fetches or ingests.                                  *)
LEMMA JobGoesOn ==
    ASSUME JobStep
    PROVE  UNCHANGED <<parents, branches, known, read, links, heads, job, jobs, fit, whole>>
<1> USE DEF history, engine
<1>1. CASE FindStartPoints
  BY <1>1 DEF FindStartPoints
<1>2. CASE TagAndRearrange
  BY <1>2 DEF TagAndRearrange
<1>3. ASSUME NEW b \in Branches, RemoveBranch(b) \/ Retag(b)
      PROVE  UNCHANGED <<parents, branches, known, read, links, heads, job, jobs, fit, whole>>
  BY <1>3 DEF RemoveBranch, Retag
<1>4. CASE Prune
  BY <1>4 DEF Prune
<1>5. CASE SaveBranchesEarly
  BY <1>5 DEF SaveBranchesEarly
<1>6. CASE RetagFails
  BY <1>6 DEF RetagFails
<1>7. CASE Rearranged
  BY <1>7 DEF Rearranged
<1>8. CASE LoadFiles
  BY <1>8 DEF LoadFiles
<1>9. CASE AnalyzeCommit
  BY <1>9 DEF AnalyzeCommit
<1>10. CASE SkipSeen
  BY <1>10 DEF SkipSeen
<1>11. CASE SaveBranches
  BY <1>11 DEF SaveBranches
<1>12. CASE Succeed
  BY <1>12 DEF Succeed
<1>13. CASE Fail
  BY <1>13 DEF Fail
<1> QED
  BY <1>1, <1>2, <1>3, <1>4, <1>5, <1>6, <1>7, <1>8, <1>9, <1>10, <1>11, <1>12, <1>13
     DEF JobStep

(* Where a job starts: commits of the engine that were not seen and whose  *)
(* parents were.                                                           *)
LEMMA StartPointsFresh ==
    ASSUME RepositoryAnalysisAssumption, TypeInv
    PROVE  /\ StartPoints \in SUBSET known
           /\ StartPoints \cap SeenAtStart = {}
           /\ \A c \in StartPoints : Range(links[c]) \subseteq SeenAtStart
<1>1. /\ IsFiniteSet(Commits) /\ links \in [Commits -> Seq(Commits)]
      /\ known \in SUBSET Commits /\ JobHeads \in SUBSET Commits /\ read \in SUBSET known
      /\ \A c \in Commits : Range(links[c]) \subseteq Range(parents[c])
  BY HistoryFacts, JobTypes DEF TypeInv, TypeOK
<1>2. CASE job = Update /\ Names(analyzed) = {}
  <2>1. analyzed \in [Branches -> Commits \cup {NoCommit}]
    BY DEF TypeInv, TypeOK
  <2>2. HeadsOf(analyzed) = {}
    BY <1>2, <2>1, HeadsOfType
  <2>3. SeenAtStart = EngineAnc({})
    BY <1>2, <2>2 DEF SeenAtStart
  <2>4. EngineAnc({}) \subseteq {}
    <3>1. {} \in SUBSET Commits /\ Closed({}, links)
      BY DEF Closed
    <3> QED
      BY <3>1, EngineFacts
  <2>5. StartPoints = Roots(parents, read)
    BY <1>2 DEF StartPoints
  <2>6. \A c \in StartPoints : c \in known /\ Range(links[c]) = {}
    BY <1>1, <2>5, RangeEmpty DEF Roots
  <2> QED
    BY <2>3, <2>4, <2>6
<1>3. CASE ~(job = Update /\ Names(analyzed) = {})
  <2>1. StartPoints = UnseenRoots(links, known, SeenAtStart, JobHeads)
    BY <1>3 DEF StartPoints
  <2> QED
    BY <1>1, <2>1, UnseenRootsFresh
<1> QED
  BY <1>2, <1>3

(* What LoadFiles starts the walk from.                                    *)
LEMMA LoadFilesStarts ==
    ASSUME RepositoryAnalysisAssumption, TypeInv, LoadFiles
    PROVE  /\ start' \in SUBSET known /\ seen' = {}
           /\ stack' \in Seq(Commits) /\ Range(stack') = start'
           /\ pc = "load" /\ pc' = IF start' = {} THEN "done" ELSE "analyze"
           /\ \/ start' = {} /\ start = {}
              \/ start' = start
              \/ \E l \in stored : start' =
                    UnseenRoots(links, known, SeenAtStart \cup {l}, JobHeads)
           /\ start = {} => start' = {}
<1>1. /\ IsFiniteSet(Commits) /\ links \in [Commits -> Seq(Commits)]
      /\ known \in SUBSET Commits /\ start \in SUBSET known /\ JobHeads \in SUBSET Commits
  BY HistoryFacts, JobTypes DEF TypeInv, TypeOK
<1>2. PICK from :
        /\ RunFrom(from)
        /\ \/ from = {} /\ start = {}
           \/ from = start
           \/ /\ start # {}
              /\ \E l \in stored : from =
                    UnseenRoots(links, known, SeenAtStart \cup {l}, JobHeads)
  <2>1. CASE start = {}
    BY <2>1 DEF LoadFiles
  <2>2. CASE start # {}
    <3>1. PICK loaded \in Loaded :
            LET more == SeenAtStart \cup (loaded \cap known)
            IN  IF more = SeenAtStart THEN RunFrom(start)
                ELSE RunFrom(UnseenRoots(links, known, more, JobHeads))
      BY <2>2 DEF LoadFiles
    <3> DEFINE more == SeenAtStart \cup (loaded \cap known)
    <3>2. CASE more = SeenAtStart
      BY <3>1, <3>2
    <3>3. CASE more # SeenAtStart
      <4>1. loaded # {}
        BY <3>3
      <4>2. PICK l \in stored : loaded = {l}
        BY <4>1 DEF Loaded
      <4>3. more = SeenAtStart \cup {l}
        BY <3>3, <4>2
      <4> QED
        BY <2>2, <3>1, <3>3, <4>3
    <3> QED
      BY <3>2, <3>3
  <2> QED
    BY <2>1, <2>2
<1>3. from \in SUBSET known
  <2>1. \A more : UnseenRoots(links, known, more, JobHeads) \in SUBSET known
    BY <1>1, UnseenRootsFresh
  <2> QED
    BY <1>1, <1>2, <2>1
<1>4. /\ start' = from /\ seen' = {} /\ pc' = IF from = {} THEN "done" ELSE "analyze"
      /\ \E order \in SetToSeqs(from) : stack' = order
  BY <1>2 DEF RunFrom
<1>5. stack' \in Seq(from) /\ Range(stack') = from
  <2>1. IsFiniteSet(from)
    BY <1>1, <1>3, FS_Subset
  <2> QED
    BY <1>4, <2>1, OrderOfSet
<1>6. stack' \in Seq(Commits)
  BY <1>1, <1>3, <1>5
<1>7. pc = "load"
  BY DEF LoadFiles
<1> QED
  BY <1>2, <1>3, <1>4, <1>5, <1>6, <1>7

(* What the walk does when it analyses a commit.                           *)
LEMMA AnalyzeCommitWalks ==
    ASSUME RepositoryAnalysisAssumption, TypeInv, AnalyzeCommit
    PROVE  /\ top \in Range(stack) /\ top \in known /\ top \in Commits
           /\ stack' \in Seq(Commits)
           /\ Range(stack) = Range(popped) \cup {top}
           /\ Range(stack') = Range(popped) \cup {d \in known : top \in Range(links[d])}
<1>1. /\ IsFiniteSet(Commits) /\ links \in [Commits -> Seq(Commits)]
      /\ known \in SUBSET Commits /\ stack \in Seq(Commits) /\ Range(stack) \in SUBSET known
  BY HistoryFacts DEF TypeInv, TypeOK
<1>2. /\ top \in Commits /\ popped \in Seq(Commits)
      /\ Range(stack) = Range(popped) \cup {top}
  <2>1. stack # <<>>
    BY DEF AnalyzeCommit
  <2> QED
    BY <1>1, <2>1, RangePop DEF top, popped
<1> DEFINE next == Children(links, known)[top]
<1>3. next = {d \in known : top \in Range(links[d])}
  <2>1. DOMAIN links = Commits
    BY <1>1
  <2> QED
    BY <1>2, <2>1 DEF Children
<1>4. PICK order \in SetToSeqs(next) : stack' = popped \o order
  BY DEF AnalyzeCommit
<1>5. IsFiniteSet(next)
  BY <1>1, <1>3, FS_Subset
<1> HIDE DEF next
<1>6. order \in Seq(next) /\ Range(order) = next
  BY <1>4, <1>5, OrderOfSet
<1>7. order \in Seq(Commits)
  BY <1>1, <1>3, <1>6
<1>8. stack' \in Seq(Commits) /\ Range(stack') = Range(popped) \cup Range(order)
  BY <1>2, <1>4, <1>7, RangeConcatenation
<1> QED
  BY <1>1, <1>2, <1>3, <1>6, <1>8

(* What TypeInv says of the variables that the steps of a job change.      *)
StepTypes ==
    /\ Types
    /\ pc \in {"idle", "failed", "fetched", "ingested", "analyze", "done"} \cup Preparing
    /\ stack \in Seq(Commits)
    /\ pc \in Preparing \ {"load"} => job = Update
    /\ job = Update /\ pc \in {"load", "analyze", "done", "idle"} => todo = {}

(* The other steps of a job keep the types.                                *)
LEMMA StepTypeInv ==
    ASSUME RepositoryAnalysisAssumption, TypeInv, JobStep
    PROVE  TypeInv'
<1>1. StepTypes
  BY TypesOK DEF TypeInv, StepTypes
<1>2. UNCHANGED <<parents, branches, known, links, heads, job>>
  BY JobGoesOn
<1>3. /\ (parents \in Histories)' /\ Closed(known, links)' /\ JobHeads' = JobHeads
      /\ (\A c \in Commits : Range(links[c]) \subseteq Range(parents[c]))'
      /\ (\A c \in Commits \ known : links[c] = <<>>)'
  BY <1>2 DEF TypeInv, JobHeads
<1>s. /\ pc' # "failed" => JobHeads' \subseteq known' \cup heads'
      /\ pc' \in {"idle", "ingested", "analyze", "done"} \cup Preparing => heads' = {}
  BY <1>2, <1>3, JobStepsFrom DEF TypeInv, Preparing
<1> SUFFICES StepTypes'
  BY <1>3, <1>s, TypesOK DEF TypeInv, StepTypes
<1> USE DEF Preparing, repo, marks, engine
<1>4. CASE FindStartPoints
  <2>1. StartPoints \in SUBSET known
    BY StartPointsFresh
  <2> QED
    BY <1>1, <1>4, <2>1 DEF FindStartPoints, StepTypes, Types
<1>5. CASE TagAndRearrange
  <2>1. Tagged \in [Commits -> SUBSET Branches]
    BY <1>1 DEF Tagged, Names, StepTypes, Types
  <2>2. Names(branches) \in SUBSET Branches /\ DeletedBranches \in SUBSET Branches
    BY <1>1 DEF DeletedBranches, Names, StepTypes, Types
  <2>3. \A tagged \in [Commits -> SUBSET Branches] : MergedInto(tagged) \in SUBSET Branches
    <3>1. newCommits \in SUBSET Commits
      BY <1>1, JobTypes DEF StepTypes, Types
    <3> QED
      BY <3>1 DEF MergedInto
  <2>4. RewoundOrAdded \cup MergedInto(Tagged) \in SUBSET Branches
    BY <2>1, <2>2, <2>3 DEF RewoundOrAdded
  <2> QED
    BY <1>1, <1>5, <2>1, <2>2, <2>4 DEF TagAndRearrange, StepTypes, Types
<1>6. ASSUME NEW b \in Branches, RemoveBranch(b) PROVE StepTypes'
  <2>1. tags' \in [Commits -> SUBSET Branches] /\ \A c \in Commits \ stored : tags'[c] = {}
    BY <1>1, <1>6 DEF RemoveBranch, StepTypes, Types
  <2> QED
    BY <1>1, <1>6, <2>1 DEF RemoveBranch, StepTypes, Types
<1>7. ASSUME NEW b \in Branches, Retag(b) PROVE StepTypes'
  <2>1. tags' \in [Commits -> SUBSET Branches] /\ \A c \in Commits \ stored : tags'[c] = {}
    BY <1>1, <1>7 DEF Retag, ReTagBranch, StepTypes, Types
  <2> QED
    BY <1>1, <1>7, <2>1 DEF Retag, StepTypes, Types
<1>8. CASE Prune
  <2>1. /\ stored' \in SUBSET stored /\ pulled \subseteq stored'
        /\ tags' = [c \in Commits |-> IF c \in stored' THEN tags[c] ELSE {}]
    BY <1>1, <1>8 DEF Prune, StepTypes, Types
  <2>2. tags' \in [Commits -> SUBSET Branches] /\ \A c \in Commits \ stored' : tags'[c] = {}
    BY <1>1, <2>1 DEF StepTypes, Types
  <2>3. AddedBranches \in SUBSET Branches
    BY <1>1 DEF AddedBranches, Names, StepTypes, Types
  <2> QED
    BY <1>1, <1>8, <2>1, <2>2, <2>3 DEF Prune, StepTypes, Types
<1>9. CASE SaveBranchesEarly
  BY <1>1, <1>9 DEF SaveBranchesEarly, StepTypes, Types
<1>10. CASE RetagFails
  <2>1. PICK b \in todo : tags' \in {tags, [c \in Commits |-> tags[c] \ {b}]}
    BY <1>10 DEF RetagFails
  <2>2. tags' \in [Commits -> SUBSET Branches] /\ \A c \in Commits \ stored : tags'[c] = {}
    BY <1>1, <2>1 DEF StepTypes, Types
  <2> QED
    BY <1>1, <1>10, <2>2 DEF RetagFails, StepTypes, Types
<1>11. CASE Rearranged
  BY <1>1, <1>11 DEF Rearranged, StepTypes, Types
<1>12. CASE LoadFiles
  <2>1. /\ start' \in SUBSET known /\ seen' = {}
        /\ stack' \in Seq(Commits) /\ Range(stack') = start'
        /\ pc = "load" /\ pc' \in {"done", "analyze"}
    BY <1>12, LoadFilesStarts
  <2>2. UNCHANGED <<branches, repo, engine, job, heads, todo, affected>>
    BY <1>12 DEF LoadFiles
  <2> QED
    BY <1>1, <2>1, <2>2 DEF StepTypes, Types
<1>13. CASE AnalyzeCommit
  <2>1. /\ top \in known /\ top \in Commits /\ stack' \in Seq(Commits)
        /\ Range(stack) = Range(popped) \cup {top}
        /\ Range(stack') = Range(popped) \cup {d \in known : top \in Range(links[d])}
    BY <1>13, AnalyzeCommitWalks
  <2>2. Range(stack') \in SUBSET known
    BY <1>1, <2>1 DEF StepTypes, Types
  <2>3. /\ stored' = stored \cup {top} /\ tags' = [tags EXCEPT ![top] = mem[top]]
        /\ pulled' = pulled \ {top} /\ seen' = seen \cup {top} /\ pc = "analyze"
        /\ UNCHANGED <<branches, analyzed, analyzedHead, engine, job, pc, heads, todo, affected, start>>
    BY <1>13 DEF AnalyzeCommit
  <2>4. tags' \in [Commits -> SUBSET Branches] /\ \A c \in Commits \ stored' : tags'[c] = {}
    BY <1>1, <2>1, <2>3 DEF StepTypes, Types
  <2> QED
    BY <1>1, <2>1, <2>2, <2>3, <2>4 DEF StepTypes, Types
<1>14. CASE SkipSeen
  <2>1. stack # <<>> /\ stack' = popped
    BY <1>14 DEF SkipSeen
  <2>2. stack' \in Seq(Commits) /\ Range(stack') \subseteq Range(stack)
    BY <1>1, <2>1, RangePop DEF StepTypes, popped
  <2> QED
    BY <1>1, <1>14, <2>2 DEF SkipSeen, StepTypes, Types
<1>15. CASE SaveBranches
  BY <1>1, <1>15 DEF SaveBranches, StepTypes, Types
<1>16. CASE Succeed
  <2>1. pulled' \in SUBSET stored
    BY <1>1, <1>16 DEF Succeed, StepTypes, Types
  <2>2. analyzedHead' \in Commits \cup {NoCommit}
    <3>1. job # Update => job \in [head : Commits, base : Commits, fork : BOOLEAN]
      BY <1>1 DEF RepositoryAnalysisAssumption, StepTypes, Types
    <3> QED
      BY <1>1, <1>16, <3>1 DEF Succeed, StepTypes, Types
  <2> QED
    BY <1>1, <1>16, <2>1, <2>2 DEF Succeed, StepTypes, Types
<1>17. CASE Fail
  BY <1>1, <1>17 DEF Fail, StepTypes, Types
<1> QED
  BY <1>4, <1>5, <1>6, <1>7, <1>8, <1>9, <1>10, <1>11, <1>12, <1>13, <1>14, <1>15, <1>16,
     <1>17 DEF JobStep

(* A stuttering step keeps the types.                                      *)
LEMMA StutterTypeInv == ASSUME TypeInv, UNCHANGED vars PROVE TypeInv'
BY DEF TypeInv, TypeOK, JobHeads, Closed, vars, repo, marks, engine

(* The types, and what a job has in the engine, hold of every history,     *)
(* every branch and every number of jobs.                                  *)
THEOREM TypeCorrect ==
    ASSUME RepositoryAnalysisAssumption
    PROVE  Spec => []TypeOK
<1>1. Init => TypeInv
  BY InitTypeInv
<1>2. TypeInv /\ [Next]_vars => TypeInv'
  BY FetchTypeInv, IngestTypeInv, StepTypeInv, StutterTypeInv, NextIsFetchOrStep
<1>3. TypeInv => TypeOK
  BY DEF TypeInv
<1> QED
  BY <1>1, <1>2, <1>3, PTL DEF Spec

----------------------------------------------------------------------------
(* Where the analysis starts, and what it reaches.                         *)

(* Steps that lead to, or stay within, the preparation of the analysis.    *)
LEMMA PreparingSteps ==
    ASSUME JobStep, pc' \in Preparing
    PROVE  \/ FindStartPoints
           \/ SaveBranchesEarly /\ newCommits = {} /\ analyzed' = branches
           \/ /\ pc \in Preparing /\ pc' # "tag"
              /\ UNCHANGED <<start, analyzed, analyzedHead>>
<1> USE DEF Preparing, repo, marks
<1>1. CASE TagAndRearrange
  BY <1>1 DEF TagAndRearrange
<1>2. ASSUME NEW b \in Branches, RemoveBranch(b) \/ Retag(b)
      PROVE  pc \in Preparing /\ pc' # "tag" /\ UNCHANGED <<start, analyzed, analyzedHead>>
  BY <1>2 DEF RemoveBranch, Retag
<1>3. CASE Prune
  BY <1>3 DEF Prune
<1>4. CASE SaveBranchesEarly
  BY <1>4 DEF SaveBranchesEarly
<1>5. CASE RetagFails
  BY <1>5 DEF RetagFails
<1>6. CASE Rearranged
  BY <1>6 DEF Rearranged
<1>7. CASE LoadFiles
  BY <1>7 DEF LoadFiles, RunFrom
<1>8. CASE AnalyzeCommit \/ SkipSeen \/ SaveBranches \/ Succeed \/ Fail
  BY <1>8 DEF AnalyzeCommit, SkipSeen, SaveBranches, Succeed, Fail
<1> QED
  BY <1>1, <1>2, <1>3, <1>4, <1>5, <1>6, <1>7, <1>8 DEF JobStep

(* Steps that lead to, or stay within, the analysis.                       *)
LEMMA AnalyzeSteps ==
    ASSUME JobStep, pc' = "analyze"
    PROVE  /\ LoadFiles \/ AnalyzeCommit \/ SkipSeen
           /\ UNCHANGED <<analyzed, analyzedHead, mem>>
<1> USE DEF repo, marks, engine
<1>1. CASE FindStartPoints \/ TagAndRearrange \/ Prune \/ SaveBranchesEarly
  BY <1>1 DEF FindStartPoints, TagAndRearrange, Prune, SaveBranchesEarly
<1>2. ASSUME NEW b \in Branches, RemoveBranch(b) \/ Retag(b) PROVE FALSE
  BY <1>2 DEF RemoveBranch, Retag
<1>3. CASE RetagFails \/ Rearranged \/ SaveBranches \/ Succeed \/ Fail
  BY <1>3 DEF RetagFails, Rearranged, SaveBranches, Succeed, Fail
<1>4. CASE LoadFiles
  BY <1>4 DEF LoadFiles
<1>5. CASE AnalyzeCommit
  BY <1>5 DEF AnalyzeCommit
<1>6. CASE SkipSeen
  BY <1>6 DEF SkipSeen
<1> QED
  BY <1>1, <1>2, <1>3, <1>4, <1>5, <1>6 DEF JobStep

(* As long as nothing is recorded as analysed, the job sees the same.      *)
LEMMA SameView ==
    ASSUME JobStep, UNCHANGED <<analyzed, analyzedHead>>
    PROVE  /\ UNCHANGED <<SeenAtStart, Unseen, JobHeads>> /\ UnseenIsLinked' = UnseenIsLinked
           /\ Names(analyzed') = Names(analyzed) /\ DeletedBranches' = DeletedBranches
           /\ start' = start => newCommits' = newCommits
<1>1. UNCHANGED <<parents, branches, known, read, links, job>>
  BY JobGoesOn
<1>2. SeenAtStart' = SeenAtStart /\ JobHeads' = JobHeads
  BY <1>1 DEF SeenAtStart, JobHeads, EngineAnc
<1>3. Unseen' = Unseen /\ Linked' = Linked
  BY <1>1, <1>2 DEF Unseen, Linked
<1> QED
  BY <1>1, <1>2, <1>3 DEF UnseenIsLinked, newCommits, DeletedBranches

(* A job starts from commits that it has not seen, of parents that it has; *)
(* what it analyses are commits that it has not seen.                      *)
FreshInv ==
    /\ pc \in Preparing => start \cap SeenAtStart = {}
    /\ pc = "tag" => \A c \in start : Range(links[c]) \subseteq SeenAtStart
    /\ pc = "analyze" => start # {} /\ Range(stack) \cap SeenAtStart = {}

(* Every step of a job keeps what it starts from unseen.                   *)
LEMMA StepFreshInv ==
    ASSUME RepositoryAnalysisAssumption, TypeInv, FreshInv, JobStep
    PROVE  FreshInv'
<1>1. UNCHANGED <<parents, branches, known, links, job>>
  BY JobGoesOn
<1>2. ASSUME pc' \in Preparing
      PROVE  /\ start' \cap SeenAtStart' = {}
             /\ pc' = "tag" => \A c \in start' : Range(links'[c]) \subseteq SeenAtStart'
  <2>1. CASE FindStartPoints
    <3>1. UNCHANGED <<analyzed, analyzedHead>> /\ start' = StartPoints
      BY <2>1 DEF FindStartPoints, repo, marks
    <3>2. SeenAtStart' = SeenAtStart
      BY <3>1, SameView
    <3> QED
      BY <1>1, <3>1, <3>2, StartPointsFresh
  <2>2. CASE SaveBranchesEarly /\ newCommits = {} /\ analyzed' = branches
    <3>1. start' = start /\ pc' = "retag"
      BY <2>2 DEF SaveBranchesEarly
    <3>2. start' = {}
      BY <2>2, <3>1, JobTypes
    <3> QED
      BY <3>1, <3>2
  <2>3. CASE pc \in Preparing /\ pc' # "tag" /\ UNCHANGED <<start, analyzed, analyzedHead>>
    <3>1. SeenAtStart' = SeenAtStart
      BY <2>3, SameView
    <3> QED
      BY <2>3, <3>1 DEF FreshInv
  <2> QED
    BY <1>2, <2>1, <2>2, <2>3, PreparingSteps
<1>3. ASSUME pc' = "analyze"
      PROVE  start' # {} /\ Range(stack') \cap SeenAtStart' = {}
  <2>1. SeenAtStart' = SeenAtStart
    BY <1>3, AnalyzeSteps, SameView
  <2>2. /\ SeenAtStart \in SUBSET Commits /\ Closed(SeenAtStart, links)
        /\ JobHeads \in SUBSET Commits
    BY JobTypes
  <2>3. known \in SUBSET Commits /\ stack \in Seq(Commits)
    BY DEF TypeInv, TypeOK
  <2>4. CASE LoadFiles
    <3>1. /\ Range(stack') = start' /\ pc = "load"
          /\ pc' = IF start' = {} THEN "done" ELSE "analyze"
          /\ \/ start' = {}
             \/ start' = start
             \/ \E l \in stored : start' =
                   UnseenRoots(links, known, SeenAtStart \cup {l}, JobHeads)
      BY <2>4, LoadFilesStarts
    <3>2. start \cap SeenAtStart = {}
      BY <3>1 DEF FreshInv, Preparing
    <3>3. \A skip : UnseenRoots(links, known, skip, JobHeads) \cap skip = {}
      <4>1. IsFiniteSet(Commits) /\ links \in [Commits -> Seq(Commits)]
        BY EngineFacts DEF RepositoryAnalysisAssumption
      <4> QED
        BY <2>2, <2>3, <4>1, UnseenRootsFresh
    <3>4. start' \cap SeenAtStart = {}
      BY <3>1, <3>2, <3>3
    <3>5. start' # {}
      BY <1>3, <3>1
    <3> QED
      BY <2>1, <3>1, <3>4, <3>5
  <2>5. CASE AnalyzeCommit
    <3>1. pc = "analyze" /\ start' = start
      BY <2>5 DEF AnalyzeCommit
    <3>2. /\ top \in Range(stack)
          /\ Range(stack) = Range(popped) \cup {top}
          /\ Range(stack') = Range(popped) \cup {d \in known : top \in Range(links[d])}
      BY <2>5, AnalyzeCommitWalks
    <3> QED
      BY <2>1, <2>2, <3>1, <3>2 DEF FreshInv, Closed
  <2>6. CASE SkipSeen
    <3>1. pc = "analyze" /\ start' = start /\ stack' = popped /\ stack # <<>>
      BY <2>6 DEF SkipSeen
    <3>2. Range(stack') \subseteq Range(stack)
      BY <2>3, <3>1, RangePop DEF popped
    <3> QED
      BY <2>1, <3>1, <3>2 DEF FreshInv
  <2> QED
    BY <1>3, <2>4, <2>5, <2>6, AnalyzeSteps
<1> QED
  BY <1>2, <1>3 DEF FreshInv, Preparing

(* What a job has not seen is reached from its heads over commits that it  *)
(* has not seen.                                                           *)
LEMMA UnseenFacts ==
    ASSUME RepositoryAnalysisAssumption, TypeInv
    PROVE  /\ Unseen \in SUBSET Commits
           /\ Unseen \cap SeenAtStart = {}
           /\ JobHeads \ SeenAtStart \subseteq Unseen
           /\ \A c \in Unseen : Range(parents[c]) \ SeenAtStart \subseteq Unseen
           /\ \A S \in SUBSET Commits :
                JobHeads \ SeenAtStart \subseteq S
                  /\ (\A c \in S : Range(parents[c]) \ SeenAtStart \subseteq S)
                    => Unseen \subseteq S
<1>1. /\ IsFiniteSet(Commits) /\ parents \in [Commits -> Seq(Commits)]
      /\ JobHeads \in SUBSET Commits
  BY HistoryFacts, JobTypes DEF TypeInv
<1> QED
  BY <1>1, UnseenLeast DEF Unseen

(* With some more commits seen: what the engine finds unseen, is. It finds *)
(* all, but for what it had to go through the added commits for, if it has *)
(* the parents of what is unseen.                                          *)
LEMMA EngineFindsUnseen ==
    ASSUME RepositoryAnalysisAssumption, TypeInv, NEW more, SeenAtStart \subseteq more,
           NEW S \in SUBSET Commits, more \ SeenAtStart \subseteq S, Closed(S, parents)
    PROVE  /\ UnseenAncestors(links, more, JobHeads) \subseteq Unseen
           /\ UnseenIsLinked => Unseen \subseteq S \cup UnseenAncestors(links, more, JobHeads)
<1> DEFINE U == UnseenAncestors(links, more, JobHeads)
<1>1. /\ Unseen \in SUBSET Commits
      /\ JobHeads \ SeenAtStart \subseteq Unseen
      /\ \A c \in Unseen : Range(parents[c]) \ SeenAtStart \subseteq Unseen
      /\ \A V \in SUBSET Commits :
           JobHeads \ SeenAtStart \subseteq V
             /\ (\A c \in V : Range(parents[c]) \ SeenAtStart \subseteq V)
               => Unseen \subseteq V
  BY UnseenFacts
<1>2. /\ IsFiniteSet(Commits) /\ links \in [Commits -> Seq(Commits)]
      /\ JobHeads \in SUBSET Commits
  BY EngineFacts, JobTypes DEF RepositoryAnalysisAssumption
<1>3. /\ U \in SUBSET Commits
      /\ JobHeads \ more \subseteq U
      /\ \A c \in U : Range(links[c]) \ more \subseteq U
      /\ \A V \in SUBSET Commits :
           JobHeads \ more \subseteq V /\ (\A c \in V : Range(links[c]) \ more \subseteq V)
               => U \subseteq V
  BY <1>2, UnseenLeast
<1> HIDE DEF U
<1>4. \A c \in Commits : Range(links[c]) \subseteq Range(parents[c])
  BY DEF TypeInv
<1>5. U \subseteq Unseen
  <2>1. JobHeads \ more \subseteq Unseen
    BY <1>1
  <2>2. \A c \in Unseen : Range(links[c]) \ more \subseteq Unseen
    BY <1>1, <1>4
  <2> QED
    BY <1>1, <1>3, <2>1, <2>2
<1>6. ASSUME UnseenIsLinked PROVE Unseen \subseteq S \cup U
  <2> DEFINE V == (S \cup U) \cap Unseen
  <2>1. V \in SUBSET Commits
    BY <1>1
  <2>2. JobHeads \ SeenAtStart \subseteq V
    BY <1>1, <1>3
  <2>3. ASSUME NEW c \in V PROVE Range(parents[c]) \ SeenAtStart \subseteq V
    <3>1. Range(parents[c]) \ SeenAtStart \subseteq Unseen
      BY <1>1
    <3>2. CASE c \in S
      BY <3>1, <3>2 DEF Closed
    <3>3. CASE c \in U
      <4>1. links[c] = parents[c]
        BY <1>6 DEF UnseenIsLinked, Linked
      <4>2. Range(parents[c]) \ more \subseteq U
        BY <1>3, <3>3, <4>1
      <4> QED
        BY <3>1, <4>2
    <3> QED
      BY <3>2, <3>3
  <2> HIDE DEF V
  <2>4. Unseen \subseteq V
    BY <1>1, <2>1, <2>2, <2>3
  <2> QED
    BY <2>4 DEF V
<1> QED
  BY <1>5, <1>6 DEF U

(* Until it is analysed, what the job has not seen is what the start       *)
(* points lead to, if it has parents or nothing was analysed before.       *)
CoverInv ==
    /\ pc \in Preparing
    /\ UnseenIsLinked
    /\ Roots(parents, Unseen) = {} \/ (job = Update /\ Names(analyzed) = {})
    => Unseen \subseteq newCommits

(* The roots that were read lead to all that was not seen, when nothing was*)
(* analysed before.                                                        *)
LEMMA FirstStartCovers ==
    ASSUME RepositoryAnalysisAssumption, TypeInv, job = Update, Names(analyzed) = {},
           UnseenIsLinked
    PROVE  Unseen \subseteq SuccessorList(links, known, StartPoints)
<1> DEFINE S == SuccessorList(links, known, StartPoints)
<1>1. StartPoints = Roots(parents, read) /\ StartPoints \in SUBSET known
  BY StartPointsFresh DEF StartPoints
<1>2. /\ StartPoints \subseteq S
      /\ \A d \in known : Range(links[d]) \cap S # {} => d \in S
  <2>1. IsFiniteSet(Commits) /\ links \in [Commits -> Seq(Commits)] /\ known \in SUBSET Commits
    BY EngineFacts DEF RepositoryAnalysisAssumption, TypeInv, TypeOK
  <2> DEFINE from == StartPoints
  <2>2. from \in SUBSET known
    BY <1>1
  <2> HIDE DEF from
  <2>3. /\ from \subseteq SuccessorList(links, known, from)
        /\ \A d \in known : Range(links[d]) \cap SuccessorList(links, known, from) # {}
                               => d \in SuccessorList(links, known, from)
    BY <2>1, <2>2, SuccessorsLeast
  <2> QED
    BY <2>3 DEF from
<1> HIDE DEF S
<1>3. SeenAtStart = {}
  <2>1. HeadsOf(analyzed) = {}
    BY HeadsOfType DEF TypeInv, TypeOK
  <2>2. SeenAtStart = EngineAnc({})
    BY <2>1 DEF SeenAtStart
  <2>3. {} \in SUBSET Commits /\ Closed({}, links)
    BY DEF Closed
  <2> QED
    BY <2>2, <2>3, EngineFacts
<1>4. /\ Unseen \in SUBSET Commits /\ Closed(Unseen, parents)
      /\ \A c \in Unseen : c \in read /\ c \in known /\ links[c] = parents[c]
  BY <1>3, UnseenFacts DEF Closed, UnseenIsLinked, Linked, TypeInv, TypeOK
<1>5. Roots(parents, Unseen) \subseteq S
  BY <1>1, <1>2, <1>4 DEF Roots
<1>6. \A d \in Unseen : Range(parents[d]) \cap S # {} => d \in S
  BY <1>2, <1>4
<1>7. Unseen \subseteq S
  <2>1. IsFiniteSet(Commits) /\ parents \in [Commits -> Seq(Commits)] /\ Acyclic(parents)
    BY HistoryFacts DEF TypeInv
  <2> HIDE DEF Roots
  <2> QED
    BY <1>4, <1>5, <1>6, <2>1, RootsReach
<1> QED
  BY <1>7 DEF S

(* The start points of a later analysis do, if what was not seen has       *)
(* parents.                                                                *)
LEMMA LaterStartCovers ==
    ASSUME RepositoryAnalysisAssumption, TypeInv, JobHeads \subseteq known,
           UnseenIsLinked, Roots(parents, Unseen) = {}
    PROVE  Unseen \subseteq
             SuccessorList(links, known, UnseenRoots(links, known, SeenAtStart, JobHeads))
<1>1. {} \in SUBSET Commits /\ Closed({}, parents) /\ SeenAtStart \ SeenAtStart \subseteq {}
  BY DEF Closed
<1>2. UnseenAncestors(links, SeenAtStart, JobHeads) = Unseen
  BY <1>1, EngineFindsUnseen
<1>3. Roots(links, Unseen) = {}
  BY DEF Roots, UnseenIsLinked, Linked
<1> HIDE DEF Roots
<1>4. /\ IsFiniteSet(Commits) /\ links \in [Commits -> Seq(Commits)] /\ Acyclic(links)
      /\ known \in SUBSET Commits /\ Closed(known, links) /\ JobHeads \in SUBSET known
  BY EngineFacts DEF RepositoryAnalysisAssumption, TypeInv, TypeOK
<1> QED
  BY <1>2, <1>3, <1>4, UnseenRootsCover

(* FindStartPoints finds start points that cover, and no step before the   *)
(* analysis changes that: when branches are recorded early, nothing is     *)
(* unseen after.                                                           *)
LEMMA StepCoverInv ==
    ASSUME RepositoryAnalysisAssumption, TypeInv, CoverInv, JobStep
    PROVE  CoverInv'
<1>1. UNCHANGED <<parents, branches, known, links, job>>
  BY JobGoesOn
<1> SUFFICES ASSUME pc' \in Preparing, UnseenIsLinked',
                    \/ Roots(parents', Unseen') = {}
                    \/ job' = Update /\ Names(analyzed') = {}
             PROVE  Unseen' \subseteq newCommits'
  BY DEF CoverInv
<1>3. CASE FindStartPoints
  <2>1. UNCHANGED <<analyzed, analyzedHead>> /\ start' = StartPoints
    BY <1>3 DEF FindStartPoints, repo, marks
  <2>2. Unseen' = Unseen /\ Names(analyzed') = Names(analyzed)
    BY <2>1, SameView
  <2>3. newCommits' = SuccessorList(links, known, StartPoints)
    BY <1>1, <2>1 DEF newCommits
  <2>4. UnseenIsLinked
    BY <2>1, SameView
  <2>5. JobHeads \subseteq known
    BY <1>3 DEF FindStartPoints, TypeInv
  <2>6. CASE job = Update /\ Names(analyzed) = {}
    BY <2>2, <2>3, <2>4, <2>6, FirstStartCovers
  <2>7. CASE ~(job = Update /\ Names(analyzed) = {})
    <3>1. StartPoints = UnseenRoots(links, known, SeenAtStart, JobHeads)
      BY <2>7 DEF StartPoints
    <3>2. Roots(parents, Unseen) = {}
      BY <1>1, <2>2, <2>7
    <3>3. Unseen \subseteq
            SuccessorList(links, known, UnseenRoots(links, known, SeenAtStart, JobHeads))
      BY <2>4, <2>5, <3>2, LaterStartCovers
    <3> QED
      BY <2>2, <2>3, <3>1, <3>3
  <2> QED
    BY <2>6, <2>7
<1>4. CASE SaveBranchesEarly /\ newCommits = {} /\ analyzed' = branches
  <2>1. job = Update /\ branches \in [Branches -> Commits \cup {NoCommit}]
    BY <1>4 DEF SaveBranchesEarly, TypeInv, TypeOK, Preparing
  <2>h. JobHeads \subseteq known /\ JobHeads \in SUBSET Commits
    BY <1>4, JobTypes DEF SaveBranchesEarly, TypeInv, Preparing
  <2>2. JobHeads = HeadsOf(branches) /\ JobHeads' = JobHeads
    BY <1>1, <2>1 DEF JobHeads
  <2>3. (HeadsOf(analyzed') \cup (IF job' = Update THEN {} ELSE {analyzedHead'})) \cap known'
          = JobHeads
    BY <1>1, <1>4, <2>1, <2>2, <2>h
  <2>4. SeenAtStart' = EngineAnc(JobHeads)
    BY <1>1, <2>3 DEF SeenAtStart, EngineAnc
  <2>5. JobHeads \ SeenAtStart' = {}
    BY <2>4, <2>h, EngineFacts
  <2>6. Unseen' = UnseenAncestors(parents, SeenAtStart', JobHeads)
    BY <1>1, <2>2 DEF Unseen
  <2>7. Unseen' = {}
    <3>1. ASSUME NEW skip, JobHeads \ skip = {}
          PROVE  UnseenAncestors(parents, skip, JobHeads) = {}
      <4>1. \A S \in SUBSET Commits :
              JobHeads \ skip \subseteq S
                /\ (\A c \in S : Range(parents[c]) \ skip \subseteq S)
                  => UnseenAncestors(parents, skip, JobHeads) \subseteq S
        <5>1. IsFiniteSet(Commits) /\ parents \in [Commits -> Seq(Commits)]
          BY HistoryFacts DEF TypeInv
        <5> QED
          BY <2>h, <5>1, UnseenLeast
      <4> QED
        BY <3>1, <4>1
    <3> QED
      BY <2>5, <2>6, <3>1
  <2> QED
    BY <2>7
<1>5. CASE pc \in Preparing /\ UNCHANGED <<start, analyzed, analyzedHead>>
  <2>1. /\ UnseenIsLinked /\ Unseen' = Unseen /\ newCommits' = newCommits
        /\ Names(analyzed') = Names(analyzed)
    BY <1>5, SameView
  <2> QED
    BY <1>1, <1>5, <2>1 DEF CoverInv
<1> QED
  BY <1>3, <1>4, <1>5, PreparingSteps

(* Only Prune deletes documents, and only if a branch is gone; before the  *)
(* analysis nothing is stored.                                             *)
LEMMA NothingStoredYet ==
    ASSUME JobStep, pc' \in Preparing, DeletedBranches = {}
    PROVE  stored' = stored
<1> USE DEF Preparing, repo, marks
<1>1. CASE Prune
  BY <1>1 DEF Prune
<1>2. CASE FindStartPoints \/ TagAndRearrange \/ SaveBranchesEarly \/ RetagFails \/ Rearranged
  BY <1>2 DEF FindStartPoints, TagAndRearrange, SaveBranchesEarly, RetagFails, Rearranged
<1>3. ASSUME NEW b \in Branches, RemoveBranch(b) \/ Retag(b) PROVE stored' = stored
  BY <1>3 DEF RemoveBranch, Retag
<1>4. CASE LoadFiles \/ AnalyzeCommit
  BY <1>4 DEF LoadFiles, RunFrom, AnalyzeCommit
<1>5. CASE SkipSeen \/ SaveBranches \/ Succeed \/ Fail
  BY <1>5 DEF SkipSeen, SaveBranches, Succeed, Fail
<1> QED
  BY <1>1, <1>2, <1>3, <1>4, <1>5 DEF JobStep

(* What the documents were when the job began, they are until it analyses, *)
(* if no branch was deleted.                                               *)
WholeInv ==
    /\ job = Update /\ whole /\ DeletedBranches = {}
    /\ pc \in {"fetched", "ingested"} \/ (pc \in Preparing /\ start # {})
    => Closed(stored, parents) /\ (Names(analyzed) = {} => stored = {})

(* A job notes what documents it found.                                    *)
LEMMA FetchWholeInv ==
    ASSUME RepositoryAnalysisAssumption, TypeInv, UpdateRepository \/ UpdatePullRequest
    PROVE  WholeInv'
<1>1. /\ UNCHANGED <<parents, stored, analyzed>>
      /\ whole' = (Anc(stored) \subseteq stored /\ (Names(analyzed) = {} => stored = {}))
  BY DEF UpdateRepository, UpdatePullRequest, Fetch, repo
<1>2. Anc(stored) \subseteq stored => Closed(stored, parents)
  <2>1. stored \in SUBSET Commits
    BY DEF TypeInv, TypeOK
  <2> QED
    BY <2>1, AncFacts DEF TypeInv, Closed
<1>3. Names(analyzed') = Names(analyzed) /\ Closed(stored', parents') = Closed(stored, parents)
  BY <1>1
<1> QED
  BY <1>1, <1>2, <1>3 DEF WholeInv

(* They stay so until it analyses.                                         *)
LEMMA StepWholeInv ==
    ASSUME RepositoryAnalysisAssumption, TypeInv, WholeInv, JobStep
    PROVE  WholeInv'
<1>1. UNCHANGED <<parents, branches, known, job, whole>>
  BY JobGoesOn
<1> SUFFICES ASSUME job = Update, whole, DeletedBranches' = {}, pc' \in Preparing, start' # {}
             PROVE  /\ Closed(stored', parents')
                    /\ Names(analyzed') = {} => stored' = {}
  BY <1>1, JobStepsFrom DEF WholeInv
<1>2. CASE FindStartPoints
  <2>1. UNCHANGED <<analyzed, analyzedHead, stored>> /\ pc = "ingested"
    BY <1>2 DEF FindStartPoints, repo, marks
  <2>2. DeletedBranches = {} /\ Names(analyzed') = Names(analyzed)
    BY <2>1, SameView
  <2> QED
    BY <1>1, <2>1, <2>2 DEF WholeInv
<1>3. CASE SaveBranchesEarly /\ newCommits = {} /\ analyzed' = branches
  <2>1. start' = start
    BY <1>3 DEF SaveBranchesEarly
  <2> QED
    BY <1>3, <2>1, JobTypes
<1>4. CASE pc \in Preparing /\ UNCHANGED <<start, analyzed, analyzedHead>>
  <2>1. DeletedBranches = {} /\ Names(analyzed') = Names(analyzed)
    BY <1>4, SameView
  <2>2. stored' = stored
    BY <2>1, NothingStoredYet
  <2> QED
    BY <1>1, <1>4, <2>1, <2>2 DEF WholeInv
<1> QED
  BY <1>2, <1>3, <1>4, PreparingSteps

(* The walk has stored what it has seen, and still has on its stack what   *)
(* it has not: of its start points, and of the children of what it saw.    *)
WalkInv ==
    pc = "analyze" =>
        /\ seen \subseteq stored
        /\ start \subseteq seen \cup Range(stack)
        /\ \A c \in seen, d \in known : c \in Range(links[d]) => d \in seen \cup Range(stack)

(* Each iteration of RunForwardAnalysis keeps account of what is seen.     *)
LEMMA StepWalkInv ==
    ASSUME RepositoryAnalysisAssumption, TypeInv, WalkInv, JobStep
    PROVE  WalkInv'
<1>1. UNCHANGED <<parents, branches, known, links, job>>
  BY JobGoesOn
<1> SUFFICES ASSUME pc' = "analyze"
             PROVE  /\ seen' \subseteq stored'
                    /\ start' \subseteq seen' \cup Range(stack')
                    /\ \A c \in seen', d \in known : c \in Range(links[d])
                          => d \in seen' \cup Range(stack')
  BY <1>1 DEF WalkInv
<1>2. CASE LoadFiles
  <2>1. seen' = {} /\ Range(stack') = start'
    BY <1>2, LoadFilesStarts
  <2> QED
    BY <2>1
<1>3. CASE AnalyzeCommit
  <2>1. /\ pc = "analyze" /\ start' = start
        /\ stored' = stored \cup {top} /\ seen' = seen \cup {top}
    BY <1>3 DEF AnalyzeCommit
  <2>2. /\ Range(stack) = Range(popped) \cup {top}
        /\ Range(stack') = Range(popped) \cup {d \in known : top \in Range(links[d])}
    BY <1>3, AnalyzeCommitWalks
  <2> QED
    BY <2>1, <2>2 DEF WalkInv
<1>4. CASE SkipSeen
  <2>1. /\ pc = "analyze" /\ stack # <<>> /\ top \in seen /\ stack' = popped
        /\ UNCHANGED <<start, stored, seen>>
    BY <1>4 DEF SkipSeen, repo
  <2>2. Range(stack) = Range(popped) \cup {top}
    BY <2>1, RangePop DEF popped, top, TypeInv
  <2> QED
    BY <2>1, <2>2 DEF WalkInv
<1> QED
  BY <1>2, <1>3, <1>4, AnalyzeSteps

(* What the walk will not reach of the unseen commits has a document.      *)
PlanInv ==
    /\ pc = "analyze" /\ job = Update /\ whole /\ DeletedBranches = {} /\ UnseenIsLinked
    /\ Names(analyzed) = {} \/ Roots(parents, Unseen) = {}
    => Unseen \subseteq stored \cup newCommits

(* One more seen commit, with a document, as its ancestors have: what is   *)
(* not seen beyond it has a document.                                      *)
LEMMA LoadedCovers ==
    ASSUME RepositoryAnalysisAssumption, TypeInv, JobHeads \subseteq known,
           Closed(stored, parents), NEW l \in stored,
           UnseenIsLinked, Roots(parents, Unseen) = {}
    PROVE  Unseen \subseteq stored \cup
             SuccessorList(links, known,
                           UnseenRoots(links, known, SeenAtStart \cup {l}, JobHeads))
<1> DEFINE more == SeenAtStart \cup {l}
           U == UnseenAncestors(links, more, JobHeads)
<1>1. stored \in SUBSET Commits /\ SeenAtStart \subseteq more /\ more \ SeenAtStart \subseteq stored
  BY DEF TypeInv, TypeOK
<1> HIDE DEF more
<1>2. U \subseteq Unseen /\ Unseen \subseteq stored \cup U
  BY <1>1, EngineFindsUnseen
<1>3. Roots(links, U) = {}
  <2> HIDE DEF U
  <2> QED
    BY <1>2 DEF Roots, UnseenIsLinked, Linked
<1>4. /\ IsFiniteSet(Commits) /\ links \in [Commits -> Seq(Commits)] /\ Acyclic(links)
      /\ known \in SUBSET Commits /\ Closed(known, links) /\ JobHeads \in SUBSET known
  BY EngineFacts DEF RepositoryAnalysisAssumption, TypeInv, TypeOK
<1>5. U \subseteq SuccessorList(links, known, UnseenRoots(links, known, more, JobHeads))
  BY <1>3, <1>4, UnseenRootsCover
<1> QED
  BY <1>2, <1>5 DEF more

(* LoadFiles plans a walk that covers, and the walk keeps to it.           *)
LEMMA StepPlanInv ==
    ASSUME RepositoryAnalysisAssumption, TypeInv, CoverInv, WholeInv, PlanInv, JobStep
    PROVE  PlanInv'
<1>1. UNCHANGED <<parents, branches, known, links, job, whole>>
  BY JobGoesOn
<1> SUFFICES ASSUME pc' = "analyze", job = Update, whole, DeletedBranches' = {}, UnseenIsLinked',
                    Names(analyzed') = {} \/ Roots(parents', Unseen') = {}
             PROVE  Unseen' \subseteq stored' \cup newCommits'
  BY <1>1 DEF PlanInv
<1>2. /\ UnseenIsLinked /\ Unseen' = Unseen /\ DeletedBranches = {} /\ Names(analyzed') = Names(analyzed)
      /\ start' = start => newCommits' = newCommits
  BY AnalyzeSteps, SameView
<1>3. Names(analyzed) = {} \/ Roots(parents, Unseen) = {}
  BY <1>1, <1>2
<1>4. CASE LoadFiles
  <2>1. /\ pc = "load" /\ pc' = IF start' = {} THEN "done" ELSE "analyze"
        /\ \/ start' = {}
           \/ start' = start
           \/ \E l \in stored : start' =
                 UnseenRoots(links, known, SeenAtStart \cup {l}, JobHeads)
        /\ start = {} => start' = {}
    BY <1>4, LoadFilesStarts
  <2>2. Closed(stored, parents) /\ (Names(analyzed) = {} => stored = {})
    BY <1>2, <2>1 DEF WholeInv, Preparing
  <2>3. stored' = stored
    BY <1>4 DEF LoadFiles, repo
  <2>h. JobHeads \subseteq known
    BY <2>1 DEF TypeInv, Preparing
  <2>4. CASE start' = start
    BY <1>2, <1>3, <2>1, <2>4 DEF CoverInv, Preparing
  <2>5. ASSUME NEW l \in stored,
               start' = UnseenRoots(links, known, SeenAtStart \cup {l}, JobHeads)
        PROVE  Unseen' \subseteq stored' \cup newCommits'
    <3>1. Roots(parents, Unseen) = {}
      BY <1>3, <2>2
    <3>2. newCommits' = SuccessorList(links, known, start')
      BY <1>1 DEF newCommits
    <3> QED
      BY <1>2, <2>2, <2>3, <2>5, <2>h, <3>1, <3>2, LoadedCovers
  <2> QED
    BY <2>1, <2>4, <2>5
<1>5. CASE AnalyzeCommit
  <2>1. pc = "analyze" /\ start' = start /\ stored' = stored \cup {top}
    BY <1>5 DEF AnalyzeCommit
  <2> QED
    BY <1>2, <1>3, <2>1 DEF PlanInv
<1>6. CASE SkipSeen
  <2>1. pc = "analyze" /\ start' = start /\ stored' = stored
    BY <1>6 DEF SkipSeen, repo
  <2> QED
    BY <1>2, <1>3, <2>1 DEF PlanInv
<1> QED
  BY <1>4, <1>5, <1>6, AnalyzeSteps

(* Only two steps record branches as analysed.                             *)
LEMMA AnalyzedChanges ==
    ASSUME JobStep
    PROVE  analyzed' = analyzed \/ SaveBranchesEarly \/ SaveBranches
<1> USE DEF repo
<1>1. CASE FindStartPoints \/ TagAndRearrange \/ Prune \/ RetagFails \/ Rearranged
  BY <1>1 DEF FindStartPoints, TagAndRearrange, Prune, RetagFails, Rearranged
<1>2. ASSUME NEW b \in Branches, RemoveBranch(b) \/ Retag(b) PROVE analyzed' = analyzed
  BY <1>2 DEF RemoveBranch, Retag
<1>3. CASE LoadFiles \/ SkipSeen \/ Succeed \/ Fail
  BY <1>3 DEF LoadFiles, SkipSeen, Succeed, Fail
<1>4. CASE AnalyzeCommit
  BY <1>4 DEF AnalyzeCommit
<1> QED
  BY <1>1, <1>2, <1>3, <1>4 DEF JobStep

(* What was seen before the job is an ancestor of a recorded head.         *)
LEMMA SeenIsRecorded ==
    ASSUME RepositoryAnalysisAssumption, TypeInv, job = Update
    PROVE  SeenAtStart \subseteq Anc(HeadsOf(analyzed))
<1> DEFINE H == HeadsOf(analyzed)
<1>1. H \in SUBSET Commits
  BY HeadsOfType DEF TypeInv, TypeOK
<1>2. SeenAtStart = EngineAnc(H \cap known)
  BY DEF SeenAtStart
<1> HIDE DEF H
<1>3. Anc(H) \in SUBSET Commits /\ H \subseteq Anc(H) /\ Closed(Anc(H), parents)
  BY <1>1, AncFacts DEF TypeInv
<1>4. EngineAnc(H \cap known) \subseteq Anc(H)
  <2>1. H \cap known \in SUBSET Commits /\ H \cap known \subseteq Anc(H)
    BY <1>1, <1>3
  <2>2. Anc(H \cap known) \subseteq Anc(H)
    BY <1>3, <2>1, AncFacts DEF TypeInv
  <2> QED
    BY <2>1, <2>2, EngineFacts
<1> QED
  BY <1>2, <1>4 DEF H

(* Heads whose unseen ancestors have a document are covered.               *)
LEMMA HeadsAreCovered ==
    ASSUME RepositoryAnalysisAssumption, TypeInv, job = Update, Covered(analyzed),
           Unseen \subseteq stored
    PROVE  Covered(branches)
<1> DEFINE old == Anc(HeadsOf(analyzed))
<1>1. JobHeads = HeadsOf(branches) /\ JobHeads \in SUBSET Commits
  BY JobTypes DEF JobHeads
<1>2. old \in SUBSET Commits /\ Closed(old, parents) /\ SeenAtStart \subseteq old
  <2>1. HeadsOf(analyzed) \in SUBSET Commits
    BY HeadsOfType DEF TypeInv, TypeOK
  <2> QED
    BY <2>1, AncFacts, SeenIsRecorded DEF TypeInv
<1>3. old \subseteq stored
  BY DEF Covered
<1> HIDE DEF old
<1>4. /\ JobHeads \ SeenAtStart \subseteq Unseen /\ Unseen \in SUBSET Commits
      /\ \A c \in Unseen : Range(parents[c]) \ SeenAtStart \subseteq Unseen
  BY UnseenFacts
<1>5. Closed(Unseen \cup old, parents)
  BY <1>2, <1>4 DEF Closed
<1>6. JobHeads \subseteq Unseen \cup old /\ Unseen \cup old \in SUBSET Commits
  BY <1>2, <1>4
<1>7. Anc(JobHeads) \subseteq Unseen \cup old
  BY <1>1, <1>5, <1>6, AncFacts DEF TypeInv
<1> QED
  BY <1>1, <1>3, <1>7 DEF Covered

(* When the stack is empty, all that the start points lead to has been     *)
(* stored.                                                                 *)
LEMMA WalkIsComplete ==
    ASSUME RepositoryAnalysisAssumption, TypeInv, WalkInv, pc = "analyze", stack = <<>>
    PROVE  newCommits \subseteq stored
<1>1. Range(stack) = {}
  BY RangeEmpty
<1>2. /\ start \subseteq seen /\ seen \subseteq stored
      /\ \A c \in seen, d \in known : c \in Range(links[d]) => d \in seen
  BY <1>1 DEF WalkInv
<1>3. /\ IsFiniteSet(Commits) /\ links \in [Commits -> Seq(Commits)]
      /\ known \in SUBSET Commits /\ start \in SUBSET known /\ seen \in SUBSET Commits
  BY EngineFacts DEF RepositoryAnalysisAssumption, TypeInv, TypeOK
<1>4. newCommits \subseteq seen
  BY <1>2, <1>3, SuccessorsLeast DEF newCommits
<1> QED
  BY <1>2, <1>4

(* What a step records as analysed has all its documents.                  *)
LEMMA StepCoverage ==
    ASSUME RepositoryAnalysisAssumption, TypeInv, CoverInv, WalkInv, PlanInv, JobStep
    PROVE  CoverageStep
<1> SUFFICES ASSUME job = Update, whole, Covered(analyzed), DeletedBranches = {}, UnseenIsLinked,
                    analyzed' # analyzed,
                    Names(analyzed) = {} \/ Roots(parents, Unseen) = {}
             PROVE  Covered(analyzed')
  BY DEF CoverageStep
<1>1. CASE SaveBranchesEarly
  <2>1. newCommits = {} /\ analyzed' = branches /\ pc = "save"
    BY <1>1 DEF SaveBranchesEarly
  <2>2. Unseen \subseteq stored
    BY <2>1 DEF CoverInv, Preparing
  <2> QED
    BY <2>1, <2>2, HeadsAreCovered
<1>2. CASE SaveBranches
  <2>1. pc = "analyze" /\ stack = <<>> /\ analyzed' = branches
    BY <1>2 DEF SaveBranches
  <2>2. Unseen \subseteq stored
    BY <2>1, WalkIsComplete DEF PlanInv
  <2> QED
    BY <2>1, <2>2, HeadsAreCovered
<1> QED
  BY <1>1, <1>2, AnalyzedChanges

----------------------------------------------------------------------------
(* What the commits carry.                                                 *)

(* The new commits are tagged in memory, in one step of a job.             *)
LEMMA TagSteps ==
    ASSUME JobStep
    PROVE  (mem' = mem /\ (pc # "tag" \/ pc' = "failed")) \/ TagAndRearrange
<1> USE DEF engine
<1>1. CASE FindStartPoints \/ Prune \/ SaveBranchesEarly \/ RetagFails \/ Rearranged
  BY <1>1 DEF FindStartPoints, Prune, SaveBranchesEarly, RetagFails, Rearranged
<1>2. ASSUME NEW b \in Branches, RemoveBranch(b) \/ Retag(b) PROVE mem' = mem /\ pc # "tag"
  BY <1>2 DEF RemoveBranch, Retag
<1>3. CASE LoadFiles \/ SkipSeen \/ SaveBranches \/ Succeed \/ Fail
  BY <1>3 DEF LoadFiles, SkipSeen, SaveBranches, Succeed, Fail
<1>4. CASE AnalyzeCommit
  BY <1>4 DEF AnalyzeCommit
<1> QED
  BY <1>1, <1>2, <1>3, <1>4 DEF JobStep

(* Once they are tagged, and if there are any to analyse, the commits of a *)
(* branch that the job has not seen carry the branch.                      *)
MemTaggedInv ==
    job = Update /\ pc \in {"remove", "save", "retag", "load", "analyze"} /\ start # {} =>
        \A b \in Names(branches) : \A c \in EngineAnc({branches[b]}) \ SeenAtStart : b \in mem[c]

(* The walk back from a head to the start points meets every commit of the *)
(* branch that was not seen.                                               *)
LEMMA TaggedUnseen ==
    ASSUME RepositoryAnalysisAssumption, TypeInv, FreshInv, pc = "tag", NEW b \in Names(branches),
           NEW c \in EngineAnc({branches[b]}) \ SeenAtStart
    PROVE  b \in Tagged[c]
<1> DEFINE X == AncestorsListUntil(links, start, {branches[b]})
<1>1. /\ IsFiniteSet(Commits) /\ links \in [Commits -> Seq(Commits)]
      /\ start \in SUBSET Commits /\ branches[b] \in Commits
  BY EngineFacts DEF RepositoryAnalysisAssumption, TypeInv, TypeOK, Names
<1>2. SeenAtStart \in SUBSET Commits /\ Closed(SeenAtStart, links)
  BY JobTypes
<1>3. /\ X \in SUBSET Commits /\ branches[b] \in X
      /\ \A d \in X \ start : Range(links[d]) \subseteq X
  <2> DEFINE H == {branches[b]}
  <2>1. H \in SUBSET Commits /\ branches[b] \in H
    BY <1>1
  <2> HIDE DEF H
  <2>2. /\ AncestorsListUntil(links, start, H) \in SUBSET Commits
        /\ H \subseteq AncestorsListUntil(links, start, H)
        /\ \A d \in AncestorsListUntil(links, start, H) \ start :
             Range(links[d]) \subseteq AncestorsListUntil(links, start, H)
    BY <1>1, <2>1, AncestorsUntil
  <2> QED
    BY <2>1, <2>2 DEF H
<1> HIDE DEF X
<1>4. \A d \in start : Range(links[d]) \subseteq SeenAtStart
  BY DEF FreshInv
<1>5. Closed(X \cup SeenAtStart, links)
  BY <1>2, <1>3, <1>4 DEF Closed
<1>6. EngineAnc({branches[b]}) \subseteq X \cup SeenAtStart
  <2> DEFINE H == {branches[b]}
             S == X \cup SeenAtStart
  <2>1. H \subseteq S /\ S \in SUBSET Commits /\ H \in SUBSET Commits /\ Closed(S, links)
    BY <1>1, <1>2, <1>3, <1>5
  <2> HIDE DEF H, S
  <2>2. EngineAnc(H) \subseteq S
    BY <2>1, EngineFacts
  <2> QED
    BY <2>2 DEF H, S
<1>7. c \in X /\ c \in Commits
  BY <1>3, <1>6
<1> QED
  BY <1>7 DEF Tagged, X

(* TagBranchesOnCommits tags what is unseen, and it stays tagged until the *)
(* analysis is over.                                                       *)
LEMMA StepMemTaggedInv ==
    ASSUME RepositoryAnalysisAssumption, TypeInv, FreshInv, MemTaggedInv, JobStep
    PROVE  MemTaggedInv'
<1>1. UNCHANGED <<parents, branches, known, links, job>>
  BY JobGoesOn
<1> SUFFICES ASSUME job = Update, pc' \in {"remove", "save", "retag", "load", "analyze"},
                    start' # {}, NEW b \in Names(branches),
                    NEW c \in EngineAnc({branches[b]}) \ SeenAtStart'
             PROVE  b \in mem'[c]
  BY <1>1 DEF MemTaggedInv, EngineAnc
<1>2. CASE TagAndRearrange
  <2>1. UNCHANGED <<analyzed, analyzedHead>> /\ pc = "tag" /\ mem' = Tagged
    BY <1>2 DEF TagAndRearrange, repo, marks
  <2>2. SeenAtStart' = SeenAtStart
    BY <2>1, SameView
  <2> QED
    BY <2>1, <2>2, TaggedUnseen
<1>3. CASE mem' = mem /\ pc # "tag"
  <2>1. CASE FindStartPoints
    BY <2>1 DEF FindStartPoints
  <2>2. CASE SaveBranchesEarly /\ newCommits = {}
    <3>1. start' = start
      BY <2>2 DEF SaveBranchesEarly
    <3> QED
      BY <2>2, <3>1, JobTypes
  <2>3. CASE pc \in Preparing /\ UNCHANGED <<start, analyzed, analyzedHead>>
    <3>1. SeenAtStart' = SeenAtStart
      BY <2>3, SameView
    <3> QED
      BY <1>3, <2>3, <3>1 DEF MemTaggedInv, Preparing
  <2>4. CASE pc' = "analyze"
    <3>1. LoadFiles \/ AnalyzeCommit \/ SkipSeen
      BY <2>4, AnalyzeSteps
    <3>2. SeenAtStart' = SeenAtStart
      BY <2>4, AnalyzeSteps, SameView
    <3>3. pc \in {"load", "analyze"} /\ start # {}
      <4>1. CASE LoadFiles
        BY <4>1, LoadFilesStarts
      <4>2. CASE AnalyzeCommit \/ SkipSeen
        BY <4>2 DEF AnalyzeCommit, SkipSeen
      <4> QED
        BY <3>1, <4>1, <4>2
    <3> QED
      BY <1>3, <3>2, <3>3 DEF MemTaggedInv
  <2> QED
    BY <2>1, <2>2, <2>3, <2>4, PreparingSteps DEF Preparing
<1> QED
  BY <1>2, <1>3, TagSteps

(* As far as Finish has gone, the stored commits of an affected branch     *)
(* carry it.                                                               *)
AffectedInv ==
    job = Update /\ clean =>
        /\ pc = "save" => todo = affected
        /\ pc \in {"retag", "load", "analyze", "done", "idle"} =>
             \A b \in (affected \ todo) \cap Names(branches) :
                \A c \in stored \cap EngineAnc({branches[b]}) : b \in tags[c]

(* ReTagBranch tags what is stored, and the analysis stores the rest with  *)
(* its tags.                                                               *)
LEMMA StepAffectedInv ==
    ASSUME RepositoryAnalysisAssumption, TypeInv, FreshInv, MemTaggedInv, AffectedInv, JobStep
    PROVE  AffectedInv'
<1>1. UNCHANGED <<parents, branches, known, links, job>>
  BY JobGoesOn
<1>2. Types
  BY TypesOK DEF TypeInv
<1> USE DEF repo, marks, history
<1>3. CASE FindStartPoints
  BY <1>1, <1>3 DEF FindStartPoints, AffectedInv
<1>4. CASE TagAndRearrange
  BY <1>4 DEF TagAndRearrange, AffectedInv
<1>5. ASSUME NEW b \in Branches, RemoveBranch(b) PROVE AffectedInv'
  BY <1>5 DEF RemoveBranch, AffectedInv
<1>6. CASE Prune
  BY <1>6 DEF Prune, AffectedInv
<1>7. CASE SaveBranchesEarly
  BY <1>7 DEF SaveBranchesEarly, AffectedInv
<1>8. ASSUME NEW b \in Branches, Retag(b) PROVE AffectedInv'
  <2>1. /\ pc = "retag" /\ pc' = "retag" /\ todo' = todo \ {b} /\ tags' = ReTagBranch(b)
        /\ UNCHANGED <<affected, stored, clean>>
    BY <1>8 DEF Retag
  <2> SUFFICES ASSUME job = Update, clean, NEW d \in (affected \ todo') \cap Names(branches),
                      NEW c \in stored \cap EngineAnc({branches[d]})
               PROVE  d \in tags'[c]
    BY <1>1, <2>1 DEF AffectedInv, EngineAnc
  <2>2. c \in Commits /\ b \in Branches
    BY <1>2 DEF Types
  <2>3. CASE d = b
    BY <2>1, <2>2, <2>3 DEF ReTagBranch
  <2>4. CASE d # b
    <3>1. d \in tags[c]
      BY <2>1, <2>4 DEF AffectedInv
    <3> QED
      BY <2>1, <2>2, <2>4, <3>1 DEF ReTagBranch
  <2> QED
    BY <2>3, <2>4
<1>9. CASE RetagFails
  BY <1>9 DEF RetagFails, AffectedInv
<1>10. CASE Rearranged \/ LoadFiles \/ SkipSeen \/ SaveBranches \/ Succeed
  <2>1. /\ pc \in {"retag", "load", "analyze", "done"} /\ pc' # "save"
        /\ UNCHANGED <<tags, stored, todo, affected, clean>>
    <3>1. CASE Rearranged \/ SkipSeen \/ SaveBranches \/ Succeed
      BY <3>1 DEF Rearranged, SkipSeen, SaveBranches, Succeed
    <3>2. CASE LoadFiles
      BY <3>2 DEF LoadFiles, RunFrom
    <3> QED
      BY <1>10, <3>1, <3>2
  <2> QED
    BY <1>1, <2>1 DEF AffectedInv, EngineAnc
<1>11. CASE AnalyzeCommit
  <2>1. /\ pc = "analyze" /\ pc' = "analyze" /\ stored' = stored \cup {top}
        /\ tags' = [tags EXCEPT ![top] = mem[top]]
        /\ UNCHANGED <<affected, todo, clean>>
    BY <1>11 DEF AnalyzeCommit
  <2>2. top \in Commits /\ top \notin SeenAtStart
    BY <1>11, <2>1, AnalyzeCommitWalks DEF FreshInv
  <2>3. start # {}
    BY <2>1 DEF FreshInv
  <2> SUFFICES ASSUME job = Update, clean, NEW d \in (affected \ todo) \cap Names(branches),
                      NEW c \in (stored \cup {top}) \cap EngineAnc({branches[d]})
               PROVE  d \in tags'[c]
    BY <1>1, <2>1 DEF AffectedInv, EngineAnc
  <2>4. c \in Commits
    BY <1>2, <2>2 DEF Types
  <2>5. CASE c = top
    BY <1>2, <2>1, <2>2, <2>3, <2>5 DEF MemTaggedInv, Types
  <2>6. CASE c # top
    BY <1>2, <2>1, <2>4, <2>6 DEF AffectedInv, Types
  <2> QED
    BY <2>5, <2>6
<1>12. CASE Fail
  BY <1>12 DEF Fail, AffectedInv
<1> QED
  BY <1>3, <1>4, <1>5, <1>6, <1>7, <1>8, <1>9, <1>10, <1>11, <1>12 DEF JobStep

(* If the tags that the job found fit, they fit the recorded branches      *)
(* until the job changes them, no deleted branch is left when Finish has   *)
(* visited it, and what does not fit yet is of a branch that it is still   *)
(* to visit; in memory they fit the branches that were fetched.            *)
FitInv ==
    fit =>
        /\ Fit(branches, mem)
        /\ pc \in {"fetched", "ingested", "tag", "remove"} => Fit(analyzed, tags)
        /\ pc = "remove" =>
             /\ RewoundOrAdded \subseteq affected
             /\ \A b \in DeletedBranches \ todo : \A c \in Commits : b \notin tags[c]
        /\ job = Update /\ clean /\ pc \in {"save", "retag", "load", "analyze", "done", "idle"} =>
             \A c \in Commits : \A b \in tags[c] :
                branches[b] # NoCommit /\ (b \in todo \/ c \in Anc({branches[b]}))

(* A job notes whether the tags it found fit.                              *)
LEMMA FetchFitInv ==
    ASSUME RepositoryAnalysisAssumption, TypeInv, UpdateRepository \/ UpdatePullRequest
    PROVE  FitInv'
<1>1. /\ UNCHANGED <<parents, analyzed, tags>> /\ pc' = "fetched"
      /\ fit' = (Fit(analyzed, tags) /\ Fit(branches', mem'))
  BY DEF UpdateRepository, UpdatePullRequest, Fetch, repo
<1>2. Fit(analyzed, tags)' = Fit(analyzed, tags)
  BY <1>1 DEF Fit, Anc
<1>3. Fit(branches, mem)' = Fit(branches', mem')
  BY <1>1 DEF Fit, Anc
<1> QED
  BY <1>1, <1>2, <1>3 DEF FitInv

(* What is tagged in memory fits the branches.                             *)
LEMMA TaggedFits ==
    ASSUME RepositoryAnalysisAssumption, TypeInv, Fit(branches, mem)
    PROVE  Fit(branches, Tagged)
<1>1. /\ IsFiniteSet(Commits) /\ links \in [Commits -> Seq(Commits)]
      /\ mem \in [Commits -> SUBSET Branches] /\ start \in SUBSET Commits
      /\ branches \in [Branches -> Commits \cup {NoCommit}]
  BY EngineFacts DEF RepositoryAnalysisAssumption, TypeInv, TypeOK
<1> SUFFICES ASSUME NEW c \in Commits, NEW b \in Tagged[c]
             PROVE  branches[b] # NoCommit /\ c \in Anc({branches[b]})
  BY DEF Fit, Tagged
<1>2. CASE b \in mem[c]
  BY <1>1, <1>2 DEF Fit
<1>3. CASE b \in Names(branches) /\ c \in AncestorsListUntil(links, start, {branches[b]})
  <2> DEFINE H == {branches[b]}
  <2>1. H \in SUBSET Commits /\ branches[b] # NoCommit
    BY <1>1, <1>3 DEF Names
  <2> HIDE DEF H
  <2>2. AncestorsListUntil(links, start, H) \subseteq EngineAnc(H)
    BY <1>1, <2>1, AncestorsUntil DEF EngineAnc
  <2>3. EngineAnc(H) \subseteq Anc(H)
    BY <2>1, EngineFacts
  <2> QED
    BY <1>3, <2>1, <2>2, <2>3 DEF H
<1> QED
  BY <1>2, <1>3 DEF Tagged

(* A branch that was moved forward is on all the commits it was on.        *)
LEMMA ForwardKeeps ==
    ASSUME RepositoryAnalysisAssumption, TypeInv, NEW b \in Names(branches), b \notin RewoundOrAdded
    PROVE  Anc({analyzed[b]}) \subseteq Anc({branches[b]})
<1>1. IsAncestor(links, known, analyzed[b], branches[b])
  BY DEF RewoundOrAdded
<1>2. /\ analyzed[b] \in Commits /\ branches[b] \in Commits
      /\ analyzed[b] \in EngineAnc({branches[b]})
  BY <1>1 DEF IsAncestor, EngineAnc, TypeInv, TypeOK
<1>h. EngineAnc({branches[b]}) \subseteq Anc({branches[b]})
  BY <1>2, EngineFacts
<1>3. /\ {analyzed[b]} \in SUBSET Commits /\ {branches[b]} \in SUBSET Commits
      /\ {analyzed[b]} \subseteq Anc({branches[b]})
  BY <1>2, <1>h
<1>4. Anc({branches[b]}) \in SUBSET Commits /\ Closed(Anc({branches[b]}), parents)
  BY <1>3, AncFacts DEF TypeInv
<1> QED
  BY <1>3, <1>4, AncFacts DEF TypeInv

(* Every step of a job brings the tags nearer to its branches.             *)
LEMMA StepFitInv ==
    ASSUME RepositoryAnalysisAssumption, TypeInv, FitInv, JobStep
    PROVE  FitInv'
<1>1. UNCHANGED <<parents, branches, known, links, job, fit>>
  BY JobGoesOn
<1>2. Types
  BY TypesOK DEF TypeInv
<1> SUFFICES ASSUME fit PROVE FitInv'
  BY <1>1 DEF FitInv
<1>3. Fit(branches, mem) /\ (mem' = mem => Fit(branches, mem)')
  BY <1>1 DEF FitInv, Fit, Anc
<1> USE DEF repo, marks, engine, history
<1>4. CASE FindStartPoints
  <2>1. /\ UNCHANGED <<mem, analyzed, tags>> /\ pc = "ingested"
        /\ pc' = IF job = Update THEN "tag" ELSE "load"
    BY <1>4 DEF FindStartPoints
  <2>2. Fit(analyzed, tags)'
    BY <1>1, <2>1 DEF FitInv, Fit, Anc
  <2> QED
    BY <1>1, <1>3, <2>1, <2>2 DEF FitInv
<1>5. CASE TagAndRearrange
  <2>1. /\ mem' = Tagged /\ pc = "tag" /\ pc' = "remove"
        /\ todo' = DeletedBranches /\ RewoundOrAdded \subseteq affected'
        /\ UNCHANGED <<analyzed, tags>>
    BY <1>5 DEF TagAndRearrange
  <2>2. Fit(analyzed, tags)'
    BY <1>1, <2>1 DEF FitInv, Fit, Anc
  <2>3. Fit(branches, mem)'
    BY <1>1, <1>3, <2>1, TaggedFits DEF Fit, Anc
  <2>4. DeletedBranches' = DeletedBranches /\ RewoundOrAdded' = RewoundOrAdded
    BY <1>1, <2>1 DEF DeletedBranches, RewoundOrAdded
  <2> QED
    BY <2>1, <2>2, <2>3, <2>4 DEF FitInv
<1>6. ASSUME NEW b \in Branches, RemoveBranch(b) PROVE FitInv'
  <2>1. /\ pc = "remove" /\ pc' = "remove" /\ todo' = todo \ {b}
        /\ tags' = [c \in Commits |-> tags[c] \ {b}]
        /\ UNCHANGED <<mem, analyzed, affected>>
    BY <1>6 DEF RemoveBranch
  <2>2. Fit(analyzed, tags)'
    <3>1. Fit(analyzed, tags)
      BY <2>1 DEF FitInv
    <3> QED
      BY <1>1, <1>2, <2>1, <3>1 DEF Fit, Anc, Types
  <2>3. DeletedBranches' = DeletedBranches /\ RewoundOrAdded' = RewoundOrAdded
    BY <1>1, <2>1 DEF DeletedBranches, RewoundOrAdded
  <2>4. \A d \in DeletedBranches \ todo' : \A c \in Commits : d \notin tags'[c]
    BY <2>1 DEF FitInv
  <2> QED
    BY <1>3, <2>1, <2>2, <2>3, <2>4 DEF FitInv
<1>7. CASE Prune
  <2>1. /\ pc = "remove" /\ pc' = "save" /\ todo = {} /\ affected \subseteq todo'
        /\ tags' = [c \in Commits |-> IF c \in stored' THEN tags[c] ELSE {}]
        /\ UNCHANGED <<mem, analyzed>>
    BY <1>7 DEF Prune
  <2>2. ASSUME NEW c \in Commits, NEW b \in tags'[c]
        PROVE  branches[b] # NoCommit /\ (b \in todo' \/ c \in Anc({branches[b]}))
    <3>1. b \in tags[c] /\ b \in Branches
      BY <1>2, <2>1, <2>2 DEF Types
    <3>2. analyzed[b] # NoCommit /\ c \in Anc({analyzed[b]})
      BY <1>2, <2>1, <3>1 DEF FitInv, Fit, Types
    <3>3. b \in Names(analyzed)
      BY <1>2, <3>1, <3>2 DEF Names, Types
    <3>4. b \notin DeletedBranches
      BY <2>1, <3>1 DEF FitInv
    <3>5. b \in Names(branches) /\ branches[b] # NoCommit
      BY <3>3, <3>4 DEF DeletedBranches, Names
    <3>6. b \in RewoundOrAdded => b \in todo'
      BY <2>1 DEF FitInv
    <3> QED
      BY <3>2, <3>5, <3>6, ForwardKeeps
  <2> QED
    BY <1>1, <1>3, <2>1, <2>2 DEF FitInv, Anc
<1>8. ASSUME NEW b \in Branches, Retag(b) PROVE FitInv'
  <2>1. /\ pc = "retag" /\ pc' = "retag" /\ todo' = todo \ {b} /\ tags' = ReTagBranch(b)
        /\ b \in Names(branches) /\ UNCHANGED <<mem, clean>>
    BY <1>8 DEF Retag
  <2>2. ASSUME job = Update, clean, NEW c \in Commits, NEW d \in tags'[c]
        PROVE  branches[d] # NoCommit /\ (d \in todo' \/ c \in Anc({branches[d]}))
    <3>1. CASE d = b
      <4>1. branches[b] # NoCommit /\ {branches[b]} \in SUBSET Commits
        BY <1>2, <2>1 DEF Names, Types
      <4>2. c \in EngineAnc({branches[b]})
        BY <2>1, <2>2, <3>1 DEF ReTagBranch
      <4> QED
        BY <3>1, <4>1, <4>2, EngineFacts
    <3>2. CASE d # b
      BY <2>1, <2>2, <3>2 DEF ReTagBranch, FitInv
    <3> QED
      BY <3>1, <3>2
  <2> QED
    BY <1>1, <1>3, <2>1, <2>2 DEF FitInv, Anc
<1>9. CASE RetagFails
  <2>1. mem' = mem /\ clean' = FALSE /\ pc = "retag" /\ pc' = "retag"
    BY <1>9 DEF RetagFails
  <2> QED
    BY <1>3, <2>1 DEF FitInv
<1>10. CASE SaveBranchesEarly \/ Rearranged \/ LoadFiles \/ SkipSeen \/ SaveBranches \/ Succeed
  <2>1. /\ pc \in {"save", "retag", "load", "analyze", "done"}
        /\ pc' \in {"retag", "load", "analyze", "done", "idle"}
        /\ UNCHANGED <<tags, mem, todo, clean>>
    <3>1. CASE SaveBranchesEarly \/ Rearranged \/ SkipSeen \/ SaveBranches \/ Succeed
      BY <3>1 DEF SaveBranchesEarly, Rearranged, SkipSeen, SaveBranches, Succeed
    <3>2. CASE LoadFiles
      BY <3>2 DEF LoadFiles, RunFrom
    <3> QED
      BY <1>10, <3>1, <3>2
  <2> QED
    BY <1>1, <1>3, <2>1 DEF FitInv, Anc
<1>11. CASE AnalyzeCommit
  <2>1. /\ pc = "analyze" /\ pc' = "analyze" /\ tags' = [tags EXCEPT ![top] = mem[top]]
        /\ UNCHANGED <<mem, todo, clean>>
    BY <1>11 DEF AnalyzeCommit
  <2>2. top \in Commits
    BY <1>11, AnalyzeCommitWalks
  <2>3. ASSUME job = Update, clean, NEW c \in Commits, NEW d \in tags'[c]
        PROVE  branches[d] # NoCommit /\ (d \in todo \/ c \in Anc({branches[d]}))
    <3>1. CASE c = top
      BY <1>2, <1>3, <2>1, <2>2, <2>3, <3>1 DEF Fit, Types
    <3>2. CASE c # top
      BY <1>2, <2>1, <2>3, <3>2 DEF FitInv, Types
    <3> QED
      BY <3>1, <3>2
  <2> QED
    BY <1>1, <1>3, <2>1, <2>3 DEF FitInv, Anc
<1>12. CASE Fail
  <2>1. mem' = mem /\ pc' = "failed"
    BY <1>12 DEF Fail
  <2> QED
    BY <1>3, <2>1 DEF FitInv
<1> QED
  BY <1>4, <1>5, <1>6, <1>7, <1>8, <1>9, <1>10, <1>11, <1>12 DEF JobStep

----------------------------------------------------------------------------
(* The inductive invariant, and what it says of every behaviour.           *)

(* As long as no job has failed, the engine has all parents of what it has.*)
CleanInv == clean => \A c \in known : links[c] = parents[c]

(* So it has all ancestors.                                                *)
LEMMA CleanAnc ==
    ASSUME RepositoryAnalysisAssumption, TypeInv, CleanInv, clean, NEW H \in SUBSET known
    PROVE  EngineAnc(H) = Anc(H)
<1>1. H \in SUBSET Commits /\ known \in SUBSET Commits /\ Closed(known, links)
  BY DEF TypeInv, TypeOK
<1>2. /\ EngineAnc(H) \in SUBSET Commits /\ H \subseteq EngineAnc(H)
      /\ Closed(EngineAnc(H), links) /\ EngineAnc(H) \subseteq known
      /\ EngineAnc(H) \subseteq Anc(H)
  BY <1>1, EngineFacts
<1>3. Closed(EngineAnc(H), parents)
  BY <1>2 DEF Closed, CleanInv
<1>4. Anc(H) \subseteq EngineAnc(H)
  BY <1>1, <1>2, <1>3, AncFacts DEF TypeInv
<1> QED
  BY <1>2, <1>4

(* A call that goes well links what it registers, one that does not makes  *)
(* the job fail, and no other step links anything.                         *)
LEMMA NextCleanInv ==
    ASSUME RepositoryAnalysisAssumption, TypeInv, CleanInv, Next
    PROVE  CleanInv'
<1>1. CASE UpdateRepository \/ UpdatePullRequest
  <2>1. Fetch
    BY <1>1 DEF UpdateRepository, UpdatePullRequest
  <2> QED
    BY <2>1 DEF Fetch, CleanInv, engine
<1>2. CASE IngestStep
  <2>1. PICK h \in Commits : IngestHead(h) \/ IngestFails(h)
    BY <1>2 DEF IngestStep
  <2>2. CASE IngestHead(h)
    <3> DEFINE new == UnseenAncestors(parents, known, {h})
    <3>1. /\ known' = known \cup new /\ UNCHANGED <<parents, clean>>
          /\ links' = LinksAfter(parents, links, new, NoCommit, 0)
      BY <2>2 DEF IngestHead, history
    <3>2. /\ parents \in [Commits -> Seq(Commits)] /\ NoCommit \notin Commits
          /\ known' \in SUBSET Commits
      BY <2>1, HistoryFacts, IngestedFacts DEF TypeInv
    <3> HIDE DEF new
    <3>3. \A c \in Commits : links'[c] = IF c \notin new THEN links[c] ELSE parents[c]
      BY <3>1, <3>2 DEF LinksAfter
    <3> QED
      BY <3>1, <3>2, <3>3 DEF CleanInv
  <2>3. CASE IngestFails(h)
    BY <2>3 DEF IngestFails, CleanInv
  <2> QED
    BY <2>1, <2>2, <2>3
<1>3. CASE JobStep
  <2>1. UNCHANGED <<parents, known, links>>
    BY <1>3, JobGoesOn
  <2>2. clean' => clean
    <3> USE DEF history
    <3>1. CASE FindStartPoints \/ TagAndRearrange \/ Prune \/ SaveBranchesEarly \/ RetagFails
      BY <3>1 DEF FindStartPoints, TagAndRearrange, Prune, SaveBranchesEarly, RetagFails
    <3>2. CASE \E b \in Branches : RemoveBranch(b) \/ Retag(b)
      BY <3>2 DEF RemoveBranch, Retag
    <3>3. CASE Rearranged \/ LoadFiles \/ SkipSeen \/ SaveBranches \/ Succeed \/ Fail
      BY <3>3 DEF Rearranged, LoadFiles, SkipSeen, SaveBranches, Succeed, Fail
    <3>4. CASE AnalyzeCommit
      BY <3>4 DEF AnalyzeCommit
    <3> QED
      BY <1>3, <3>1, <3>2, <3>3, <3>4 DEF JobStep
  <2> QED
    BY <2>1, <2>2 DEF CleanInv
<1> QED
  BY <1>1, <1>2, <1>3, NextIsFetchOrStep

IInv ==
    /\ TypeInv
    /\ FreshInv /\ CoverInv /\ WholeInv /\ WalkInv /\ PlanInv
    /\ MemTaggedInv /\ AffectedInv /\ FitInv /\ CleanInv

(* The invariant holds initially.                                          *)
LEMMA InitIInv == ASSUME RepositoryAnalysisAssumption, Init PROVE IInv
<1>1. TypeInv
  BY InitTypeInv
<1> USE DEF Init
<1>2. FreshInv /\ CoverInv /\ WholeInv /\ WalkInv /\ PlanInv /\ MemTaggedInv
  BY DEF FreshInv, CoverInv, WholeInv, WalkInv, PlanInv, MemTaggedInv, Preparing
<1>3. AffectedInv /\ CleanInv
  BY DEF AffectedInv, CleanInv
<1>4. FitInv
  BY DEF FitInv, Fit
<1> QED
  BY <1>1, <1>2, <1>3, <1>4 DEF IInv

(* The first step of a job establishes it for the job.                     *)
LEMMA FetchIInv ==
    ASSUME RepositoryAnalysisAssumption, IInv, UpdateRepository \/ UpdatePullRequest
    PROVE  IInv'
<1>1. TypeInv /\ CleanInv
  BY DEF IInv
<1>2. TypeInv' /\ WholeInv' /\ FitInv' /\ CleanInv'
  BY <1>1, FetchTypeInv, FetchWholeInv, FetchFitInv, NextCleanInv DEF Next
<1>3. pc' = "fetched"
  BY DEF UpdateRepository, UpdatePullRequest, Fetch
<1>4. (FreshInv /\ CoverInv /\ WalkInv /\ PlanInv /\ MemTaggedInv /\ AffectedInv)'
  BY <1>3 DEF FreshInv, CoverInv, WalkInv, PlanInv, MemTaggedInv, AffectedInv, Preparing
<1> QED
  BY <1>2, <1>4 DEF IInv

(* The calls of IngestHead keep it.                                        *)
LEMMA IngestIInv ==
    ASSUME RepositoryAnalysisAssumption, IInv, IngestStep
    PROVE  IInv'
<1>1. TypeInv /\ CleanInv /\ WholeInv /\ FitInv
  BY DEF IInv
<1>2. TypeInv' /\ CleanInv'
  BY <1>1, IngestTypeInv, NextCleanInv DEF Next, IngestStep
<1>3. /\ UNCHANGED <<parents, branches, repo, mem, job, fit, whole>>
      /\ pc = "fetched" /\ pc' \in {"fetched", "ingested", "failed"}
  BY DEF IngestStep, IngestHead, IngestFails, IsNextHead, history
<1>4. (FreshInv /\ CoverInv /\ WalkInv /\ PlanInv /\ MemTaggedInv /\ AffectedInv)'
  BY <1>3 DEF FreshInv, CoverInv, WalkInv, PlanInv, MemTaggedInv, AffectedInv, Preparing
<1>5. WholeInv'
  BY <1>1, <1>3 DEF WholeInv, DeletedBranches, repo, Preparing
<1>6. Fit(branches, mem)' = Fit(branches, mem) /\ Fit(analyzed, tags)' = Fit(analyzed, tags)
  BY <1>3 DEF Fit, Anc, repo
<1>7. FitInv'
  BY <1>1, <1>3, <1>6 DEF FitInv
<1> QED
  BY <1>2, <1>4, <1>5, <1>7 DEF IInv

(* The other steps keep it.                                                *)
LEMMA StepIInv ==
    ASSUME RepositoryAnalysisAssumption, IInv, JobStep
    PROVE  IInv'
<1>1. CleanInv'
  BY NextCleanInv DEF IInv, Next, JobStep
<1> QED
  BY <1>1, StepTypeInv, StepFreshInv, StepCoverInv, StepWholeInv, StepWalkInv, StepPlanInv,
     StepMemTaggedInv, StepAffectedInv, StepFitInv DEF IInv

(* So does a stuttering step.                                              *)
LEMMA StutterIInv == ASSUME IInv, UNCHANGED vars PROVE IInv'
<1>1. TypeInv'
  BY StutterTypeInv DEF IInv
<1> USE DEF vars, repo, marks, engine, history
<1>2. /\ SeenAtStart' = SeenAtStart /\ Unseen' = Unseen /\ newCommits' = newCommits
      /\ UnseenIsLinked' = UnseenIsLinked
  BY DEF SeenAtStart, Unseen, newCommits, JobHeads, EngineAnc, UnseenIsLinked, Linked
<1>3. (FreshInv /\ CoverInv /\ WholeInv /\ WalkInv /\ PlanInv)'
  BY <1>2 DEF IInv, FreshInv, CoverInv, WholeInv, WalkInv, PlanInv, DeletedBranches
<1>4. (MemTaggedInv /\ AffectedInv)'
  BY <1>2 DEF IInv, MemTaggedInv, AffectedInv, EngineAnc
<1>5. FitInv' /\ CleanInv'
  BY DEF IInv, FitInv, CleanInv, Fit, Anc, DeletedBranches, RewoundOrAdded
<1> QED
  BY <1>1, <1>3, <1>4, <1>5 DEF IInv

(* The invariant holds in every state of every behaviour.                  *)
LEMMA IInvHolds ==
    ASSUME RepositoryAnalysisAssumption
    PROVE  Spec => []IInv
<1>1. Init => IInv
  BY InitIInv
<1>2. IInv /\ [Next]_vars => IInv'
  BY FetchIInv, IngestIInv, StepIInv, StutterIInv, NextIsFetchOrStep
<1> QED
  BY <1>1, <1>2, PTL DEF Spec

(* After an update that went through, no stored commit carries a branch it *)
(* is not on, if the tags fitted before, and every stored commit of a      *)
(* branch that was affected carries it: ReTagBranch and the pruning leave  *)
(* the documents as the branches are.                                      *)
THEOREM TagsAreExact ==
    ASSUME RepositoryAnalysisAssumption
    PROVE  Spec => []TagsExact
<1>1. IInv => TagsExact
  <2> SUFFICES ASSUME IInv, Updated, clean PROVE (fit => Fit(branches, tags)) /\ AffectedTagged
    BY DEF TagsExact, NoStaleTag, AffectedTagged
  <2>1. pc = "idle" /\ job = Update /\ todo = {} /\ Types
    BY TypesOK DEF Updated, IInv, TypeInv
  <2>2. fit => Fit(branches, tags)
    BY <2>1 DEF IInv, FitInv, Fit, Types
  <2>3. AffectedTagged
    <3> SUFFICES ASSUME NEW b \in affected \cap Names(branches),
                        NEW c \in stored \cap Anc({branches[b]})
                 PROVE  b \in tags[c]
      BY DEF AffectedTagged
    <3>1. branches[b] \in known
      <4>1. branches[b] \in HeadsOf(branches)
        BY <2>1, HeadsOfType DEF Types
      <4> QED
        BY <2>1, <4>1 DEF IInv, TypeInv, JobHeads
    <3>2. c \in EngineAnc({branches[b]})
      BY <3>1, CleanAnc DEF IInv
    <3> QED
      BY <2>1, <3>2 DEF IInv, AffectedInv
  <2> QED
    BY <2>2, <2>3
<1> QED
  BY <1>1, IInvHolds, PTL

(* The start points of a job lead to every commit of its heads that it has *)
(* not seen (UnseenRoots, SuccessorList), for every history without cycles,*)
(* and wherever IngestHead failed before, if the engine has the parents of *)
(* what was not seen.                                                      *)
THEOREM StartPointsCover ==
    ASSUME RepositoryAnalysisAssumption
    PROVE  Spec => []StartCoversUnseen
<1>1. IInv => StartCoversUnseen
  BY DEF IInv, CoverInv, StartCoversUnseen, Preparing
<1> QED
  BY <1>1, IInvHolds, PTL

(* A head is recorded as analysed only when all its commits have a         *)
(* document, for every history, whatever is pushed and wherever jobs fail, *)
(* in a call of IngestHead too, if the engine has the parents of what was  *)
(* not seen.                                                               *)
THEOREM CoverageIsKept ==
    ASSUME RepositoryAnalysisAssumption
    PROVE  Spec => CoverageKept
<1>1. IInv /\ [Next]_vars => [CoverageStep]_vars
  <2> SUFFICES ASSUME IInv, [Next]_vars PROVE [CoverageStep]_vars
    OBVIOUS
  <2>1. CASE UpdateRepository \/ UpdatePullRequest
    BY <2>1 DEF UpdateRepository, UpdatePullRequest, Fetch, repo, CoverageStep
  <2>i. CASE IngestStep
    BY <2>i DEF IngestStep, IngestHead, IngestFails, repo, CoverageStep
  <2>2. CASE JobStep
    BY <2>2, StepCoverage DEF IInv
  <2>3. CASE UNCHANGED vars
    BY <2>3
  <2> QED
    BY <2>1, <2>2, <2>3, <2>i, NextIsFetchOrStep
<1> QED
  BY <1>1, IInvHolds, PTL DEF Spec, CoverageKept

----------------------------------------------------------------------------
(* The marks of bugs (BugMarks): its jobs are those proved about above.    *)

(* With or without the bugs, a job takes the same steps.                   *)
LEMMA BugStepIsStep == BugNext => Next
<1>1. AnalyzeBugs \/ PruneBugs \/ SucceedCounted \/ FailBugs => Next
  BY DEF AnalyzeBugs, PruneBugs, SucceedCounted, FailBugs, Next
<1> QED
  BY <1>1 DEF BugNext, Next

(* What holds of the jobs holds of them with their bugs.                   *)
LEMMA BugsImplement == BugSpec => Spec
<1>1. BugInit => Init
  BY DEF BugInit
<1>2. [BugNext]_<<vars, bugVars>> => [Next]_vars
  BY BugStepIsStep
<1> QED
  BY <1>1, <1>2, PTL DEF BugSpec, Spec

(* Git blames ancestors of a commit, never the commit itself.              *)
LEMMA InducingFacts ==
    ASSUME RepositoryAnalysisAssumption, InducingAssumption, parents \in Histories,
           NEW f \in Commits
    PROVE  /\ Inducing[parents][f] \in SUBSET Commits
           /\ Inducing[parents][f] \subseteq Anc({f})
           /\ f \notin Inducing[parents][f]
<1> DEFINE p == parents[f][1]
<1>1. /\ IsFiniteSet(Commits) /\ parents \in [Commits -> Seq(Commits)]
      /\ \A c \in Commits : Range(parents[c]) \in SUBSET Commits
  BY HistoryFacts
<1>2. CASE parents[f] = <<>>
  BY <1>2 DEF InducingAssumption
<1>3. CASE parents[f] # <<>>
  <2>1. Inducing[parents][f] \subseteq Anc({p})
    BY <1>3 DEF InducingAssumption, Anc
  <2>2. p \in Range(parents[f]) /\ p \in Commits
    <3>1. parents[f] \in Seq(Commits) /\ 1 \in DOMAIN parents[f]
      BY <1>1, <1>3
    <3> QED
      BY <1>1, <3>1 DEF Range
  <2> HIDE DEF p
  <2>3. {f} \in SUBSET Commits /\ {p} \in SUBSET Commits
    BY <2>2
  <2>4. Anc({p}) \subseteq Anc({f})
    <3>1. Anc({f}) \in SUBSET Commits /\ f \in Anc({f}) /\ Closed(Anc({f}), parents)
      BY <2>3, AncFacts
    <3>2. {p} \subseteq Anc({f})
      BY <2>2, <3>1 DEF Closed
    <3> QED
      BY <2>3, <3>1, <3>2, AncFacts
  <2>5. f \notin Anc({p})
    <3>1. PICK rank \in [Commits -> 0 .. Cardinality(Commits)] :
            \A c \in Commits : \A q \in Range(parents[c]) : rank[q] < rank[c]
      BY DEF RepositoryAnalysisAssumption, Acyclic
    <3>2. \A c \in Commits : rank[c] \in Int
      BY <1>1, <3>1, FS_CardinalityType
    <3> DEFINE S == {c \in Commits : rank[c] < rank[f]}
    <3>3. S \in SUBSET Commits /\ {p} \subseteq S /\ f \notin S
      BY <2>2, <3>1, <3>2
    <3>4. Closed(S, parents)
      <4> SUFFICES ASSUME NEW c \in S, NEW q \in Range(parents[c]) PROVE q \in S
        BY DEF Closed
      <4>1. q \in Commits /\ rank[q] < rank[c] /\ rank[c] < rank[f]
        BY <1>1, <3>1
      <4> QED
        BY <3>2, <4>1
    <3> HIDE DEF S
    <3> QED
      BY <2>3, <3>3, <3>4, AncFacts
  <2>6. Anc({p}) \in SUBSET Commits
    BY <2>3, AncFacts
  <2> QED
    BY <2>1, <2>4, <2>5, <2>6
<1> QED
  BY <1>2, <1>3

(* Git blames no more for what is deleted, and nobody for a merge.          *)
LEMMA BlamedFacts ==
    ASSUME RepositoryAnalysisAssumption, InducingAssumption, parents \in Histories,
           NEW f \in Commits
    PROVE  /\ Blamed(f) \in SUBSET Commits
           /\ Blamed(f) \subseteq Anc({f})
           /\ f \notin Blamed(f)
BY InducingFacts DEF Blamed

(* Types of what is said of bugs; a fix marks a commit once.               *)
BugTypes ==
    /\ fixes \in [Commits -> Seq(Commits)]
    /\ traced \in SUBSET stored
    /\ buggyCount \in 0 .. Cardinality(Commits)
    /\ \A c \in Commits \ stored : fixes[c] = <<>>
    /\ \A c \in Commits : IsInjective(fixes[c])

(* MarkBuggy adds the mark where it is missing, and takes none away.       *)
LEMMA MarkFacts ==
    ASSUME fixes \in [Commits -> Seq(Commits)], \A c \in Commits : IsInjective(fixes[c]),
           NEW fix \in Commits, NEW marked
    PROVE  /\ MarkBuggy(fix, marked) \in [Commits -> Seq(Commits)]
           /\ \A c \in Commits :
                /\ IsInjective(MarkBuggy(fix, marked)[c])
                /\ Range(fixes[c]) \subseteq Range(MarkBuggy(fix, marked)[c])
                /\ c \in stored \cap marked => fix \in Range(MarkBuggy(fix, marked)[c])
                /\ c \notin stored => MarkBuggy(fix, marked)[c] = fixes[c]
<1> DEFINE new(c) == IF c \in stored \cap marked /\ fix \notin Range(fixes[c])
                     THEN Append(fixes[c], fix) ELSE fixes[c]
<1>1. ASSUME NEW c \in Commits
      PROVE  /\ new(c) \in Seq(Commits)
             /\ IsInjective(new(c))
             /\ Range(fixes[c]) \subseteq Range(new(c))
             /\ c \in stored \cap marked => fix \in Range(new(c))
             /\ c \notin stored => new(c) = fixes[c]
  <2>1. CASE c \in stored \cap marked /\ fix \notin Range(fixes[c])
    <3>1. /\ Append(fixes[c], fix) \in Seq(Commits)
          /\ Range(Append(fixes[c], fix)) = Range(fixes[c]) \cup {fix}
      BY RangeAppend
    <3>2. IsInjective(Append(fixes[c], fix))
      BY <2>1, InjectiveAppend
    <3> QED
      BY <2>1, <3>1, <3>2
  <2>2. CASE ~(c \in stored \cap marked /\ fix \notin Range(fixes[c]))
    BY <2>2
  <2> QED
    BY <2>1, <2>2
<1>2. MarkBuggy(fix, marked) = [c \in Commits |-> new(c)]
  BY DEF MarkBuggy
<1> HIDE DEF new
<1> QED
  BY <1>1, <1>2

(* What an analysis may say of the bugs of a commit: what it traces is what *)
(* git blames, if the engine has the parents of the commit.                *)
LEMMA AnalyzeBugsFacts ==
    ASSUME RepositoryAnalysisAssumption, InducingAssumption, TypeInv, BugTypes, AnalyzeBugs
    PROVE  /\ top \in Commits /\ top \in known
           /\ stored' = stored \cup {top} /\ parents' = parents
           /\ links[top] = parents[top] => bugs = Blamed(top)
           /\ fixes' \in [Commits -> Seq(Commits)] /\ fixes'[top] = <<>>
           /\ \A c \in Commits \ {top} :
                /\ IsInjective(fixes'[c]) /\ Range(fixes[c]) \subseteq Range(fixes'[c])
                /\ c \notin stored => fixes'[c] = fixes[c]
           /\ \/ traced' = traced \ {top}
              \/ /\ traced' = traced \cup {top}
                 /\ \A c \in (stored \cap bugs) \ {top} : top \in Range(fixes'[c])
<1>1. AnalyzeCommit /\ (Traced \/ NotTraced)
  BY DEF AnalyzeBugs
<1>2. top \in Commits /\ top \in known /\ stored' = stored \cup {top} /\ parents' = parents
  BY <1>1, AnalyzeCommitWalks DEF AnalyzeCommit
<1>3. stored \in SUBSET Commits /\ \A c \in Commits : IsInjective(fixes[c])
  BY DEF TypeInv, TypeOK, BugTypes
<1>4. links[top] = parents[top] => bugs = Blamed(top)
  <2>1. parents[top] = <<>> => Inducing[parents][top] = {}
    BY <1>2 DEF InducingAssumption, TypeInv
  <2> QED
    BY <2>1 DEF bugs, Blamed, IsMerge
<1>5. CASE Traced
  <2> DEFINE new == MarkBuggy(top, bugs)
  <2>1. /\ new \in [Commits -> Seq(Commits)]
        /\ \A c \in Commits :
             /\ IsInjective(new[c]) /\ Range(fixes[c]) \subseteq Range(new[c])
             /\ c \in stored \cap bugs => top \in Range(new[c])
             /\ c \notin stored => new[c] = fixes[c]
    BY <1>2, MarkFacts DEF BugTypes
  <2>2. fixes' = [new EXCEPT ![top] = <<>>] /\ traced' = traced \cup {top}
    BY <1>5 DEF Traced
  <2> HIDE DEF new
  <2>3. /\ fixes' \in [Commits -> Seq(Commits)] /\ fixes'[top] = <<>>
        /\ \A c \in Commits \ {top} : fixes'[c] = new[c]
    BY <1>2, <2>1, <2>2
  <2> QED
    BY <1>2, <1>3, <1>4, <2>1, <2>2, <2>3
<1>6. CASE NotTraced
  <2>1. fixes' = [fixes EXCEPT ![top] = <<>>] /\ traced' = traced \ {top}
    BY <1>6 DEF NotTraced
  <2>2. /\ fixes' \in [Commits -> Seq(Commits)] /\ fixes'[top] = <<>>
        /\ \A c \in Commits \ {top} : fixes'[c] = fixes[c]
    BY <1>2, <2>1 DEF BugTypes
  <2> QED
    BY <1>2, <1>3, <1>4, <2>1, <2>2
<1> QED
  BY <1>1, <1>5, <1>6

(* The steps that say nothing new about bugs.                              *)
OtherStep ==
    /\ \/ UpdateRepository \/ UpdatePullRequest
       \/ IngestStep
       \/ FindStartPoints \/ TagAndRearrange
       \/ \E b \in Branches : RemoveBranch(b) \/ Retag(b)
       \/ SaveBranchesEarly \/ RetagFails \/ Rearranged
       \/ LoadFiles \/ SkipSeen \/ SaveBranches
    /\ UNCHANGED bugVars

(* Between two analyses; what was counted is still all there is.           *)
Quiet == pc \in {"idle", "fetched", "ingested"} \cup Preparing \/ (pc = "done" /\ start = {})

(* They store nothing, and end the analysis only with an empty stack.      *)
LEMMA OtherSteps ==
    ASSUME RepositoryAnalysisAssumption, TypeInv, FreshInv, OtherStep, pc = "failed" => ~clean
    PROVE  /\ UNCHANGED <<parents, stored, bugVars>>
           /\ clean' => clean
           /\ pc' # "idle" /\ (pc' = "failed" => ~clean')
           /\ Quiet' /\ clean' => Quiet
           /\ pc = "analyze" => /\ UNCHANGED <<known, seen>>
                                /\ pc' = "analyze" \/ (SaveBranches /\ stack = <<>>)
<1> USE DEF repo, marks, engine, history, Preparing, Quiet
<1>1. CASE UpdateRepository \/ UpdatePullRequest
  <2>1. Fetch
    BY <1>1 DEF UpdateRepository, UpdatePullRequest
  <2>2. /\ UNCHANGED <<parents, stored, clean>> /\ pc \in {"idle", "failed"}
        /\ pc' = "fetched"
    BY <2>1 DEF Fetch
  <2> QED
    BY <2>1, <2>2 DEF OtherStep
<1>8. CASE IngestStep
  <2>1. PICK h \in Commits : IngestHead(h) \/ IngestFails(h)
    BY <1>8 DEF IngestStep
  <2>2. /\ pc = "fetched" /\ UNCHANGED <<parents, stored>>
        /\ pc' \in {"fetched", "ingested", "failed"}
        /\ clean' => clean
        /\ pc' = "failed" => ~clean'
    BY <2>1 DEF IngestHead, IngestFails, IsNextHead
  <2> QED
    BY <2>2 DEF OtherStep
<1>2. CASE FindStartPoints
  BY <1>2 DEF FindStartPoints, OtherStep
<1>3. CASE TagAndRearrange \/ SaveBranchesEarly \/ RetagFails \/ Rearranged
  BY <1>3 DEF TagAndRearrange, SaveBranchesEarly, RetagFails, Rearranged, OtherStep
<1>4. CASE \E b \in Branches : RemoveBranch(b) \/ Retag(b)
  BY <1>4 DEF RemoveBranch, Retag, OtherStep
<1>5. CASE LoadFiles
  <2>1. pc = "load" /\ pc' \in {"analyze", "done"} /\ UNCHANGED <<parents, stored, clean>>
    BY <1>5 DEF LoadFiles, RunFrom
  <2> QED
    BY <2>1 DEF OtherStep
<1>6. CASE SkipSeen
  BY <1>6 DEF SkipSeen, OtherStep
<1>7. CASE SaveBranches
  <2>1. /\ pc = "analyze" /\ stack = <<>> /\ pc' = "done" /\ start' = start
        /\ UNCHANGED <<parents, stored, clean, known, seen>>
    BY <1>7 DEF SaveBranches
  <2>2. start # {}
    BY <2>1 DEF FreshInv
  <2> QED
    BY <1>7, <2>1, <2>2 DEF OtherStep
<1> QED
  BY <1>1, <1>2, <1>3, <1>4, <1>5, <1>6, <1>7, <1>8 DEF OtherStep

(* All steps of BugMarks.                                                  *)
LEMMA BugNextSteps == BugNext => AnalyzeBugs \/ PruneBugs \/ SucceedCounted \/ FailBugs \/ OtherStep
BY DEF BugNext, OtherStep, IngestStep

(* The marked commits are finitely many, of the stored ones.               *)
LEMMA InducingCount ==
    ASSUME IsFiniteSet(Commits), stored \in SUBSET Commits
    PROVE  /\ BugInducing \in SUBSET stored
           /\ BugInducingCount = Cardinality(BugInducing)
           /\ BugInducingCount \in 0 .. Cardinality(Commits)
           /\ \A S \in SUBSET BugInducing : /\ Cardinality(S) \in Nat
                                            /\ Cardinality(S) <= Cardinality(BugInducing)
<1>1. BugInducing \in SUBSET stored /\ BugInducing \in SUBSET Commits
  BY DEF BugInducing
<1> HIDE DEF BugInducing
<1>2. IsFiniteSet(BugInducing) /\ Cardinality(BugInducing) <= Cardinality(Commits)
  BY <1>1, FS_Subset
<1>3. Cardinality(BugInducing) \in Nat /\ Cardinality(Commits) \in Nat
  BY <1>2, FS_CardinalityType
<1>4. BugInducingCount = Cardinality(BugInducing)
  BY DEF BugInducingCount
<1>5. ASSUME NEW S \in SUBSET BugInducing
      PROVE  Cardinality(S) \in Nat /\ Cardinality(S) <= Cardinality(BugInducing)
  BY <1>2, FS_Subset, FS_CardinalityType
<1> QED
  BY <1>1, <1>2, <1>3, <1>4, <1>5

(* The count is saved when a job has analysed, and until the next analysis *)
(* marks can only go.                                                      *)
CountInv ==
    /\ pc = "failed" => ~clean
    /\ clean /\ pc = "idle" /\ start # {} => buggyCount = Cardinality(BugInducing)
    /\ clean /\ Quiet => Cardinality(BugInducing) <= buggyCount

(* A fix that was traced has marked what git blames; or the commit was     *)
(* just replaced, and the walk has the fix still before it.                *)
MarkedInv ==
    clean /\ ~early /\ ~apart =>
        \A f \in traced : \A c \in Blamed(f) \cap stored :
            \/ f \in Range(fixes[c])
            \/ pc = "analyze" /\ c \in seen /\ f \in known \ seen

BugInv == BugTypes /\ CountInv /\ MarkedInv

(* Initially nothing is traced, marked or counted.                         *)
LEMMA InitBugInv == ASSUME RepositoryAnalysisAssumption, InducingAssumption, BugInit PROVE BugInv
<1>1. IsFiniteSet(Commits) /\ Cardinality(Commits) \in Nat
  BY FS_CardinalityType DEF RepositoryAnalysisAssumption
<1>2. /\ Init /\ fixes = [c \in Commits |-> <<>>]
      /\ buggyCount = 0 /\ traced = {}
  BY DEF BugInit
<1>3. stored = {} /\ pc = "idle" /\ start = {}
  BY <1>2 DEF Init
<1>4. BugTypes
  BY <1>1, <1>2, <1>3, InjectiveEmpty DEF BugTypes
<1>5. CountInv
  <2>1. BugInducing = {}
    BY <1>3 DEF BugInducing
  <2>2. Cardinality(BugInducing) = 0
    BY <2>1, FS_EmptySet
  <2> QED
    BY <1>2, <1>3, <2>2 DEF CountInv
<1>6. MarkedInv
  BY <1>2 DEF MarkedInv
<1> QED
  BY <1>4, <1>5, <1>6 DEF BugInv

(* At the end of the walk, nothing that comes after what was seen is       *)
(* unseen.                                                                 *)
LEMMA SeenToTheEnd ==
    ASSUME RepositoryAnalysisAssumption, TypeInv, CleanInv, clean, WalkInv, pc = "analyze",
           stack = <<>>, NEW c \in seen, NEW f \in known \ seen
    PROVE  c \notin Anc({f})
<1> DEFINE S == known \ seen
           H == {f}
<1>1. \A d \in seen, e \in known : d \in Range(links[e]) => e \in seen
  BY RangeEmpty DEF WalkInv
<1>2. S \in SUBSET Commits /\ H \subseteq S /\ H \in SUBSET Commits /\ H \in SUBSET known
  BY DEF TypeInv, TypeOK
<1>3. Closed(S, links)
  BY <1>1 DEF Closed, TypeInv
<1>4. c \notin S
  OBVIOUS
<1> HIDE DEF S, H
<1>5. EngineAnc(H) \subseteq S
  BY <1>2, <1>3, EngineFacts
<1>6. EngineAnc(H) = Anc(H)
  BY <1>2, CleanAnc
<1> QED
  BY <1>4, <1>5, <1>6 DEF H

(* The steps that say nothing new keep the invariant: at the end of a walk *)
(* no fix is still before it.                                              *)
LEMMA OtherBugInv ==
    ASSUME RepositoryAnalysisAssumption, InducingAssumption, IInv, BugInv, OtherStep
    PROVE  BugInv'
<1>1. TypeInv /\ FreshInv /\ WalkInv /\ CleanInv /\ BugTypes /\ CountInv /\ MarkedInv
  BY DEF IInv, BugInv
<1>2. /\ UNCHANGED <<parents, stored, bugVars>>
      /\ clean' => clean
      /\ pc' # "idle" /\ (pc' = "failed" => ~clean')
      /\ Quiet' /\ clean' => Quiet
      /\ pc = "analyze" => /\ UNCHANGED <<known, seen>>
                           /\ pc' = "analyze" \/ (SaveBranches /\ stack = <<>>)
  BY <1>1, OtherSteps DEF CountInv
<1>3. UNCHANGED <<fixes, buggyCount, traced, early, apart>>
  BY <1>2 DEF bugVars
<1>4. BugTypes'
  BY <1>1, <1>2, <1>3 DEF BugTypes
<1>5. CountInv'
  <2>1. BugInducing' = BugInducing
    BY <1>2, <1>3 DEF BugInducing
  <2> QED
    BY <1>1, <1>2, <1>3, <2>1 DEF CountInv
<1>6. MarkedInv'
  <2> SUFFICES ASSUME clean', ~early, ~apart, NEW f \in traced,
                      NEW c \in Blamed(f) \cap stored, f \notin Range(fixes[c])
               PROVE  pc' = "analyze" /\ c \in seen' /\ f \in known' \ seen'
    BY <1>2, <1>3 DEF MarkedInv, Blamed
  <2>1. pc = "analyze" /\ c \in seen /\ f \in known \ seen
    BY <1>1, <1>2 DEF MarkedInv
  <2>2. f \in Commits
    BY <1>1 DEF BugTypes, TypeInv, TypeOK
  <2>3. c \in Anc({f})
    BY <1>1, <2>2, BlamedFacts DEF TypeInv
  <2>4. ~(stack = <<>>)
    BY <1>1, <1>2, <2>1, <2>3, SeenToTheEnd
  <2> QED
    BY <1>2, <2>1, <2>4
<1> QED
  BY <1>4, <1>5, <1>6 DEF BugInv

(* Deleting documents, with their marks, keeps it.                         *)
LEMMA PruneBugInv ==
    ASSUME RepositoryAnalysisAssumption, InducingAssumption, IInv, BugInv, PruneBugs
    PROVE  BugInv'
<1>1. TypeInv /\ BugTypes /\ CountInv /\ MarkedInv
  BY DEF IInv, BugInv
<1>2. Prune /\ pc = "remove" /\ pc' = "save" /\ UNCHANGED <<parents, clean>>
  BY DEF PruneBugs, Prune, history
<1>3. stored' \in SUBSET stored /\ stored \in SUBSET Commits /\ IsFiniteSet(Commits)
  BY <1>1, <1>2 DEF Prune, TypeInv, TypeOK, RepositoryAnalysisAssumption
<1>4. /\ fixes' = [c \in Commits |-> IF c \in stored' THEN fixes[c] ELSE <<>>]
      /\ traced' = traced \cap stored' /\ UNCHANGED <<buggyCount, early, apart>>
  BY DEF PruneBugs
<1>5. BugTypes'
  <2>1. fixes' \in [Commits -> Seq(Commits)] /\ traced' \in SUBSET stored'
    BY <1>1, <1>4 DEF BugTypes
  <2>2. \A c \in Commits \ stored' : fixes'[c] = <<>>
    BY <1>4
  <2>3. \A c \in Commits : IsInjective(fixes'[c])
    BY <1>1, <1>4, InjectiveEmpty DEF BugTypes
  <2> QED
    BY <1>1, <1>4, <2>1, <2>2, <2>3 DEF BugTypes
<1>6. CountInv'
  <2>1. BugInducing' \in SUBSET BugInducing
    BY <1>3, <1>4 DEF BugInducing
  <2>2. clean => Cardinality(BugInducing) <= buggyCount
    BY <1>1, <1>2 DEF CountInv, Quiet, Preparing
  <2>3. /\ Cardinality(BugInducing') \in Nat /\ Cardinality(BugInducing) \in Nat
        /\ Cardinality(BugInducing') <= Cardinality(BugInducing)
    BY <1>3, <2>1, InducingCount
  <2>4. buggyCount \in Int
    BY <1>1, <1>3, FS_CardinalityType DEF BugTypes
  <2> QED
    BY <1>2, <1>4, <2>2, <2>3, <2>4 DEF CountInv
<1>7. MarkedInv'
  <2>1. \A f : Blamed(f)' = Blamed(f)
    BY <1>2 DEF Blamed
  <2>2. \A c \in stored' : fixes'[c] = fixes[c]
    BY <1>3, <1>4
  <2> QED
    BY <1>1, <1>2, <1>3, <1>4, <2>1, <2>2 DEF MarkedInv
<1> QED
  BY <1>5, <1>6, <1>7 DEF BugInv

(* A job that succeeds saves the count.                                    *)
LEMMA SucceedBugInv ==
    ASSUME RepositoryAnalysisAssumption, InducingAssumption, IInv, BugInv, SucceedCounted
    PROVE  BugInv'
<1>1. TypeInv /\ BugTypes /\ CountInv /\ MarkedInv
  BY DEF IInv, BugInv
<1>2. pc = "done" /\ pc' = "idle" /\ UNCHANGED <<parents, stored, start, clean>>
  BY DEF SucceedCounted, Succeed, history
<1>3. /\ buggyCount' = IF start = {} THEN buggyCount ELSE BugInducingCount
      /\ UNCHANGED <<fixes, traced, early, apart>>
  BY DEF SucceedCounted
<1>4. stored \in SUBSET Commits /\ IsFiniteSet(Commits)
  BY <1>1 DEF TypeInv, TypeOK, RepositoryAnalysisAssumption
<1>5. /\ BugInducing' = BugInducing /\ BugInducingCount = Cardinality(BugInducing)
      /\ BugInducingCount \in 0 .. Cardinality(Commits)
  BY <1>2, <1>3, <1>4, InducingCount DEF BugInducing
<1>6. BugTypes'
  BY <1>1, <1>2, <1>3, <1>5 DEF BugTypes
<1>7. CountInv'
  <2>1. CASE start = {}
    BY <1>1, <1>2, <1>3, <1>5, <2>1 DEF CountInv, Quiet
  <2>2. CASE start # {}
    <3>1. buggyCount' = Cardinality(BugInducing') /\ Cardinality(BugInducing') \in Int
      BY <1>3, <1>4, <1>5, <2>2, FS_CardinalityType
    <3> QED
      BY <1>2, <3>1 DEF CountInv
  <2> QED
    BY <2>1, <2>2
<1>8. MarkedInv'
  BY <1>1, <1>2, <1>3 DEF MarkedInv, Blamed
<1> QED
  BY <1>6, <1>7, <1>8 DEF BugInv

(* A job that fails may leave marks, each once.                            *)
LEMMA FailBugInv ==
    ASSUME RepositoryAnalysisAssumption, InducingAssumption, IInv, BugInv, FailBugs
    PROVE  BugInv'
<1>1. TypeInv /\ BugTypes
  BY DEF IInv, BugInv
<1>2. pc' = "failed" /\ clean' = FALSE /\ UNCHANGED <<parents, stored>>
  BY DEF FailBugs, Fail, repo
<1>3. stored \in SUBSET Commits /\ IsFiniteSet(Commits) /\ Range(stack) \in SUBSET Commits
      /\ stack \in Seq(Commits)
  BY <1>1 DEF TypeInv, TypeOK, RepositoryAnalysisAssumption
<1>4. buggyCount' \in 0 .. Cardinality(Commits)
  BY <1>1, <1>3, InducingCount DEF FailBugs, BugTypes
<1>5. /\ fixes' \in [Commits -> Seq(Commits)]
      /\ \A c \in Commits : IsInjective(fixes'[c])
      /\ \A c \in Commits \ stored : fixes'[c] = <<>>
  <2>1. CASE fixes' = fixes
    BY <1>1, <2>1 DEF BugTypes
  <2>2. CASE stack # <<>> /\ fixes' = MarkBuggy(top, bugs)
    <3>1. top \in Commits
      BY <1>3, <2>2, RangePop DEF top
    <3> QED
      BY <1>1, <2>2, <3>1, MarkFacts DEF BugTypes
  <2> QED
    BY <2>1, <2>2 DEF FailBugs
<1>6. UNCHANGED <<traced, early, apart>>
  BY DEF FailBugs
<1>7. BugTypes'
  BY <1>1, <1>2, <1>4, <1>5, <1>6 DEF BugTypes
<1> QED
  BY <1>2, <1>7 DEF BugInv, CountInv, MarkedInv, Quiet, Preparing

(* The analysis of a commit keeps it: the new document has no marks, and   *)
(* what the walk has still before it will mark it again.                   *)
LEMMA AnalyzeBugInv ==
    ASSUME RepositoryAnalysisAssumption, InducingAssumption, IInv, BugInv, AnalyzeBugs
    PROVE  BugInv'
<1>1. TypeInv /\ CleanInv /\ BugTypes /\ CountInv /\ MarkedInv
  BY DEF IInv, BugInv
<1>2. /\ top \in Commits /\ top \in known /\ stored' = stored \cup {top} /\ parents' = parents
      /\ links[top] = parents[top] => bugs = Blamed(top)
      /\ fixes' \in [Commits -> Seq(Commits)] /\ fixes'[top] = <<>>
      /\ \A c \in Commits \ {top} :
           /\ IsInjective(fixes'[c]) /\ Range(fixes[c]) \subseteq Range(fixes'[c])
           /\ c \notin stored => fixes'[c] = fixes[c]
      /\ \/ traced' = traced \ {top}
         \/ /\ traced' = traced \cup {top}
            /\ \A c \in (stored \cap bugs) \ {top} : top \in Range(fixes'[c])
  BY <1>1, AnalyzeBugsFacts
<1>3. /\ pc = "analyze" /\ pc' = "analyze" /\ seen' = seen \cup {top}
      /\ UNCHANGED <<clean, known, buggyCount>>
      /\ early' = (early \/ \E fix \in traced \cap seen : top \in Blamed(fix))
      /\ apart' = (apart \/ \E fix \in traced \ known : top \in Blamed(fix))
  BY DEF AnalyzeBugs, AnalyzeCommit, history, engine
<1>4. BugTypes'
  <2>1. traced' \in SUBSET stored' /\ buggyCount' \in 0 .. Cardinality(Commits)
    BY <1>1, <1>2, <1>3 DEF BugTypes
  <2>2. \A c \in Commits \ stored' : fixes'[c] = <<>>
    BY <1>1, <1>2 DEF BugTypes
  <2>3. \A c \in Commits : IsInjective(fixes'[c])
    BY <1>2, InjectiveEmpty
  <2> QED
    BY <1>2, <2>1, <2>2, <2>3 DEF BugTypes
<1>5. CountInv'
  BY <1>3 DEF CountInv, Quiet, Preparing
<1>6. MarkedInv'
  <2>0. \A f : Blamed(f)' = Blamed(f)
    BY <1>2 DEF Blamed
  <2> SUFFICES ASSUME clean, ~early', ~apart', NEW f \in traced',
                      NEW c \in Blamed(f) \cap stored', f \notin Range(fixes'[c])
               PROVE  c \in seen' /\ f \in known \ seen'
    BY <1>3, <2>0 DEF MarkedInv
  <2>1. ~early /\ ~apart
    BY <1>3
  <2>2. f \in Commits /\ c \in Commits
    BY <1>1, <1>2 DEF TypeInv, TypeOK, BugTypes
  <2>3. f # top
    <3> SUFFICES ASSUME f = top PROVE FALSE
      OBVIOUS
    <3>1. bugs = Blamed(top)
      BY <1>1, <1>2 DEF CleanInv
    <3>2. top \notin Blamed(top)
      BY <1>1, <1>2, BlamedFacts DEF TypeInv
    <3>3. c # top /\ c \in stored /\ c \in bugs
      BY <1>2, <3>1, <3>2
    <3> QED
      BY <1>2, <3>3
  <2>4. f \in traced
    BY <1>2, <2>3
  <2>5. CASE c = top
    <3>1. f \in known /\ f \notin seen
      BY <1>3, <2>4, <2>5
    <3> QED
      BY <1>3, <2>3, <2>5, <3>1
  <2>6. CASE c # top
    <3>1. c \in stored /\ f \notin Range(fixes[c])
      BY <1>2, <2>2, <2>6
    <3>2. c \in seen /\ f \in known \ seen
      BY <1>1, <2>1, <2>4, <3>1 DEF MarkedInv
    <3> QED
      BY <1>3, <2>3, <3>2
  <2> QED
    BY <2>5, <2>6
<1> QED
  BY <1>4, <1>5, <1>6 DEF BugInv

(* Both invariants hold in every state of every behaviour.                 *)
LEMMA BugInvHolds ==
    ASSUME RepositoryAnalysisAssumption, InducingAssumption
    PROVE  BugSpec => [](IInv /\ BugInv)
<1>1. BugInit => BugInv
  BY InitBugInv
<1>2. IInv /\ BugInv /\ [BugNext]_<<vars, bugVars>> => BugInv'
  <2> SUFFICES ASSUME IInv, BugInv, [BugNext]_<<vars, bugVars>> PROVE BugInv'
    OBVIOUS
  <2>1. CASE BugNext
    BY <2>1, BugNextSteps, AnalyzeBugInv, PruneBugInv, SucceedBugInv, FailBugInv, OtherBugInv
  <2>2. CASE UNCHANGED <<vars, bugVars>>
    <3> USE <2>2 DEF vars, bugVars, repo, marks, engine, history
    <3>1. BugTypes' /\ MarkedInv'
      BY DEF BugInv, BugTypes, MarkedInv, Blamed
    <3>2. BugInducing' = BugInducing
      BY DEF BugInducing
    <3>3. CountInv'
      BY <3>2 DEF BugInv, CountInv, Quiet
    <3> QED
      BY <3>1, <3>3 DEF BugInv
  <2> QED
    BY <2>1, <2>2
<1> QED
  BY <1>1, <1>2, BugsImplement, IInvHolds, PTL DEF BugSpec

(* Every document has its type in every state of every behaviour: only     *)
(* stored commits carry a branch or are marked, and the count that is      *)
(* saved is one of commits.                                                *)
THEOREM DocumentsAreTyped ==
    ASSUME RepositoryAnalysisAssumption, InducingAssumption
    PROVE  BugSpec => []DocumentsTyped
<1>1. IInv => TypeOK
  BY DEF IInv, TypeInv
<1>2. BugInv => BugTypeOK
  BY DEF BugInv, BugTypes, BugTypeOK
<1>3. IInv /\ BugInv => DocumentsTyped
  BY <1>1, <1>2 DEF DocumentsTyped
<1> QED
  BY <1>3, BugInvHolds, PTL

(* A fix marks a commit once, and its mark is on every stored commit that  *)
(* git blames for what it deletes, if it was traced, as long as no job has *)
(* failed and the walks have met them in this order; the count that is     *)
(* saved is that of the marked commits.                                    *)
THEOREM MarksAreExact ==
    ASSUME RepositoryAnalysisAssumption, InducingAssumption
    PROVE  BugSpec => []MarksExact
<1>1. BugInv => MarkedOnce
  BY DEF BugInv, BugTypes, MarkedOnce
<1>2. BugInv => BlamedAreMarked
  BY DEF BugInv, MarkedInv, BlamedAreMarked
<1>3. BugInv => CountTells
  BY DEF BugInv, CountInv, CountTells, Quiet
<1>4. BugInv => MarksExact
  BY <1>1, <1>2, <1>3 DEF MarksExact
<1> QED
  BY <1>4, BugInvHolds, PTL
=============================================================================

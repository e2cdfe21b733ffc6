---------------------------- MODULE GithubProofs ----------------------------
(***************************************************************************)
(* What the service takes from GitHub, for any constants. IngestHead: it   *)
(* registers what the heads reach and links it as git does, in every       *)
(* history, with calls that fail at any point before and after; the        *)
(* invariant tells the commits that were read from those that wait on the  *)
(* stack and the one whose parents are being linked. The events of a pull  *)
(* request: the deliveries that start a job are one for each head, and a   *)
(* head whose delivery was handled is marked or some job will mark it or a *)
(* later one, in whatever order the deliveries and the handlers come.      *)
(***************************************************************************)
EXTENDS Github, FiniteSetTheorems, SequenceTheorems, TLAPS

-----------------------------------------------------------------------------
(* Sequences.                                                              *)

(* The empty list has no element.                                          *)
LEMMA RangeEmpty == Range(<<>>) = {}
BY DEF Range

(* Appending an element adds it to the elements of a list                  *)
(* (CommitsStack.Push).                                                    *)
LEMMA RangeAppend ==
    ASSUME NEW S, NEW s \in Seq(S), NEW x \in S
    PROVE  /\ Append(s, x) \in Seq(S)
           /\ Append(s, x) # <<>>
           /\ Range(Append(s, x)) = Range(s) \cup {x}
<1>1. <<x>> \in Seq(S) /\ Range(<<x>>) = {x}
  BY DEF Range
<1>2. Append(s, x) = s \o <<x>>
  BY AppendIsConcat
<1>3. Range(s \o <<x>>) = Range(s) \cup Range(<<x>>)
  BY <1>1, RangeConcatenation
<1>4. QED
  BY <1>1, <1>2, <1>3, AppendProperties

(* A list of distinct elements stays one when a new element is appended.   *)
LEMMA InjectiveAppend ==
    ASSUME NEW S, NEW s \in Seq(S), NEW x \in S, IsInjective(s), x \notin Range(s)
    PROVE  IsInjective(Append(s, x))
<1>1. /\ DOMAIN s = 1..Len(s) /\ DOMAIN Append(s, x) = 1..Len(s) + 1
      /\ \A i \in 1..Len(s) : Append(s, x)[i] = s[i]
      /\ Append(s, x)[Len(s) + 1] = x
  BY AppendProperties
<1>2. \A i \in 1..Len(s) : s[i] # x
  BY <1>1 DEF Range
<1>3. QED
  BY <1>1, <1>2 DEF IsInjective

(* Popping takes the last element off a list (CommitsStack.Pop).           *)
LEMMA RangePop ==
    ASSUME NEW S, NEW s \in Seq(S), s # <<>>
    PROVE  /\ s[Len(s)] \in S
           /\ SubSeq(s, 1, Len(s) - 1) \in Seq(S)
           /\ Range(s) = Range(SubSeq(s, 1, Len(s) - 1)) \cup {s[Len(s)]}
<1>1. PICK t \in Seq(S), x \in S : s = Append(t, x)
  BY SequenceEmptyOrAppend
<1>2. /\ Len(s) = Len(t) + 1 /\ s[Len(s)] = x
      /\ \A i \in 1..Len(t) : s[i] = t[i]
  BY <1>1, AppendProperties
<1>3. SubSeq(s, 1, Len(s) - 1) = t
  <2>1. Len(s) - 1 = Len(t) /\ Len(t) \in Nat /\ t = [i \in 1..Len(t) |-> t[i]]
    BY <1>2
  <2>2. SubSeq(s, 1, Len(t)) = [i \in 1..Len(t) |-> s[i]]
    OBVIOUS
  <2>3. QED
    BY <1>2, <2>1, <2>2
<1>4. Range(s) = Range(t) \cup {x}
  BY <1>1, RangeAppend
<1>5. QED
  BY <1>2, <1>3, <1>4

(* A list of distinct elements stays one when its last is popped, and that *)
(* element is no longer in it (IngestHead).                                *)
LEMMA InjectivePop ==
    ASSUME NEW S, NEW s \in Seq(S), s # <<>>, IsInjective(s)
    PROVE  /\ IsInjective(SubSeq(s, 1, Len(s) - 1))
           /\ s[Len(s)] \notin Range(SubSeq(s, 1, Len(s) - 1))
<1> DEFINE n == Len(s) - 1
<1>1. n \in Nat /\ Len(s) = n + 1 /\ DOMAIN s = 1..n + 1
  OBVIOUS
<1>2. SubSeq(s, 1, n) = [i \in 1..n |-> s[i]]
  BY <1>1
<1>3. QED
  BY <1>1, <1>2 DEF IsInjective, Range

-----------------------------------------------------------------------------
(* The range of a sequence, as IngestHead writes it.                       *)
LEMMA EngineRange == \A f : Engine!Range(f) = Range(f)
  BY DEF Engine!Range, Range

-----------------------------------------------------------------------------
(* The commits of the clone.                                               *)

(* A commit waits once, and a call that is over leaves none waiting.       *)
EngineStackOK ==
    /\ Range(stack) \subseteq commits
    /\ IsInjective(stack)
    /\ pc = "idle" => stack = <<>>
    /\ pc = "parents" => cur \in commits /\ cur \notin Range(stack)

(* Nothing is known of a commit before it is read.                         *)
EngineFresh ==
    \A c \in Commits : c \notin commits \/ c \in Range(stack) =>
        parents[c] = <<>> /\ c \notin roots

(* The parents linked so far are the first ones.                           *)
EnginePrefix ==
    pc = "parents" => \A i \in 1..Len(parents[cur]) : parents[cur][i] = graph[cur][i]

(* A commit that was read has its parents.                                 *)
EngineExpanded ==
    \A c \in commits \ truncated : c \notin Engine!Unread => parents[c] = graph[c]

EngineRootsOK ==
    \A c \in commits \ truncated : c \notin Range(stack) => (c \in roots <=> graph[c] = <<>>)

EngineMirrored == \A p, c \in Commits : c \in children[p] <=> p \in Range(parents[c])

EngineKnown ==
    /\ \A c \in Commits : Range(parents[c]) \subseteq commits
    /\ heads \subseteq commits
    /\ pc # "idle" => read_head \in commits

(* Only what a head reaches is registered.                                 *)
EngineMinimal == \A S \in SUBSET Commits : Engine!Holds(S, asked, {}) => commits \subseteq S

EngineLinked == EnginePrefix /\ EngineExpanded /\ EngineRootsOK /\ EngineMirrored

EngineInv == Engine!TypeOK /\ EngineStackOK /\ EngineFresh /\ EngineLinked /\ EngineKnown /\ EngineMinimal

(* Nothing is registered before the first call.                            *)
LEMMA EngineInit == Engine!IngestAssumption /\ Engine!Init => EngineInv
<1> SUFFICES ASSUME Engine!IngestAssumption, Engine!Init PROVE EngineInv
  OBVIOUS
<1> USE DEF Engine!Init
<1>1. Engine!TypeOK
  BY DEF Engine!IngestAssumption, Engine!TypeOK
<1>2. Range(stack) = {} /\ \A c \in Commits : Range(parents[c]) = {}
  BY RangeEmpty
<1>3. EngineStackOK
  BY <1>2 DEF EngineStackOK, IsInjective
<1>4. EngineFresh /\ EngineLinked /\ EngineMinimal
  BY EngineRange, <1>2 DEF EngineFresh, EngineLinked, EnginePrefix, EngineExpanded,
     EngineRootsOK, EngineMirrored, EngineMinimal, Engine!Holds
<1>5. EngineKnown
  BY <1>2 DEF EngineKnown
<1>6. QED
  BY <1>1, <1>3, <1>4, <1>5 DEF EngineInv

(* A head that is registered changes nothing but what is known of heads.   *)
LEMMA EngineCallKnownKeeps == EngineInv /\ (\E h \in Commits : Engine!CallKnown(h)) => EngineInv'
<1> SUFFICES ASSUME EngineInv, NEW h \in Commits, Engine!CallKnown(h) PROVE EngineInv'
  OBVIOUS
<1>1. /\ h \in commits /\ heads' = heads \cup {h}
      /\ UNCHANGED <<graph, commits, parents, children, roots, pc, read_head, stack, cur, asked,
                     truncated>>
  BY DEF Engine!CallKnown, Engine!engine, Engine!locals
<1>2. Engine!TypeOK' /\ EngineStackOK' /\ EngineFresh'
  BY <1>1 DEF EngineInv, Engine!TypeOK, EngineStackOK, EngineFresh
<1>3. EngineLinked'
  BY EngineRange, <1>1 DEF EngineInv, EngineLinked, EnginePrefix, EngineExpanded,
     EngineRootsOK, EngineMirrored, Engine!Unread
<1>4. EngineKnown' /\ EngineMinimal'
  BY EngineRange, <1>1 DEF EngineInv, EngineKnown, EngineMinimal, Engine!Holds
<1>5. QED
  BY <1>2, <1>3, <1>4 DEF EngineInv

(* A new head waits alone.                                                 *)
LEMMA EngineCallNewKeeps == EngineInv /\ (\E h \in Commits : Engine!CallNew(h)) => EngineInv'
<1> SUFFICES ASSUME EngineInv, NEW h \in Commits, Engine!CallNew(h) PROVE EngineInv'
  OBVIOUS
<1>1. /\ pc = "idle" /\ h \notin commits
      /\ commits' = commits \cup {h} /\ asked' = asked \cup {h}
      /\ read_head' = h /\ stack' = <<h>> /\ pc' = "pop"
      /\ UNCHANGED <<graph, parents, children, roots, cur, heads, truncated>>
  BY DEF Engine!CallNew
<1>2. stack' \in Seq(Commits) /\ Range(stack') = {h} /\ IsInjective(stack')
  BY <1>1 DEF Range, IsInjective
<1>3. stack = <<>> /\ Range(stack) = {}
  BY <1>1, RangeEmpty DEF EngineInv, EngineStackOK
<1>4. Engine!TypeOK'
  BY <1>1, <1>2 DEF EngineInv, Engine!TypeOK
<1>5. EngineStackOK' /\ EngineFresh'
  BY <1>1, <1>2, <1>3 DEF EngineInv, EngineStackOK, EngineFresh
<1>6. EngineLinked'
  <2>1. Engine!Unread = {} /\ Engine!Unread' = {h}
    BY EngineRange, <1>1, <1>2, <1>3 DEF Engine!Unread
  <2>2. QED
    BY <1>1, <1>2, <1>3, <2>1 DEF EngineInv, EngineLinked, EnginePrefix, EngineExpanded,
       EngineRootsOK, EngineMirrored
<1>7. EngineKnown'
  BY <1>1 DEF EngineInv, EngineKnown
<1>8. EngineMinimal'
  BY EngineRange, <1>1 DEF EngineInv, EngineMinimal, Engine!Holds
<1>9. QED
  BY <1>4, <1>5, <1>6, <1>7, <1>8 DEF EngineInv

(* The commit on the top has no parents yet and is read.                   *)
LEMMA EnginePopKeeps == EngineInv /\ Engine!Pop => EngineInv'
<1> SUFFICES ASSUME EngineInv, Engine!Pop PROVE EngineInv'
  OBVIOUS
<1> DEFINE t == Engine!top
           p == Engine!popped
<1>1. /\ pc = "pop" /\ stack # <<>> /\ cur' = t /\ stack' = p
      /\ roots' = IF graph[t] = <<>> THEN roots \cup {t} ELSE roots
      /\ pc' = IF graph[t] = <<>> THEN "pop" ELSE "parents"
      /\ UNCHANGED <<graph, commits, parents, children, read_head, heads, asked, truncated>>
  BY DEF Engine!Pop, Engine!Roots
<1>2. stack \in Seq(Commits) /\ IsInjective(stack)
  BY DEF EngineInv, Engine!TypeOK, EngineStackOK
<1>3. /\ t \in Commits /\ p \in Seq(Commits) /\ Range(stack) = Range(p) \cup {t}
      /\ IsInjective(p) /\ t \notin Range(p)
  BY <1>1, <1>2, RangePop, InjectivePop DEF Engine!top, Engine!popped
<1> HIDE DEF t, p
<1>4. t \in commits /\ parents[t] = <<>> /\ t \notin roots
  BY <1>3 DEF EngineInv, EngineStackOK, EngineFresh
<1>5. Len(parents[t]) = 0 /\ graph[t] \in Seq(Commits)
  BY <1>3, <1>4 DEF EngineInv, Engine!TypeOK
<1>6. Engine!TypeOK'
  <2>1. pc' = "parents" => Len(parents[t]) < Len(graph[t])
    BY <1>1, <1>5
  <2>2. roots' \subseteq Commits /\ pc' \in {"idle", "pop", "parents"}
    BY <1>1, <1>3 DEF EngineInv, Engine!TypeOK
  <2>3. QED
    BY <1>1, <1>3, <2>1, <2>2 DEF EngineInv, Engine!TypeOK
<1>7. EngineStackOK'
  BY <1>1, <1>3, <1>4 DEF EngineInv, EngineStackOK
<1>8. EngineFresh'
  BY <1>1, <1>3, <1>4 DEF EngineInv, EngineFresh
<1>9. EngineLinked'
  <2>1. EnginePrefix'
    BY <1>1, <1>5 DEF EnginePrefix
  <2>2. EngineExpanded'
    BY EngineRange, <1>1, <1>3, <1>4 DEF EngineInv, EngineLinked, EngineExpanded,
       Engine!Unread
  <2>3. EngineRootsOK'
    BY <1>1, <1>3, <1>4 DEF EngineInv, EngineLinked, EngineRootsOK
  <2>4. EngineMirrored'
    BY <1>1 DEF EngineInv, EngineLinked, EngineMirrored
  <2>5. QED
    BY <2>1, <2>2, <2>3, <2>4 DEF EngineLinked
<1>10. EngineKnown' /\ EngineMinimal'
  BY EngineRange, <1>1 DEF EngineInv, EngineKnown, EngineMinimal, Engine!Holds
<1>11. QED
  BY <1>6, <1>7, <1>8, <1>9, <1>10 DEF EngineInv

(* The next parent is linked, and waits if it is new.                      *)
LEMMA EngineAddParentKeeps == EngineInv /\ Engine!AddParent => EngineInv'
<1> SUFFICES ASSUME EngineInv, Engine!AddParent PROVE EngineInv'
  OBVIOUS
<1> DEFINE n == Len(parents[cur])
           q == graph[cur][n + 1]
           ps == Append(parents[cur], q)
<1>1. /\ pc = "parents" /\ commits' = commits \cup {q}
      /\ children' = [children EXCEPT ![q] = @ \cup {cur}]
      /\ parents' = [parents EXCEPT ![cur] = ps]
      /\ stack' = IF q \in commits THEN stack ELSE Append(stack, q)
      /\ pc' = IF n + 1 = Len(graph[cur]) THEN "pop" ELSE "parents"
      /\ UNCHANGED <<graph, roots, read_head, cur, heads, asked, truncated>>
  BY DEF Engine!AddParent, Engine!parent, Engine!IsLastParent, Engine!Link, Engine!Push
<1>2. /\ cur \in Commits /\ cur \in commits /\ cur \notin Range(stack)
      /\ parents[cur] \in Seq(Commits) /\ graph[cur] \in Seq(Commits)
      /\ n \in Nat /\ n < Len(graph[cur]) /\ stack \in Seq(Commits) /\ IsInjective(stack)
  BY <1>1 DEF EngineInv, Engine!TypeOK, EngineStackOK
<1>3. q \in Commits /\ q \in Range(graph[cur])
  BY <1>2 DEF Range
<1>4. /\ ps \in Seq(Commits) /\ Range(ps) = Range(parents[cur]) \cup {q}
      /\ Len(ps) = n + 1 /\ ps[n + 1] = q /\ \A i \in 1..n : ps[i] = parents[cur][i]
  BY <1>2, <1>3, RangeAppend, AppendProperties
<1>5. /\ parents' \in [Commits -> Seq(Commits)]
      /\ parents'[cur] = ps /\ \A c \in Commits \ {cur} : parents'[c] = parents[c]
  BY <1>1, <1>2, <1>4 DEF EngineInv, Engine!TypeOK
<1>6. /\ children' \in [Commits -> SUBSET Commits]
      /\ children'[q] = children[q] \cup {cur}
      /\ \A d \in Commits \ {q} : children'[d] = children[d]
  BY <1>1, <1>2, <1>3 DEF EngineInv, Engine!TypeOK
<1>7. /\ stack' \in Seq(Commits) /\ IsInjective(stack')
      /\ Range(stack') = IF q \in commits THEN Range(stack) ELSE Range(stack) \cup {q}
  <2>1. CASE q \in commits
    BY <1>1, <1>2, <2>1
  <2>2. CASE q \notin commits
    <3>1. q \notin Range(stack)
      BY <2>2 DEF EngineInv, EngineStackOK
    <3>2. QED
      BY <1>1, <1>2, <1>3, <2>2, <3>1, RangeAppend, InjectiveAppend
  <2>3. QED
    BY <2>1, <2>2
<1> HIDE DEF n, q, ps
<1>8. Engine!TypeOK'
  <2>1. pc' = "parents" => Len(ps) < Len(graph[cur])
    BY <1>1, <1>2, <1>4
  <2>2. commits' \subseteq Commits /\ pc' \in {"idle", "pop", "parents"}
    BY <1>1, <1>3 DEF EngineInv, Engine!TypeOK
  <2>3. QED
    BY <1>1, <1>5, <1>6, <1>7, <2>1, <2>2 DEF EngineInv, Engine!TypeOK
<1>9. EngineStackOK'
  BY <1>1, <1>2, <1>7 DEF EngineInv, EngineStackOK
<1>10. EngineFresh'
  BY <1>1, <1>2, <1>5, <1>7 DEF EngineInv, EngineFresh
<1>11. EnginePrefix'
  <2>1. \A i \in 1..n + 1 : ps[i] = graph[cur][i]
    BY <1>1, <1>2, <1>4 DEF EngineInv, EngineLinked, EnginePrefix, n, q
  <2>2. QED
    BY <1>1, <1>4, <1>5, <1>2, <2>1 DEF EnginePrefix
<1>12. EngineExpanded'
  <2>1. ASSUME n + 1 = Len(graph[cur]) PROVE ps = graph[cur]
    <3>1. \A i \in 1..Len(ps) : ps[i] = graph[cur][i]
      BY <1>1, <1>2, <1>4, <2>1 DEF EngineInv, EngineLinked, EnginePrefix, n, q
    <3>2. QED
      BY <1>2, <1>4, <2>1, <3>1, SeqEqual
  <2>2. ASSUME NEW c \in commits' \ truncated', c \notin Engine!Unread' PROVE parents'[c] = graph'[c]
    <3>1. CASE c = cur
      BY EngineRange, <1>1, <1>5, <2>1, <2>2, <3>1 DEF Engine!Unread
    <3>2. CASE c # cur
      BY EngineRange, <1>1, <1>5, <1>7, <2>2, <3>2 DEF EngineInv, Engine!TypeOK,
         EngineLinked, EngineExpanded, Engine!Unread
    <3>3. QED
      BY <3>1, <3>2
  <2>3. QED
    BY <2>2 DEF EngineExpanded
<1>13. EngineRootsOK'
  BY <1>1, <1>7 DEF EngineInv, EngineLinked, EngineRootsOK
<1>14. EngineMirrored'
  <2>1. ASSUME NEW d \in Commits, NEW c \in Commits
        PROVE  c \in children'[d] <=> d \in Range(parents'[c])
    <3>1. c \in children'[d] <=> c \in children[d] \/ (d = q /\ c = cur)
      BY <1>6, <2>1
    <3>2. d \in Range(parents'[c]) <=> d \in Range(parents[c]) \/ (d = q /\ c = cur)
      BY <1>4, <1>5, <2>1
    <3>3. QED
      BY <3>1, <3>2 DEF EngineInv, EngineLinked, EngineMirrored
  <2>2. QED
    BY <2>1 DEF EngineMirrored
<1>15. EngineKnown'
  BY <1>1, <1>2, <1>4, <1>5 DEF EngineInv, EngineKnown
<1>16. EngineMinimal'
  BY EngineRange, <1>1, <1>2, <1>3 DEF EngineInv, EngineMinimal, Engine!Holds
<1>17. QED
  BY <1>8, <1>9, <1>10, <1>11, <1>12, <1>13, <1>14, <1>15, <1>16 DEF EngineInv, EngineLinked

(* Nothing waits any more.                                                 *)
LEMMA EngineReturnKeeps == EngineInv /\ Engine!Return => EngineInv'
<1> SUFFICES ASSUME EngineInv, Engine!Return PROVE EngineInv'
  OBVIOUS
<1>1. /\ pc = "pop" /\ stack = <<>> /\ heads' = heads \cup {read_head} /\ pc' = "idle"
      /\ UNCHANGED <<graph, commits, parents, children, roots, read_head, stack, cur, asked,
                     truncated>>
  BY DEF Engine!Return, Engine!engine
<1>2. Engine!TypeOK' /\ EngineStackOK' /\ EngineFresh'
  BY <1>1 DEF EngineInv, Engine!TypeOK, EngineStackOK, EngineFresh
<1>3. EngineLinked'
  BY EngineRange, <1>1 DEF EngineInv, EngineLinked, EnginePrefix, EngineExpanded,
     EngineRootsOK, EngineMirrored, Engine!Unread
<1>4. EngineKnown' /\ EngineMinimal'
  BY EngineRange, <1>1 DEF EngineInv, EngineKnown, EngineMinimal, Engine!Holds
<1>5. QED
  BY <1>2, <1>3, <1>4 DEF EngineInv

(* What a failed call had not read is truncated from then on.              *)
LEMMA EngineFailKeeps == EngineInv /\ Engine!Fail => EngineInv'
<1> SUFFICES ASSUME EngineInv, Engine!Fail PROVE EngineInv'
  OBVIOUS
<1>1. /\ pc # "idle" /\ truncated' = truncated \cup Engine!Unread /\ stack' = <<>> /\ pc' = "idle"
      /\ UNCHANGED <<graph, commits, parents, children, roots, read_head, cur, heads, asked>>
  BY DEF Engine!Fail, Engine!engine
<1>2. /\ Range(stack') = {} /\ IsInjective(stack') /\ stack' \in Seq(Commits)
      /\ Range(stack) \subseteq Engine!Unread /\ Engine!Unread \subseteq Commits
  BY EngineRange, <1>1, RangeEmpty DEF Engine!Unread, IsInjective, EngineInv,
     Engine!TypeOK, EngineStackOK
<1>3. Engine!TypeOK'
  BY <1>1, <1>2 DEF EngineInv, Engine!TypeOK
<1>4. EngineStackOK' /\ EngineFresh'
  BY <1>1, <1>2 DEF EngineInv, EngineStackOK, EngineFresh
<1>5. EngineLinked'
  <2>1. EnginePrefix' /\ EngineMirrored'
    BY <1>1 DEF EngineInv, EngineLinked, EnginePrefix, EngineMirrored
  <2>2. EngineExpanded' /\ EngineRootsOK'
    BY <1>1, <1>2 DEF EngineInv, EngineLinked, EngineExpanded, EngineRootsOK
  <2>3. QED
    BY <2>1, <2>2 DEF EngineLinked
<1>6. EngineKnown' /\ EngineMinimal'
  BY EngineRange, <1>1 DEF EngineInv, EngineKnown, EngineMinimal, Engine!Holds
<1>7. QED
  BY <1>3, <1>4, <1>5, <1>6 DEF EngineInv

(* Every step keeps the invariant.                                         *)
LEMMA EngineNext == EngineInv /\ [Engine!Next]_(Engine!vars) => EngineInv'
<1>1. EngineInv /\ UNCHANGED Engine!vars => EngineInv'
  <2> SUFFICES ASSUME EngineInv, UNCHANGED Engine!vars PROVE EngineInv'
    OBVIOUS
  <2>1. UNCHANGED <<graph, commits, parents, children, roots, pc, read_head, stack, cur, heads,
                    asked, truncated>>
    BY DEF Engine!vars, Engine!engine, Engine!locals
  <2>2. Engine!TypeOK' /\ EngineStackOK' /\ EngineFresh'
    BY <2>1 DEF EngineInv, Engine!TypeOK, EngineStackOK, EngineFresh
  <2>3. EngineLinked'
    BY EngineRange, <2>1 DEF EngineInv, EngineLinked, EnginePrefix, EngineExpanded,
       EngineRootsOK, EngineMirrored, Engine!Unread
  <2>4. EngineKnown' /\ EngineMinimal'
    BY EngineRange, <2>1 DEF EngineInv, EngineKnown, EngineMinimal, Engine!Holds
  <2>5. QED
    BY <2>2, <2>3, <2>4 DEF EngineInv
<1>2. QED
  BY <1>1, EngineCallKnownKeeps, EngineCallNewKeeps, EnginePopKeeps,
     EngineAddParentKeeps, EngineReturnKeeps, EngineFailKeeps DEF Engine!Next

(* Nothing waits between calls, so what is not truncated has its parents.  *)
LEMMA EngineLinksExact == EngineInv => Engine!LinksExact
<1> SUFFICES ASSUME EngineInv, pc = "idle" PROVE Engine!LinksExact
  BY EngineRange DEF Engine!LinksExact
<1>1. Range(stack) = {} /\ Engine!Unread = {}
  BY EngineRange, RangeEmpty DEF EngineInv, EngineStackOK, Engine!Unread
<1>2. QED
  BY EngineRange, <1>1 DEF EngineInv, EngineLinked, EngineExpanded, EngineRootsOK,
     EngineMirrored, Engine!LinksExact

(* Between calls the commits are closed under parents.                     *)
LEMMA EngineIngests == EngineInv => Engine!IngestsReachable
<1> SUFFICES ASSUME EngineInv, pc = "idle" PROVE Engine!IngestsReachable
  BY EngineRange DEF Engine!IngestsReachable
<1>1. Range(stack) = {} /\ Engine!Unread = {}
  BY EngineRange, RangeEmpty DEF EngineInv, EngineStackOK, Engine!Unread
<1>2. \A c \in commits \ truncated : Range(graph[c]) \subseteq commits
  BY <1>1 DEF EngineInv, Engine!TypeOK, EngineLinked, EngineExpanded, EngineKnown
<1>3. Engine!Holds(commits, heads, truncated)
  BY EngineRange, <1>2 DEF EngineInv, EngineKnown, Engine!Holds
<1>4. QED
  BY EngineRange, <1>3 DEF EngineInv, EngineMinimal, Engine!IngestsReachable

(* The engine moves alone or not at all.                                   *)
LEMMA EngineRuns ==
    ASSUME [GithubNext]_all, part = "commits" \/ part' = "commits"
    PROVE  part = "commits" /\ part' = "commits" /\ [Engine!Next]_(Engine!vars)
  BY DEF GithubNext, all, EngineVars, Engine!vars, Engine!engine, Engine!locals

(* The invariant holds while the engine runs.                              *)
LEMMA EngineHolds == GithubSpec => [](part = "commits" => EngineInv)
<1> DEFINE Inv == part = "commits" => EngineInv
<1>1. GithubInit => Inv
  BY EngineInit, GithubAssumption DEF GithubInit, Begins
<1>2. Inv /\ [GithubNext]_all => Inv'
  BY EngineNext, EngineRuns
<1>3. QED
  BY <1>1, <1>2, PTL DEF GithubSpec

(* In every history, a commit that no failed call has left behind has the  *)
(* parents it has in git, in their order, which UnseenRoots, FirstParent   *)
(* and the merges of the analysis rely on; children are the inverse.       *)
THEOREM CommitsAreLinked == GithubSpec => [](part = "commits" => Engine!LinksExact)
<1>1. (part = "commits" => EngineInv) => (part = "commits" => Engine!LinksExact)
  BY EngineLinksExact
<1>2. QED
  BY <1>1, EngineHolds, PTL

(* What the engine knows is what the heads reach, in every history, as far *)
(* as no failed call stands in between.                                    *)
THEOREM HeadsAreIngested == GithubSpec => [](part = "commits" => Engine!IngestsReachable)
<1>1. (part = "commits" => EngineInv) => (part = "commits" => Engine!IngestsReachable)
  BY EngineIngests
<1>2. QED
  BY <1>1, EngineHolds, PTL

(* Every call of IngestHead, in every history and whatever fails in it,    *)
(* leaves the engine with exactly what it can know of the history.         *)
THEOREM EngineIsExact == GithubSpec => []EngineExact
<1>1. (part = "commits" => EngineInv) => EngineExact
  BY EngineLinksExact, EngineIngests DEF EngineInv, Engine!EngineExact, EngineExact
<1>2. QED
  BY <1>1, EngineHolds, PTL

-----------------------------------------------------------------------------
(* The events of a pull request.                                           *)

Actions == {"opened", "closed", "edited", "reopened", "synchronize", "requested"}
Deliveries == [event : {"pull_request", "check_suite"}, action : Actions, head : Heads]
Runs == [id : Nat \ {0}, head : Heads, reported : Heads \cup {-1, 0}]
Jobs == [run : Nat, pull : Heads \cup {0}]
Handlers == [n : Nat, cfg : BOOLEAN, step : {"store", "submit"}]

(* A delivery that brings a head to the open pull request.                 *)
Brings(n) == sent[n].action \in {"opened", "synchronize"}

(* What GitHub has sent.                                                   *)
SentInv ==
    /\ head \in Heads /\ sameOrigin \in BOOLEAN
    /\ sent \in Seq(Deliveries)
    /\ \A n \in DOMAIN sent :
          /\ sent[n].head <= head
          /\ sent[n].event = "check_suite" <=> sent[n].action = "requested"
          /\ sent[n].action = "requested" => sameOrigin /\ sent[n].head > 1
          /\ sent[n].action = "opened" => sent[n].head = 1
          /\ sent[n].action = "synchronize" => sent[n].head > 1
          /\ sent[n].action = "synchronize" /\ sameOrigin =>
                n + 1 \in DOMAIN sent /\ sent[n + 1] = Suite(sent[n].head)
    /\ \A m, n \in DOMAIN sent :
          sent[m].action \in {"opened", "synchronize", "requested"} /\ sent[m].action = sent[n].action
            /\ sent[m].head = sent[n].head => m = n
    /\ sent = <<>> => ~open /\ head = 1
    /\ "reopened" \notin excuse =>
          /\ \A n \in DOMAIN sent : sent[n].action # "edited" =>
                \E m \in DOMAIN sent : Brings(m) /\ sent[m].head = sent[n].head
          /\ open => \E m \in DOMAIN sent : Brings(m) /\ sent[m].head = head

HandlersInv ==
    /\ mail \subseteq DOMAIN sent
    /\ handlers \subseteq Handlers
    /\ \A h \in handlers :
          /\ h.n \in DOMAIN sent
          /\ sent[h.n].event = "check_suite" => h.cfg /\ h.step = "submit"
          /\ sent[h.n].event = "pull_request" /\ h.step = "submit" => ~Skipped(h)
          /\ "config" \notin excuse => h.cfg = checks
          /\ again = 0 => h.n \notin mail
    /\ \A h, k \in handlers : h.n = k.n => h = k
    /\ checks \in BOOLEAN /\ again \in Nat

(* The check runs, each with its number and its head.                      *)
RunsInv ==
    /\ IsFiniteSet(runs) /\ runs \subseteq Runs
    /\ \A r \in runs : r.id <= Cardinality(runs)
    /\ \A q, r \in runs : q.id = r.id => q = r
    /\ \A r \in runs : \E n \in DOMAIN sent : sent[n].head = r.head

DocumentInv ==
    /\ {src, analyzed, marked} \subseteq Heads \cup {0}
    /\ src <= head
    /\ jobs \in Seq(Jobs) /\ job \in Jobs
    /\ \A i \in DOMAIN jobs : jobs[i].run <= Cardinality(runs) /\ jobs[i].pull <= head
    /\ job.run <= Cardinality(runs) /\ job.pull <= head
    /\ job # NoJob => job.pull # 0

(* The jobs that wait carry the head of their check run, or look for it.   *)
QueueInv ==
    \A i \in DOMAIN jobs :
        /\ jobs[i].pull = 0 => sameOrigin
        /\ jobs[i].pull # 0 => \A r \in RunOf(jobs[i]) : r.head = jobs[i].pull

JobInv ==
    "early" \notin excuse =>
        \A r \in RunOf(job) : job.pull >= r.head /\ (~sameOrigin => job.pull = r.head)

(* An event of the pull request that was handled is in the document.       *)
StoredInv ==
    excuse = {} =>
        \A n \in DOMAIN sent : sent[n].event = "pull_request" =>
            \/ n \in mail
            \/ \E h \in handlers : h.n = n /\ h.step = "store"
            \/ sent[n].head <= src

Pending(n) == n \in mail \/ \E h \in handlers : h.n = n

(* The deliveries that start a job for the head they bring.                *)
Starts(n) ==
    \/ sent[n].action = "opened"
    \/ sent[n].action = "synchronize" /\ ~(sameOrigin /\ checks)
    \/ sent[n].action = "requested" /\ checks

(* A head is marked, or a job that marks it or a later one is there.       *)
Reaches(j, new) == j.pull >= new \/ (j.pull = 0 /\ \E r \in RunOf(j) : r.head >= new)
Reached(new) ==
    \/ marked >= new
    \/ job.pull >= new
    \/ \E i \in DOMAIN jobs : Reaches(jobs[i], new)

ReachedInv ==
    excuse = {} =>
        /\ \A n \in DOMAIN sent : Starts(n) => Pending(n) \/ Reached(sent[n].head)
        /\ job # NoJob => job.pull >= marked
        /\ marked >= analyzed
        /\ marked <= head

RunsFor(new) == {r \in runs : r.head = new}

(* With checks, a head has its run as soon as its delivery is handled, and *)
(* what a job of a fork leaves behind is a head that has one.              *)
OneRunInv ==
    excuse = {} /\ checks /\ again = 0 =>
        /\ \A n \in DOMAIN sent : Starts(n) =>
             IF Pending(n) THEN RunsFor(sent[n].head) = {}
             ELSE \E r \in runs : RunsFor(sent[n].head) = {r}
        /\ analyzed # 0 => ~sameOrigin /\ RunsFor(analyzed) # {}
        /\ ~sameOrigin =>
             /\ job # NoJob => RunsFor(job.pull) # {}
             /\ \A i \in DOMAIN jobs : jobs[i].pull # 0 => RunsFor(jobs[i].pull) # {}

(* The other types.                                                       *)
RestInv ==
    /\ open \in BOOLEAN /\ toggles \in 0 .. MaxToggles /\ again \in 0 .. MaxAgain
    /\ stored \in Heads \cup {0} /\ excuse \subseteq Excuses

EventsInv ==
    /\ SentInv /\ HandlersInv /\ RunsInv /\ DocumentInv /\ QueueInv /\ JobInv
    /\ StoredInv /\ ReachedInv /\ OneRunInv /\ RunTellsOwnHead /\ RestInv

-----------------------------------------------------------------------------
(* The document is empty in the beginning.                                 *)
LEMMA InitKeeps == ASSUME EventsAssumption, Init PROVE EventsInv
  <1> USE DEF Init
  <1>1. SentInv BY DEF SentInv, EventsAssumption, Heads
  <1>2. HandlersInv BY DEF HandlersInv
  <1>3. RunsInv BY FS_EmptySet DEF RunsInv
  <1>4. DocumentInv
    <2>1. Cardinality(runs) = 0 BY FS_EmptySet
    <2>2. QED BY <2>1 DEF DocumentInv, Jobs, NoJob, Heads, EventsAssumption
  <1>5. QueueInv BY DEF QueueInv
  <1>5a. JobInv BY DEF JobInv, RunOf
  <1>5b. StoredInv BY DEF StoredInv
  <1>5c. RunTellsOwnHead BY DEF RunTellsOwnHead
  <1>6. ReachedInv BY DEF ReachedInv
  <1>7. OneRunInv BY DEF OneRunInv
  <1>8. RestInv
    <2>1. toggles \in 0 .. MaxToggles /\ again \in 0 .. MaxAgain BY DEF EventsAssumption
    <2>2. open \in BOOLEAN /\ stored \in Heads \cup {0} /\ excuse \subseteq Excuses OBVIOUS
    <2>3. QED BY <2>1, <2>2 DEF RestInv
  <1>9. QED
    BY <1>1, <1>2, <1>3, <1>4, <1>5, <1>5a, <1>5b, <1>5c, <1>6, <1>7, <1>8 DEF EventsInv

(* What is said of a check run by the rest of the state is said by its     *)
(* number: a report keeps the runs, their heads and how many there are.    *)
LEMMA ReportKeeps ==
    ASSUME RunsInv, NEW j, NEW v \in Heads \cup {-1}, Report(j, v), sent' = sent
    PROVE  /\ RunsInv' /\ Cardinality(runs') = Cardinality(runs)
           /\ \A r \in runs' : \E q \in runs :
                q.id = r.id /\ q.head = r.head
                  /\ IF r.id = j.run THEN r.reported = v ELSE r = q
           /\ \A q \in runs : \E r \in runs' : q.id = r.id /\ q.head = r.head
  <1>0. runs \subseteq Runs /\ IsFiniteSet(runs) /\ \A q, r \in runs : q.id = r.id => q = r
    BY DEF RunsInv
  <1> DEFINE Told(r) == [r EXCEPT !.reported = v]
  <1>a. PICK S : S = RunOf(j) OBVIOUS
  <1>b. runs' = (runs \ S) \cup {Told(r) : r \in S} BY <1>a DEF Report
  <1>1. CASE RunOf(j) = {}
    <2> HIDE DEF Told
    <2>1. runs' = runs /\ \A r \in runs : r.id # j.run BY <1>a, <1>b, <1>1 DEF RunOf
    <2>2. QED BY <2>1 DEF RunsInv
  <1>2. CASE RunOf(j) # {}
    <2>1. PICK q \in runs : q.id = j.run BY <1>2 DEF RunOf
    <2>2. PICK r : r = Told(q) OBVIOUS
    <2>3. r \in Runs /\ r.id = q.id /\ r.head = q.head /\ r.reported = v
      BY <1>0, <2>1, <2>2 DEF Runs
    <2>4. S = {q} BY <1>0, <1>a, <2>1 DEF RunOf
    <2>5. runs' = (runs \ {q}) \cup {r}
      <3> HIDE DEF Told
      <3>1. QED BY <1>b, <2>2, <2>4
    <2>6. r \notin runs \ {q} BY <1>0, <2>1, <2>3
    <2>7. /\ IsFiniteSet(runs \ {q}) /\ Cardinality(runs \ {q}) = Cardinality(runs) - 1
          /\ Cardinality(runs) \in Nat
      BY <1>0, <2>1, FS_RemoveElement, FS_CardinalityType
    <2>8. IsFiniteSet(runs') /\ Cardinality(runs') = Cardinality(runs) - 1 + 1
      BY <2>5, <2>6, <2>7, FS_AddElement
    <2>9. Cardinality(runs') = Cardinality(runs) BY <2>7, <2>8
    <2>10. RunsInv' BY <1>0, <2>1, <2>3, <2>5, <2>8, <2>9 DEF RunsInv
    <2>11. QED BY <1>0, <2>1, <2>3, <2>5, <2>9, <2>10
  <1>3. QED BY <1>1, <1>2

(* What GitHub sends is numbered behind what it has sent, and on its way.  *)
LEMMA DeliverSends ==
    ASSUME NEW s \in Seq(Deliveries), sent \in Seq(Deliveries), Deliver(s)
    PROVE  /\ sent' \in Seq(Deliveries) /\ Len(sent') = Len(sent) + Len(s)
           /\ DOMAIN sent = 1 .. Len(sent) /\ DOMAIN sent' = 1 .. Len(sent) + Len(s)
           /\ \A n \in DOMAIN sent : sent'[n] = sent[n]
           /\ \A n \in DOMAIN sent' \ DOMAIN sent :
                n \in mail' /\ n - Len(sent) \in 1 .. Len(s) /\ sent'[n] = s[n - Len(sent)]
           /\ mail \subseteq mail' /\ mail' \subseteq mail \cup (DOMAIN sent' \ DOMAIN sent)
  <1>1. sent' = sent \o s BY DEF Deliver
  <1>2. /\ sent' \in Seq(Deliveries) /\ Len(sent') = Len(sent) + Len(s)
        /\ \A i \in 1 .. Len(sent) + Len(s) : sent'[i] = IF i <= Len(sent) THEN sent[i] ELSE s[i - Len(sent)]
    BY <1>1, ConcatProperties
  <1>3. Len(sent) \in Nat /\ Len(s) \in Nat /\ DOMAIN sent = 1 .. Len(sent) /\ DOMAIN sent' = 1 .. Len(sent) + Len(s)
    BY <1>2
  <1>4. mail' = mail \cup (Len(sent) + 1 .. Len(sent) + Len(s)) BY DEF Deliver
  <1>5. DOMAIN sent' \ DOMAIN sent = Len(sent) + 1 .. Len(sent) + Len(s) BY <1>3
  <1>6. \A n \in DOMAIN sent' \ DOMAIN sent :
           n - Len(sent) \in 1 .. Len(s) /\ sent'[n] = s[n - Len(sent)]
    BY <1>2, <1>3
  <1>7. \A n \in DOMAIN sent : sent'[n] = sent[n] BY <1>2, <1>3
  <1>8. QED BY <1>2, <1>3, <1>4, <1>5, <1>6, <1>7

(* A change of the pull request, on GitHub, that starts no job for a head  *)
(* that has a check run.                                                   *)
LEMMA ChangeKeeps ==
    ASSUME EventsInv, SentInv',
           DOMAIN sent \subseteq DOMAIN sent', \A n \in DOMAIN sent : sent'[n] = sent[n],
           mail \subseteq mail', mail' \subseteq mail \cup (DOMAIN sent' \ DOMAIN sent),
           \A n \in DOMAIN sent' \ DOMAIN sent :
              n \in mail' /\ (Starts(n)' => \A r \in runs : r.head # sent'[n].head),
           head' >= head, excuse \subseteq excuse', excuse' \subseteq Excuses, open' \in BOOLEAN,
           UNCHANGED <<sameOrigin, again, runs, checks, toggles, handlers, document, jobs, job>>
    PROVE  EventsInv'
  <1> USE DEF EventsInv
  <1>1. \A n \in DOMAIN sent : Starts(n)' <=> Starts(n) BY DEF Starts
  <1>2. \A n \in DOMAIN sent : Pending(n)' <=> Pending(n) BY DEF Pending
  <1>3. \A n \in DOMAIN sent' \ DOMAIN sent : Pending(n)' BY DEF Pending
  <1>4. HandlersInv'
    <2>1. \A h \in handlers : h.n \in DOMAIN sent /\ sent'[h.n] = sent[h.n] /\ (h.n \in mail' => h.n \in mail)
      BY DEF HandlersInv
    <2>2. \A h \in handlers : Skipped(h)' <=> Skipped(h) BY <2>1 DEF Skipped
    <2>3. "config" \notin excuse' => "config" \notin excuse OBVIOUS
    <2>4. QED BY <2>1, <2>2, <2>3 DEF HandlersInv
  <1>5. RunsInv' BY DEF RunsInv
  <1>6. DocumentInv'
    <2>1. head \in Int /\ head' \in Int /\ src \in Int /\ job.pull \in Int
      BY DEF SentInv, DocumentInv, Heads, Jobs
    <2>2. \A i \in DOMAIN jobs : jobs[i].pull \in Int
      <3>1. \A i \in DOMAIN jobs : jobs[i] \in Jobs BY DEF DocumentInv
      <3>2. QED BY <3>1 DEF Heads, Jobs
    <2>3. QED BY <2>1, <2>2 DEF DocumentInv, document
  <1>7. QueueInv' BY DEF QueueInv, RunOf
  <1>8. JobInv' BY DEF JobInv, RunOf
  <1>9. RunTellsOwnHead' BY DEF RunTellsOwnHead
  <1>10. StoredInv' BY DEF StoredInv, document
  <1>11. ReachedInv'
    <2> SUFFICES ASSUME excuse' = {} PROVE ReachedInv'
      BY DEF ReachedInv
    <2>1. \A x : Reached(x)' <=> Reached(x) BY DEF Reached, Reaches, RunOf, document
    <2>2. head \in Int /\ head' \in Int /\ marked \in Int BY DEF SentInv, DocumentInv, Heads
    <2>3. \A n \in DOMAIN sent' : Starts(n)' => Pending(n)' \/ Reached(sent[n].head)'
      BY <1>1, <1>2, <1>3, <2>1 DEF ReachedInv
    <2>4. QED BY <2>2, <2>3 DEF ReachedInv, document
  <1>12. OneRunInv'
    <2> SUFFICES ASSUME excuse' = {}, checks, again = 0 PROVE OneRunInv'
      BY DEF OneRunInv
    <2>1. \A x : RunsFor(x)' = RunsFor(x) BY DEF RunsFor
    <2>2. \A n \in DOMAIN sent : Starts(n)' =>
             IF Pending(n)' THEN RunsFor(sent[n].head)' = {}
             ELSE \E r \in runs : RunsFor(sent[n].head)' = {r}
      BY <1>1, <1>2, <2>1 DEF OneRunInv
    <2>3. \A n \in DOMAIN sent' \ DOMAIN sent : Starts(n)' => RunsFor(sent[n].head)' = {}
      BY DEF RunsFor
    <2>4. QED BY <2>1, <2>2, <2>3, <1>3 DEF OneRunInv, document
  <1>13. RestInv' BY DEF RestInv, document
  <1>14. QED
    BY <1>4, <1>5, <1>6, <1>7, <1>8, <1>9, <1>10, <1>11, <1>12, <1>13

(* The pull request is opened, once: nothing was sent before.              *)
LEMMA OpenKeeps == ASSUME EventsAssumption, EventsInv, Open PROVE EventsInv'
  <1>0. PICK s : s = <<PullEvent("opened", head)>> OBVIOUS
  <1>1. Deliver(s) /\ sent = <<>> /\ open' = TRUE
        /\ UNCHANGED <<sameOrigin, head, again, runs, checks, toggles, handlers, document, jobs, job, excuse>>
    BY <1>0 DEF Open, Change
  <1>2. SentInv /\ head = 1 /\ head \in Heads /\ sent \in Seq(Deliveries)
    BY <1>1 DEF EventsInv, SentInv
  <1>3. s \in Seq(Deliveries) /\ Len(s) = 1 /\ s[1] = PullEvent("opened", head)
    <2>1. PullEvent("opened", head) \in Deliveries
      BY <1>2 DEF PullEvent, Deliveries, Actions
    <2>2. QED BY <1>0, <2>1
  <1>4. /\ sent' \in Seq(Deliveries) /\ DOMAIN sent' = {1} /\ DOMAIN sent = {}
        /\ sent'[1] = s[1] /\ 1 \in mail' /\ mail \subseteq mail' /\ mail' \subseteq mail \cup (DOMAIN sent' \ DOMAIN sent)
    <2>1. /\ sent' \in Seq(Deliveries) /\ DOMAIN sent' = 1 .. 0 + 1 /\ DOMAIN sent = 1 .. 0
          /\ \A n \in DOMAIN sent' \ DOMAIN sent : n \in mail' /\ sent'[n] = s[n - 0]
          /\ mail \subseteq mail' /\ mail' \subseteq mail \cup (DOMAIN sent' \ DOMAIN sent)
      BY <1>1, <1>2, <1>3, DeliverSends
    <2>2. QED BY <2>1
  <1>5. /\ sent'[1].action = "opened" /\ sent'[1].event = "pull_request" /\ sent'[1].head = head
    BY <1>3, <1>4 DEF PullEvent
  <1>6. SentInv'
    <2>1. \A n \in DOMAIN sent' : n = 1 BY <1>4
    <2>2. 1 \in DOMAIN sent' /\ Brings(1)' BY <1>4, <1>5 DEF Brings
    <2>3. sent' # <<>> BY <2>2
    <2>4. head' \in Heads /\ sameOrigin' \in BOOLEAN /\ head' = head
      BY <1>1, <1>2 DEF SentInv
    <2>5. \A n \in DOMAIN sent' :
            /\ sent'[n].head <= head'
            /\ sent'[n].event = "check_suite" <=> sent'[n].action = "requested"
            /\ sent'[n].action = "requested" => sameOrigin' /\ sent'[n].head > 1
            /\ sent'[n].action = "opened" => sent'[n].head = 1
            /\ sent'[n].action = "synchronize" => sent'[n].head > 1
            /\ sent'[n].action = "synchronize" /\ sameOrigin' =>
                  n + 1 \in DOMAIN sent' /\ sent'[n + 1] = Suite(sent'[n].head)
      BY <1>2, <1>5, <2>1, <2>4
    <2>6. \A m, n \in DOMAIN sent' : m = n BY <2>1
    <2>7. \A n \in DOMAIN sent' : \E m \in DOMAIN sent' : Brings(m)' /\ sent'[m].head = sent'[n].head
      BY <2>1, <2>2
    <2>8. \E m \in DOMAIN sent' : Brings(m)' /\ sent'[m].head = head' BY <1>5, <2>2, <2>4
    <2>9. QED BY <1>4, <2>3, <2>4, <2>5, <2>6, <2>7, <2>8 DEF SentInv, Brings
  <1>7. \A r \in runs : FALSE BY <1>4 DEF EventsInv, RunsInv
  <1>8. head \in Int BY <1>2
  <1>9. excuse \subseteq Excuses BY DEF EventsInv, RestInv
  <1>10. QED BY <1>1, <1>4, <1>6, <1>7, <1>8, <1>9, ChangeKeeps

(* A closed pull request, an edited one, and one that is opened again have *)
(* the head that GitHub has; none of them brings it.                       *)
LEMMA OtherChangeKeeps ==
    ASSUME EventsInv, NEW action \in {"closed", "edited", "reopened"}, Change(action), sent # <<>>,
           excuse \subseteq excuse', excuse' \subseteq Excuses, open' \in BOOLEAN,
           action \in {"closed", "reopened"} /\ "reopened" \notin excuse' =>
              \E n \in DOMAIN sent : Brings(n) /\ sent[n].head = head,
           open' /\ "reopened" \notin excuse' => open \/ \E n \in DOMAIN sent : Brings(n) /\ sent[n].head = head
    PROVE  EventsInv'
  <1>0. PICK s : s = <<PullEvent(action, head)>> OBVIOUS
  <1>1. Deliver(s) /\ UNCHANGED <<sameOrigin, head, again, runs, checks, toggles, handlers, document, jobs, job>>
    BY <1>0 DEF Change
  <1>2. SentInv /\ head \in Heads /\ sent \in Seq(Deliveries) BY DEF EventsInv, SentInv
  <1>3. s \in Seq(Deliveries) /\ Len(s) = 1 /\ s[1] = PullEvent(action, head)
    <2>1. PullEvent(action, head) \in Deliveries
      BY <1>2 DEF PullEvent, Deliveries, Actions
    <2>2. QED BY <1>0, <2>1
  <1>4. PICK k : k = Len(sent) + 1 OBVIOUS
  <1>5. /\ sent' \in Seq(Deliveries) /\ DOMAIN sent' = DOMAIN sent \cup {k} /\ k \notin DOMAIN sent
        /\ \A n \in DOMAIN sent : sent'[n] = sent[n]
        /\ sent'[k] = s[1] /\ k \in mail' /\ mail \subseteq mail' /\ mail' \subseteq mail \cup (DOMAIN sent' \ DOMAIN sent)
    <2>1. /\ sent' \in Seq(Deliveries) /\ DOMAIN sent = 1 .. Len(sent) /\ DOMAIN sent' = 1 .. Len(sent) + 1
          /\ \A n \in DOMAIN sent : sent'[n] = sent[n]
          /\ \A n \in DOMAIN sent' \ DOMAIN sent : n \in mail' /\ sent'[n] = s[n - Len(sent)]
          /\ mail \subseteq mail' /\ mail' \subseteq mail \cup (DOMAIN sent' \ DOMAIN sent)
      BY <1>1, <1>2, <1>3, DeliverSends
    <2>2. Len(sent) \in Nat BY <1>2
    <2>3. DOMAIN sent' = DOMAIN sent \cup {k} /\ k \notin DOMAIN sent /\ k - Len(sent) = 1
      BY <1>4, <2>1, <2>2
    <2>4. QED BY <2>1, <2>3
  <1>6. sent'[k].action = action /\ sent'[k].event = "pull_request" /\ sent'[k].head = head
    BY <1>3, <1>5 DEF PullEvent
  <1>7. \A n \in DOMAIN sent : n \in DOMAIN sent' /\ (Brings(n) <=> Brings(n)')
    BY <1>5 DEF Brings
  <1>8. SentInv'
    <2>1. head' \in Heads /\ sameOrigin' \in BOOLEAN /\ head \in Int /\ sent' # <<>>
      BY <1>1, <1>2, <1>5 DEF SentInv, Heads
    <2>2. \A n \in DOMAIN sent' :
            /\ sent'[n].head <= head'
            /\ sent'[n].event = "check_suite" <=> sent'[n].action = "requested"
            /\ sent'[n].action = "requested" => sameOrigin' /\ sent'[n].head > 1
            /\ sent'[n].action = "opened" => sent'[n].head = 1
            /\ sent'[n].action = "synchronize" => sent'[n].head > 1
            /\ sent'[n].action = "synchronize" /\ sameOrigin' =>
                  n + 1 \in DOMAIN sent' /\ sent'[n + 1] = Suite(sent'[n].head)
      BY <1>1, <1>2, <1>5, <1>6, <2>1 DEF SentInv
    <2>3. \A m, n \in DOMAIN sent' :
            sent'[m].action \in {"opened", "synchronize", "requested"} /\ sent'[m].action = sent'[n].action
              /\ sent'[m].head = sent'[n].head => m = n
      BY <1>2, <1>5, <1>6 DEF SentInv
    <2>4. "reopened" \notin excuse' =>
            /\ \A n \in DOMAIN sent' : sent'[n].action # "edited" =>
                  \E m \in DOMAIN sent' : Brings(m)' /\ sent'[m].head = sent'[n].head
            /\ open' => \E m \in DOMAIN sent' : Brings(m)' /\ sent'[m].head = head'
      BY <1>1, <1>2, <1>5, <1>6, <1>7 DEF SentInv
    <2>5. QED BY <1>5, <2>1, <2>2, <2>3, <2>4 DEF SentInv, Brings
  <1>9. \A n \in DOMAIN sent' \ DOMAIN sent : n \in mail' /\ ~Starts(n)'
    BY <1>5, <1>6 DEF Starts
  <1>10. head' >= head BY <1>1, <1>2 DEF Heads
  <1>11. QED BY <1>1, <1>5, <1>8, <1>9, <1>10, ChangeKeeps

(* The pull request is closed, edited and opened again.                    *)
LEMMA CloseEditReopenKeep == ASSUME EventsInv, Close \/ Edit \/ Reopen PROVE EventsInv'
  <1>0. SentInv /\ open \in BOOLEAN /\ excuse \subseteq Excuses BY DEF EventsInv, RestInv
  <1>1. CASE Close
    <2>1. sent # <<>> /\ ("reopened" \notin excuse => \E n \in DOMAIN sent : Brings(n) /\ sent[n].head = head)
      BY <1>0, <1>1 DEF Close, SentInv
    <2>2. open' = FALSE /\ excuse' = excuse /\ Change("closed") BY <1>1 DEF Close
    <2>3. QED BY <1>0, <2>1, <2>2, OtherChangeKeeps
  <1>2. CASE Edit
    <2>1. open' = open /\ sent # <<>> /\ excuse' = excuse /\ Change("edited")
      BY <1>2 DEF Edit
    <2>2. QED BY <1>0, <2>1, OtherChangeKeeps
  <1>3. CASE Reopen
    <2>1. open' = TRUE /\ sent # <<>> /\ Change("reopened") /\ excuse \subseteq excuse' /\ excuse' \subseteq Excuses
      BY <1>0, <1>3 DEF Reopen, Excuses
    <2>2. "reopened" \notin excuse' => \E n \in DOMAIN sent : Brings(n) /\ sent[n].head = head
      <3> SUFFICES ASSUME "reopened" \notin excuse' PROVE \E n \in DOMAIN sent : Brings(n) /\ sent[n].head = head
        OBVIOUS
      <3>1. PICK n \in DOMAIN sent : sent[n].head = head /\ sent[n].action # "edited"
        BY <1>3 DEF Reopen
      <3>2. "reopened" \notin excuse BY <2>1
      <3>3. QED BY <1>0, <3>1, <3>2 DEF SentInv
    <2>3. QED BY <1>0, <2>1, <2>2, OtherChangeKeeps
  <1>4. QED BY <1>1, <1>2, <1>3

(* Two events of one push.                                                 *)
LEMMA ConcatTwo == ASSUME NEW S, NEW a \in S, NEW b \in S PROVE <<a>> \o <<b>> = <<a, b>>
  <1>1. PICK s, t, u : s = <<a>> /\ t = <<b>> /\ u = <<a, b>> OBVIOUS
  <1>2. s \in Seq(S) /\ t \in Seq(S) /\ u \in Seq(S) /\ Len(s) = 1 /\ Len(t) = 1 /\ Len(u) = 2
        /\ s[1] = a /\ t[1] = b /\ u[1] = a /\ u[2] = b
    BY <1>1
  <1>3. /\ s \o t \in Seq(S) /\ Len(s \o t) = 2
        /\ (s \o t)[1] = a /\ (s \o t)[2] = b
    BY <1>2, ConcatProperties
  <1>4. \A i \in 1 .. 2 : (s \o t)[i] = u[i] BY <1>2, <1>3
  <1>5. s \o t = u BY <1>2, <1>3, <1>4, SeqEqual
  <1>6. QED BY <1>1, <1>5

(* A head is pushed: with the pull request open, one event or two of it    *)
(* are sent; nobody has heard of it.                                       *)
LEMMA PushKeeps == ASSUME EventsAssumption, EventsInv, Push PROVE EventsInv'
  <1>0. PICK new : new = head + 1 OBVIOUS
  <1>1. /\ head < MaxHead /\ sent # <<>> /\ head' = new
        /\ UNCHANGED <<sameOrigin, open, again, runs, checks, toggles, handlers, document, jobs, job, excuse>>
    BY <1>0 DEF Push
  <1>2. SentInv /\ head \in Heads /\ sent \in Seq(Deliveries) /\ open \in BOOLEAN /\ excuse \subseteq Excuses
    BY DEF EventsInv, SentInv, RestInv
  <1>3. new \in Heads /\ head \in Int /\ new \in Int /\ new > head /\ new > 1
    BY <1>0, <1>1, <1>2 DEF Heads, EventsAssumption
  <1>4. \A n \in DOMAIN sent : sent[n] \in Deliveries /\ sent[n].head \in Int /\ sent[n].head < new
    <2>1. \A n \in DOMAIN sent : sent[n] \in Deliveries /\ sent[n].head <= head
      BY <1>2 DEF SentInv
    <2>2. QED BY <1>3, <2>1 DEF Deliveries, Heads
  <1>5. CASE ~open
    <2>1. sent' = sent /\ mail' = mail BY <1>5 DEF Push
    <2>2. \A n \in DOMAIN sent : Brings(n)' <=> Brings(n) BY <2>1 DEF Brings
    <2>3. SentInv'
      BY <1>1, <1>2, <1>3, <1>4, <1>5, <2>1, <2>2 DEF SentInv
    <2>4. QED BY <1>1, <1>2, <1>3, <2>1, <2>3, ChangeKeeps
  <1>6. CASE open
    <2>0. PICK s : s = IF sameOrigin THEN <<PullEvent("synchronize", new), Suite(new)>>
                       ELSE <<PullEvent("synchronize", new)>>
      OBVIOUS
    <2>1. PullEvent("synchronize", new) \in Deliveries /\ Suite(new) \in Deliveries
      BY <1>3 DEF PullEvent, Suite, Deliveries, Actions
    <2>2. /\ s \in Seq(Deliveries) /\ Len(s) = (IF sameOrigin THEN 2 ELSE 1)
          /\ s[1] = PullEvent("synchronize", new) /\ (sameOrigin => s[2] = Suite(new))
      BY <2>0, <2>1
    <2>3. Deliver(s)
      <3>1. Deliver(<<PullEvent("synchronize", new)>> \o IF sameOrigin THEN <<Suite(new)>> ELSE <<>>)
        BY <1>0, <1>6 DEF Push
      <3>2. CASE sameOrigin
        <4>1. <<PullEvent("synchronize", new)>> \o <<Suite(new)>> = s
          BY <2>0, <2>1, <3>2, ConcatTwo
        <4>2. QED BY <3>1, <3>2, <4>1
      <3>3. CASE ~sameOrigin
        <4>1. <<PullEvent("synchronize", new)>> \o <<>> = s
          <5>1. <<PullEvent("synchronize", new)>> \in Seq(Deliveries) BY <2>1
          <5>2. QED BY <2>0, <3>3, <5>1, ConcatEmptySeq
        <4>2. QED BY <3>1, <3>3, <4>1
      <3>4. QED BY <3>2, <3>3
    <2>4. PICK k, l : k = Len(sent) + 1 /\ l = Len(sent) + 2 OBVIOUS
    <2>5. /\ sent' \in Seq(Deliveries) /\ DOMAIN sent' = DOMAIN sent \cup (IF sameOrigin THEN {k, l} ELSE {k})
          /\ k \notin DOMAIN sent /\ l \notin DOMAIN sent /\ k # l /\ l = k + 1 /\ k \in Int
          /\ \A n \in DOMAIN sent : sent'[n] = sent[n]
          /\ sent'[k] = s[1] /\ (sameOrigin => sent'[l] = s[2])
          /\ \A n \in DOMAIN sent' \ DOMAIN sent : n \in mail'
          /\ mail \subseteq mail' /\ mail' \subseteq mail \cup (DOMAIN sent' \ DOMAIN sent)
      <3>1. /\ sent' \in Seq(Deliveries) /\ DOMAIN sent = 1 .. Len(sent) /\ DOMAIN sent' = 1 .. Len(sent) + Len(s)
            /\ \A n \in DOMAIN sent : sent'[n] = sent[n]
            /\ \A n \in DOMAIN sent' \ DOMAIN sent : n \in mail' /\ sent'[n] = s[n - Len(sent)]
            /\ mail \subseteq mail' /\ mail' \subseteq mail \cup (DOMAIN sent' \ DOMAIN sent)
        BY <1>2, <2>2, <2>3, DeliverSends
      <3>2. Len(sent) \in Nat BY <1>2
      <3>3. /\ k \notin DOMAIN sent /\ l \notin DOMAIN sent /\ k # l /\ l = k + 1 /\ k \in Int
            /\ k - Len(sent) = 1 /\ l - Len(sent) = 2
        BY <2>4, <3>1, <3>2
      <3>4. CASE sameOrigin
        <4>1. DOMAIN sent' = 1 .. Len(sent) + 2 BY <2>2, <3>1, <3>4
        <4>2. DOMAIN sent' = DOMAIN sent \cup {k, l} BY <2>4, <3>1, <3>2, <4>1
        <4>3. QED BY <3>1, <3>3, <3>4, <4>2
      <3>5. CASE ~sameOrigin
        <4>1. DOMAIN sent' = 1 .. Len(sent) + 1 BY <2>2, <3>1, <3>5
        <4>2. DOMAIN sent' = DOMAIN sent \cup {k} BY <2>4, <3>1, <3>2, <4>1
        <4>3. QED BY <3>1, <3>3, <3>5, <4>2
      <3>6. QED BY <3>4, <3>5
    <2>6. /\ sent'[k].action = "synchronize" /\ sent'[k].event = "pull_request" /\ sent'[k].head = new
          /\ sameOrigin => sent'[l] = Suite(new) /\ sent'[l].action = "requested"
                             /\ sent'[l].event = "check_suite" /\ sent'[l].head = new
      BY <2>2, <2>5 DEF PullEvent, Suite
    <2>7. \A n \in DOMAIN sent' : n \in DOMAIN sent \/ n = k \/ (n = l /\ sameOrigin)
      BY <2>5
    <2>8. SentInv'
      <3>1. head' \in Heads /\ sameOrigin' \in BOOLEAN /\ sent' # <<>>
        BY <1>1, <1>2, <1>3, <2>5 DEF SentInv
      <3>2. \A n \in DOMAIN sent' :
              /\ sent'[n].head <= head'
              /\ sent'[n].event = "check_suite" <=> sent'[n].action = "requested"
              /\ sent'[n].action = "requested" => sameOrigin' /\ sent'[n].head > 1
              /\ sent'[n].action = "opened" => sent'[n].head = 1
              /\ sent'[n].action = "synchronize" => sent'[n].head > 1
        BY <1>1, <1>2, <1>3, <1>4, <2>5, <2>6, <2>7 DEF SentInv
      <3>3. \A n \in DOMAIN sent' : sent'[n].action = "synchronize" /\ sameOrigin' =>
                n + 1 \in DOMAIN sent' /\ sent'[n + 1] = Suite(sent'[n].head)
        BY <1>1, <1>2, <2>5, <2>6, <2>7 DEF SentInv
      <3>4. \A m, n \in DOMAIN sent' :
              sent'[m].action \in {"opened", "synchronize", "requested"} /\ sent'[m].action = sent'[n].action
                /\ sent'[m].head = sent'[n].head => m = n
        <4>1. \A n \in DOMAIN sent : sent'[n] = sent[n] /\ sent[n].head # new
          BY <1>3, <1>4, <2>5
        <4>2. QED BY <1>2, <4>1, <2>6, <2>7 DEF SentInv
      <3>5. \A n \in DOMAIN sent : n \in DOMAIN sent' /\ (Brings(n)' <=> Brings(n))
        BY <2>5 DEF Brings
      <3>6. k \in DOMAIN sent' /\ Brings(k)' BY <2>5, <2>6 DEF Brings
      <3>7. "reopened" \notin excuse' =>
              /\ \A n \in DOMAIN sent' : sent'[n].action # "edited" =>
                    \E m \in DOMAIN sent' : Brings(m)' /\ sent'[m].head = sent'[n].head
              /\ open' => \E m \in DOMAIN sent' : Brings(m)' /\ sent'[m].head = head'
        <4>1. ASSUME "reopened" \notin excuse', NEW n \in DOMAIN sent', sent'[n].action # "edited"
              PROVE  \E m \in DOMAIN sent' : Brings(m)' /\ sent'[m].head = sent'[n].head
          <5>1. CASE n \in DOMAIN sent
            <6>1. PICK m \in DOMAIN sent : Brings(m) /\ sent[m].head = sent[n].head
              BY <1>1, <1>2, <2>5, <4>1, <5>1 DEF SentInv
            <6>2. QED BY <2>5, <3>5, <5>1, <6>1
          <5>2. CASE n \notin DOMAIN sent
            BY <2>6, <2>7, <3>6, <5>2
          <5>3. QED BY <5>1, <5>2
        <4>2. QED BY <1>1, <2>6, <3>6, <4>1
      <3>8. QED BY <2>5, <3>1, <3>2, <3>3, <3>4, <3>7 DEF SentInv, Brings
    <2>9. \A r \in runs : r.head # new
      <3>1. \A r \in runs : \E n \in DOMAIN sent : sent[n].head = r.head
        BY DEF EventsInv, RunsInv
      <3>2. QED BY <1>3, <1>4, <3>1
    <2>10. \A n \in DOMAIN sent' \ DOMAIN sent : n \in mail' /\ \A r \in runs : r.head # sent'[n].head
      BY <2>5, <2>6, <2>7, <2>9
    <2>11. QED BY <1>1, <1>2, <1>3, <2>5, <2>8, <2>10, ChangeKeeps
  <1>7. QED BY <1>2, <1>5, <1>6

(* Deliveries are lost, and repeated.                                      *)
LEMMA MailKeeps == ASSUME EventsAssumption, EventsInv, NEW n \in DOMAIN sent, Lose(n) \/ Redeliver(n) PROVE EventsInv'
  <1> USE DEF EventsInv
  <1>1. CASE Lose(n)
    <2>1. /\ mail' = mail \ {n} /\ excuse' = excuse \cup {"lost"}
          /\ UNCHANGED <<github, again, runs, checks, toggles, handlers, document, jobs, job>>
      BY <1>1 DEF Lose
    <2>2. excuse' # {} BY <2>1
    <2>3. StoredInv' /\ ReachedInv' /\ OneRunInv'
      BY <2>2 DEF StoredInv, ReachedInv, OneRunInv
    <2>4. SentInv' BY <2>1 DEF SentInv, github, Brings
    <2>5. HandlersInv'
      <3>1. \A h : Skipped(h)' <=> Skipped(h) BY <2>1 DEF Skipped, github
      <3>2. QED BY <2>1, <3>1 DEF HandlersInv, github
    <2>6. RunsInv' /\ DocumentInv' /\ QueueInv'
      BY <2>1 DEF RunsInv, DocumentInv, QueueInv, RunOf, github, document
    <2>7. JobInv' /\ RunTellsOwnHead' BY <2>1 DEF JobInv, RunTellsOwnHead, RunOf, github
    <2>8. RestInv' BY <2>1 DEF RestInv, github, document, Excuses
    <2>9. QED BY <2>3, <2>4, <2>5, <2>6, <2>7, <2>8
  <1>2. CASE Redeliver(n)
    <2>1. /\ mail' = mail \cup {n} /\ excuse' = excuse /\ again' = again + 1 /\ again < MaxAgain
          /\ UNCHANGED <<github, runs, checks, toggles, handlers, document, jobs, job>>
      BY <1>2 DEF Redeliver
    <2>2. again' # 0 /\ again \in Nat /\ again' \in 0 .. MaxAgain
      BY <2>1 DEF HandlersInv, RestInv, EventsAssumption
    <2>3. OneRunInv' BY <2>2 DEF OneRunInv
    <2>4. SentInv' BY <2>1 DEF SentInv, github, Brings
    <2>5. HandlersInv'
      <3>1. \A h : Skipped(h)' <=> Skipped(h) BY <2>1 DEF Skipped, github
      <3>2. QED BY <2>1, <2>2, <3>1 DEF HandlersInv, github
    <2>6. RunsInv' /\ DocumentInv' /\ QueueInv'
      BY <2>1 DEF RunsInv, DocumentInv, QueueInv, RunOf, github, document
    <2>7. JobInv' /\ RunTellsOwnHead' BY <2>1 DEF JobInv, RunTellsOwnHead, RunOf, github
    <2>8. StoredInv' BY <2>1 DEF StoredInv, github, document
    <2>9. ReachedInv'
      <3>1. \A m : Pending(m) => Pending(m)' BY <2>1 DEF Pending
      <3>2. \A m : Starts(m)' <=> Starts(m) BY <2>1 DEF Starts, github
      <3>3. \A x : Reached(x)' <=> Reached(x) BY <2>1 DEF Reached, Reaches, RunOf, document
      <3>4. QED BY <2>1, <3>1, <3>2, <3>3 DEF ReachedInv, github, document
    <2>10. RestInv' BY <2>1, <2>2 DEF RestInv, github, document
    <2>11. QED BY <2>3, <2>4, <2>5, <2>6, <2>7, <2>8, <2>9, <2>10
  <1>3. QED BY <1>1, <1>2

(* A head is brought once: the deliveries that start a job are of          *)
(* different heads.                                                        *)
LEMMA StartsUnique ==
    ASSUME SentInv, NEW m \in DOMAIN sent, NEW n \in DOMAIN sent, Starts(m), Starts(n),
           sent[m].head = sent[n].head
    PROVE  m = n
  <1>1. sent[m].head \in Int /\ sent[n].head \in Int
    <2>1. sent[m] \in Deliveries /\ sent[n] \in Deliveries BY DEF SentInv
    <2>2. QED BY <2>1 DEF Deliveries, Heads
  <1>2. sent[m].action = sent[n].action BY <1>1 DEF SentInv, Starts
  <1>3. sent[m].action \in {"opened", "synchronize", "requested"} BY DEF Starts
  <1>4. QED BY <1>2, <1>3 DEF SentInv

(* A step of the service leaves GitHub's side and may add an excuse.       *)
LEMMA GithubStays ==
    ASSUME SentInv, UNCHANGED github, excuse \subseteq excuse'
    PROVE  SentInv'
  <1>1. \A n : Brings(n)' <=> Brings(n) BY DEF Brings, github
  <1>2. QED BY <1>1 DEF SentInv, github

(* Handlers may leave, and deliveries.                                     *)
LEMMA HandlersLeave ==
    ASSUME HandlersInv, UNCHANGED github, handlers' \subseteq handlers, mail' \subseteq mail,
           excuse \subseteq excuse', checks' = checks \/ "config" \in excuse', checks' \in BOOLEAN,
           UNCHANGED again
    PROVE  HandlersInv'
  <1>1. \A h : Skipped(h)' <=> Skipped(h) BY DEF Skipped, github
  <1>2. QED BY <1>1 DEF HandlersInv, github

(* An excuse was added: nothing is said of what was stored and marked.     *)
LEMMA Excused ==
    ASSUME excuse' # {} PROVE StoredInv' /\ ReachedInv' /\ OneRunInv'
  BY DEF StoredInv, ReachedInv, OneRunInv

(* The jobs and their check runs stay.                                     *)
LEMMA JobsStay ==
    ASSUME RunsInv, DocumentInv, QueueInv, JobInv, RunTellsOwnHead,
           UNCHANGED <<github, runs, analyzed, marked, jobs, job>>, excuse \subseteq excuse',
           src' \in Heads \cup {0}, src' <= head
    PROVE  RunsInv' /\ DocumentInv' /\ QueueInv' /\ JobInv' /\ RunTellsOwnHead'
  <1>1. RunsInv' BY DEF RunsInv, github
  <1>2. DocumentInv' BY DEF DocumentInv, github
  <1>3. QueueInv' BY DEF QueueInv, RunOf, github
  <1>4. JobInv' /\ RunTellsOwnHead' BY DEF JobInv, RunTellsOwnHead, RunOf, github
  <1>5. QED BY <1>1, <1>2, <1>3, <1>4

(* The checks are switched on or off.                                      *)
LEMMA SetChecksKeeps == ASSUME EventsAssumption, EventsInv, SetChecks PROVE EventsInv'
  <1> USE DEF EventsInv
  <1>1. /\ toggles < MaxToggles /\ toggles' = toggles + 1 /\ checks' = ~checks /\ excuse' = excuse \cup {"config"}
        /\ UNCHANGED <<github, mail, again, runs, handlers, document, jobs, job>>
    BY DEF SetChecks
  <1>2. excuse \subseteq excuse' /\ excuse' # {} /\ "config" \in excuse' BY <1>1
  <1>3. StoredInv' /\ ReachedInv' /\ OneRunInv' BY <1>2, Excused
  <1>4. SentInv' BY <1>1, <1>2, GithubStays
  <1>5. checks' \in BOOLEAN BY <1>1
  <1>6. HandlersInv' BY <1>1, <1>2, <1>5, HandlersLeave
  <1>7. RunsInv' /\ DocumentInv' /\ QueueInv' /\ JobInv' /\ RunTellsOwnHead'
    <2>1. UNCHANGED <<src, analyzed, marked>> BY <1>1 DEF document
    <2>2. src' \in Heads \cup {0} /\ src' <= head BY <2>1 DEF DocumentInv
    <2>3. QED BY <1>1, <1>2, <2>1, <2>2, JobsStay
  <1>8. RestInv'
    <2>1. toggles' \in 0 .. MaxToggles BY <1>1 DEF RestInv, EventsAssumption
    <2>2. excuse' \subseteq Excuses BY <1>1 DEF RestInv, Excuses
    <2>3. QED BY <1>1, <2>1, <2>2 DEF RestInv, github, document
  <1>9. QED BY <1>3, <1>4, <1>6, <1>7, <1>8

(* A handler begins, or ignores its suite: without checks a suite starts   *)
(* no job.                                                                 *)
LEMMA HandleKeeps == ASSUME EventsInv, NEW n \in mail, Handle(n) PROVE EventsInv'
  <1> USE DEF EventsInv
  <1>0. PICK more : more = (IF sent[n].event = "pull_request"
           THEN {[n |-> n, cfg |-> checks, step |-> "store"]}
           ELSE IF checks THEN {[n |-> n, cfg |-> TRUE, step |-> "submit"]} ELSE {})
    OBVIOUS
  <1>1. /\ mail' = mail \ {n} /\ handlers' = handlers \cup more /\ \A h \in handlers : h.n # n
        /\ UNCHANGED <<github, again, runs, checks, toggles, document, jobs, job, excuse>>
    BY <1>0 DEF Handle
  <1>2. n \in DOMAIN sent /\ sent[n] \in Deliveries /\ n \in Nat
    <2>1. n \in DOMAIN sent /\ sent \in Seq(Deliveries) BY DEF HandlersInv, SentInv
    <2>2. QED BY <2>1
  <1>3. sent[n].event \in {"pull_request", "check_suite"} BY <1>2 DEF Deliveries
  <1>4. \A h \in more :
          /\ h \in Handlers /\ h.n = n /\ h.cfg = checks
          /\ sent[n].event = "pull_request" => h.step = "store"
          /\ sent[n].event = "check_suite" => h.step = "submit" /\ h.cfg /\ checks
    <2>1. checks \in BOOLEAN BY DEF HandlersInv
    <2>2. CASE sent[n].event = "pull_request"
      <3>1. more = {[n |-> n, cfg |-> checks, step |-> "store"]} BY <1>0, <2>2
      <3>2. QED BY <1>2, <2>1, <2>2, <3>1 DEF Handlers
    <2>3. CASE sent[n].event = "check_suite"
      <3>1. more \subseteq {[n |-> n, cfg |-> TRUE, step |-> "submit"]} /\ (more # {} => checks)
        BY <1>0, <2>3
      <3>2. \A h \in more : h = [n |-> n, cfg |-> TRUE, step |-> "submit"] BY <3>1
      <3>3. [n |-> n, cfg |-> TRUE, step |-> "submit"] \in Handlers BY <1>2 DEF Handlers
      <3>4. \A h \in more : h \in Handlers /\ h.n = n /\ h.step = "submit" /\ h.cfg = TRUE
        <4>1. PICK x : x = [n |-> n, cfg |-> TRUE, step |-> "submit"] OBVIOUS
        <4>2. x.n = n /\ x.step = "submit" BY <4>1
        <4>3. x.cfg = TRUE BY <4>1
        <4>4. QED BY <3>2, <3>3, <4>1, <4>2, <4>3
      <3>5. \A h \in more : checks = TRUE BY <2>1, <3>1
      <3>6. QED BY <2>3, <3>4, <3>5
    <2>4. QED BY <1>3, <2>2, <2>3
  <1>5. \A h, k \in more : h = k BY <1>0
  <1>6. more = {} => sent[n].event = "check_suite" /\ ~checks BY <1>0, <1>3
  <1>7. SentInv' BY <1>1, GithubStays
  <1>8. HandlersInv'
    <2>1. \A h : Skipped(h)' <=> Skipped(h) BY <1>1 DEF Skipped, github
    <2>2. sent' = sent BY <1>1 DEF github
    <2>3. mail' \subseteq DOMAIN sent' /\ handlers' \subseteq Handlers
      BY <1>1, <1>4, <2>2 DEF HandlersInv
    <2>4. \A h \in handlers :
            /\ h.n \in DOMAIN sent'
            /\ sent'[h.n].event = "check_suite" => h.cfg /\ h.step = "submit"
            /\ sent'[h.n].event = "pull_request" /\ h.step = "submit" => ~Skipped(h)'
            /\ "config" \notin excuse' => h.cfg = checks'
            /\ again' = 0 => h.n \notin mail'
      BY <1>1, <2>1, <2>2 DEF HandlersInv
    <2>5. \A h \in more :
            /\ h.n \in DOMAIN sent'
            /\ sent'[h.n].event = "check_suite" => h.cfg /\ h.step = "submit"
            /\ sent'[h.n].event = "pull_request" /\ h.step = "submit" => ~Skipped(h)'
            /\ "config" \notin excuse' => h.cfg = checks'
            /\ again' = 0 => h.n \notin mail'
      <3>1. TAKE h \in more
      <3>2. h.n = n /\ n \in DOMAIN sent' BY <1>2, <1>4, <2>2
      <3>3. sent'[h.n].event = "check_suite" => h.cfg /\ h.step = "submit"
        BY <1>4, <2>2, <3>2
      <3>4. sent'[h.n].event = "pull_request" => h.step = "store" BY <1>4, <2>2, <3>2
      <3>5. h.cfg = checks' BY <1>1, <1>4
      <3>6. h.n \notin mail' BY <1>1, <3>2
      <3>7. QED BY <3>2, <3>3, <3>4, <3>5, <3>6
    <2>6. \A h, k \in handlers' : h.n = k.n => h = k BY <1>1, <1>4, <1>5 DEF HandlersInv
    <2>7. checks' \in BOOLEAN /\ again' \in Nat BY <1>1 DEF HandlersInv
    <2>8. \A h \in handlers' : h \in handlers \/ h \in more BY <1>1
    <2>9. QED BY <2>3, <2>4, <2>5, <2>6, <2>7, <2>8 DEF HandlersInv
  <1>9. RunsInv' /\ DocumentInv' /\ QueueInv' /\ JobInv' /\ RunTellsOwnHead'
    <2>1. UNCHANGED <<src, analyzed, marked>> BY <1>1 DEF document
    <2>2. src' \in Heads \cup {0} /\ src' <= head BY <2>1 DEF DocumentInv
    <2>3. QED BY <1>1, <2>1, <2>2, JobsStay
  <1>10. \A m : Starts(m)' <=> Starts(m) BY <1>1 DEF Starts, github
  <1>11. \A m : Pending(m)' => Pending(m) BY <1>1, <1>4 DEF Pending
  <1>12. \A m : Starts(m) /\ Pending(m) => Pending(m)'
    <2>1. ASSUME NEW m, Starts(m), Pending(m) PROVE Pending(m)'
      <3>1. CASE m = n
        <4>1. more # {}
          <5>1. sent[n].event = "check_suite" => sent[n].action = "requested"
            BY <1>2 DEF SentInv
          <5>2. QED BY <1>6, <2>1, <3>1, <5>1 DEF Starts
        <4>2. QED BY <1>1, <1>4, <3>1, <4>1 DEF Pending
      <3>2. CASE m # n BY <1>1, <2>1, <3>2 DEF Pending
      <3>3. QED BY <3>1, <3>2
    <2>2. QED BY <2>1
  <1>13. StoredInv'
    <2> SUFFICES ASSUME excuse = {}, NEW m \in DOMAIN sent, sent[m].event = "pull_request"
                 PROVE  m \in mail' \/ (\E h \in handlers' : h.n = m /\ h.step = "store") \/ sent[m].head <= src
      BY <1>1 DEF StoredInv, github, document
    <2>1. CASE m = n
      <3>1. more # {} BY <1>6, <2>1
      <3>2. QED BY <1>1, <1>4, <2>1, <3>1
    <2>2. CASE m # n BY <1>1, <2>2 DEF StoredInv
    <2>3. QED BY <2>1, <2>2
  <1>14. ReachedInv'
    <2>1. \A x : Reached(x)' <=> Reached(x) BY <1>1 DEF Reached, Reaches, RunOf, document
    <2>2. QED BY <1>1, <1>10, <1>12, <2>1 DEF ReachedInv, github, document
  <1>15. OneRunInv'
    <2>1. \A x : RunsFor(x)' = RunsFor(x) BY <1>1 DEF RunsFor
    <2>2. QED BY <1>1, <1>10, <1>11, <1>12, <2>1 DEF OneRunInv, github, document
  <1>16. RestInv' BY <1>1 DEF RestInv, github, document
  <1>17. QED BY <1>7, <1>8, <1>9, <1>13, <1>14, <1>15, <1>16

(* FindAndUpdateSource: a handler that ends there leaves a head that is    *)
(* analysed, or one for which the suite starts the job.                    *)
LEMMA StoreKeeps == ASSUME EventsInv, NEW h \in handlers, Store(h) PROVE EventsInv'
  <1> USE DEF EventsInv
  <1>0. PICK new, k, more : /\ new = sent[h.n].head
                            /\ k = [h EXCEPT !.step = "submit"]
                            /\ more = (IF new = analyzed \/ Skipped(h) THEN {} ELSE {k})
    OBVIOUS
  <1>1. /\ h.step = "store" /\ src' = new
        /\ handlers' = (handlers \ {h}) \cup more
        /\ excuse' = (IF new < src THEN excuse \cup {"order"} ELSE excuse)
        /\ UNCHANGED <<github, mail, again, runs, checks, toggles, analyzed, marked, stored, jobs, job>>
    BY <1>0 DEF Store
  <1>2. h.n \in DOMAIN sent /\ sent[h.n] \in Deliveries /\ h \in Handlers
    <2>1. h.n \in DOMAIN sent /\ sent \in Seq(Deliveries) /\ h \in Handlers
      BY DEF HandlersInv, SentInv
    <2>2. QED BY <2>1
  <1>3. sent[h.n].event = "pull_request" /\ sent[h.n].action # "requested"
    <2>1. sent[h.n].event \in {"pull_request", "check_suite"} BY <1>2 DEF Deliveries
    <2>2. sent[h.n].event # "check_suite" BY <1>1 DEF HandlersInv
    <2>3. QED BY <1>2, <2>1, <2>2 DEF SentInv
  <1>4. k \in Handlers /\ k.n = h.n /\ k.cfg = h.cfg /\ k.step = "submit"
    BY <1>0, <1>2 DEF Handlers
  <1>5. new \in Heads /\ new <= head BY <1>0, <1>2 DEF Deliveries, SentInv
  <1>6. excuse \subseteq excuse' /\ (excuse' = {} => excuse = {} /\ ~(new < src)) BY <1>1
  <1>7. more \subseteq {k} /\ (more # {} => ~Skipped(h)) BY <1>0
  <1>8. SentInv' BY <1>1, <1>6, GithubStays
  <1>9. HandlersInv'
    <2>1. \A i : Skipped(i)' <=> Skipped(i) BY <1>1 DEF Skipped, github
    <2>2. sent' = sent BY <1>1 DEF github
    <2>3. mail' \subseteq DOMAIN sent' /\ handlers' \subseteq Handlers
      BY <1>1, <1>4, <1>7, <2>2 DEF HandlersInv
    <2>4. \A i \in handlers :
            /\ i.n \in DOMAIN sent'
            /\ sent'[i.n].event = "check_suite" => i.cfg /\ i.step = "submit"
            /\ sent'[i.n].event = "pull_request" /\ i.step = "submit" => ~Skipped(i)'
            /\ "config" \notin excuse' => i.cfg = checks'
            /\ again' = 0 => i.n \notin mail'
      BY <1>1, <1>6, <2>1, <2>2 DEF HandlersInv
    <2>5. ~Skipped(h) => ~Skipped(k)' BY <1>4, <2>1 DEF Skipped
    <2>6. \A i \in more :
            /\ i.n \in DOMAIN sent'
            /\ sent'[i.n].event = "check_suite" => i.cfg /\ i.step = "submit"
            /\ sent'[i.n].event = "pull_request" /\ i.step = "submit" => ~Skipped(i)'
            /\ "config" \notin excuse' => i.cfg = checks'
            /\ again' = 0 => i.n \notin mail'
      BY <1>3, <1>4, <1>7, <2>2, <2>4, <2>5
    <2>7. \A i, j \in handlers' : i.n = j.n => i = j BY <1>1, <1>4, <1>7 DEF HandlersInv
    <2>8. checks' \in BOOLEAN /\ again' \in Nat BY <1>1 DEF HandlersInv
    <2>9. \A i \in handlers' : i \in handlers \/ i \in more BY <1>1
    <2>10. QED BY <2>3, <2>4, <2>6, <2>7, <2>8, <2>9 DEF HandlersInv
  <1>10. RunsInv' /\ DocumentInv' /\ QueueInv' /\ JobInv' /\ RunTellsOwnHead'
    BY <1>1, <1>5, <1>6, JobsStay
  <1>11. \A m : Starts(m)' <=> Starts(m) BY <1>1 DEF Starts, github
  <1>12. \A m : Pending(m)' => Pending(m) BY <1>1, <1>4, <1>7 DEF Pending
  <1>13. \A m : Pending(m) => Pending(m)' \/ (m = h.n /\ more = {})
    <2>1. more # {} => k \in handlers' BY <1>1, <1>7
    <2>2. \A i \in handlers : i # h => i \in handlers' BY <1>1
    <2>3. QED BY <1>1, <1>4, <2>1, <2>2 DEF Pending
  <1>14. ASSUME excuse = {}, Starts(h.n), more = {} PROVE new = analyzed
    <2>1. SUFFICES ASSUME Skipped(h) PROVE FALSE BY <1>0, <1>14
    <2>2. h.cfg /\ h.cfg = checks BY <1>14, <2>1 DEF Skipped, HandlersInv
    <2>3. QED BY <1>3, <1>14, <2>1, <2>2 DEF Skipped, Starts
  <1>15. StoredInv'
    <2> SUFFICES ASSUME excuse' = {}, NEW m \in DOMAIN sent, sent[m].event = "pull_request"
                 PROVE  m \in mail' \/ (\E i \in handlers' : i.n = m /\ i.step = "store") \/ sent[m].head <= src'
      BY <1>1 DEF StoredInv, github
    <2>1. src \in Int /\ new \in Int /\ sent[m].head \in Int
      <3>1. sent[m] \in Deliveries BY DEF SentInv
      <3>2. QED BY <1>5, <3>1 DEF DocumentInv, Deliveries, Heads
    <2>2. CASE m = h.n BY <1>0, <1>1, <2>1, <2>2
    <2>3. CASE m # h.n
      <3>1. m \in mail \/ (\E i \in handlers : i.n = m /\ i.step = "store") \/ sent[m].head <= src
        BY <1>6 DEF StoredInv
      <3>2. CASE \E i \in handlers : i.n = m /\ i.step = "store"
        <4>1. PICK i \in handlers : i.n = m /\ i.step = "store" BY <3>2
        <4>2. i \in handlers' BY <1>1, <2>3, <4>1
        <4>3. QED BY <4>1, <4>2
      <3>3. QED BY <1>1, <1>6, <2>1, <3>1, <3>2
    <2>4. QED BY <2>2, <2>3
  <1>16. ReachedInv'
    <2> SUFFICES ASSUME excuse' = {} PROVE ReachedInv' BY DEF ReachedInv
    <2>1. \A x : Reached(x)' <=> Reached(x) BY <1>1 DEF Reached, Reaches, RunOf
    <2>2. Starts(h.n) /\ more = {} => Reached(sent[h.n].head)
      <3>1. marked \in Int /\ analyzed \in Int /\ marked >= analyzed
        BY <1>6 DEF ReachedInv, DocumentInv, Heads
      <3>2. QED BY <1>0, <1>6, <1>14, <3>1 DEF Reached
    <2>3. \A m \in DOMAIN sent : Starts(m) => Pending(m)' \/ Reached(sent[m].head)
      BY <1>6, <1>13, <2>2 DEF ReachedInv
    <2>4. QED BY <1>1, <1>6, <1>11, <2>1, <2>3 DEF ReachedInv, github
  <1>17. OneRunInv'
    <2> SUFFICES ASSUME excuse' = {}, checks, again = 0 PROVE OneRunInv'
      BY <1>1 DEF OneRunInv
    <2>1. \A x : RunsFor(x)' = RunsFor(x) BY <1>1 DEF RunsFor
    <2>2. ~(Starts(h.n) /\ more = {})
      <3> SUFFICES ASSUME Starts(h.n), more = {} PROVE FALSE OBVIOUS
      <3>1. new = analyzed BY <1>6, <1>14
      <3>2. Pending(h.n) BY DEF Pending
      <3>3. RunsFor(new) = {} BY <1>0, <1>2, <1>6, <3>2 DEF OneRunInv
      <3>4. new # 0 BY <1>5 DEF Heads
      <3>5. QED BY <1>6, <3>1, <3>3, <3>4 DEF OneRunInv
    <2>3. \A m : Starts(m) => (Pending(m)' <=> Pending(m)) BY <1>12, <1>13, <2>2
    <2>4. \A m \in DOMAIN sent : Starts(m)' =>
             IF Pending(m)' THEN RunsFor(sent[m].head)' = {}
             ELSE \E r \in runs : RunsFor(sent[m].head)' = {r}
      BY <1>6, <1>1, <1>11, <2>1, <2>3 DEF OneRunInv, github
    <2>5. QED BY <1>1, <1>6, <2>1, <2>4 DEF OneRunInv, github
  <1>18. RestInv' BY <1>1 DEF RestInv, github, Excuses
  <1>19. QED BY <1>8, <1>9, <1>10, <1>15, <1>16, <1>17, <1>18

(* Any of the calls of a handler fails.                                    *)
LEMMA HandlerFailsKeeps == ASSUME EventsInv, NEW h \in handlers, HandlerFails(h) PROVE EventsInv'
  <1> USE DEF EventsInv
  <1>1. /\ handlers' = handlers \ {h} /\ excuse' = excuse \cup {"failed"}
        /\ UNCHANGED <<github, mail, again, runs, checks, toggles, document, jobs, job>>
    BY DEF HandlerFails
  <1>2. excuse \subseteq excuse' /\ excuse' # {} BY <1>1
  <1>3. StoredInv' /\ ReachedInv' /\ OneRunInv' BY <1>2, Excused
  <1>4. SentInv' BY <1>1, <1>2, GithubStays
  <1>5. checks' \in BOOLEAN BY <1>1 DEF HandlersInv
  <1>6. HandlersInv' BY <1>1, <1>2, <1>5, HandlersLeave
  <1>7. RunsInv' /\ DocumentInv' /\ QueueInv' /\ JobInv' /\ RunTellsOwnHead'
    <2>1. UNCHANGED <<src, analyzed, marked>> BY <1>1 DEF document
    <2>2. src' \in Heads \cup {0} /\ src' <= head BY <2>1 DEF DocumentInv
    <2>3. QED BY <1>1, <1>2, <2>1, <2>2, JobsStay
  <1>8. RestInv' BY <1>1 DEF RestInv, Excuses, github, document
  <1>9. QED BY <1>3, <1>4, <1>6, <1>7, <1>8

(* CreateCheckRun and ProcessRepository: a new check run and a new job for *)
(* the head of the event, behind those there are.                          *)
LEMMA SubmitKeeps == ASSUME EventsInv, NEW h \in handlers, Submit(h) PROVE EventsInv'
  <1> USE DEF EventsInv
  <1>0. PICK m, id, run, pull, new :
          /\ m = sent[h.n] /\ id = Cardinality(runs) + 1 /\ run = (IF h.cfg THEN id ELSE 0)
          /\ pull = (IF m.event = "pull_request" THEN m.head ELSE 0)
          /\ new = [id |-> id, head |-> m.head, reported |-> 0]
    OBVIOUS
  <1>1. /\ h.step = "submit" /\ handlers' = handlers \ {h}
        /\ runs' = (IF h.cfg THEN runs \cup {new} ELSE runs)
        /\ jobs' = Append(jobs, [run |-> run, pull |-> pull])
        /\ UNCHANGED <<github, mail, again, checks, toggles, document, job, excuse>>
    BY <1>0 DEF Submit
  <1>2. /\ h.n \in DOMAIN sent /\ m \in Deliveries /\ h \in Handlers /\ m.head \in Heads /\ m.head <= head
        /\ m.event \in {"pull_request", "check_suite"}
        /\ m.event = "check_suite" <=> m.action = "requested"
        /\ m.action = "requested" => sameOrigin
    <2>1. h.n \in DOMAIN sent /\ sent \in Seq(Deliveries) /\ h \in Handlers
      BY DEF HandlersInv, SentInv
    <2>2. m \in Deliveries BY <1>0, <2>1
    <2>3. QED BY <1>0, <2>1, <2>2 DEF Deliveries, SentInv
  <1>3. m.event = "check_suite" => h.cfg /\ sameOrigin /\ pull = 0
    BY <1>0, <1>2 DEF HandlersInv
  <1>4. m.event = "pull_request" => ~Skipped(h) /\ pull = m.head
    BY <1>0, <1>1 DEF HandlersInv
  <1>5. /\ IsFiniteSet(runs) /\ Cardinality(runs) \in Nat /\ runs \subseteq Runs
        /\ \A r \in runs : r.id \in Nat \ {0} /\ r.id <= Cardinality(runs)
    <2>1. IsFiniteSet(runs) /\ runs \subseteq Runs BY DEF RunsInv
    <2>2. QED BY <2>1, FS_CardinalityType DEF RunsInv, Runs
  <1>6. id \in Nat \ {0} /\ (\A r \in runs : r.id # id) /\ run \in Nat /\ pull \in Heads \cup {0} /\ pull <= head
    <2>1. id \in Nat \ {0} /\ (\A r \in runs : r.id # id) BY <1>0, <1>5
    <2>2. run \in Nat BY <1>0, <2>1
    <2>3. head \in Int /\ head >= 0 BY DEF SentInv, Heads
    <2>4. QED BY <1>0, <1>2, <2>1, <2>2, <2>3
  <1>7. new \in Runs /\ new.id = id /\ new.head = m.head /\ new.reported = 0
    BY <1>0, <1>2, <1>6 DEF Runs
  <1>8. \A r \in runs' : r \in runs \/ (h.cfg /\ r = new) BY <1>1
  <1>9. runs \subseteq runs' /\ (h.cfg => new \in runs') BY <1>1
  <1>10. Cardinality(runs') = (IF h.cfg THEN id ELSE Cardinality(runs)) /\ IsFiniteSet(runs')
    <2>1. new \notin runs BY <1>6, <1>7
    <2>2. CASE h.cfg BY <1>0, <1>1, <1>5, <2>1, <2>2, FS_AddElement
    <2>3. CASE ~h.cfg BY <1>1, <1>5, <2>3
    <2>4. QED BY <2>2, <2>3
  <1>11. Cardinality(runs') >= Cardinality(runs) /\ Cardinality(runs') >= run /\ Cardinality(runs') \in Nat
    BY <1>0, <1>5, <1>10
  <1>12. SentInv' BY <1>1, GithubStays
  <1>13. HandlersInv'
    <2>1. handlers' \subseteq handlers /\ mail' \subseteq mail /\ checks' \in BOOLEAN
      BY <1>1 DEF HandlersInv
    <2>2. QED BY <1>1, <2>1, HandlersLeave
  <1>14. RunsInv'
    <2>1. IsFiniteSet(runs') /\ runs' \subseteq Runs BY <1>5, <1>7, <1>8, <1>10
    <2>2. \A r \in runs' : r.id <= Cardinality(runs')
      BY <1>0, <1>5, <1>7, <1>8, <1>10, <1>11
    <2>3. \A q, r \in runs' : q.id = r.id => q = r BY <1>6, <1>7, <1>8 DEF RunsInv
    <2>4. sent' = sent BY <1>1 DEF github
    <2>5. \A r \in runs' : \E n \in DOMAIN sent' : sent'[n].head = r.head
      BY <1>0, <1>2, <1>7, <1>8, <2>4 DEF RunsInv
    <2>6. QED BY <2>1, <2>2, <2>3, <2>5 DEF RunsInv
  <1>15. PICK next : next = [run |-> run, pull |-> pull] OBVIOUS
  <1>16. next \in Jobs /\ next.run = run /\ next.pull = pull BY <1>6, <1>15 DEF Jobs
  <1>17. jobs \in Seq(Jobs) BY DEF DocumentInv
  <1>18. /\ jobs' \in Seq(Jobs) /\ DOMAIN jobs' = 1 .. Len(jobs) + 1 /\ DOMAIN jobs = 1 .. Len(jobs) /\ Len(jobs) \in Nat
         /\ \A i \in DOMAIN jobs : jobs'[i] = jobs[i]
         /\ jobs'[Len(jobs) + 1] = next
    BY <1>1, <1>15, <1>16, <1>17
  <1>19. \A i \in DOMAIN jobs' : i \in DOMAIN jobs \/ i = Len(jobs) + 1 BY <1>18
  <1>20. \A i \in DOMAIN jobs' : (i \in DOMAIN jobs /\ jobs'[i] = jobs[i]) \/ jobs'[i] = next
    BY <1>18, <1>19
  <1>21. \A i \in DOMAIN jobs : jobs[i] \in Jobs /\ jobs[i].run <= Cardinality(runs)
    BY <1>17 DEF DocumentInv
  <1>22. \A j \in Jobs : j.run <= Cardinality(runs) => RunOf(j)' = RunOf(j)
    <2> SUFFICES ASSUME NEW j \in Jobs, j.run <= Cardinality(runs) PROVE RunOf(j)' = RunOf(j)
      OBVIOUS
    <2>1. j.run # id BY <1>0, <1>5 DEF Jobs
    <2>2. \A r \in runs' : r.id = j.run => r \in runs BY <1>7, <1>8, <2>1
    <2>3. QED BY <1>9, <2>2 DEF RunOf
  <1>23. job \in Jobs /\ job.run <= Cardinality(runs) /\ RunOf(job)' = RunOf(job)
    BY <1>1, <1>22 DEF DocumentInv
  <1>24. \A r \in RunOf(next)' : r.head = m.head
    <2>1. \A r \in runs' : r.id = run => h.cfg /\ r = new
      BY <1>0, <1>5, <1>6, <1>7, <1>8
    <2>2. QED BY <1>7, <1>16, <2>1 DEF RunOf
  <1>25. h.cfg => new \in RunOf(next)' BY <1>0, <1>7, <1>9, <1>16 DEF RunOf
  <1>26. DocumentInv'
    <2>1. UNCHANGED <<src, analyzed, marked, head, job>> BY <1>1 DEF document, github
    <2>2. \A i \in DOMAIN jobs' : jobs'[i].run <= Cardinality(runs') /\ jobs'[i].pull <= head
      <3>1. \A i \in DOMAIN jobs : jobs[i].run \in Int BY <1>21 DEF Jobs
      <3>2. QED BY <1>5, <1>6, <1>11, <1>16, <1>20, <1>21, <3>1 DEF DocumentInv
    <2>3. job.run <= Cardinality(runs')
      <3>1. job.run \in Int BY <1>23 DEF Jobs
      <3>2. QED BY <1>5, <1>11, <1>23, <3>1
    <2>4. QED BY <1>18, <2>1, <2>2, <2>3 DEF DocumentInv
  <1>27. QueueInv'
    <2>1. sameOrigin' = sameOrigin BY <1>1 DEF github
    <2>2. ASSUME NEW i, i \in DOMAIN jobs'
          PROVE  /\ jobs'[i].pull = 0 => sameOrigin
                 /\ jobs'[i].pull # 0 => \A r \in RunOf(jobs[i])' : r.head = jobs'[i].pull
      <3>1. PICK j : j = jobs'[i] BY <2>2
      <3>2. RunOf(jobs[i])' = RunOf(j)' BY <3>1 DEF RunOf
      <3>3. CASE i \in DOMAIN jobs /\ jobs'[i] = jobs[i]
        <4>1. j = jobs[i] BY <3>1, <3>3
        <4>2. RunOf(j)' = RunOf(j) BY <1>21, <1>22, <3>3, <4>1
        <4>3. (j.pull = 0 => sameOrigin) /\ (j.pull # 0 => \A r \in RunOf(j) : r.head = j.pull)
          BY <3>3, <4>1 DEF QueueInv
        <4>4. QED BY <3>1, <3>2, <4>2, <4>3
      <3>4. CASE j = next
        <4>1. m.head # 0 BY <1>2 DEF Heads
        <4>2. RunOf(jobs[i])' = RunOf(next)' BY <3>2, <3>4
        <4>3. (pull = 0 => sameOrigin) /\ (pull # 0 => pull = m.head)
          BY <1>2, <1>3, <1>4, <4>1
        <4>4. QED BY <1>16, <1>24, <3>1, <3>4, <4>2, <4>3
      <3>5. QED BY <1>20, <2>2, <3>1, <3>3, <3>4
    <2>3. QED BY <2>1, <2>2 DEF QueueInv
  <1>28. JobInv' BY <1>1, <1>23 DEF JobInv, github, RunOf
  <1>29. RunTellsOwnHead' BY <1>1, <1>7, <1>8 DEF RunTellsOwnHead, github
  <1>30. StoredInv'
    <2> SUFFICES ASSUME excuse = {}, NEW k \in DOMAIN sent, sent[k].event = "pull_request"
                 PROVE  k \in mail \/ (\E i \in handlers' : i.n = k /\ i.step = "store") \/ sent[k].head <= src
      BY <1>1 DEF StoredInv, github, document
    <2>1. \A i \in handlers : i.step = "store" => i \in handlers' BY <1>1
    <2>2. QED BY <2>1 DEF StoredInv
  <1>31. \A k : Starts(k)' <=> Starts(k) BY <1>1 DEF Starts, github
  <1>32. \A k : Pending(k)' => Pending(k) BY <1>1 DEF Pending
  <1>33. \A k : Pending(k) => Pending(k)' \/ k = h.n BY <1>1 DEF Pending
  <1>34. ReachedInv'
    <2> SUFFICES ASSUME excuse = {} PROVE ReachedInv' BY <1>1 DEF ReachedInv
    <2>1. \A x : Reached(x) => Reached(x)'
      <3> SUFFICES ASSUME NEW x, Reached(x) PROVE Reached(x)' OBVIOUS
      <3>1. CASE marked >= x \/ job.pull >= x BY <1>1, <3>1 DEF Reached, document
      <3>2. CASE \E i \in DOMAIN jobs : Reaches(jobs[i], x)
        <4>1. PICK i \in DOMAIN jobs : Reaches(jobs[i], x) BY <3>2
        <4>2. i \in DOMAIN jobs' /\ jobs'[i] = jobs[i] BY <1>18
        <4>3. PICK j : j = jobs[i] OBVIOUS
        <4>4. Reaches(j, x)' BY <1>9, <4>1, <4>3 DEF Reaches, RunOf
        <4>5. QED BY <4>2, <4>3, <4>4 DEF Reached, Reaches, RunOf
      <3>3. QED BY <3>1, <3>2 DEF Reached
    <2>2. Reached(m.head)'
      <3>1. Reaches(next, m.head)'
        <4>1. m.head \in Int BY <1>2 DEF Heads
        <4>2. QED BY <1>2, <1>3, <1>4, <1>7, <1>16, <1>25, <4>1 DEF Reaches
      <3>2. Len(jobs) + 1 \in DOMAIN jobs' BY <1>18
      <3>3. QED BY <1>18, <3>1, <3>2 DEF Reached, Reaches, RunOf
    <2>3. \A k \in DOMAIN sent : Starts(k) => Pending(k)' \/ Reached(sent[k].head)'
      <3>1. ASSUME NEW k \in DOMAIN sent, Starts(k), ~Pending(k)' PROVE Reached(sent[k].head)'
        <4>1. CASE k = h.n
          <5>1. sent'[k].head = m.head BY <1>0, <1>1, <4>1 DEF github
          <5>2. QED BY <2>2, <5>1 DEF Reached, Reaches, RunOf
        <4>2. CASE k # h.n
          <5>1. ~Pending(k) BY <1>33, <3>1, <4>2
          <5>2. PICK x : x = sent[k].head OBVIOUS
          <5>3. Reached(x) BY <3>1, <5>1, <5>2 DEF ReachedInv
          <5>4. Reached(x)' BY <2>1, <5>3
          <5>5. sent'[k].head = x BY <1>1, <5>2 DEF github
          <5>6. QED BY <5>4, <5>5 DEF Reached, Reaches, RunOf
        <4>3. QED BY <4>1, <4>2
      <3>2. QED BY <3>1
    <2>4. UNCHANGED <<job, marked, analyzed, head, sent>> BY <1>1 DEF document, github
    <2>5. QED BY <1>31, <2>3, <2>4 DEF ReachedInv
  <1>35. OneRunInv'
    <2> SUFFICES ASSUME excuse = {}, checks, again = 0 PROVE OneRunInv'
      BY <1>1 DEF OneRunInv
    <2>1. h.cfg = checks /\ h.cfg /\ h.n \notin mail BY DEF HandlersInv
    <2>2. Pending(h.n) /\ ~Pending(h.n)' BY <1>1, <2>1 DEF Pending, HandlersInv
    <2>3. Starts(h.n)
      <3>1. CASE m.event = "check_suite" BY <1>0, <1>2, <3>1 DEF Starts
      <3>2. CASE m.event = "pull_request" BY <1>0, <1>4, <2>1, <3>2 DEF Starts, Skipped
      <3>3. QED BY <1>2, <3>1, <3>2
    <2>4. RunsFor(m.head) = {} BY <1>0, <1>2, <2>2, <2>3 DEF OneRunInv
    <2>5. runs' = runs \cup {new} BY <1>1, <2>1
    <2>6. RunsFor(m.head)' = {new} BY <1>7, <2>4, <2>5 DEF RunsFor
    <2>7. \A x : x # m.head => RunsFor(x)' = RunsFor(x) BY <1>7, <2>5 DEF RunsFor
    <2>8. \A x : RunsFor(x) # {} => RunsFor(x)' # {} BY <2>5 DEF RunsFor
    <2>9. \A k \in DOMAIN sent : Starts(k)' =>
             IF Pending(k)' THEN RunsFor(sent[k].head)' = {}
             ELSE \E r \in runs' : RunsFor(sent[k].head)' = {r}
      <3> SUFFICES ASSUME NEW k \in DOMAIN sent, Starts(k)
                   PROVE  IF Pending(k)' THEN RunsFor(sent[k].head)' = {}
                          ELSE \E r \in runs' : RunsFor(sent[k].head)' = {r}
        BY <1>31
      <3>1. sent'[k] = sent[k] BY <1>1 DEF github
      <3>2. CASE k = h.n
        <4>1. RunsFor(sent[k].head)' = {new} BY <1>0, <2>6, <3>1, <3>2 DEF RunsFor
        <4>2. QED BY <2>2, <2>5, <3>2, <4>1
      <3>3. CASE k # h.n
        <4>1. sent[k].head # m.head BY <1>0, <1>2, <2>3, <3>3, StartsUnique
        <4>2. PICK x : x = sent[k].head OBVIOUS
        <4>3. RunsFor(x)' = RunsFor(x) /\ sent'[k].head = x BY <2>7, <3>1, <4>1, <4>2
        <4>4. RunsFor(sent[k].head)' = RunsFor(sent[k].head) BY <4>2, <4>3 DEF RunsFor
        <4>5. Pending(k)' <=> Pending(k) BY <1>32, <1>33, <3>3
        <4>6. IF Pending(k) THEN RunsFor(sent[k].head) = {} ELSE \E r \in runs : RunsFor(sent[k].head) = {r}
          BY DEF OneRunInv
        <4>7. QED BY <2>5, <4>4, <4>5, <4>6
      <3>4. QED BY <3>2, <3>3
    <2>10. UNCHANGED <<job, analyzed, sent, sameOrigin>> BY <1>1 DEF document, github
    <2>11. analyzed # 0 => ~sameOrigin /\ RunsFor(analyzed)' # {}
      <3>1. PICK x : x = analyzed OBVIOUS
      <3>2. x # 0 => ~sameOrigin /\ RunsFor(x)' # {} BY <2>8, <3>1 DEF OneRunInv
      <3>3. analyzed' = x BY <2>10, <3>1
      <3>4. QED BY <3>1, <3>2, <3>3 DEF RunsFor
    <2>12. ~sameOrigin /\ job # NoJob => RunsFor(job.pull)' # {}
      <3>1. PICK x : x = job.pull OBVIOUS
      <3>2. ~sameOrigin /\ job # NoJob => RunsFor(x)' # {} BY <2>8, <3>1 DEF OneRunInv
      <3>3. job'.pull = x BY <2>10, <3>1
      <3>4. QED BY <3>2, <3>3 DEF RunsFor
    <2>13. ASSUME ~sameOrigin, NEW i, i \in DOMAIN jobs', jobs'[i].pull # 0 PROVE RunsFor(jobs[i].pull)' # {}
      <3>1. CASE i \in DOMAIN jobs /\ jobs'[i] = jobs[i]
        <4>1. PICK x : x = jobs[i].pull OBVIOUS
        <4>2. RunsFor(x)' # {} BY <2>8, <2>13, <3>1, <4>1 DEF OneRunInv
        <4>3. jobs'[i].pull = x BY <3>1, <4>1
        <4>4. QED BY <4>2, <4>3 DEF RunsFor
      <3>2. CASE jobs'[i] = next
        <4>1. jobs'[i].pull = m.head BY <1>2, <1>3, <1>4, <1>16, <2>13, <3>2
        <4>2. QED BY <2>6, <4>1 DEF RunsFor
      <3>3. QED BY <1>20, <2>13, <3>1, <3>2
    <2>14. QED BY <2>9, <2>10, <2>11, <2>12, <2>13 DEF OneRunInv
  <1>36. RestInv' BY <1>1 DEF RestInv, github, document
  <1>37. QED BY <1>12, <1>13, <1>14, <1>26, <1>27, <1>28, <1>29, <1>30, <1>34, <1>35, <1>36

(* What a report leaves is said by heads: of the runs of a job and of the  *)
(* runs there are for a head.                                              *)
LEMMA ReportTells ==
    ASSUME RunsInv, NEW j, NEW v \in Heads \cup {-1}, Report(j, v), sent' = sent
    PROVE  /\ \A k, r : r \in RunOf(k)' => \E q \in RunOf(k) : q.head = r.head
           /\ \A k, q : q \in RunOf(k) => \E r \in RunOf(k)' : q.head = r.head
           /\ \A x : RunsFor(x)' = {} <=> RunsFor(x) = {}
           /\ \A x : (\E r \in runs : RunsFor(x) = {r}) => \E r \in runs' : RunsFor(x)' = {r}
  <1>1. /\ RunsInv'
        /\ \A r \in runs' : \E q \in runs : q.id = r.id /\ q.head = r.head
        /\ \A q \in runs : \E r \in runs' : q.id = r.id /\ q.head = r.head
    BY ReportKeeps
  <1>2. \A k, r : r \in RunOf(k)' => \E q \in RunOf(k) : q.head = r.head BY <1>1 DEF RunOf
  <1>3. \A k, q : q \in RunOf(k) => \E r \in RunOf(k)' : q.head = r.head BY <1>1 DEF RunOf
  <1>4. \A x : RunsFor(x)' = {} <=> RunsFor(x) = {} BY <1>1 DEF RunsFor
  <1>5. ASSUME NEW x, NEW q \in runs, RunsFor(x) = {q} PROVE \E r \in runs' : RunsFor(x)' = {r}
    <2>1. q.head = x BY <1>5 DEF RunsFor
    <2>2. PICK r \in runs' : q.id = r.id /\ q.head = r.head BY <1>1
    <2>3. ASSUME NEW s, s \in runs', s.head = x PROVE s = r
      <3>1. PICK p \in runs : p.id = s.id /\ p.head = s.head BY <1>1, <2>3
      <3>2. p = q BY <1>5, <2>3, <3>1 DEF RunsFor
      <3>3. QED BY <1>1, <2>2, <2>3, <3>1, <3>2 DEF RunsInv
    <2>4. RunsFor(x)' = {r} BY <2>1, <2>2, <2>3 DEF RunsFor
    <2>5. QED BY <2>4
  <1>6. QED BY <1>2, <1>3, <1>4, <1>5

(* The job that starts is the first; it may only be behind what is marked, *)
(* or behind the head of its check run, with an excuse.                    *)
LEMMA StartKeeps == ASSUME EventsInv, Start PROVE EventsInv'
  <1> USE DEF EventsInv
  <1>0. PICK next, rest, loaded :
          next = Head(jobs) /\ rest = Tail(jobs) /\ loaded = (IF Head(jobs).pull # 0 THEN Head(jobs).pull ELSE src)
    OBVIOUS
  <1>1. /\ job = NoJob /\ jobs # <<>> /\ jobs' = rest
        /\ IF loaded = 0
             THEN /\ Report(next, -1)
                  /\ excuse' = excuse \cup {"early"}
                  /\ job' = job
             ELSE /\ job' = [next EXCEPT !.pull = loaded]
                  /\ excuse' = excuse \cup
                       (IF \E r \in RunOf(next) : r.head > loaded THEN {"early"} ELSE {}) \cup
                       (IF loaded < marked THEN {"order"} ELSE {})
                  /\ runs' = runs
        /\ UNCHANGED <<github, mail, again, checks, toggles, handlers, document>>
    BY <1>0 DEF Start
  <1>2. UNCHANGED <<sameOrigin, head, open, sent, src, analyzed, marked, stored>>
    BY <1>1 DEF github, document
  <1>3. jobs \in Seq(Jobs) BY DEF DocumentInv
  <1>4. /\ rest \in Seq(Jobs) /\ 1 \in DOMAIN jobs /\ jobs[1] = next /\ next \in Jobs
        /\ \A i \in DOMAIN rest : i + 1 \in DOMAIN jobs /\ rest[i] = jobs[i + 1]
        /\ \A i \in DOMAIN jobs : i = 1 \/ (i - 1 \in DOMAIN rest /\ rest[i - 1] = jobs[i])
    <2>1. jobs # <<>> BY <1>1
    <2>2. QED BY <1>0, <1>3, <2>1
  <1>5. \A j \in Jobs : j.pull \in Int /\ j.run \in Int /\ j.pull >= 0 BY DEF Jobs, Heads
  <1>6. head \in Int /\ src \in Int /\ marked \in Int /\ src \in Heads \cup {0} /\ src <= head /\ head > 0
    BY DEF SentInv, DocumentInv, Heads
  <1>7. next.pull <= head /\ next.run <= Cardinality(runs) /\ loaded = (IF next.pull # 0 THEN next.pull ELSE src)
    BY <1>0, <1>4 DEF DocumentInv
  <1>8. loaded \in Heads \cup {0} /\ loaded <= head /\ loaded \in Int
    BY <1>4, <1>5, <1>6, <1>7 DEF Jobs
  <1>9. excuse \subseteq excuse' BY <1>1
  <1>10. SentInv' BY <1>1, <1>9, GithubStays
  <1>11. HandlersInv'
    <2>1. checks' \in BOOLEAN BY <1>1 DEF HandlersInv
    <2>2. QED BY <1>1, <1>9, <2>1, HandlersLeave
  <1>12. RestInv'
    <2>1. excuse' \subseteq Excuses BY <1>1 DEF RestInv, Excuses
    <2>2. QED BY <1>1, <1>2, <2>1 DEF RestInv
  <1>13. CASE loaded = 0
    <2>1. Report(next, -1) /\ excuse' = excuse \cup {"early"} /\ job' = NoJob BY <1>1, <1>13
    <2>2. excuse' # {} /\ "early" \in excuse' BY <2>1
    <2>3. StoredInv' /\ ReachedInv' /\ OneRunInv' BY <2>2, Excused
    <2>4. JobInv' /\ RunTellsOwnHead' BY <2>2 DEF JobInv, RunTellsOwnHead
    <2>5. RunsInv' /\ Cardinality(runs') = Cardinality(runs) BY <1>2, <2>1, ReportKeeps
    <2>6. DocumentInv'
      <3>1. \A i \in DOMAIN rest : rest[i].run <= Cardinality(runs) /\ rest[i].pull <= head
        BY <1>4 DEF DocumentInv
      <3>2. QED BY <1>1, <1>2, <1>4, <2>1, <2>5, <3>1 DEF DocumentInv
    <2>7. QueueInv'
      <3>1. \A k, r : r \in RunOf(k)' => \E q \in RunOf(k) : q.head = r.head
        BY <1>2, <2>1, ReportTells
      <3>2. ASSUME NEW i, i \in DOMAIN rest
            PROVE  /\ rest[i].pull = 0 => sameOrigin
                   /\ rest[i].pull # 0 => \A r \in runs' : r.id = rest[i].run => r.head = rest[i].pull
        <4>1. PICK k : k = rest[i] OBVIOUS
        <4>2. (k.pull = 0 => sameOrigin) /\ (k.pull # 0 => \A q \in RunOf(k) : q.head = k.pull)
          BY <1>4, <3>2, <4>1 DEF QueueInv
        <4>3. \A r \in runs' : r.id = k.run => r \in RunOf(k)' BY DEF RunOf
        <4>4. QED BY <3>1, <4>1, <4>2, <4>3
      <3>3. QED BY <1>1, <1>2, <3>2 DEF QueueInv, RunOf
    <2>8. QED BY <1>10, <1>11, <1>12, <2>3, <2>4, <2>5, <2>6, <2>7
  <1>14. CASE loaded # 0
    <2>0. PICK j : j = [next EXCEPT !.pull = loaded] OBVIOUS
    <2>1. /\ job' = j /\ runs' = runs
          /\ excuse' = excuse \cup
               (IF \E r \in RunOf(next) : r.head > loaded THEN {"early"} ELSE {}) \cup
               (IF loaded < marked THEN {"order"} ELSE {})
      BY <1>1, <1>14, <2>0
    <2>2. j \in Jobs /\ j.run = next.run /\ j.pull = loaded BY <1>4, <1>8, <2>0 DEF Jobs
    <2>3. j # NoJob /\ loaded \in Heads BY <1>8, <1>14, <2>2 DEF NoJob
    <2>4. RunOf(j) = RunOf(next) BY <2>2 DEF RunOf
    <2>5. \A x : RunOf(x)' = RunOf(x) /\ RunsFor(x)' = RunsFor(x) BY <2>1 DEF RunOf, RunsFor
    <2>6. "early" \notin excuse' => \A r \in RunOf(next) : ~(r.head > loaded) BY <2>1
    <2>7. "order" \notin excuse' => ~(loaded < marked) BY <2>1
    <2>8. RunsInv' BY <1>2, <2>1 DEF RunsInv
    <2>9. DocumentInv'
      <3>1. \A i \in DOMAIN rest : rest[i].run <= Cardinality(runs) /\ rest[i].pull <= head
        BY <1>4 DEF DocumentInv
      <3>2. j.run <= Cardinality(runs) /\ j.pull <= head /\ j.pull # 0
        BY <1>7, <1>8, <1>14, <2>2
      <3>3. QED BY <1>1, <1>2, <1>4, <2>1, <2>2, <3>1, <3>2 DEF DocumentInv
    <2>10. \A i \in DOMAIN rest :
             /\ rest[i].pull = 0 => sameOrigin
             /\ rest[i].pull # 0 => \A r \in RunOf(rest[i]) : r.head = rest[i].pull
      BY <1>4 DEF QueueInv
    <2>11. QueueInv' BY <1>1, <1>2, <2>1, <2>10 DEF QueueInv, RunOf
    <2>12. \A r \in RunOf(next) : r.head \in Int
      <3>1. runs \subseteq Runs BY DEF RunsInv
      <3>2. QED BY <3>1 DEF RunOf, Runs, Heads
    <2>13. JobInv'
      <3> SUFFICES ASSUME "early" \notin excuse', NEW r \in RunOf(next)
                   PROVE  loaded >= r.head /\ (~sameOrigin => loaded = r.head)
        BY <1>2, <2>1, <2>2, <2>4 DEF JobInv, RunOf
      <3>1. loaded >= r.head BY <1>8, <2>6, <2>12
      <3>2. ~sameOrigin => next.pull # 0 /\ r.head = next.pull BY <1>4 DEF QueueInv
      <3>3. QED BY <1>7, <3>1, <3>2
    <2>14. RunTellsOwnHead' BY <1>2, <1>9, <2>1 DEF RunTellsOwnHead
    <2>15. StoredInv' BY <1>1, <1>2, <1>9 DEF StoredInv
    <2>16. \A n : (Starts(n)' <=> Starts(n)) /\ (Pending(n)' <=> Pending(n))
      BY <1>1, <1>2 DEF Starts, Pending
    <2>17. ReachedInv'
      <3> SUFFICES ASSUME excuse' = {} PROVE ReachedInv' BY DEF ReachedInv
      <3>1. excuse = {} /\ ~(loaded < marked) /\ \A r \in RunOf(next) : ~(r.head > loaded)
        BY <1>9, <2>6, <2>7
      <3>2. ASSUME NEW x \in Heads, Reached(x) PROVE Reached(x)'
        <4>1. x \in Int /\ x > 0 BY DEF Heads
        <4>2. CASE marked >= x BY <1>2, <4>2 DEF Reached
        <4>3. ~(job.pull >= x) BY <1>1, <4>1 DEF NoJob
        <4>4. CASE \E i \in DOMAIN jobs : Reaches(jobs[i], x)
          <5>1. PICK i \in DOMAIN jobs : Reaches(jobs[i], x) BY <4>4
          <5>2. CASE i = 1
            <6>1. next.pull >= x \/ (next.pull = 0 /\ \E r \in RunOf(next) : r.head >= x)
              BY <1>4, <5>1, <5>2 DEF Reaches
            <6>2. loaded >= x
              <7>1. CASE next.pull >= x BY <1>4, <1>5, <1>7, <4>1, <7>1
              <7>2. CASE \E r \in RunOf(next) : r.head >= x BY <1>8, <2>12, <3>1, <4>1, <7>2
              <7>3. QED BY <6>1, <7>1, <7>2
            <6>3. QED BY <2>1, <2>2, <6>2 DEF Reached
          <5>3. CASE i # 1
            <6>1. i - 1 \in DOMAIN rest /\ rest[i - 1] = jobs[i] BY <1>4, <5>3
            <6>2. PICK k : k = jobs[i] OBVIOUS
            <6>3. Reaches(k, x)' BY <2>1, <5>1, <6>2 DEF Reaches, RunOf
            <6>4. i - 1 \in DOMAIN jobs' /\ jobs'[i - 1] = k BY <1>1, <6>1, <6>2
            <6>5. QED BY <6>3, <6>4 DEF Reached, Reaches, RunOf
          <5>4. QED BY <5>2, <5>3
        <4>5. QED BY <3>2, <4>2, <4>3, <4>4 DEF Reached
      <3>3. \A n \in DOMAIN sent : sent[n].head \in Heads
        <4>1. \A n \in DOMAIN sent : sent[n] \in Deliveries BY DEF SentInv
        <4>2. QED BY <4>1 DEF Deliveries
      <3>4. \A n \in DOMAIN sent : Starts(n)' => Pending(n)' \/ Reached(sent[n].head)'
        <4>1. ASSUME NEW n \in DOMAIN sent, Starts(n), ~Pending(n) PROVE Reached(sent[n].head)'
          <5>1. PICK x : x = sent[n].head OBVIOUS
          <5>2. Reached(x) BY <3>1, <4>1, <5>1 DEF ReachedInv
          <5>3. Reached(x)' BY <3>2, <3>3, <5>1, <5>2
          <5>4. sent'[n].head = x BY <1>2, <5>1
          <5>5. QED BY <5>3, <5>4 DEF Reached, Reaches, RunOf
        <4>2. QED BY <2>16, <4>1
      <3>5. j.pull >= marked BY <1>6, <1>8, <2>2, <3>1
      <3>6. marked >= analyzed /\ marked <= head BY <3>1 DEF ReachedInv
      <3>7. QED BY <1>2, <2>1, <3>4, <3>5, <3>6 DEF ReachedInv
    <2>18. OneRunInv'
      <3> SUFFICES ASSUME excuse' = {}, checks, again = 0 PROVE OneRunInv'
        BY <1>1 DEF OneRunInv
      <3>1. excuse = {} BY <1>9
      <3>2. \A n \in DOMAIN sent : Starts(n)' =>
               IF Pending(n)' THEN RunsFor(sent[n].head)' = {}
               ELSE \E r \in runs' : RunsFor(sent[n].head)' = {r}
        BY <1>2, <2>1, <2>5, <2>16, <3>1 DEF OneRunInv, RunsFor
      <3>3. analyzed # 0 => ~sameOrigin /\ RunsFor(analyzed) # {} BY <3>1 DEF OneRunInv
      <3>4. ASSUME ~sameOrigin PROVE RunsFor(loaded) # {}
        <4>1. next.pull # 0 BY <1>4, <3>4 DEF QueueInv
        <4>2. RunsFor(jobs[1].pull) # {} BY <1>4, <3>1, <3>4, <4>1 DEF OneRunInv
        <4>3. QED BY <1>4, <1>7, <4>1, <4>2
      <3>5. ~sameOrigin => \A i \in DOMAIN rest : rest[i].pull # 0 => RunsFor(rest[i].pull) # {}
        BY <1>4, <3>1 DEF OneRunInv
      <3>6. QED BY <1>1, <1>2, <2>1, <2>2, <3>2, <3>3, <3>4, <3>5 DEF OneRunInv, RunsFor
    <2>19. QED BY <1>10, <1>11, <1>12, <2>8, <2>9, <2>11, <2>13, <2>14, <2>15, <2>17, <2>18
  <1>15. QED BY <1>13, <1>14

(* A job that reports: its check run tells v, and the others what they     *)
(* told. The document may be that of its head.                             *)
LEMMA JobEnds ==
    ASSUME EventsInv, job # NoJob, job' = NoJob, NEW v \in Heads \cup {-1}, Report(job, v),
           v = job.pull \/ v = -1, excuse \subseteq excuse', excuse' \subseteq Excuses,
           UNCHANGED <<github, mail, again, checks, toggles, handlers, src, jobs>>,
           stored' \in {stored, Analysed}, marked' \in {marked, job.pull},
           analyzed' \in {analyzed, AnalyzedHead}
    PROVE  /\ SentInv' /\ HandlersInv' /\ RunsInv' /\ DocumentInv' /\ QueueInv' /\ JobInv'
           /\ StoredInv' /\ RunTellsOwnHead' /\ RestInv'
  <1> USE DEF EventsInv
  <1>1. UNCHANGED <<sameOrigin, head, open, sent>> BY DEF github
  <1>2. SentInv' BY GithubStays
  <1>3. HandlersInv'
    <2>1. checks' \in BOOLEAN BY DEF HandlersInv
    <2>2. QED BY <2>1, HandlersLeave
  <1>4. /\ RunsInv' /\ Cardinality(runs') = Cardinality(runs)
        /\ \A r \in runs' : \E q \in runs :
             q.id = r.id /\ q.head = r.head
               /\ IF r.id = job.run THEN r.reported = v ELSE r = q
    BY <1>1, ReportKeeps
  <1>5. /\ IsFiniteSet(runs) /\ Cardinality(runs) \in Nat /\ runs \subseteq Runs
    <2>1. IsFiniteSet(runs) /\ runs \subseteq Runs BY DEF RunsInv
    <2>2. QED BY <2>1, FS_CardinalityType
  <1>6. job \in Jobs /\ job.pull \in Heads /\ job.pull <= head /\ head \in Heads
    BY DEF DocumentInv, Jobs, SentInv
  <1>7. DocumentInv'
    <2>1. analyzed' \in Heads \cup {0} /\ marked' \in Heads \cup {0}
      BY <1>6 DEF DocumentInv, AnalyzedHead
    <2>2. NoJob \in Jobs /\ NoJob.run = 0 /\ NoJob.pull = 0 BY DEF NoJob, Jobs
    <2>3. 0 <= Cardinality(runs) /\ 0 <= head BY <1>5, <1>6 DEF Heads
    <2>4. QED BY <1>1, <1>4, <2>1, <2>2, <2>3 DEF DocumentInv
  <1>8. QueueInv'
    <2>1. \A k, r : r \in RunOf(k)' => \E q \in RunOf(k) : q.head = r.head
      BY <1>1, ReportTells
    <2>2. ASSUME NEW i, i \in DOMAIN jobs
          PROVE  /\ jobs[i].pull = 0 => sameOrigin
                 /\ jobs[i].pull # 0 => \A r \in runs' : r.id = jobs[i].run => r.head = jobs[i].pull
      <3>1. PICK k : k = jobs[i] OBVIOUS
      <3>2. (k.pull = 0 => sameOrigin) /\ (k.pull # 0 => \A q \in RunOf(k) : q.head = k.pull)
        BY <2>2, <3>1 DEF QueueInv
      <3>3. \A r \in runs' : r.id = k.run => r \in RunOf(k)' BY DEF RunOf
      <3>4. QED BY <2>1, <3>1, <3>2, <3>3
    <2>3. QED BY <1>1, <2>2 DEF QueueInv, RunOf
  <1>9. JobInv'
    <2>1. \A r \in runs' : r.id # 0 BY <1>4 DEF RunsInv, Runs
    <2>2. QED BY <2>1 DEF JobInv, RunOf, NoJob
  <1>10. StoredInv' BY <1>1 DEF StoredInv
  <1>11. RunTellsOwnHead'
    <2> SUFFICES ASSUME "early" \notin excuse, NEW r \in runs', r.reported > 0
                 PROVE  r.reported >= r.head /\ (~sameOrigin => r.reported = r.head)
      BY <1>1 DEF RunTellsOwnHead
    <2>1. PICK q \in runs : q.id = r.id /\ q.head = r.head /\ IF r.id = job.run THEN r.reported = v ELSE r = q
      BY <1>4
    <2>2. CASE r.id = job.run
      <3>1. q \in RunOf(job) BY <2>1, <2>2 DEF RunOf
      <3>2. job.pull >= q.head /\ (~sameOrigin => job.pull = q.head) BY <3>1 DEF JobInv
      <3>3. r.reported = job.pull BY <2>1, <2>2
      <3>4. QED BY <2>1, <3>2, <3>3
    <2>3. CASE r.id # job.run BY <2>1, <2>3 DEF RunTellsOwnHead
    <2>4. QED BY <2>2, <2>3
  <1>12. RestInv'
    <2>1. stored' \in Heads \cup {0} BY <1>6 DEF RestInv, Analysed
    <2>2. QED BY <1>1, <2>1 DEF RestInv
  <1>13. QED BY <1>2, <1>3, <1>4, <1>7, <1>8, <1>9, <1>10, <1>11, <1>12

(* The job has analysed and marks its head, the newest that any job has    *)
(* had, as long as nothing went wrong.                                     *)
LEMMA FinishKeeps == ASSUME EventsInv, Finish PROVE EventsInv'
  <1> USE DEF EventsInv
  <1>1. /\ job # NoJob /\ job' = NoJob /\ stored' = Analysed /\ marked' = job.pull
        /\ analyzed' = AnalyzedHead /\ Report(job, job.pull)
        /\ UNCHANGED <<github, mail, again, checks, toggles, handlers, src, jobs, excuse>>
    BY DEF Finish
  <1>2. UNCHANGED <<sameOrigin, head, open, sent>> BY <1>1 DEF github
  <1>3. job \in Jobs /\ job.pull \in Heads /\ job.pull <= head BY <1>1 DEF DocumentInv, Jobs
  <1>4. excuse \subseteq excuse' /\ excuse' \subseteq Excuses BY <1>1 DEF RestInv
  <1>5. /\ SentInv' /\ HandlersInv' /\ RunsInv' /\ DocumentInv' /\ QueueInv' /\ JobInv'
        /\ StoredInv' /\ RunTellsOwnHead' /\ RestInv'
    BY <1>1, <1>3, <1>4, JobEnds
  <1>6. /\ \A k, q : q \in RunOf(k) => \E r \in RunOf(k)' : q.head = r.head
        /\ \A x : RunsFor(x)' = {} <=> RunsFor(x) = {}
        /\ \A x : (\E r \in runs : RunsFor(x) = {r}) => \E r \in runs' : RunsFor(x)' = {r}
    BY <1>1, <1>2, <1>3, ReportTells
  <1>7. \A n : (Starts(n)' <=> Starts(n)) /\ (Pending(n)' <=> Pending(n))
    BY <1>1, <1>2 DEF Starts, Pending
  <1>8. ReachedInv'
    <2> SUFFICES ASSUME excuse = {} PROVE ReachedInv' BY <1>1 DEF ReachedInv
    <2>1. marked \in Int /\ job.pull \in Int /\ analyzed \in Int /\ job.pull >= marked /\ marked >= analyzed
      BY <1>1, <1>3 DEF ReachedInv, DocumentInv, Heads
    <2>2. ASSUME NEW x \in Heads, Reached(x) PROVE Reached(x)'
      <3>1. x \in Int BY DEF Heads
      <3>2. CASE marked >= x \/ job.pull >= x BY <1>1, <2>1, <3>1, <3>2 DEF Reached
      <3>3. CASE \E i \in DOMAIN jobs : Reaches(jobs[i], x)
        <4>1. PICK i \in DOMAIN jobs : Reaches(jobs[i], x) BY <3>3
        <4>2. PICK k : k = jobs[i] OBVIOUS
        <4>3. Reaches(k, x)'
          <5>1. CASE k.pull >= x BY <5>1 DEF Reaches
          <5>2. CASE k.pull = 0 /\ \E q \in RunOf(k) : q.head >= x
            <6>1. PICK q \in RunOf(k) : q.head >= x BY <5>2
            <6>2. PICK r \in RunOf(k)' : q.head = r.head BY <1>6
            <6>3. r.head >= x BY <6>1, <6>2
            <6>4. QED BY <5>2, <6>3 DEF Reaches
          <5>3. QED BY <4>1, <4>2, <5>1, <5>2 DEF Reaches
        <4>4. i \in DOMAIN jobs' /\ jobs'[i] = k BY <1>1, <4>2
        <4>5. QED BY <4>3, <4>4 DEF Reached, Reaches, RunOf
      <3>4. QED BY <2>2, <3>2, <3>3 DEF Reached
    <2>3. \A n \in DOMAIN sent : sent[n].head \in Heads
      <3>1. \A n \in DOMAIN sent : sent[n] \in Deliveries BY DEF SentInv
      <3>2. QED BY <3>1 DEF Deliveries
    <2>4. \A n \in DOMAIN sent : Starts(n)' => Pending(n)' \/ Reached(sent[n].head)'
      <3>1. ASSUME NEW n \in DOMAIN sent, Starts(n), ~Pending(n) PROVE Reached(sent[n].head)'
        <4>1. PICK x : x = sent[n].head OBVIOUS
        <4>2. Reached(x) BY <3>1, <4>1 DEF ReachedInv
        <4>3. Reached(x)' BY <2>2, <2>3, <4>1, <4>2
        <4>4. sent'[n].head = x BY <1>2, <4>1
        <4>5. QED BY <4>3, <4>4 DEF Reached, Reaches, RunOf
      <3>2. QED BY <1>7, <3>1
    <2>5. marked' >= analyzed'
      <3>1. analyzed' = job.pull \/ analyzed' = analyzed BY <1>1 DEF AnalyzedHead
      <3>2. QED BY <1>1, <2>1, <3>1
    <2>6. QED BY <1>1, <1>2, <1>3, <2>4, <2>5 DEF ReachedInv
  <1>9. OneRunInv'
    <2> SUFFICES ASSUME excuse = {}, checks, again = 0 PROVE OneRunInv'
      BY <1>1 DEF OneRunInv
    <2>1. \A n \in DOMAIN sent : Starts(n)' =>
             IF Pending(n)' THEN RunsFor(sent[n].head)' = {}
             ELSE \E r \in runs' : RunsFor(sent[n].head)' = {r}
      <3>1. ASSUME NEW n \in DOMAIN sent, Starts(n)
            PROVE  IF Pending(n) THEN RunsFor(sent[n].head)' = {}
                   ELSE \E r \in runs' : RunsFor(sent[n].head)' = {r}
        <4>1. PICK x : x = sent[n].head OBVIOUS
        <4>2. IF Pending(n) THEN RunsFor(x) = {} ELSE \E r \in runs : RunsFor(x) = {r}
          BY <3>1, <4>1 DEF OneRunInv
        <4>3. RunsFor(sent[n].head)' = RunsFor(x)' BY <1>2, <4>1 DEF RunsFor
        <4>4. QED BY <1>6, <4>2, <4>3
      <3>2. QED BY <1>7, <3>1
    <2>2. analyzed' # 0 => ~sameOrigin /\ RunsFor(analyzed)' # {}
      <3>1. PICK x : x = analyzed' OBVIOUS
      <3>2. RunsFor(analyzed)' = RunsFor(x)' BY <3>1 DEF RunsFor
      <3>3. x # 0 => ~sameOrigin /\ RunsFor(x) # {}
        <4>1. CASE job.pull > stored /\ ~sameOrigin
          <5>1. x = job.pull BY <1>1, <3>1, <4>1 DEF AnalyzedHead
          <5>2. QED BY <1>1, <4>1, <5>1 DEF OneRunInv
        <4>2. CASE ~(job.pull > stored /\ ~sameOrigin)
          <5>1. x = analyzed BY <1>1, <3>1, <4>2 DEF AnalyzedHead
          <5>2. QED BY <5>1 DEF OneRunInv
        <4>3. QED BY <4>1, <4>2
      <3>4. QED BY <1>6, <3>1, <3>2, <3>3
    <2>3. ASSUME ~sameOrigin, NEW i \in DOMAIN jobs, jobs[i].pull # 0 PROVE RunsFor(jobs[i].pull)' # {}
      <3>1. PICK x : x = jobs[i].pull OBVIOUS
      <3>2. RunsFor(x)' # {} BY <1>6, <2>3, <3>1 DEF OneRunInv
      <3>3. jobs'[i].pull = x BY <1>1, <3>1
      <3>4. QED BY <3>2, <3>3 DEF RunsFor
    <2>4. QED BY <1>1, <1>2, <2>1, <2>2, <2>3 DEF OneRunInv
  <1>10. QED BY <1>5, <1>8, <1>9

(* It fails, before or after it has analysed and marked.                   *)
LEMMA FinishFailsKeeps == ASSUME EventsInv, FinishFails PROVE EventsInv'
  <1> USE DEF EventsInv
  <1>1. /\ job # NoJob /\ job' = NoJob /\ Report(job, -1) /\ excuse' = excuse \cup {"failed"}
        /\ UNCHANGED <<github, mail, again, checks, toggles, handlers, jobs>>
        /\ src' = src /\ stored' \in {stored, Analysed} /\ marked' \in {marked, job.pull}
        /\ analyzed' \in {analyzed, AnalyzedHead}
    BY DEF FinishFails, document
  <1>2. excuse \subseteq excuse' /\ excuse' \subseteq Excuses /\ excuse' # {}
    BY <1>1 DEF RestInv, Excuses
  <1>3. /\ SentInv' /\ HandlersInv' /\ RunsInv' /\ DocumentInv' /\ QueueInv' /\ JobInv'
        /\ StoredInv' /\ RunTellsOwnHead' /\ RestInv'
    BY <1>1, <1>2, JobEnds
  <1>4. ReachedInv' /\ OneRunInv' BY <1>2, Excused
  <1>5. QED BY <1>3, <1>4

(* Nothing happens.                                                        *)
LEMMA StutterKeeps == ASSUME EventsInv, UNCHANGED vars PROVE EventsInv'
  <1> USE DEF EventsInv
  <1>1. UNCHANGED <<github, mail, again, runs, checks, toggles, handlers, document, jobs, job, excuse>>
    BY DEF vars
  <1>2. UNCHANGED <<sameOrigin, head, open, sent, src, analyzed, marked, stored>>
    BY <1>1 DEF github, document
  <1>3. SentInv' BY <1>1, GithubStays
  <1>4. HandlersInv'
    <2>1. checks' \in BOOLEAN BY <1>1 DEF HandlersInv
    <2>2. QED BY <1>1, <2>1, HandlersLeave
  <1>5. RunsInv' /\ DocumentInv' /\ QueueInv' /\ JobInv' /\ RunTellsOwnHead'
    <2>1. src' \in Heads \cup {0} /\ src' <= head BY <1>2 DEF DocumentInv
    <2>2. QED BY <1>1, <1>2, <2>1, JobsStay
  <1>6. StoredInv' /\ RestInv' BY <1>1, <1>2 DEF StoredInv, RestInv
  <1>7. \A n : (Starts(n)' <=> Starts(n)) /\ (Pending(n)' <=> Pending(n))
    BY <1>1, <1>2 DEF Starts, Pending
  <1>8. \A x : (Reached(x)' <=> Reached(x)) /\ RunsFor(x)' = RunsFor(x)
    BY <1>1, <1>2 DEF Reached, Reaches, RunOf, RunsFor
  <1>9. ReachedInv' BY <1>1, <1>2, <1>7, <1>8 DEF ReachedInv
  <1>10. OneRunInv' BY <1>1, <1>2, <1>7, <1>8 DEF OneRunInv
  <1>11. QED BY <1>3, <1>4, <1>5, <1>6, <1>9, <1>10

(* Every step keeps the invariant.                                         *)
LEMMA NextKeeps == ASSUME EventsAssumption, EventsInv, [Next]_vars PROVE EventsInv'
  <1>1. ASSUME NEW n \in mail, Handle(n) PROVE EventsInv' BY <1>1, HandleKeeps
  <1>2. ASSUME NEW h \in handlers, Store(h) PROVE EventsInv' BY <1>2, StoreKeeps
  <1>3. ASSUME NEW h \in handlers, Submit(h) PROVE EventsInv' BY <1>3, SubmitKeeps
  <1>4. ASSUME NEW h \in handlers, HandlerFails(h) PROVE EventsInv'
    BY <1>4, HandlerFailsKeeps
  <1>5. ASSUME NEW n \in DOMAIN sent, Lose(n) \/ Redeliver(n) PROVE EventsInv'
    BY <1>5, MailKeeps
  <1>6. CASE Service
    BY <1>1, <1>2, <1>3, <1>4, <1>6, StartKeeps, FinishKeeps, FinishFailsKeeps DEF Service
  <1>7. CASE Open \/ Close \/ Edit \/ Reopen \/ Push
    BY <1>7, OpenKeeps, CloseEditReopenKeep, PushKeeps
  <1>8. CASE SetChecks BY <1>8, SetChecksKeeps
  <1>9. CASE UNCHANGED vars BY <1>9, StutterKeeps
  <1>10. QED BY <1>5, <1>6, <1>7, <1>8, <1>9 DEF Next

-----------------------------------------------------------------------------
(* Check runs have names of their own, and what else the types say.        *)
LEMMA EventsTyped == ASSUME EventsInv PROVE TypeOK
  <1> USE DEF EventsInv
  <1>1. sameOrigin \in BOOLEAN /\ open \in BOOLEAN /\ checks \in BOOLEAN /\ head \in Heads
    BY DEF SentInv, HandlersInv, RestInv
  <1>2. \A n \in DOMAIN sent : sent[n].head \in Heads
    <2>1. \A n \in DOMAIN sent : sent[n] \in Deliveries BY DEF SentInv
    <2>2. QED BY <2>1 DEF Deliveries
  <1>3. \A r \in runs : r.head \in Heads /\ r.reported \in Heads \cup {-1, 0}
    BY DEF RunsInv, Runs
  <1>4. Cardinality({r.id : r \in runs}) = Cardinality(runs)
    <2>1. PICK T : T = {r.id : r \in runs} OBVIOUS
    <2>2. PICK f : f = [r \in runs |-> r.id] OBVIOUS
    <2>3. f \in Bijection(runs, T)
      <3>1. f \in [runs -> T] /\ \A r \in runs : f[r] = r.id BY <2>1, <2>2
      <3>2. \A q, r \in runs : f[q] = f[r] => q = r BY <3>1 DEF RunsInv
      <3>3. \A t \in T : \E r \in runs : f[r] = t BY <2>1, <3>1
      <3>4. QED BY <3>1, <3>2, <3>3 DEF Bijection, Injection, Surjection, IsInjective
    <2>4. IsFiniteSet(runs) BY DEF RunsInv
    <2>5. ExistsBijection(runs, T) BY <2>3 DEF ExistsBijection
    <2>6. QED BY <2>1, <2>4, <2>5, FS_Bijection
  <1>5. handlers \subseteq [n : DOMAIN sent, cfg : BOOLEAN, step : {"store", "submit"}]
    <2>1. \A h \in handlers : h \in Handlers /\ h.n \in DOMAIN sent BY DEF HandlersInv
    <2>2. QED BY <2>1 DEF Handlers
  <1>6. \A i \in DOMAIN jobs : jobs[i].pull \in Heads \cup {0}
    <2>1. \A i \in DOMAIN jobs : jobs[i] \in Jobs BY DEF DocumentInv
    <2>2. QED BY <2>1 DEF Jobs
  <1>7. job.pull \in Heads \cup {0} /\ {src, analyzed, marked, stored} \subseteq Heads \cup {0}
    BY DEF DocumentInv, RestInv, Jobs
  <1>8. mail \subseteq DOMAIN sent /\ again \in 0 .. MaxAgain /\ toggles \in 0 .. MaxToggles /\ excuse \subseteq Excuses
    BY DEF HandlersInv, RestInv
  <1>9. QED BY <1>1, <1>2, <1>3, <1>4, <1>5, <1>6, <1>7, <1>8 DEF TypeOK

(* A head that came to the open pull request has its run at rest: the      *)
(* event that does not start one leaves that to the suite sent with it.    *)
LEMMA HeadsHaveRuns == ASSUME EventsInv PROVE OneRunPerHead
  <1> USE DEF EventsInv
  <1> SUFFICES ASSUME Settled, checks, excuse = {}, again = 0,
                      NEW n \in DOMAIN sent, sent[n].action \in {"opened", "synchronize"}
               PROVE  Cardinality({r \in runs : r.head = sent[n].head}) = 1
    BY DEF OneRunPerHead
  <1>1. \A m : ~Pending(m) BY DEF Settled, Pending
  <1>2. ASSUME NEW m \in DOMAIN sent, Starts(m), sent[m].head = sent[n].head
        PROVE  Cardinality({r \in runs : r.head = sent[n].head}) = 1
    <2>1. PICK r \in runs : RunsFor(sent[m].head) = {r} BY <1>1, <1>2 DEF OneRunInv
    <2>2. {q \in runs : q.head = sent[n].head} = {r} BY <1>2, <2>1 DEF RunsFor
    <2>3. QED BY <2>2, FS_Singleton
  <1>3. CASE Starts(n) BY <1>2, <1>3
  <1>4. CASE ~Starts(n)
    <2>1. sent[n].action = "synchronize" /\ sameOrigin BY <1>4 DEF Starts
    <2>2. n + 1 \in DOMAIN sent /\ sent[n + 1] = Suite(sent[n].head) BY <2>1 DEF SentInv
    <2>3. Starts(n + 1) /\ sent[n + 1].head = sent[n].head BY <2>2 DEF Starts, Suite
    <2>4. QED BY <1>2, <2>2, <2>3
  <1>5. QED BY <1>3, <1>4

(* At rest the document has the head of the pull request.                  *)
LEMMA RestIsOnHead == ASSUME EventsInv PROVE SettledOnHead
  <1> USE DEF EventsInv
  <1> SUFFICES ASSUME Settled, open, excuse = {} PROVE src = head /\ marked = head
    BY DEF SettledOnHead
  <1>1. \A m : ~Pending(m) BY DEF Settled, Pending
  <1>2. PICK m \in DOMAIN sent : Brings(m) /\ sent[m].head = head BY DEF SentInv
  <1>3. head \in Int /\ src \in Int /\ marked \in Int /\ head > 0
    BY DEF SentInv, DocumentInv, Heads
  <1>4. sent[m].event = "pull_request"
    <2>1. sent[m] \in Deliveries BY DEF SentInv
    <2>2. sent[m].event \in {"pull_request", "check_suite"} BY <2>1 DEF Deliveries
    <2>3. sent[m].action # "requested" BY <1>2 DEF Brings
    <2>4. QED BY <2>2, <2>3 DEF SentInv
  <1>5. src = head
    <2>1. head <= src BY <1>2, <1>4 DEF Settled, StoredInv
    <2>2. QED BY <1>3, <2>1 DEF DocumentInv
  <1>6. \E k \in DOMAIN sent : Starts(k) /\ sent[k].head = head
    <2>1. CASE Starts(m) BY <1>2, <2>1
    <2>2. CASE ~Starts(m)
      <3>1. sent[m].action = "synchronize" /\ sameOrigin /\ checks
        BY <1>2, <2>2 DEF Starts, Brings
      <3>2. m + 1 \in DOMAIN sent /\ sent[m + 1] = Suite(sent[m].head) BY <3>1 DEF SentInv
      <3>3. Starts(m + 1) /\ sent[m + 1].head = head BY <1>2, <3>1, <3>2 DEF Starts, Suite
      <3>4. QED BY <3>2, <3>3
    <2>3. QED BY <2>1, <2>2
  <1>7. Reached(head) BY <1>1, <1>6 DEF ReachedInv
  <1>8. ~(job.pull >= head) BY <1>3 DEF Settled, NoJob
  <1>9. DOMAIN jobs = {} BY DEF Settled
  <1>10. marked >= head BY <1>7, <1>8, <1>9 DEF Reached
  <1>11. marked <= head BY DEF ReachedInv
  <1>12. QED BY <1>3, <1>5, <1>10, <1>11

-----------------------------------------------------------------------------
(* The events of a pull request move alone or not at all.                  *)
LEMMA EventsRun ==
    ASSUME [GithubNext]_all, part = "events" \/ part' = "events"
    PROVE  part = "events" /\ part' = "events" /\ [Next]_vars
  BY DEF GithubNext, all

(* The invariant holds while the events are handled.                       *)
LEMMA EventsHold == GithubSpec => [](part = "events" => EventsInv)
<1> DEFINE Inv == part = "events" => EventsInv
<1>1. GithubInit => Inv
  BY InitKeeps, GithubAssumption DEF GithubInit, Begins
<1>2. Inv /\ [GithubNext]_all => Inv'
  BY NextKeeps, EventsRun, GithubAssumption
<1>3. QED
  BY <1>1, <1>2, PTL DEF GithubSpec

(* A check run tells of its own commit or of a later head, and each head   *)
(* has one: pullRequestEvent, pushEvent and checkSuiteEvent with the jobs  *)
(* they start, for any number of heads and deliveries.                     *)
THEOREM RunsAreTold == GithubSpec => []RunsTellHeads
<1>1. EventsInv => TypeOK /\ RunTellsOwnHead /\ OneRunPerHead
  BY EventsTyped, HeadsHaveRuns DEF EventsInv
<1>2. (part = "events" => EventsInv) => RunsTellHeads
  BY <1>1 DEF RunsTellHeads
<1>3. QED
  BY <1>2, EventsHold, PTL

(* When the service is at rest the document of an open pull request has    *)
(* its head and the commits carry it, for any number of heads, deliveries  *)
(* and repetitions in any order, unless something the excuses name has     *)
(* happened.                                                               *)
THEOREM HeadsAreReached == GithubSpec => []RestsOnHead
<1>1. (part = "events" => EventsInv) => RestsOnHead
  BY RestIsOnHead DEF RestsOnHead
<1>2. QED
  BY <1>1, EventsHold, PTL
=============================================================================

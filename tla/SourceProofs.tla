---------------------------- MODULE SourceProofs ----------------------------
(***************************************************************************)
(* What the service knows of a source. The walks over its commits return   *)
(* what they are meant to, in every graph: what was visited and what is on *)
(* the stack together hold the heads and are closed, and neither holds     *)
(* anything that a closed set could do without. The repositories of an     *)
(* account: what each delivery of GitHub tells is known from the history;  *)
(* a handler that works alone has come some way from what was stored to    *)
(* what its delivery tells, and handlers that overlap still store for the  *)
(* organization that exists and leave no process unknown. The lists that   *)
(* come in pages: what stayed in the list was reached, is on the page in   *)
(* hand, or lies behind it.                                                *)
(***************************************************************************)
EXTENDS Traversal, Source, FiniteSetTheorems, SequenceTheorems, TLAPS

-----------------------------------------------------------------------------
(* Sequences.                                                              *)

(* The empty list has no element.                                          *)
LEMMA RangeEmpty == Range(<<>>) = {}
BY DEF Range

(* Appending an element adds it to the elements of a list.                 *)
LEMMA RangeAppend ==
    ASSUME NEW S, NEW s \in Seq(S), NEW x \in S
    PROVE  /\ Append(s, x) \in Seq(S)
           /\ Append(s, x) # <<>>
           /\ Range(Append(s, x)) = Range(s) \cup {x}
<1>1. <<x>> \in Seq(S) /\ Range(<<x>>) = {x}
  BY DEF Range
<1>2. Append(s, x) = s \o <<x>>
  BY AppendIsConcat
<1>3. Range(s \o <<x>>) = Range(s) \cup Range(<<x>>)
  BY <1>1, RangeConcatenation
<1>4. QED
  BY <1>1, <1>2, <1>3, AppendProperties

(* Popping takes the last element off a list (CommitsStack.Pop).           *)
LEMMA RangePop ==
    ASSUME NEW S, NEW s \in Seq(S), s # <<>>
    PROVE  /\ s[Len(s)] \in S
           /\ SubSeq(s, 1, Len(s) - 1) \in Seq(S)
           /\ Range(s) = Range(SubSeq(s, 1, Len(s) - 1)) \cup {s[Len(s)]}
<1>1. PICK t \in Seq(S), x \in S : s = Append(t, x)
  BY SequenceEmptyOrAppend
<1>2. /\ Len(s) = Len(t) + 1 /\ s[Len(s)] = x
      /\ \A i \in 1..Len(t) : s[i] = t[i]
  BY <1>1, AppendProperties
<1>3. SubSeq(s, 1, Len(s) - 1) = t
  <2>1. Len(s) - 1 = Len(t) /\ Len(t) \in Nat /\ t = [i \in 1..Len(t) |-> t[i]]
    BY <1>2
  <2>2. SubSeq(s, 1, Len(t)) = [i \in 1..Len(t) |-> s[i]]
    OBVIOUS
  <2>3. QED
    BY <1>2, <2>1, <2>2
<1>4. Range(s) = Range(t) \cup {x}
  BY <1>1, RangeAppend
<1>5. QED
  BY <1>2, <1>3, <1>4

-----------------------------------------------------------------------------
(* The walks of the engine.                                                *)

(* Until the walk answers true, nothing is lost: the heads, and what a     *)
(* visited commit leads to, were visited, are skipped, or are on the stack.*)
Closed ==
    ~found =>
        /\ Range(walk_heads) \subseteq seen \cup skip \cup Range(walk_stack)
        /\ \A c \in seen \ until : Range(next[c]) \subseteq seen \cup skip \cup Range(walk_stack)

(* Nothing is visited, put on the stack or found that cannot be reached.   *)
Minimal ==
    \A S \in SUBSET Registered :
        Holds(S) => /\ seen \subseteq S
                    /\ Range(walk_stack) \subseteq S \cup skip
                    /\ found => base \subseteq S

BaseUnseen == base \cap seen = {}

WalkInv == WalkTyped /\ Closed /\ Minimal /\ BaseUnseen

LEMMA WalkBegins == WalkInit => WalkInv
<1> SUFFICES ASSUME WalkInit PROVE WalkInv
  OBVIOUS
<1> USE DEF WalkInit, InitWith, args
<1>1. WalkTyped
  <2>1. next \in [Registered -> Seq(Registered)]
    BY TraversalAssumption
  <2>2. skip \subseteq Registered /\ until \subseteq Registered
    OBVIOUS
  <2>3. base \subseteq Registered /\ \A c, d \in base : c = d
    OBVIOUS
  <2>4. QED
    BY <2>1, <2>2, <2>3 DEF WalkTyped
<1>2. Closed /\ Minimal /\ BaseUnseen
  BY DEF Closed, Minimal, BaseUnseen, Holds
<1>3. QED
  BY <1>1, <1>2 DEF WalkInv

(* What the three steps have in common: the top is in Commits, and the     *)
(* rest of the stack holds everything but it.                              *)
LEMMA TopAndRest ==
    ASSUME WalkTyped, ~Done
    PROVE  /\ top \in Registered
           /\ popped \in Seq(Registered)
           /\ Range(walk_stack) = Range(popped) \cup {top}
           /\ next[top] \in Seq(Registered)
<1>1. walk_stack \in Seq(Registered) /\ walk_stack # <<>>
  BY DEF WalkTyped, Done
<1>2. /\ top \in Registered /\ popped \in Seq(Registered)
      /\ Range(walk_stack) = Range(popped) \cup {top}
  BY <1>1, RangePop DEF top, popped
<1>3. QED
  BY <1>2 DEF WalkTyped

LEMMA SkipKeeps == WalkInv /\ Skip => WalkInv'
<1> SUFFICES ASSUME WalkInv, Skip PROVE WalkInv'
  OBVIOUS
<1> DEFINE t == top
           p == popped
<1>1. /\ t \in Registered /\ p \in Seq(Registered) /\ Range(walk_stack) = Range(p) \cup {t}
      /\ t \in seen \cup skip
      /\ walk_stack' = p /\ UNCHANGED <<walk, next, walk_heads, skip, until, base, seen, found>>
  BY TopAndRest DEF WalkInv, Skip, args
<1> HIDE DEF t, p
<1>2. WalkTyped'
  BY <1>1 DEF WalkInv, WalkTyped
<1>3. Closed'
  BY <1>1 DEF WalkInv, Closed
<1>4. Minimal'
  BY <1>1 DEF WalkInv, Minimal, Holds
<1>5. BaseUnseen'
  BY <1>1 DEF WalkInv, BaseUnseen
<1>6. QED
  BY <1>2, <1>3, <1>4, <1>5 DEF WalkInv

LEMMA FoundKeeps == WalkInv /\ Found => WalkInv'
<1> SUFFICES ASSUME WalkInv, Found PROVE WalkInv'
  OBVIOUS
<1> DEFINE t == top
           p == popped
<1>1. /\ t \in Registered /\ p \in Seq(Registered) /\ Range(walk_stack) = Range(p) \cup {t}
      /\ t \notin seen \cup skip /\ t \in base
      /\ walk_stack' = p /\ found' = TRUE
      /\ UNCHANGED <<walk, next, walk_heads, skip, until, base, seen>>
  BY TopAndRest DEF WalkInv, Found, args
<1>2. \A c \in base : c = t
  BY <1>1 DEF WalkInv, WalkTyped
<1> HIDE DEF t, p
<1>3. WalkTyped'
  BY <1>1 DEF WalkInv, WalkTyped
<1>4. Closed'
  BY <1>1 DEF Closed
<1>5. Minimal'
  <2>1. SUFFICES ASSUME NEW S \in SUBSET Registered, Holds(S)
                 PROVE  seen \subseteq S /\ Range(p) \subseteq S \cup skip /\ base \subseteq S
    BY <1>1 DEF Minimal, Holds
  <2>2. seen \subseteq S /\ Range(walk_stack) \subseteq S \cup skip
    BY <2>1 DEF WalkInv, Minimal
  <2>3. t \in S
    BY <1>1, <2>2
  <2>4. QED
    BY <1>1, <1>2, <2>2, <2>3
<1>6. BaseUnseen'
  BY <1>1 DEF WalkInv, BaseUnseen
<1>7. QED
  BY <1>3, <1>4, <1>5, <1>6 DEF WalkInv

LEMMA VisitKeeps == WalkInv /\ Visit => WalkInv'
<1> SUFFICES ASSUME WalkInv, Visit PROVE WalkInv'
  OBVIOUS
<1> DEFINE t == top
           p == popped
           f == Follows
<1>1. /\ t \in Registered /\ p \in Seq(Registered) /\ Range(walk_stack) = Range(p) \cup {t}
      /\ t \notin seen \cup skip /\ t \notin base
      /\ walk_stack' = p \o f /\ seen' = seen \cup {t} /\ found' = FALSE /\ ~found
      /\ UNCHANGED <<walk, next, walk_heads, skip, until, base>>
  BY TopAndRest DEF WalkInv, Visit, args, Adds, Done, WalkTyped
<1>2. /\ f \in Seq(Registered)
      /\ t \in until => Range(f) = {}
      /\ t \notin until => f = next[t]
  <2>1. CASE t \in until
    BY <2>1, RangeEmpty DEF Follows
  <2>2. CASE t \notin until
    BY <2>2, TopAndRest DEF Follows, WalkInv, Visit
  <2>3. QED
    BY <2>1, <2>2
<1> HIDE DEF t, p, f
<1>3. p \o f \in Seq(Registered) /\ Range(p \o f) = Range(p) \cup Range(f)
  BY <1>1, <1>2, RangeConcatenation
<1>4. WalkTyped'
  <2>1. walk_stack' \in Seq(Registered)
    BY <1>1, <1>3
  <2>2. seen' \subseteq Registered /\ found' \in BOOLEAN
    BY <1>1 DEF WalkInv, WalkTyped
  <2>3. QED
    BY <1>1, <2>1, <2>2 DEF WalkInv, WalkTyped
<1>5. Closed'
  <2>1. Range(walk_heads) \subseteq seen' \cup skip \cup Range(walk_stack')
    BY <1>1, <1>3 DEF WalkInv, Closed
  <2>2. ASSUME NEW c \in seen' \ until
        PROVE  Range(next[c]) \subseteq seen' \cup skip \cup Range(walk_stack')
    <3>1. CASE c = t
      BY <1>1, <1>2, <1>3, <2>2, <3>1
    <3>2. CASE c # t
      BY <1>1, <1>3, <2>2, <3>2 DEF WalkInv, Closed
    <3>3. QED
      BY <3>1, <3>2
  <2>3. QED
    BY <1>1, <2>1, <2>2 DEF Closed
<1>6. Minimal'
  <2>1. SUFFICES ASSUME NEW S \in SUBSET Registered, Holds(S)
                 PROVE  seen' \subseteq S /\ Range(walk_stack') \subseteq S \cup skip
    BY <1>1 DEF Minimal, Holds
  <2>2. seen \subseteq S /\ Range(walk_stack) \subseteq S \cup skip
    BY <2>1 DEF WalkInv, Minimal
  <2>3. t \in S
    BY <1>1, <2>2
  <2>4. Range(f) \subseteq S \cup skip
    BY <1>2, <2>1, <2>3 DEF Holds
  <2>5. QED
    BY <1>1, <1>3, <2>2, <2>3, <2>4
<1>7. BaseUnseen'
  BY <1>1 DEF WalkInv, BaseUnseen
<1>8. QED
  BY <1>4, <1>5, <1>6, <1>7 DEF WalkInv

LEMMA WalkHolds == WalkSpec => []WalkInv
<1>1. WalkInv /\ UNCHANGED walkVars => WalkInv'
  <2>1. SUFFICES ASSUME WalkInv, UNCHANGED walkVars PROVE WalkInv'
    OBVIOUS
  <2>2. UNCHANGED <<walk, next, walk_heads, skip, until, base, walk_stack, seen, found>>
    BY <2>1 DEF walkVars, args
  <2>3. WalkTyped'
    BY <2>1, <2>2 DEF WalkInv, WalkTyped
  <2>4. Closed'
    BY <2>1, <2>2 DEF WalkInv, Closed
  <2>5. Minimal'
    BY <2>1, <2>2 DEF WalkInv, Minimal, Holds
  <2>6. BaseUnseen'
    BY <2>1, <2>2 DEF WalkInv, BaseUnseen
  <2>7. QED
    BY <2>3, <2>4, <2>5, <2>6 DEF WalkInv
<1>2. WalkInv /\ [WalkNext]_walkVars => WalkInv'
  BY <1>1, SkipKeeps, FoundKeeps, VisitKeeps DEF WalkNext
<1>3. QED
  BY <1>2, WalkBegins, PTL DEF WalkSpec

(* A walk that has emptied its stack returns exactly what the heads reach, *)
(* in every graph and from all heads (AncestorsList, SuccessorList,        *)
(* AncestorsListUntil, UnseenAncestors).                                   *)
THEOREM WalkReturnsReachable == WalkSpec => []ReturnsReachable
<1>1. WalkInv => ReturnsReachable
  <2>1. SUFFICES ASSUME WalkInv, walk_stack = <<>>, ~found
                 PROVE  /\ Holds(seen)
                        /\ \A S \in SUBSET Registered : Holds(S) => seen \subseteq S
    BY DEF ReturnsReachable
  <2>2. Range(walk_stack) = {}
    BY <2>1, RangeEmpty
  <2>3. Holds(seen)
    BY <2>1, <2>2 DEF WalkInv, Closed, Holds
  <2>4. QED
    BY <2>1, <2>3 DEF WalkInv, Minimal
<1>2. QED
  BY <1>1, WalkHolds, PTL

(* IsAncestor is right both when it answers true and when it answers       *)
(* false, in every graph.                                                  *)
THEOREM IsAncestorRight == WalkSpec => []IsAncestorExact
<1>1. WalkInv => IsAncestorExact
  <2>1. SUFFICES ASSUME WalkInv
                 PROVE  /\ found => \A S \in SUBSET Registered : Holds(S) => base \subseteq S
                        /\ walk_stack = <<>> /\ ~found =>
                                \E S \in SUBSET Registered : Holds(S) /\ base \cap S = {}
    BY DEF IsAncestorExact
  <2>2. found => \A S \in SUBSET Registered : Holds(S) => base \subseteq S
    BY <2>1 DEF WalkInv, Minimal
  <2>3. ASSUME walk_stack = <<>>, ~found
        PROVE  \E S \in SUBSET Registered : Holds(S) /\ base \cap S = {}
    <3>1. Range(walk_stack) = {}
      BY <2>3, RangeEmpty
    <3>2. Holds(seen) /\ base \cap seen = {}
      BY <2>1, <2>3, <3>1 DEF WalkInv, Closed, Holds, BaseUnseen
    <3>3. seen \in SUBSET Registered
      BY <2>1 DEF WalkInv, WalkTyped
    <3>4. QED
      BY <3>2, <3>3
  <2>4. QED
    BY <2>2, <2>3
<1>2. QED
  BY <1>1, WalkHolds, PTL

(* Every walk of the engine returns and answers what the graph says.       *)
THEOREM WalksAreExact == WalkSpec => []WalksExact
<1>1. ReturnsReachable /\ IsAncestorExact => WalksExact
  BY DEF WalksExact
<1>2. QED
  BY <1>1, WalkReturnsReachable, IsAncestorRight, PTL

(* The variables of a walk have their types, in every graph.               *)
THEOREM TypeCorrect == WalkSpec => []WalkTyped
<1>1. WalkInv => WalkTyped
  BY DEF WalkInv
<1>2. QED
  BY <1>1, WalkHolds, PTL

-----------------------------------------------------------------------------
(* The installations of an account.                                        *)

(* Records of the types the model keeps.                                   *)
Orgs == [id : Nat, inst : Nat, jira : BOOLEAN, slug : Nat, members : BOOLEAN]
Documents == [id : Nat, org : Nat, slug : Nat, monitored : BOOLEAN]
AccountDeliveries == [kind : {"add", "remove", "uninstall", "push"}, inst : Nat \ {0},
                     slug : Nat,
               repos : SUBSET Repos]
Requests ==
    [kind : {"none", "admin"}, inst : {0}, slug : Nat, repos : SUBSET Repos] \cup
    [kind : {"monitor"}, inst : {0}, slug : Nat, repos : SUBSET Repos, user : Users]
Steps == {"find", "findAgain", "org", "owner", "owners", "members", "repos", "monitor",
          "process", "list", "stop", "deleteCommits", "delete"}
Works == [n : Nat, act : Requests, step : Steps, repos : SUBSET Repos, org : Orgs,
          ids : SUBSET Nat]

(* The steps of a handler that stores repositories, and that deletes them. *)
Inserting == {"owner", "owners", "members", "repos"}
Removing == {"stop", "deleteCommits", "delete"}

(* The steps of each event.                                                *)
Takes(event, step) ==
    \/ event = "add" /\ step \in Inserting \cup {"org", "process"}
    \/ event = "push" /\ step \in Inserting \cup {"find", "findAgain", "org", "process"}
    \/ event = "monitor" /\ step \in Inserting \cup {"org", "monitor", "process"}
    \/ event \in {"remove", "uninstall"} /\ step \in Removing \cup {"list"}
    \/ event = "admin" /\ step \in Removing

(* A handler is at a step of its event and names ids that were given out.  *)
Well(h) ==
    /\ h \in Works
    /\ IF h.n = 0 THEN h.act.kind # "none" ELSE h.n \in DOMAIN inst_sent
    /\ Takes(Account!Event(h).kind, h.step)
    /\ h.org.id <= lastId
    /\ h.ids \subseteq 1 .. lastId

(* What the accounts of GitHub may be.                                     *)
GithubInv ==
    /\ inst \in 0 .. installs /\ installs \in 0 .. Len(inst_sent)
       /\ Len(inst_sent) <= MaxDeliveries
    /\ selected \subseteq Repos /\ (inst = 0 => selected = {}) /\ slug \in 1 .. 2
    /\ inst_sent \in Seq(AccountDeliveries)
       /\ \A n \in DOMAIN inst_sent : inst_sent[n].inst <= installs
    /\ \A n \in DOMAIN inst_sent : inst_sent[n].kind = "push" => inst_sent[n].repos # {}
    /\ inst_mail \subseteq DOMAIN inst_sent

(* What the database holds: ids were given out, and no two share one.      *)
OrgInv == org \in Orgs /\ org.id <= lastId /\ org.inst <= installs

DocsInv ==
    /\ docs \in [Repos -> Documents]
    /\ \A r \in Repos : docs[r].id <= lastId /\ docs[r].org <= lastId
    /\ \A r, s \in Repos : Account!Present(r) /\ docs[r].id = docs[s].id => r = s
    /\ \A r \in Repos : org.id # 0 => docs[r].id # org.id

SetsInv ==
    /\ monitors \subseteq Users \X (1 .. lastId)
    /\ repos_with_commits \subseteq 1 .. lastId /\ inst_jobs \subseteq 1 .. lastId
       /\ stopping \subseteq 1 .. lastId
    /\ verifications \subseteq 1 .. lastId /\ linked \in 0 .. lastId

StoreInv == lastId \in Nat /\ OrgInv /\ DocsInv /\ SetsInv

HandlersInv ==
    /\ IsFiniteSet(inst_handlers) /\ Cardinality(inst_handlers) <= MaxHandlers
    /\ \A h \in inst_handlers : Well(h)
    /\ calm \in BOOLEAN /\ overlap \in BOOLEAN

(* Unless an uninstallation overlaps, who stores repositories has the      *)
(* organization that is stored, and an uninstallation has all of them.     *)
Owned(h) ==
    /\ h.step \in Inserting \/ (h.step = "process" /\ Account!Event(h).kind = "add") =>
         h.org.id = org.id /\ org.id # 0
    /\ Account!Event(h).kind = "uninstall" =>
         inst_handlers = {h} /\ (h.step \in Removing => Account!DocIds \subseteq h.ids)

OwnedInv ==
    ~overlap =>
        /\ \A r \in Repos : Account!Present(r) => docs[r].org = org.id /\ org.id # 0
        /\ \A h \in inst_handlers : Owned(h)

(* A process of a document that is gone is late, also while it goes.       *)
Parting(h) ==
    /\ h.step \in {"deleteCommits", "delete"} /\ h.org.id \in inst_jobs \cup stopping =>
       h.org.id \in written_late
    /\ h.step = "delete" /\ h.org.id \in repos_with_commits => h.org.id \in written_late

LateInv ==
    /\ repos_with_commits \cup inst_jobs \cup stopping \subseteq Account!DocIds \cup written_late
    /\ \A h \in inst_handlers : Parting(h)

(* The repositories that are stored for the installation.                  *)
Installed == {r \in Repos : Account!Present(r) /\ ~docs[r].monitored}

(* What a delivery tells: the repositories the installation sees before    *)
(* and after it, and the installation.                                     *)
AccountFollows(e, S, T, a, b) ==
    \/ e.kind = "add" /\ T = S \cup e.repos /\ b = e.inst
    \/ e.kind = "push" /\ T = S /\ b = a /\ e.repos # {} /\ e.repos \subseteq S
    \/ e.kind = "remove" /\ T = S \ e.repos /\ b = a
    \/ e.kind = "uninstall" /\ T = {} /\ b = 0

Tells(views, by) ==
    /\ views \in [0 .. Len(inst_sent) -> SUBSET Repos] /\ by \in [0 .. Len(inst_sent) -> Nat]
    /\ views[Len(inst_sent)] = selected /\ by[Len(inst_sent)] = inst
    /\ \A i \in DOMAIN inst_sent : AccountFollows(inst_sent[i], views[i - 1], views[i],
       by[i - 1], by[i])

(* The database has the repositories S, of the installation a.             *)
Agrees(S, a) == Installed = S /\ (S # {} => org.inst = a)

(* The repositories that a delivery takes away.                            *)
Named(e) == IF e.kind = "uninstall" THEN Repos ELSE e.repos

(* How far a handler has come from the repositories S on.                  *)
Working(h, S, a) ==
    \/ /\ Account!Event(h).kind = "add" /\ h.repos \subseteq Account!Event(h).repos
       /\ Installed = S \cup (Account!Event(h).repos \ h.repos)
       /\ IF h.step = "org" THEN h.repos = Account!Event(h).repos /\ (S # {} => org.inst = a)
                            ELSE org.inst = Account!Event(h).inst
    \/ /\ Account!Event(h).kind = "push" /\ h.step \in {"find", "process"}
          /\ h.org = Account!NoOrg
       /\ Agrees(S, a)
    \/ /\ Account!Event(h).kind \in {"remove", "uninstall"} /\ h.repos = Account!Event(h).repos
       /\ S # {} => org.inst = a
       /\ Installed \subseteq S /\ S \ Named(Account!Event(h)) \subseteq Installed
       /\ h.step # "list" => h.ids = {docs[r].id : r \in Named(Account!Event(h))} \ {0}
       /\ h.step \in {"deleteCommits", "delete"} => h.org.id \in h.ids

(* Deliveries handled one by one: the first k are handled or at work.      *)
InTurn(views, by, k) ==
    /\ inst_mail = k + 1 .. Len(inst_sent)
    /\ \/ inst_handlers = {} /\ Agrees(views[k], by[k])
       \/ \E h \in inst_handlers :
            /\ inst_handlers = {h}
            /\ IF h.n = 0 THEN Account!Event(h).kind = "monitor" /\ Agrees(views[k], by[k])
                          ELSE h.n = k /\ Working(h, views[k - 1], by[k - 1])

(* What GitHub selected with each delivery tells what is stored so far.    *)
CalmInv ==
    \E views, by :
        /\ Tells(views, by)
        /\ calm => ~overlap /\ \E k \in 0 .. Len(inst_sent) : InTurn(views, by, k)

(* The assumptions of the account are among those of this module.          *)
LEMMA InstallationsAssumed == Account!InstallationsAssumption
  BY SourceAssumption

(* The cardinality of a set, as Installations takes it.                    *)
LEMMA AccountCardinality == \A S : Account!Cardinality(S) = Cardinality(S)
  BY DEF Account!Cardinality, Cardinality

(* The parts of the invariant that say which values the variables have.    *)
Values == GithubInv /\ StoreInv /\ HandlersInv

(* In the beginning nothing was sent, stored or given to a handler.        *)
LEMMA GithubInit == Account!Init => GithubInv
BY InstallationsAssumed DEF Account!Init, GithubInv, Account!InstallationsAssumption

(* The database is empty.                                                  *)
LEMMA StoreInit == Account!Init => StoreInv
BY DEF Account!Init, StoreInv, OrgInv, DocsInv, SetsInv, Orgs, Documents, Account!NoOrg,
   Account!NoDoc, Account!Present

(* No handler is at work.                                                  *)
LEMMA HandlersInit == Account!Init => HandlersInv
<1>. SUFFICES ASSUME Account!Init PROVE HandlersInv
  OBVIOUS
<1>1. inst_handlers = {} /\ calm = TRUE /\ overlap = FALSE
  BY DEF Account!Init
<1>2. IsFiniteSet(inst_handlers) /\ Cardinality(inst_handlers) = 0
  BY <1>1, FS_EmptySet
<1>3. Cardinality(inst_handlers) <= MaxHandlers
  BY <1>2, InstallationsAssumed DEF Account!InstallationsAssumption
<1>. QED
  BY <1>1, <1>2, <1>3 DEF HandlersInv

(* A delivery is the next of GitHub, and is on its way.                    *)
AccountAdds(e) ==
    /\ inst_sent' \in Seq(AccountDeliveries) /\ Len(inst_sent') = Len(inst_sent) + 1
       /\ Len(inst_sent') <= MaxDeliveries
    /\ inst_sent'[Len(inst_sent) + 1] = e
    /\ \A n \in DOMAIN inst_sent : inst_sent'[n] = inst_sent[n]
    /\ DOMAIN inst_sent = 1 .. Len(inst_sent) /\ DOMAIN inst_sent' = 1 .. Len(inst_sent')
    /\ inst_mail' = inst_mail \cup {Len(inst_sent) + 1}

(* This is what the model's Deliver does.                                  *)
LEMMA Delivers ==
    ASSUME GithubInv, NEW e \in AccountDeliveries, e.slug = slug,
           Account!Deliver(e.kind, e.inst, e.repos)
    PROVE  AccountAdds(e)
<1>1. e = [kind |-> e.kind, inst |-> e.inst, slug |-> slug, repos |-> e.repos]
  BY DEF AccountDeliveries
<1>2. inst_sent' = Append(inst_sent, e) /\ Len(inst_sent) < MaxDeliveries
      /\ inst_mail' = inst_mail \cup {Len(inst_sent) + 1}
  BY <1>1 DEF Account!Deliver
<1>3. inst_sent \in Seq(AccountDeliveries) /\ Len(inst_sent) \in Nat
  BY DEF GithubInv
<1>. QED
  BY <1>2, <1>3, InstallationsAssumed DEF Account!InstallationsAssumption, AccountAdds

(* GitHub delivers something, or the account is renamed.                   *)
Github ==
    \/ \E repos \in SUBSET Repos : Account!Install(repos)
    \/ Account!Uninstall \/ Account!Rename
    \/ \E r \in Repos : Account!Select(r) \/ Account!Unselect(r) \/ Account!Push(r)

(* The next delivery of GitHub, and what it tells.                         *)
Sent(e) ==
    /\ AccountAdds(e)
    /\ slug' = slug /\ e.inst \in 1 .. installs' /\ installs' <= installs + 1
    /\ inst' \in 0 .. installs' /\ selected' \subseteq Repos
    /\ inst' = 0 => selected' = {}
    /\ AccountFollows(e, selected, selected', inst, inst')
Sends ==
    /\ UNCHANGED <<Account!database, Account!server, inst_handlers, Account!acting,
       Account!history>>
    /\ installs' \in Nat /\ installs <= installs'
    /\ Account!Rename \/ \E e \in AccountDeliveries : Sent(e)

(* What a step of GitHub sends: nothing, or one delivery.                  *)
LEMMA GithubSends == ASSUME GithubInv, Github PROVE Sends
<1>. USE DEF GithubInv, Sends, Sent, AccountAdds
<1>1. CASE Account!Rename
  BY <1>1 DEF Account!Rename, Account!database, Account!server, Account!acting, Account!history
<1>2. ASSUME NEW repos \in SUBSET Repos, Account!Install(repos) PROVE Sends
  <2>1. installs + 1 \in Nat \ {0} /\ Account!Deliver("add", installs + 1, repos)
    BY <1>2 DEF Account!Install
  <2>2. PICK e : e = [kind |-> "add", inst |-> installs + 1, slug |-> slug, repos |-> repos]
    OBVIOUS
  <2>3. e \in AccountDeliveries
    BY <2>2, <2>1 DEF AccountDeliveries
  <2>4. AccountFollows(e, selected, selected', inst, inst') /\ e.inst \in 1 .. installs'
        /\ Account!Deliver(e.kind, e.inst, e.repos) /\ e.slug = slug
    BY <2>1, <2>2, <1>2 DEF AccountFollows, Account!Install
  <2>5. AccountAdds(e)
    BY <2>3, <2>4, Delivers
  <2>6. Sent(e) /\ e \in AccountDeliveries /\ installs' \in Nat /\ installs <= installs'
    BY <2>1, <2>2, <2>3, <2>4, <2>5, <1>2 DEF Account!Install
  <2>. QED
    BY <1>2, <2>5, <2>6 DEF Account!Install, Account!Deliver
<1>3. CASE Account!Uninstall
  <2>1. inst \in Nat \ {0} /\ Account!Deliver("uninstall", inst, {})
    BY <1>3 DEF Account!Uninstall
  <2>2. PICK e : e = [kind |-> "uninstall", inst |-> inst, slug |-> slug, repos |-> {}]
    OBVIOUS
  <2>3. e \in AccountDeliveries
    BY <2>2, <2>1 DEF AccountDeliveries
  <2>4. AccountFollows(e, selected, selected', inst, inst') /\ e.inst \in 1 .. installs'
        /\ Account!Deliver(e.kind, e.inst, e.repos) /\ e.slug = slug
    BY <2>1, <2>2, <1>3 DEF AccountFollows, Account!Uninstall
  <2>5. AccountAdds(e)
    BY <2>3, <2>4, Delivers
  <2>6. Sent(e) /\ e \in AccountDeliveries /\ installs' \in Nat /\ installs <= installs'
    BY <2>1, <2>2, <2>3, <2>4, <2>5, <1>3 DEF Account!Uninstall
  <2>. QED
    BY <1>3, <2>5, <2>6 DEF Account!Uninstall, Account!Deliver
<1>4. ASSUME NEW r \in Repos, Account!Select(r) PROVE Sends
  <2>1. inst \in Nat \ {0} /\ Account!Deliver("add", inst, {r})
    BY <1>4 DEF Account!Select
  <2>2. PICK e : e = [kind |-> "add", inst |-> inst, slug |-> slug, repos |-> {r}]
    OBVIOUS
  <2>3. e \in AccountDeliveries
    BY <2>2, <2>1 DEF AccountDeliveries
  <2>4. AccountFollows(e, selected, selected', inst, inst') /\ e.inst \in 1 .. installs'
        /\ Account!Deliver(e.kind, e.inst, e.repos) /\ e.slug = slug
    BY <2>1, <2>2, <1>4 DEF AccountFollows, Account!Select
  <2>5. AccountAdds(e)
    BY <2>3, <2>4, Delivers
  <2>6. Sent(e) /\ e \in AccountDeliveries /\ installs' \in Nat /\ installs <= installs'
    BY <2>1, <2>2, <2>3, <2>4, <2>5, <1>4 DEF Account!Select
  <2>. QED
    BY <1>4, <2>5, <2>6 DEF Account!Select, Account!Deliver
<1>5. ASSUME NEW r \in Repos, Account!Unselect(r) PROVE Sends
  <2>1. inst \in Nat \ {0} /\ Account!Deliver("remove", inst, {r})
    BY <1>5 DEF Account!Unselect
  <2>2. PICK e : e = [kind |-> "remove", inst |-> inst, slug |-> slug, repos |-> {r}]
    OBVIOUS
  <2>3. e \in AccountDeliveries
    BY <2>2, <2>1 DEF AccountDeliveries
  <2>4. AccountFollows(e, selected, selected', inst, inst') /\ e.inst \in 1 .. installs'
        /\ Account!Deliver(e.kind, e.inst, e.repos) /\ e.slug = slug
    BY <2>1, <2>2, <1>5 DEF AccountFollows, Account!Unselect
  <2>5. AccountAdds(e)
    BY <2>3, <2>4, Delivers
  <2>6. Sent(e) /\ e \in AccountDeliveries /\ installs' \in Nat /\ installs <= installs'
    BY <2>1, <2>2, <2>3, <2>4, <2>5, <1>5 DEF Account!Unselect
  <2>. QED
    BY <1>5, <2>5, <2>6 DEF Account!Unselect, Account!Deliver
<1>6. ASSUME NEW r \in Repos, Account!Push(r) PROVE Sends
  <2>1. inst \in Nat \ {0} /\ Account!Deliver("push", inst, {r})
    BY <1>6 DEF Account!Push
  <2>2. PICK e : e = [kind |-> "push", inst |-> inst, slug |-> slug, repos |-> {r}]
    OBVIOUS
  <2>3. e \in AccountDeliveries
    BY <2>2, <2>1 DEF AccountDeliveries
  <2>4. AccountFollows(e, selected, selected', inst, inst') /\ e.inst \in 1 .. installs'
        /\ Account!Deliver(e.kind, e.inst, e.repos) /\ e.slug = slug
    BY <2>1, <2>2, <1>6 DEF AccountFollows, Account!Push
  <2>5. AccountAdds(e)
    BY <2>3, <2>4, Delivers
  <2>6. Sent(e) /\ e \in AccountDeliveries /\ installs' \in Nat /\ installs <= installs'
    BY <2>1, <2>2, <2>3, <2>4, <2>5, <1>6 DEF Account!Push
  <2>. QED
    BY <1>6, <2>5, <2>6 DEF Account!Push, Account!Deliver
<1>. QED
  BY <1>1, <1>2, <1>3, <1>4, <1>5, <1>6 DEF Github

(* The deliveries made and on their way stay within what GitHub sent.      *)
LEMMA GithubKeepsGithub == GithubInv /\ Github => GithubInv'
<1>. SUFFICES ASSUME GithubInv, Github PROVE GithubInv'
  OBVIOUS
<1>1. CASE Account!Rename
  BY <1>1 DEF Account!Rename, GithubInv
<1>2. CASE ~Account!Rename
  <2>1. PICK e \in AccountDeliveries : Sent(e)
    BY <1>2, GithubSends DEF Sends
  <2>2. installs' \in Nat /\ installs <= installs' /\ Len(inst_sent) \in Nat
    BY GithubSends DEF Sends, GithubInv
  <2>3. ASSUME NEW n, n \in DOMAIN inst_sent'
       PROVE  inst_sent'[n].inst <= installs'
              /\ (inst_sent'[n].kind = "push" => inst_sent'[n].repos # {})
    <3>1. CASE n = Len(inst_sent) + 1
      BY <2>1, <2>2, <3>1 DEF Sent, AccountAdds, AccountFollows
    <3>2. CASE n # Len(inst_sent) + 1
      <4>1. n \in DOMAIN inst_sent /\ inst_sent'[n] = inst_sent[n]
        BY <2>1, <2>2, <2>3, <3>2 DEF Sent, AccountAdds
      <4>2. inst_sent[n] \in AccountDeliveries /\ inst_sent[n].inst <= installs
            /\ (inst_sent[n].kind = "push" => inst_sent[n].repos # {})
        BY <4>1, <2>2 DEF GithubInv
      <4>3. inst_sent[n].inst \in Nat
        BY <4>2 DEF AccountDeliveries
      <4>4. installs \in Nat
        BY <2>2 DEF GithubInv
      <4>. QED
        BY <4>1, <4>2, <4>3, <4>4, <2>2
    <3>. QED
      BY <3>1, <3>2
  <2>. QED
    BY <2>1, <2>2, <2>3 DEF GithubInv, Sent, AccountAdds
<1>. QED
  BY <1>1, <1>2

(* Everyone else leaves GitHub as it is, and takes from the mail at most.  *)
LEMMA OthersKeepGithub ==
    ASSUME GithubInv, Account!github' = Account!github, inst_mail' \subseteq inst_mail
           PROVE GithubInv'
BY DEF GithubInv, Account!github

(* The event of a handler is a delivery or what a user asked for.          *)
LEMMA EventIs ==
    ASSUME GithubInv, NEW h, Well(h)
    PROVE  /\ h \in Works /\ h.n \in Nat /\ h.step \in Steps /\ h.repos \subseteq Repos
              /\ h.org \in Orgs
           /\ h.ids \subseteq Nat
           /\ Account!Event(h).repos \subseteq Repos /\ Account!Event(h).slug \in Nat
           /\ h.n # 0 => /\ h.n \in DOMAIN inst_sent /\ Account!Event(h) = inst_sent[h.n]
                            /\ Account!Event(h) \in AccountDeliveries
                         /\ Account!Event(h).kind \in {"add", "remove", "uninstall", "push"}
                         /\ Account!Event(h).inst \in 1 .. installs
                         /\ Account!Event(h).kind = "push" => Account!Event(h).repos # {}
           /\ h.n = 0 => Account!Event(h) = h.act
              /\ Account!Event(h).kind \in {"admin", "monitor"} /\ Account!Event(h).inst = 0
<1>1. h \in Works /\ h.n \in Nat /\ h.step \in Steps /\ h.repos \subseteq Repos
      /\ h.org \in Orgs
      /\ h.ids \subseteq Nat /\ h.act \in Requests
  BY DEF Well, Works
<1>2. CASE h.n = 0
  <2>1. Account!Event(h) = h.act /\ h.act.kind # "none"
    BY <1>2 DEF Account!Event, Well
  <2>. QED
    BY <1>1, <1>2, <2>1 DEF Requests
<1>3. CASE h.n # 0
  <2>1. Account!Event(h) = inst_sent[h.n] /\ h.n \in DOMAIN inst_sent
    BY <1>1, <1>3 DEF Account!Event, Well
  <2>2. inst_sent[h.n] \in AccountDeliveries /\ inst_sent[h.n].inst <= installs
        /\ (inst_sent[h.n].kind = "push" => inst_sent[h.n].repos # {})
    BY <2>1 DEF GithubInv
  <2>3. installs \in Nat
    BY DEF GithubInv
  <2>. QED
    BY <1>1, <1>3, <2>1, <2>2, <2>3 DEF AccountDeliveries
<1>. QED
  BY <1>2, <1>3

(* A handler's event is the same at its next step, and stays what it is.   *)
LEMMA SameEvent ==
    ASSUME NEW h, NEW k, k.n = h.n, k.act = h.act PROVE Account!Event(k) = Account!Event(h)
BY DEF Account!Event

(* A handler that does not move stays at a step of its event.              *)
LEMMA WellStays ==
    ASSUME StoreInv, NEW h, Well(h), lastId' \in Nat, lastId <= lastId',
           DOMAIN inst_sent \subseteq DOMAIN inst_sent',
           \A n \in DOMAIN inst_sent : inst_sent'[n] = inst_sent[n], 0 \notin DOMAIN inst_sent
    PROVE  Well(h)' /\ Account!Event(h)' = Account!Event(h)
<1>1. Account!Event(h)' = Account!Event(h)
  BY DEF Well, Account!Event, Works
<1>2. h.ids \subseteq 1 .. lastId' /\ h.org.id <= lastId'
  BY DEF Well, Works, Orgs, StoreInv, OrgInv, DocsInv
<1>. QED
  BY <1>1, <1>2 DEF Well

(* The handler h comes to the step k of the same event.                    *)
Advances(h, k) ==
    /\ inst_handlers' = (inst_handlers \ {h}) \cup {k}
    /\ k \in Works /\ k.n = h.n /\ k.act = h.act /\ Takes(Account!Event(h).kind, k.step)
    /\ k.org.id <= lastId' /\ k.ids \subseteq 1 .. lastId'

(* The ids of documents were given out.                                    *)
LEMMA IdsKnown == StoreInv => Account!DocIds \subseteq 1 .. lastId
BY DEF StoreInv, OrgInv, DocsInv, Account!DocIds, Documents

(* The organization that is created.                                       *)
LEMMA OrgIs ==
    ASSUME NEW i \in Nat, NEW j \in Nat, NEW s \in Nat
    PROVE  [id |-> i, inst |-> j, jira |-> FALSE, slug |-> s, members |-> FALSE] \in Orgs
BY DEF Orgs

(* What a handler's step makes of it: it leaves, or comes to another step. *)
LEMMA StepMoves ==
    ASSUME Values, NEW h \in inst_handlers, Account!Step(h) \/ Account!Fails(h)
    PROVE  Account!Leaves(h) \/ \E k : Advances(h, k)
<1>. Well(h) /\ h \in Works /\ Takes(Account!Event(h).kind, h.step) /\ h.org \in Orgs
     /\ h.ids \subseteq 1 .. lastId
     /\ h.org.id <= lastId /\ lastId \in Nat /\ h.repos \subseteq Repos
  BY EventIs DEF Values, HandlersInv, Well, Works, StoreInv, OrgInv, DocsInv
<1>1. CASE Account!Fails(h)
  BY <1>1 DEF Account!Fails
<1>2. CASE Account!Find(h)
  <2>1. CASE Account!Present(CHOOSE x \in Account!Event(h).repos : TRUE)
    <3>1. Account!Event(h).kind = "push"
      BY <1>2 DEF Account!Find, Takes, Inserting, Removing
    <3>2. PICK r \in Repos : r = CHOOSE x \in Account!Event(h).repos : TRUE
      BY <3>1, EventIs DEF Values
    <3>3. docs[r].id \in 1 .. lastId /\ UNCHANGED lastId
      BY <2>1, <3>2, <1>2 DEF Values, StoreInv, OrgInv, DocsInv, Documents, Account!Present,
         Account!Find, Account!database
    <3>4. PICK ids : ids = {docs[r].id}
      OBVIOUS
    <3>5. PICK k : k = [h EXCEPT !.step = "process", !.ids = ids]
      OBVIOUS
    <3>6. Account!Goes(h, k)
      BY <1>2, <2>1, <3>2, <3>4, <3>5 DEF Account!Find
    <3>7. ids \subseteq 1 .. lastId' /\ ids \subseteq Nat
      BY <3>3, <3>4
    <3>8. Advances(h, k)
      BY <3>1, <3>3, <3>5, <3>6, <3>7 DEF Account!Goes, Advances, Works, Steps, Takes
    <3>. QED
      BY <3>8
  <2>2. CASE ~Account!Present(CHOOSE x \in Account!Event(h).repos : TRUE) /\ h.step = "find"
    <3>1. PICK k : k = [h EXCEPT !.step = "org"]
      OBVIOUS
    <3>2. Advances(h, k)
      BY <1>2, <2>2, <3>1 DEF Account!Find, Account!Goes, Advances, Works, Steps, Takes,
         Account!database, Inserting, Removing
    <3>. QED
      BY <3>2
  <2>. QED
    BY <1>2, <2>1, <2>2 DEF Account!Find
<1>3. CASE Account!FindOrCreate(h)
  <2>1. PICK o : o = Account!FoundOrCreated(Account!Event(h))
    OBVIOUS
  <2>2. o \in Orgs /\ o.id <= lastId' /\ lastId' \in Nat /\ lastId <= lastId'
    <3>1. PICK e : e = Account!Event(h)
      OBVIOUS
    <3>2. e.inst \in Nat /\ e.slug \in Nat
      BY <3>1, EventIs DEF Values
    <3>3. org \in Orgs /\ org.id <= lastId
      BY DEF Values, StoreInv, OrgInv, DocsInv
    <3>4. lastId' = IF org.id = 0 THEN lastId + 1 ELSE lastId
      BY <1>3 DEF Account!FindOrCreate
    <3>5. org.id = 0 => o = [id |-> lastId + 1, inst |-> e.inst, jira |-> FALSE,
          slug |-> e.slug,
                             members |-> FALSE]
      BY <2>1, <3>1 DEF Account!FoundOrCreated, Account!NoOrg
    <3>6. org.id # 0 => o \in {org, [org EXCEPT !.inst = e.inst, !.jira = FALSE]}
      BY <2>1, <3>1 DEF Account!FoundOrCreated
    <3>7. org.id # 0 => o \in Orgs /\ o.id = org.id
      BY <3>2, <3>3, <3>6 DEF Orgs
    <3>8. CASE org.id = 0
      <4>1. o.id = lastId + 1 /\ lastId' = lastId + 1
        BY <3>4, <3>5, <3>8
      <4>2. o \in Orgs
        BY <3>2, <3>5, <3>8, OrgIs
      <4>. QED
        BY <4>1, <4>2
    <3>9. CASE org.id # 0
      BY <3>3, <3>4, <3>7, <3>9
    <3>. QED
      BY <3>8, <3>9
  <2>3. PICK k : k = [h EXCEPT !.org = [o EXCEPT !.slug = Account!Event(h).slug],
                          !.step = IF o.slug # Account!Event(h).slug THEN "owner"
                                   ELSE IF Account!Event(h).kind = "monitor" THEN "repos"
                                     ELSE Account!AfterOwner(o)]
    OBVIOUS
  <2>4. PICK p : p = [o EXCEPT !.slug = Account!Event(h).slug]
    OBVIOUS
  <2>5. p \in Orgs /\ p.id = o.id
    BY <2>2, <2>4, EventIs DEF Orgs, Values
  <2>6. k.n = h.n /\ k.act = h.act /\ k.org = p /\ k.ids = h.ids /\ k \in Works
        /\ Takes(Account!Event(h).kind, k.step)
    BY <2>3, <2>4, <2>5, <1>3 DEF Works, Steps, Account!AfterOwner, Account!FindOrCreate,
       Takes, Inserting, Removing
  <2>7. Advances(h, k)
    BY <1>3, <2>1, <2>2, <2>3, <2>5, <2>6 DEF Account!FindOrCreate, Account!Goes, Advances
  <2>. QED
    BY <2>7
<1>4. CASE Account!UpdateOwner(h)
  <2>1. PICK k : k = [h EXCEPT !.step = "owners"]
    OBVIOUS
  <2>2. Advances(h, k)
    BY <1>4, <2>1 DEF Account!UpdateOwner, Account!Goes, Advances, Works, Steps, Takes,
       Inserting, Removing
  <2>. QED
    BY <2>2
<1>5. CASE Account!UpdateOwners(h)
  <2>1. PICK k : k = [h EXCEPT !.step = IF Account!Event(h).kind = "monitor" THEN "repos"
             ELSE Account!AfterOwner(h.org)]
    OBVIOUS
  <2>2. Advances(h, k)
    BY <1>5, <2>1 DEF Account!UpdateOwners, Account!Goes, Advances, Works, Steps, Takes,
       Inserting, Removing, Account!AfterOwner
  <2>. QED
    BY <2>2
<1>6. CASE Account!UpdateMembers(h)
  <2>1. PICK k : k = [h EXCEPT !.step = "repos"]
    OBVIOUS
  <2>2. Advances(h, k)
    BY <1>6, <2>1 DEF Account!UpdateMembers, Account!Goes, Advances, Works, Steps, Takes,
       Inserting, Removing
  <2>. QED
    BY <2>2
<1>7. CASE Account!InsertOrUpdate(h)
  <2>1. PICK r \in h.repos :
           /\ lastId' = IF Account!Present(r) THEN lastId ELSE lastId + 1
           /\ Account!Goes(h, [h EXCEPT !.repos = @ \ {r}, !.ids = {Account!Stored(r, h).id},
                                !.step = IF Account!Event(h).kind = "monitor"
                                  THEN "monitor" ELSE "process"])
    BY <1>7 DEF Account!InsertOrUpdate
  <2>2. PICK k : k = [h EXCEPT !.repos = @ \ {r}, !.ids = {Account!Stored(r, h).id},
                                !.step = IF Account!Event(h).kind = "monitor"
                                  THEN "monitor" ELSE "process"]
    OBVIOUS
  <2>3. Account!Stored(r, h).id \in 1 .. lastId'
    BY <2>1 DEF Account!Stored, Account!Present, Values, StoreInv, OrgInv, DocsInv, Documents
  <2>4. k.n = h.n /\ k.act = h.act /\ k.org = h.org /\ k.ids = {Account!Stored(r, h).id}
        /\ k.repos = h.repos \ {r} /\ k.step = IF Account!Event(h).kind = "monitor"
           THEN "monitor" ELSE "process"
    BY <2>2 DEF Works
  <2>5. k = [n |-> h.n, act |-> h.act, step |-> k.step, repos |-> k.repos, org |-> h.org,
        ids |-> k.ids]
    BY <2>2, <2>4 DEF Works
  <2>6. k.ids \subseteq 1 .. lastId' /\ k.ids \subseteq Nat /\ k.repos \subseteq Repos
        /\ h.org.id <= lastId'
    BY <2>1, <2>3, <2>4 DEF Orgs
  <2>7. k \in Works
    BY <2>4, <2>5, <2>6 DEF Works, Steps
  <2>8. Takes(Account!Event(h).kind, k.step)
    BY <2>4, <1>7 DEF Account!InsertOrUpdate, Takes, Inserting, Removing
  <2>9. Advances(h, k)
    BY <2>1, <2>2, <2>4, <2>6, <2>7, <2>8 DEF Account!Goes, Advances
  <2>. QED
    BY <2>9
<1>8. CASE Account!InsertMonitor(h)
  <2>1. PICK k : k = [h EXCEPT !.step = "process"]
    OBVIOUS
  <2>2. inst_handlers' = (inst_handlers \ {h}) \cup {k} => Advances(h, k)
    BY <1>8, <2>1 DEF Account!InsertMonitor, Advances, Works, Steps, Takes, Inserting, Removing
  <2>. QED
    BY <1>8, <2>1, <2>2 DEF Account!InsertMonitor, Account!Goes
<1>9. CASE Account!ProcessRepository(h)
  <2>1. PICK k : k = [h EXCEPT !.step = "repos"]
    OBVIOUS
  <2>2. PICK k2 : k2 = [h EXCEPT !.step = "findAgain", !.org = Account!NoOrg]
    OBVIOUS
  <2>3. UNCHANGED lastId /\ Account!NoOrg \in Orgs /\ Account!NoOrg.id = 0
    BY <1>9 DEF Account!ProcessRepository, Account!database, Account!NoOrg, Orgs
  <2>4. Account!Goes(h, k) /\ Account!Event(h).kind = "add" => Advances(h, k)
    <3>1. k \in Works /\ k.step = "repos" /\ k.n = h.n /\ k.act = h.act /\ k.org = h.org
          /\ k.ids = h.ids
      BY <2>1 DEF Works, Steps
    <3>. QED
      BY <2>3, <3>1 DEF Account!Goes, Advances, Takes, Inserting
  <2>5. Account!Goes(h, k2) /\ Account!Event(h).kind = "push" => Advances(h, k2)
    <3>1. k2 \in Works /\ k2.step = "findAgain" /\ k2.n = h.n /\ k2.act = h.act
          /\ k2.org = Account!NoOrg
          /\ k2.ids = h.ids
      BY <2>2, <2>3 DEF Works, Steps
    <3>. QED
      BY <2>3, <3>1 DEF Account!Goes, Advances, Takes
  <2>. QED
    BY <1>9, <2>1, <2>2, <2>4, <2>5 DEF Account!ProcessRepository
<1>10. CASE Account!List(h)
  <2>1. PICK ids : /\ ids = {docs[r].id : r \in IF Account!Event(h).kind = "uninstall"
                      THEN Repos ELSE h.repos} \ {0}
                   /\ Account!Goes(h, [h EXCEPT !.step = "stop", !.ids = ids])
    BY <1>10 DEF Account!List
  <2>2. ids \subseteq 1 .. lastId
    BY <2>1 DEF Values, StoreInv, OrgInv, DocsInv, Documents
  <2>3. PICK k : k = [h EXCEPT !.step = "stop", !.ids = ids]
    OBVIOUS
  <2>4. Account!Goes(h, k) /\ UNCHANGED lastId
    BY <1>10, <2>1, <2>3 DEF Account!List, Account!database
  <2>5. k \in Works /\ k.step = "stop" /\ k.n = h.n /\ k.act = h.act /\ k.org = h.org
        /\ k.ids = ids
    <3>1. ids \in SUBSET Nat /\ "stop" \in Steps
      BY <2>2 DEF Steps
    <3>2. k.step = "stop" /\ k.n = h.n /\ k.act = h.act /\ k.org = h.org /\ k.ids = ids
          /\ k.repos = h.repos
      BY <2>3 DEF Works
    <3>3. k = [n |-> h.n, act |-> h.act, step |-> "stop", repos |-> h.repos, org |-> h.org,
          ids |-> ids]
      BY <2>3 DEF Works
    <3>4. h.n \in Nat /\ h.act \in Requests
      BY DEF Works
    <3>5. k \in Works
      BY <3>1, <3>3, <3>4 DEF Works
    <3>. QED
      BY <3>2, <3>5
  <2>6. Takes(Account!Event(h).kind, "stop")
    BY <1>10 DEF Account!List, Takes, Inserting, Removing
  <2>7. Advances(h, k)
    BY <2>2, <2>4, <2>5, <2>6 DEF Account!Goes, Advances
  <2>. QED
    BY <2>7
<1>11. CASE Account!Stop(h)
  <2>1. PICK id \in h.ids : Account!Goes(h, [h EXCEPT !.step = "deleteCommits",
             !.org = [Account!NoOrg EXCEPT !.id = id]])
    BY <1>11 DEF Account!Stop
  <2>2. PICK p : p = [Account!NoOrg EXCEPT !.id = id]
    OBVIOUS
  <2>3. p \in Orgs /\ p.id = id /\ UNCHANGED lastId
    <3>1. p = [id |-> id, inst |-> 0, jira |-> FALSE, slug |-> 0, members |-> FALSE]
      BY <2>2 DEF Account!NoOrg
    <3>2. UNCHANGED lastId
      BY <1>11 DEF Account!Stop, Account!database
    <3>. QED
      BY <3>1, <3>2 DEF Orgs
  <2>4. PICK k : k = [h EXCEPT !.step = "deleteCommits", !.org = p]
    OBVIOUS
  <2>5. k \in Works /\ k.step = "deleteCommits" /\ k.n = h.n /\ k.act = h.act /\ k.org = p
        /\ k.ids = h.ids
    BY <2>3, <2>4 DEF Works, Steps
  <2>6. Takes(Account!Event(h).kind, "deleteCommits")
    BY <1>11 DEF Account!Stop, Takes, Inserting, Removing
  <2>7. Account!Goes(h, k)
    BY <2>1, <2>2, <2>4
  <2>8. Advances(h, k)
    BY <2>3, <2>5, <2>6, <2>7 DEF Account!Goes, Advances
  <2>. QED
    BY <2>8
<1>12. CASE Account!DeleteRepoCommits(h)
  <2>1. PICK k : k = [h EXCEPT !.step = "delete"]
    OBVIOUS
  <2>2. Advances(h, k)
    BY <1>12, <2>1 DEF Account!DeleteRepoCommits, Account!Goes, Advances, Works, Steps,
       Takes, Inserting, Removing
  <2>. QED
    BY <2>2
<1>13. CASE Account!Delete(h)
  <2>1. PICK k : k = [h EXCEPT !.step = "stop", !.ids = @ \ {h.org.id}]
    OBVIOUS
  <2>2. Account!Goes(h, k) => Advances(h, k)
    BY <1>13, <2>1 DEF Account!Delete, Account!Goes, Advances, Works, Steps, Takes,
       Inserting, Removing
  <2>. QED
    BY <1>13, <2>1, <2>2 DEF Account!Delete
<1>14. CASE Account!Deleted(h)
  BY <1>14 DEF Account!Deleted
<1>. QED
  BY <1>1, <1>2, <1>3, <1>4, <1>5, <1>6, <1>7, <1>8, <1>9, <1>10, <1>11, <1>12, <1>13, <1>14
     DEF Account!Step

(* The documents' ids only grow, and those given out stay given out.       *)
LEMMA IdsGrow == StoreInv /\ [Account!Next]_(Account!vars) => lastId' \in {lastId, lastId + 1}
<1>. SUFFICES ASSUME StoreInv, [Account!Next]_(Account!vars)
                     PROVE lastId' \in {lastId, lastId + 1}
  OBVIOUS
<1>1. CASE Github
  BY <1>1 DEF Github, Account!Install, Account!Uninstall, Account!Rename, Account!Select,
     Account!Unselect, Account!Push, Account!Deliver, Account!database
<1>2. ASSUME NEW n \in inst_mail, Account!Handle(n) PROVE UNCHANGED lastId
  BY <1>2 DEF Account!Handle, Account!database
<1>3. ASSUME NEW h \in inst_handlers, Account!Fails(h) PROVE UNCHANGED lastId
  BY <1>3 DEF Account!Fails, Account!database
<1>4. ASSUME NEW h \in inst_handlers, Account!Step(h) PROVE lastId' \in {lastId, lastId + 1}
  BY <1>4 DEF Account!Step, Account!Find, Account!FindOrCreate, Account!UpdateOwner,
     Account!UpdateOwners, Account!UpdateMembers, Account!InsertOrUpdate,
              Account!InsertMonitor, Account!ProcessRepository, Account!List, Account!Stop,
              Account!DeleteRepoCommits, Account!Delete, Account!Deleted, Account!database
<1>5. CASE Account!Acting
  BY <1>5 DEF Account!Acting, Account!Monitor, Account!MonitorKnown,
     Account!StopRepositoryMonitoring, Account!AdminDeletes,
              Account!HandleOrganisationLinking, Account!DeleteIntegration,
              Account!LinkingCallback, Account!Expire, Account!database
<1>6. ASSUME NEW id \in inst_jobs \cup stopping, Account!Write(id) \/ Account!End(id)
             PROVE UNCHANGED lastId
  BY <1>6 DEF Account!Write, Account!End, Account!database
<1>7. CASE UNCHANGED Account!vars
  BY <1>7 DEF Account!vars, Account!database
<1>. QED
  BY <1>1, <1>2, <1>3, <1>4, <1>5, <1>6, <1>7 DEF Account!Next, Account!Handling, Github

(* Only GitHub sends.                                                      *)
LEMMA OthersLeave == [Account!Next]_(Account!vars) /\ ~Github =>
                     UNCHANGED Account!github /\ inst_mail' \subseteq inst_mail
<1>. SUFFICES ASSUME [Account!Next]_(Account!vars), ~Github
                     PROVE UNCHANGED Account!github /\ inst_mail' \subseteq inst_mail
  OBVIOUS
<1>1. ASSUME NEW n \in inst_mail, Account!Handle(n)
             PROVE UNCHANGED Account!github /\ inst_mail' \subseteq inst_mail
  BY <1>1 DEF Account!Handle
<1>2. ASSUME NEW h \in inst_handlers, Account!Step(h) \/ Account!Fails(h)
             PROVE UNCHANGED Account!github /\ inst_mail' \subseteq inst_mail
  BY <1>2 DEF Account!Fails, Account!Step, Account!Find, Account!FindOrCreate,
     Account!UpdateOwner, Account!UpdateOwners, Account!UpdateMembers,
     Account!InsertOrUpdate,
              Account!InsertMonitor, Account!ProcessRepository, Account!List, Account!Stop,
              Account!DeleteRepoCommits, Account!Delete, Account!Deleted
<1>3. CASE Account!Acting
  BY <1>3 DEF Account!Acting, Account!Monitor, Account!MonitorKnown,
     Account!StopRepositoryMonitoring, Account!AdminDeletes,
              Account!HandleOrganisationLinking, Account!DeleteIntegration,
              Account!LinkingCallback, Account!Expire
<1>4. ASSUME NEW id \in inst_jobs \cup stopping, Account!Write(id) \/ Account!End(id)
      PROVE  UNCHANGED Account!github /\ inst_mail' \subseteq inst_mail
  BY <1>4 DEF Account!Write, Account!End
<1>5. CASE UNCHANGED Account!vars
  BY <1>5 DEF Account!vars
<1>. QED
  BY <1>1, <1>2, <1>3, <1>4, <1>5 DEF Account!Next, Account!Handling, Github

(* GitHub's side stays right.                                              *)
LEMMA GithubKept == GithubInv /\ [Account!Next]_(Account!vars) => GithubInv'
BY GithubKeepsGithub, OthersLeave, OthersKeepGithub

(* What was sent stays sent.                                               *)
LEMMA SentStays ==
    GithubInv /\ [Account!Next]_(Account!vars) =>
        /\ DOMAIN inst_sent \subseteq DOMAIN inst_sent' /\ 0 \notin DOMAIN inst_sent
        /\ \A n \in DOMAIN inst_sent : inst_sent'[n] = inst_sent[n]
<1>. SUFFICES ASSUME GithubInv, [Account!Next]_(Account!vars)
              PROVE  /\ DOMAIN inst_sent \subseteq DOMAIN inst_sent'
                        /\ 0 \notin DOMAIN inst_sent
                     /\ \A n \in DOMAIN inst_sent : inst_sent'[n] = inst_sent[n]
  OBVIOUS
<1>1. CASE UNCHANGED inst_sent
  BY <1>1 DEF GithubInv
<1>2. CASE ~Github
  BY <1>1, <1>2, OthersLeave DEF Account!github
<1>3. CASE Github
  <2>1. CASE Account!Rename
    BY <1>1, <2>1 DEF Account!Rename
  <2>2. ASSUME NEW e \in AccountDeliveries, Sent(e)
        PROVE  /\ DOMAIN inst_sent \subseteq DOMAIN inst_sent' /\ 0 \notin DOMAIN inst_sent
               /\ \A n \in DOMAIN inst_sent : inst_sent'[n] = inst_sent[n]
    <3>1. Len(inst_sent) \in Nat /\ DOMAIN inst_sent = 1 .. Len(inst_sent)
          /\ DOMAIN inst_sent' = 1 .. Len(inst_sent') /\ Len(inst_sent') = Len(inst_sent) + 1
      BY <2>2 DEF Sent, AccountAdds, GithubInv
    <3>. QED
      BY <2>2, <3>1 DEF Sent, AccountAdds
  <2>. QED
    BY <1>3, <2>1, <2>2, GithubSends DEF Sends
<1>. QED
  BY <1>2, <1>3

(* Who enters finds room, who moves or leaves keeps the others' room.      *)
LEMMA RoomKept ==
    ASSUME HandlersInv, NEW h, NEW k,
           \/ inst_handlers' = inst_handlers \ {h}
           \/ h \in inst_handlers /\ inst_handlers' = (inst_handlers \ {h}) \cup {k}
           \/ inst_handlers' = inst_handlers \cup {k}
              /\ Cardinality(inst_handlers) < MaxHandlers
    PROVE  IsFiniteSet(inst_handlers') /\ Cardinality(inst_handlers') <= MaxHandlers
<1>. IsFiniteSet(inst_handlers) /\ Cardinality(inst_handlers) \in Nat /\ MaxHandlers \in Nat
     /\ Cardinality(inst_handlers) <= MaxHandlers
  BY FS_CardinalityType, InstallationsAssumed DEF HandlersInv, Account!InstallationsAssumption
<1>. PICK T : T = inst_handlers \ {h}
  OBVIOUS
<1>1. IsFiniteSet(T) /\ Cardinality(T) \in Nat
      /\ Cardinality(T) = IF h \in inst_handlers THEN Cardinality(inst_handlers) - 1
         ELSE Cardinality(inst_handlers)
  BY FS_RemoveElement, FS_CardinalityType
<1>2. CASE inst_handlers' = inst_handlers \ {h}
  BY <1>1, <1>2
<1>3. CASE h \in inst_handlers /\ inst_handlers' = (inst_handlers \ {h}) \cup {k}
  <2>1. IsFiniteSet(T \cup {k})
        /\ Cardinality(T \cup {k}) = IF k \in T THEN Cardinality(T) ELSE Cardinality(T) + 1
    BY <1>1, FS_AddElement
  <2>2. inst_handlers' = T \cup {k}
    BY <1>3
  <2>3. Cardinality(T \cup {k}) <= MaxHandlers
    BY <1>1, <1>3, <2>1
  <2>. QED
    BY <2>1, <2>2, <2>3
<1>4. CASE inst_handlers' = inst_handlers \cup {k} /\ Cardinality(inst_handlers) < MaxHandlers
  <2>1. IsFiniteSet(inst_handlers \cup {k})
        /\ Cardinality(inst_handlers \cup {k}) \in {Cardinality(inst_handlers),
           Cardinality(inst_handlers) + 1}
    BY FS_AddElement
  <2>2. Cardinality(inst_handlers \cup {k}) <= MaxHandlers
    BY <1>4, <2>1
  <2>. QED
    BY <1>4, <2>1, <2>2
<1>. QED
  BY <1>2, <1>3, <1>4

(* Who enters is at the first step of its event.                           *)
LEMMA EntersWell ==
    ASSUME Values, [Account!Next]_(Account!vars), NEW k, Account!Enters(k), Well(k)',
           calm' \in BOOLEAN PROVE HandlersInv'
<1>. GithubInv /\ StoreInv /\ HandlersInv
  BY DEF Values
<1>1. lastId' \in {lastId, lastId + 1} /\ lastId \in Nat
  BY IdsGrow DEF StoreInv, OrgInv, DocsInv
<1>2. \A h \in inst_handlers : Well(h)'
  BY <1>1, SentStays, WellStays DEF HandlersInv
<1>3. inst_handlers' = inst_handlers \cup {k} /\ Cardinality(inst_handlers) < MaxHandlers
  BY AccountCardinality DEF Account!Enters
<1>4. IsFiniteSet(inst_handlers') /\ Cardinality(inst_handlers') <= MaxHandlers
  BY <1>3, RoomKept
<1>5. overlap' \in BOOLEAN
  BY DEF Account!Enters
<1>6. \A h \in inst_handlers' : Well(h)'
  BY <1>2, <1>3
<1>. QED
  BY <1>4, <1>5, <1>6 DEF HandlersInv

(* Every handler stays at a step of its event.                             *)
LEMMA HandlersKept == Values /\ [Account!Next]_(Account!vars) => HandlersInv'
<1>. SUFFICES ASSUME Values, [Account!Next]_(Account!vars) PROVE HandlersInv'
  OBVIOUS
<1>. GithubInv /\ StoreInv /\ HandlersInv
  BY DEF Values
<1>1. lastId' \in {lastId, lastId + 1} /\ lastId \in Nat
  BY IdsGrow DEF StoreInv, OrgInv, DocsInv
<1>2. \A h \in inst_handlers : Well(h)' /\ Account!Event(h)' = Account!Event(h)
  BY <1>1, SentStays, WellStays DEF HandlersInv
<1>3. ASSUME UNCHANGED inst_handlers, calm' \in BOOLEAN, overlap' \in BOOLEAN PROVE HandlersInv'
  BY <1>2, <1>3 DEF HandlersInv
<1>4. CASE Github
  BY <1>3, <1>4, GithubSends DEF Sends, Account!history, HandlersInv
<1>5. ASSUME NEW n \in inst_mail, Account!Handle(n) PROVE HandlersInv'
  <2>1. n \in DOMAIN inst_sent /\ inst_sent[n] \in AccountDeliveries /\ n \in Nat \ {0}
        /\ inst_sent' = inst_sent
    BY <1>5 DEF GithubInv, Account!Handle, Account!github
  <2>2. PICK k : k = Account!Handler(n, Account!NoAct, Account!FirstStep(inst_sent[n].kind),
             inst_sent[n].repos, {})
    OBVIOUS
  <2>3. Account!NoOrg \in Orgs /\ Account!NoOrg.id = 0 /\ Account!NoAct \in Requests
    BY DEF Account!NoOrg, Orgs, Account!NoAct, Requests
  <2>4. Account!FirstStep(inst_sent[n].kind) \in Steps
        /\ Takes(inst_sent[n].kind, Account!FirstStep(inst_sent[n].kind))
        /\ inst_sent[n].repos \in SUBSET Repos
    BY <2>1 DEF Account!FirstStep, AccountDeliveries, Steps, Takes
  <2>5. k \in Works /\ k.n = n /\ k.step = Account!FirstStep(inst_sent[n].kind)
        /\ k.org = Account!NoOrg /\ k.ids = {}
    BY <2>1, <2>2, <2>3, <2>4 DEF Account!Handler, Works
  <2>6. Account!Event(k)' = inst_sent[n]
    BY <2>1, <2>5 DEF Account!Event
  <2>7. Well(k)'
    BY <1>1, <2>1, <2>3, <2>4, <2>5, <2>6 DEF Well
  <2>. QED
    BY <1>5, <2>2, <2>7, EntersWell DEF Account!Handle, HandlersInv
<1>6. ASSUME NEW h \in inst_handlers, Account!Step(h) \/ Account!Fails(h) PROVE HandlersInv'
  <2>1. calm' \in BOOLEAN /\ overlap' \in BOOLEAN
    BY <1>6 DEF HandlersInv, Account!history, Account!Fails, Account!Step, Account!Find,
       Account!FindOrCreate, Account!UpdateOwner, Account!UpdateOwners,
       Account!UpdateMembers,
              Account!InsertOrUpdate, Account!InsertMonitor, Account!ProcessRepository,
              Account!List, Account!Stop, Account!DeleteRepoCommits, Account!Delete,
              Account!Deleted
  <2>2. CASE Account!Leaves(h)
    BY <1>2, <2>1, <2>2, RoomKept DEF Account!Leaves, HandlersInv
  <2>3. ASSUME NEW k, Advances(h, k) PROVE HandlersInv'
    <3>1. Account!Event(k)' = Account!Event(h) /\ Well(k)'
      <4>1. Account!Event(k)' = Account!Event(h)' /\ Account!Event(h)' = Account!Event(h)
            /\ Well(h)'
        BY <1>2, <2>3 DEF Account!Event, Advances
      <4>. QED
        BY <4>1, <2>3 DEF Advances, Well
    <3>2. IsFiniteSet(inst_handlers') /\ Cardinality(inst_handlers') <= MaxHandlers
      BY <2>3, RoomKept DEF Advances
    <3>. QED
      BY <1>2, <2>1, <2>3, <3>1, <3>2 DEF HandlersInv, Advances
  <2>. QED
    BY <1>6, <2>2, <2>3, StepMoves
<1>7. ASSUME NEW u \in Users, NEW r \in Repos, Account!Monitor(u, r) PROVE HandlersInv'
  <2>1. PICK a : a = [kind |-> "monitor", inst |-> 0, slug |-> slug, repos |-> {r}, user |-> u]
    OBVIOUS
  <2>2. a \in Requests /\ a.kind = "monitor" /\ slug \in Nat
    BY <2>1 DEF Requests, GithubInv
  <2>3. PICK R : R = {r}
    OBVIOUS
  <2>4. PICK k : k = Account!Handler(0, a, "org", R, {})
    OBVIOUS
  <2>5. k \in Works /\ k.n = 0 /\ k.act = a /\ k.step = "org" /\ k.org = Account!NoOrg
        /\ k.ids = {} /\ Account!NoOrg.id = 0
    BY <2>2, <2>3, <2>4 DEF Account!Handler, Works, Account!NoOrg, Orgs, Steps
  <2>6. Account!Event(k)' = a
    BY <2>5 DEF Account!Event
  <2>7. Well(k)'
    BY <1>1, <2>2, <2>5, <2>6 DEF Well, Takes
  <2>8. Account!Enters(k) /\ calm' \in BOOLEAN
    BY <1>7, <2>1, <2>3, <2>4 DEF Account!Monitor, HandlersInv
  <2>. QED
    BY <2>7, <2>8, EntersWell
<1>8. ASSUME NEW r \in Repos, Account!AdminDeletes(r) PROVE HandlersInv'
  <2>1. PICK a : a = [Account!NoAct EXCEPT !.kind = "admin"]
    OBVIOUS
  <2>2. a \in Requests /\ a.kind = "admin"
    BY <2>1 DEF Requests, Account!NoAct
  <2>3. PICK ids : ids = {docs[r].id}
    OBVIOUS
  <2>4. docs[r].id \in 1 .. lastId /\ UNCHANGED lastId
    BY <1>8 DEF Account!AdminDeletes, Account!Present, StoreInv, OrgInv, DocsInv, Documents,
       Account!database
  <2>5. PICK k : k = Account!Handler(0, a, "stop", {}, ids)
    OBVIOUS
  <2>6. k \in Works /\ k.n = 0 /\ k.act = a /\ k.step = "stop" /\ k.org = Account!NoOrg
        /\ k.ids = ids /\ Account!NoOrg.id = 0
    BY <2>2, <2>3, <2>4, <2>5 DEF Account!Handler, Works, Account!NoOrg, Orgs, Steps
  <2>7. Account!Event(k)' = a
    BY <2>6 DEF Account!Event
  <2>8. Well(k)'
    BY <1>1, <2>2, <2>3, <2>4, <2>6, <2>7 DEF Well, Takes, Removing
  <2>9. Account!Enters(k) /\ calm' \in BOOLEAN
    BY <1>8, <2>1, <2>3, <2>5 DEF Account!AdminDeletes, HandlersInv
  <2>. QED
    BY <2>8, <2>9, EntersWell
<1>9. CASE \/ Account!HandleOrganisationLinking \/ Account!DeleteIntegration
           \/ \E id \in verifications : Account!LinkingCallback(id) \/ Account!Expire(id)
           \/ \E m \in monitors : Account!StopRepositoryMonitoring(m)
           \/ \E u \in Users : \E id \in Account!DocIds : Account!MonitorKnown(u, id)
           \/ \E id \in inst_jobs \cup stopping : Account!Write(id) \/ Account!End(id)
           \/ UNCHANGED Account!vars
  BY <1>3, <1>9 DEF Account!HandleOrganisationLinking, Account!DeleteIntegration,
     Account!LinkingCallback, Account!Expire, Account!MonitorKnown,
              Account!StopRepositoryMonitoring, Account!Write, Account!End, Account!history,
              Account!vars, HandlersInv
<1>. QED
  BY <1>4, <1>5, <1>6, <1>7, <1>8, <1>9 DEF Account!Next, Account!Handling, Account!Acting,
     Github

(* The database and the server have known ids.                             *)
LEMMA StoreStays ==
    ASSUME StoreInv, UNCHANGED <<org, docs, lastId>>, installs' \in Nat, installs <= installs',
           installs \in Nat
    PROVE  lastId' \in Nat /\ OrgInv' /\ DocsInv' /\ (SetsInv' => StoreInv')
BY DEF StoreInv, OrgInv, DocsInv, Orgs, Account!Present

(* The ids that sets hold were given out before.                           *)
LEMMA SetsStay ==
    ASSUME StoreInv, UNCHANGED <<monitors, repos_with_commits, inst_jobs, stopping,
           verifications, linked>>,
           lastId' \in {lastId, lastId + 1}
    PROVE  SetsInv'
BY DEF StoreInv, SetsInv

(* The document that is stored for a repository.                           *)
LEMMA StoredIs ==
    ASSUME Values, NEW h \in inst_handlers, NEW r \in Repos
    PROVE  /\ Account!Stored(r, h) \in Documents /\ Account!Stored(r, h).org = h.org.id
           /\ Account!Stored(r, h).id = IF Account!Present(r) THEN docs[r].id ELSE lastId + 1
           /\ Account!Stored(r, h).monitored = ((Account!Present(r) => docs[r].monitored)
              /\ Account!Event(h).kind = "monitor")
<1>. PICK d : d = Account!Stored(r, h)
  OBVIOUS
<1>1. docs[r] \in Documents /\ lastId \in Nat /\ h.org.id \in Nat /\ h.org.slug \in Nat
  BY EventIs DEF Values, StoreInv, DocsInv, HandlersInv, Orgs
<1>2. CASE Account!Present(r)
  <2>1. PICK b : b = (docs[r].monitored /\ Account!Event(h).kind = "monitor")
    OBVIOUS
  <2>2. b \in BOOLEAN
    BY <2>1
  <2>3. d = [docs[r] EXCEPT !.org = h.org.id, !.slug = h.org.slug, !.monitored = b]
    BY <1>2, <2>1 DEF Account!Stored
  <2>4. d \in Documents /\ d.org = h.org.id /\ d.id = docs[r].id /\ d.monitored = b
    BY <1>1, <2>2, <2>3 DEF Documents
  <2>. QED
    BY <1>2, <2>1, <2>4
<1>3. CASE ~Account!Present(r)
  <2>1. PICK b : b = (Account!Event(h).kind = "monitor")
    OBVIOUS
  <2>2. b \in BOOLEAN
    BY <2>1
  <2>3. d = [id |-> lastId + 1, org |-> h.org.id, slug |-> h.org.slug, monitored |-> b]
    BY <1>3, <2>1 DEF Account!Stored
  <2>4. d \in Documents /\ d.org = h.org.id /\ d.id = lastId + 1 /\ d.monitored = b
    BY <1>1, <2>2, <2>3 DEF Documents
  <2>. QED
    BY <1>3, <2>1, <2>4
<1>. QED
  BY <1>2, <1>3

(* Every step leaves documents with ids of their own.                      *)
LEMMA StoreKept == Values /\ [Account!Next]_(Account!vars) => StoreInv'
<1>. SUFFICES ASSUME Values, [Account!Next]_(Account!vars) PROVE StoreInv'
  OBVIOUS
<1>. GithubInv /\ StoreInv /\ HandlersInv
  BY DEF Values
<1>1. lastId' \in {lastId, lastId + 1} /\ lastId \in Nat /\ installs \in Nat
  BY IdsGrow DEF StoreInv, GithubInv
<1>2. CASE Github
  <2>1. UNCHANGED <<Account!database, Account!server, verifications, linked>>
        /\ installs' \in Nat /\ installs <= installs'
    BY <1>2, GithubSends DEF Sends, Account!acting, Account!history
  <2>. QED
    BY <1>1, <2>1, StoreStays, SetsStay DEF Account!database, Account!server
<1>3. CASE UNCHANGED <<org, docs, monitors, lastId, installs, verifications>> /\ SetsInv'
  BY <1>1, <1>3, StoreStays
<1>4. ASSUME NEW n \in inst_mail, Account!Handle(n) PROVE StoreInv'
  BY <1>1, <1>4, SetsStay, StoreStays DEF Account!Handle, Account!github, Account!database,
     Account!server, Account!acting
<1>5. ASSUME NEW h \in inst_handlers, Account!Fails(h) PROVE StoreInv'
  BY <1>1, <1>5, SetsStay, StoreStays DEF Account!Fails, Account!github, Account!database,
     Account!server, Account!acting
<1>6. ASSUME NEW h \in inst_handlers, Account!Step(h) PROVE StoreInv'
  <2>. /\ Well(h) /\ h \in Works /\ h.org \in Orgs /\ h.ids \subseteq 1 .. lastId
       /\ h.org.id <= lastId /\ h.org.id \in Nat /\ h.org.slug \in Nat
          /\ h.repos \subseteq Repos
    BY EventIs DEF HandlersInv, Well, Works, Orgs
  <2>1. CASE Account!Find(h)
    BY <1>1, <2>1, SetsStay, StoreStays DEF Account!Find, Account!github, Account!database,
       Account!server, Account!acting, Account!history
  <2>2. CASE Account!FindOrCreate(h)
    <3>1. UNCHANGED <<docs, monitors, repos_with_commits, inst_jobs, stopping, verifications,
          installs>>
          /\ org' = Account!FoundOrCreated(Account!Event(h))
             /\ (linked' = 0 \/ linked' = linked)
          /\ lastId' = IF org.id = 0 THEN lastId + 1 ELSE lastId
      BY <2>2 DEF Account!FindOrCreate, Account!github, Account!server, Account!acting
    <3>2. PICK e : e = Account!Event(h)
      OBVIOUS
    <3>3. e.inst \in 0 .. installs /\ e.slug \in Nat
      BY <1>1, <3>2, EventIs
    <3>4. org \in Orgs /\ org.id \in 0 .. lastId /\ org.inst \in 0 .. installs
      BY <1>1 DEF StoreInv, OrgInv, Orgs
    <3>5. CASE org.id = 0
      <4>1. org' = [id |-> lastId + 1, inst |-> e.inst, jira |-> FALSE, slug |-> e.slug,
            members |-> FALSE]
        BY <3>1, <3>2, <3>5 DEF Account!FoundOrCreated, Account!NoOrg
      <4>2. org' \in Orgs /\ org'.id = lastId + 1 /\ org'.inst <= installs
            /\ lastId' = lastId + 1
        BY <1>1, <3>1, <3>3, <3>5, <4>1, OrgIs
      <4>3. OrgInv'
        BY <1>1, <3>1, <4>2 DEF OrgInv
      <4>4. DocsInv'
        BY <1>1, <3>1, <4>2 DEF StoreInv, DocsInv, Documents, Account!Present
      <4>. QED
        BY <1>1, <3>1, <4>2, <4>3, <4>4 DEF StoreInv, SetsInv
    <3>6. CASE org.id # 0
      <4>1. (org' = org \/ org' = [org EXCEPT !.inst = e.inst, !.jira = FALSE])
            /\ lastId' = lastId
        BY <3>1, <3>2, <3>6 DEF Account!FoundOrCreated
      <4>2. org' \in Orgs /\ org'.id = org.id /\ org'.inst \in 0 .. installs
        <5>1. CASE org' = org
          BY <3>4, <5>1
        <5>2. CASE org' = [org EXCEPT !.inst = e.inst, !.jira = FALSE]
          <6>1. org' = [id |-> org.id, inst |-> e.inst, jira |-> FALSE, slug |-> org.slug,
                members |-> org.members]
            BY <3>4, <5>2 DEF Orgs
          <6>2. e.inst \in Nat /\ org.slug \in Nat /\ org.members \in BOOLEAN /\ org.id \in Nat
            BY <3>3, <3>4 DEF Orgs
          <6>. QED
            BY <3>3, <3>4, <6>1, <6>2 DEF Orgs
        <5>. QED
          BY <4>1, <5>1, <5>2
      <4>3. OrgInv'
        BY <1>1, <3>1, <3>4, <4>1, <4>2 DEF OrgInv
      <4>4. DocsInv'
        BY <1>1, <3>1, <4>1, <4>2 DEF StoreInv, DocsInv, Account!Present
      <4>. QED
        BY <1>1, <3>1, <4>1, <4>3, <4>4 DEF StoreInv, SetsInv
    <3>. QED
      BY <3>5, <3>6
  <2>3. CASE Account!UpdateOwner(h) \/ Account!UpdateMembers(h)
    <3>1. UNCHANGED <<docs, monitors, repos_with_commits, inst_jobs, stopping, verifications,
          installs, linked, lastId>>
          /\ org' \in {org, [org EXCEPT !.slug = h.org.slug], [org EXCEPT !.members = TRUE]}
      BY <2>3 DEF Account!UpdateOwner, Account!UpdateMembers, Account!github,
         Account!server, Account!acting, Account!history
    <3>2. org' \in Orgs /\ org'.id = org.id /\ org'.inst = org.inst
      BY <3>1 DEF StoreInv, OrgInv, Orgs
    <3>3. OrgInv' /\ DocsInv'
      BY <3>1, <3>2 DEF StoreInv, OrgInv, DocsInv, Account!Present
    <3>. QED
      BY <1>1, <3>1, <3>3, SetsStay DEF StoreInv
  <2>4. CASE Account!UpdateOwners(h)
    <3>1. UNCHANGED <<org, monitors, repos_with_commits, inst_jobs, stopping, verifications,
          installs, linked, lastId>>
          /\ docs' = [r \in Repos |-> IF Account!Present(r) /\ docs[r].org = h.org.id
                                       THEN [docs[r] EXCEPT !.slug = h.org.slug] ELSE docs[r]]
      BY <2>4 DEF Account!UpdateOwners, Account!github, Account!server, Account!acting,
         Account!history
    <3>2. ASSUME NEW r \in Repos
          PROVE  docs'[r] \in Documents /\ docs'[r].id = docs[r].id
                 /\ docs'[r].org = docs[r].org
      BY <3>1 DEF StoreInv, DocsInv, Documents
    <3>3. docs' \in [Repos -> Documents]
      BY <3>1, <3>2
    <3>4. OrgInv' /\ DocsInv'
      BY <3>1, <3>2, <3>3 DEF StoreInv, OrgInv, DocsInv, Account!Present
    <3>. QED
      BY <1>1, <3>1, <3>4, SetsStay DEF StoreInv
  <2>5. CASE Account!InsertOrUpdate(h)
    <3>1. PICK r \in Repos : /\ docs' = [docs EXCEPT ![r] = Account!Stored(r, h)]
                             /\ lastId' = IF Account!Present(r) THEN lastId ELSE lastId + 1
      BY <2>5 DEF Account!InsertOrUpdate
    <3>2. UNCHANGED <<org, monitors, repos_with_commits, inst_jobs, stopping, verifications,
          installs, linked>>
      BY <2>5 DEF Account!InsertOrUpdate, Account!github, Account!server, Account!acting,
         Account!history
    <3>3. PICK d : d = Account!Stored(r, h)
      OBVIOUS
    <3>4. docs[r] \in Documents /\ docs[r].id \in 0 .. lastId
      BY <1>1 DEF StoreInv, DocsInv, Documents
    <3>5. d \in Documents /\ d.org = h.org.id /\ d.id = IF Account!Present(r)
          THEN docs[r].id ELSE lastId + 1
      BY <3>3, StoredIs
    <3>6. docs' \in [Repos -> Documents] /\ docs'[r] = d
          /\ \A s \in Repos \ {r} : docs'[s] = docs[s]
      BY <3>1, <3>3, <3>5 DEF StoreInv, DocsInv
    <3>7. \A s \in Repos : docs'[s].id <= lastId' /\ docs'[s].org <= lastId'
      BY <1>1, <3>1, <3>4, <3>5, <3>6 DEF StoreInv, DocsInv, Documents
    <3>8. \A s, t \in Repos : docs'[s].id # 0 /\ docs'[s].id = docs'[t].id => s = t
      BY <1>1, <3>1, <3>4, <3>5, <3>6 DEF StoreInv, DocsInv, Documents, Account!Present
    <3>9. \A s \in Repos : org.id # 0 => docs'[s].id # org.id
      BY <1>1, <3>1, <3>4, <3>5, <3>6 DEF StoreInv, DocsInv, OrgInv, Orgs, Account!Present
    <3>10. OrgInv' /\ DocsInv'
      BY <1>1, <3>2, <3>6, <3>7, <3>8, <3>9 DEF StoreInv, OrgInv, DocsInv, Account!Present, Orgs
    <3>. QED
      BY <1>1, <3>2, <3>10, SetsStay DEF StoreInv
  <2>6. CASE Account!InsertMonitor(h)
    <3>1. UNCHANGED <<org, docs, repos_with_commits, inst_jobs, stopping, verifications,
          installs, linked, lastId>>
          /\ monitors' = monitors \cup {<<h.act.user, id>> : id \in h.ids}
      BY <2>6 DEF Account!InsertMonitor, Account!github, Account!server, Account!acting,
         Account!history
    <3>2. h.act.user \in Users
      <4>1. Account!Event(h).kind = "monitor"
        BY <2>6 DEF Account!InsertMonitor, Well, Takes, Inserting, Removing
      <4>2. h.n = 0 /\ h.act.kind = "monitor"
        BY <4>1, EventIs
      <4>. QED
        BY <4>2 DEF Works, Requests
    <3>3. monitors' \subseteq Users \X (1 .. lastId)
      BY <3>1, <3>2 DEF StoreInv, SetsInv
    <3>4. SetsInv'
      BY <3>1, <3>3 DEF StoreInv, SetsInv
    <3>. QED
      BY <1>1, <3>1, <3>4, StoreStays
  <2>7. CASE Account!ProcessRepository(h)
    <3>1. SetsInv'
      BY <2>7 DEF Account!ProcessRepository, Account!database, Account!acting, StoreInv, SetsInv
    <3>. QED
      BY <1>1, <2>7, <3>1, StoreStays DEF Account!ProcessRepository, Account!database,
         Account!github
  <2>8. CASE Account!List(h)
    BY <1>1, <2>8, SetsStay, StoreStays DEF Account!List, Account!github, Account!database,
       Account!server, Account!acting, Account!history
  <2>9. CASE Account!Stop(h)
    <3>1. SetsInv'
      BY <2>9 DEF Account!Stop, Account!StopRepository, Account!database, Account!acting,
         StoreInv, SetsInv
    <3>. QED
      BY <1>1, <2>9, <3>1, StoreStays DEF Account!Stop, Account!database, Account!github
  <2>10. CASE Account!DeleteRepoCommits(h)
    <3>1. SetsInv'
      BY <2>10 DEF Account!DeleteRepoCommits, Account!server, Account!acting,
         Account!history, StoreInv, SetsInv
    <3>. QED
      BY <1>1, <2>10, <3>1, StoreStays DEF Account!DeleteRepoCommits, Account!github
  <2>11. CASE Account!Delete(h)
    <3>1. UNCHANGED <<org, monitors, repos_with_commits, inst_jobs, stopping, verifications,
          installs, linked, lastId>>
          /\ docs' = [r \in Repos |-> IF docs[r].id = h.org.id THEN Account!NoDoc ELSE docs[r]]
      BY <2>11 DEF Account!Delete, Account!github, Account!server, Account!acting,
         Account!history
    <3>2. Account!NoDoc \in Documents /\ Account!NoDoc.id = 0 /\ Account!NoDoc.org = 0
      BY DEF Account!NoDoc, Documents
    <3>3. \A r \in Repos : docs'[r] \in {Account!NoDoc, docs[r]} /\ docs[r] \in Documents
      BY <3>1 DEF StoreInv, DocsInv
    <3>4. docs' \in [Repos -> Documents]
      BY <3>1, <3>2, <3>3
    <3>5. OrgInv' /\ DocsInv'
      BY <1>1, <3>1, <3>2, <3>3, <3>4 DEF StoreInv, OrgInv, DocsInv, Account!Present
    <3>. QED
      BY <1>1, <3>1, <3>5, SetsStay DEF StoreInv
  <2>12. CASE Account!Deleted(h)
    <3>1. UNCHANGED <<docs, monitors, repos_with_commits, inst_jobs, stopping, verifications,
          installs, linked, lastId>>
          /\ org' \in {org, Account!NoOrg}
      BY <2>12 DEF Account!Deleted, Account!github, Account!server, Account!acting,
         Account!history
    <3>2. Account!NoOrg \in Orgs /\ Account!NoOrg.id = 0 /\ Account!NoOrg.inst = 0
      BY DEF Account!NoOrg, Orgs
    <3>3. OrgInv' /\ DocsInv'
      BY <1>1, <3>1, <3>2 DEF StoreInv, OrgInv, DocsInv, Account!Present
    <3>. QED
      BY <1>1, <3>1, <3>3, SetsStay DEF StoreInv
  <2>. QED
    BY <1>6, <2>1, <2>2, <2>3, <2>4, <2>5, <2>6, <2>7, <2>8, <2>9, <2>10, <2>11, <2>12 DEF
       Account!Step
<1>7. CASE Account!Acting
  <2>1. ASSUME NEW m \in monitors, Account!StopRepositoryMonitoring(m) PROVE StoreInv'
    <3>1. SetsInv'
      BY <2>1 DEF Account!StopRepositoryMonitoring, Account!server, StoreInv, SetsInv
    <3>. QED
      BY <1>1, <2>1, <3>1, StoreStays DEF Account!StopRepositoryMonitoring, Account!github
  <2>2. ASSUME NEW u \in Users, NEW id \in Account!DocIds, Account!MonitorKnown(u, id)
               PROVE StoreInv'
    <3>1. <<u, id>> \in Users \X (1 .. lastId)
      BY IdsKnown
    <3>2. SetsInv'
      BY <2>2, <3>1 DEF Account!MonitorKnown, Account!server, Account!history, StoreInv, SetsInv
    <3>. QED
      BY <1>1, <2>2, <3>2, StoreStays DEF Account!MonitorKnown, Account!github
  <2>3. ASSUME NEW u \in Users, NEW r \in Repos, Account!Monitor(u, r) PROVE StoreInv'
    BY <1>1, <2>3, SetsStay, StoreStays DEF Account!Monitor, Account!github,
       Account!database, Account!server
  <2>4. ASSUME NEW r \in Repos, Account!AdminDeletes(r) PROVE StoreInv'
    BY <1>1, <2>4, SetsStay, StoreStays DEF Account!AdminDeletes, Account!github,
       Account!database, Account!server
  <2>5. CASE Account!HandleOrganisationLinking
    <3>1. org.id \in 1 .. lastId
      BY <2>5 DEF Account!HandleOrganisationLinking, StoreInv, OrgInv, Orgs
    <3>2. SetsInv'
      BY <2>5, <3>1 DEF Account!HandleOrganisationLinking, Account!database, Account!server,
         Account!history, StoreInv, SetsInv
    <3>. QED
      BY <1>1, <2>5, <3>2, StoreStays DEF Account!HandleOrganisationLinking, Account!github,
         Account!database
  <2>6. ASSUME NEW id \in verifications, Account!LinkingCallback(id) PROVE StoreInv'
    <3>1. UNCHANGED <<docs, monitors, repos_with_commits, inst_jobs, stopping, verifications,
          installs, lastId>>
          /\ org' \in {org, [org EXCEPT !.jira = TRUE]} /\ linked' \in {linked, id}
      BY <2>6 DEF Account!LinkingCallback, Account!github, Account!server
    <3>2. org' \in Orgs /\ org'.id = org.id /\ org'.inst = org.inst
      BY <3>1 DEF StoreInv, OrgInv, Orgs
    <3>3. OrgInv' /\ DocsInv'
      BY <3>1, <3>2 DEF StoreInv, OrgInv, DocsInv, Account!Present
    <3>. QED
      BY <1>1, <3>1, <3>3 DEF StoreInv, SetsInv
  <2>7. ASSUME NEW id \in verifications, Account!Expire(id) PROVE StoreInv'
    <3>1. SetsInv'
      BY <2>7 DEF Account!Expire, Account!database, Account!server, Account!history,
         StoreInv, SetsInv
    <3>. QED
      BY <1>1, <2>7, <3>1, StoreStays DEF Account!Expire, Account!github, Account!database
  <2>8. CASE Account!DeleteIntegration
    <3>1. UNCHANGED <<docs, monitors, repos_with_commits, inst_jobs, stopping, verifications,
          installs, lastId>>
          /\ org' = [org EXCEPT !.jira = FALSE] /\ linked' = 0
      BY <2>8 DEF Account!DeleteIntegration, Account!github, Account!server
    <3>2. org' \in Orgs /\ org'.id = org.id /\ org'.inst = org.inst
      BY <3>1 DEF StoreInv, OrgInv, Orgs
    <3>3. OrgInv' /\ DocsInv'
      BY <3>1, <3>2 DEF StoreInv, OrgInv, DocsInv, Account!Present
    <3>. QED
      BY <1>1, <3>1, <3>3 DEF StoreInv, SetsInv
  <2>. QED
    BY <1>7, <2>1, <2>2, <2>3, <2>4, <2>5, <2>6, <2>7, <2>8 DEF Account!Acting
<1>8. ASSUME NEW id \in inst_jobs \cup stopping, Account!Write(id) \/ Account!End(id)
             PROVE StoreInv'
  <2>1. SetsInv'
    BY <1>8 DEF Account!Write, Account!End, Account!database, Account!server,
       Account!acting, Account!history, StoreInv, SetsInv
  <2>. QED
    BY <1>1, <1>8, <2>1, StoreStays DEF Account!Write, Account!End, Account!github,
       Account!database
<1>9. CASE UNCHANGED Account!vars
  BY <1>1, <1>9, SetsStay, StoreStays DEF Account!vars, Account!github, Account!database,
     Account!server, Account!acting, Account!history
<1>. QED
  BY <1>2, <1>4, <1>5, <1>6, <1>7, <1>8, <1>9 DEF Account!Next, Account!Handling, Github

(* The handler h comes to k, at the given step.                            *)
At(h, k, step) ==
    /\ inst_handlers' = (inst_handlers \ {h}) \cup {k}
    /\ k.n = h.n /\ k.act = h.act /\ k.step = step

(* What each step makes of a handler, field by field.                      *)
LEMMA FindMoves ==
    ASSUME NEW h \in Works, Account!Find(h)
    PROVE  LET r == CHOOSE x \in Account!Event(h).repos : TRUE
           IN  \/ Account!Present(r) /\ \E k : /\ At(h, k, "process") /\ k.repos = h.repos
                                                  /\ k.org = h.org
                                               /\ k.ids = {docs[r].id}
               \/ ~Account!Present(r) /\ h.step = "find" /\ \E k : At(h, k, "org")
                  /\ k.repos = h.repos /\ k.org = h.org
               \/ ~Account!Present(r) /\ h.step = "findAgain" /\ Account!Leaves(h)
<1>. PICK r : r = CHOOSE x \in Account!Event(h).repos : TRUE
  OBVIOUS
<1>1. CASE Account!Present(r)
  <2>1. PICK k : k = [h EXCEPT !.step = "process", !.ids = {docs[r].id}]
    OBVIOUS
  <2>2. At(h, k, "process") /\ k.repos = h.repos /\ k.org = h.org /\ k.ids = {docs[r].id}
    BY <1>1, <2>1 DEF Account!Find, Account!Goes, At, Works
  <2>. QED
    BY <1>1, <2>2
<1>2. CASE ~Account!Present(r) /\ h.step = "find"
  <2>1. PICK k : k = [h EXCEPT !.step = "org"]
    OBVIOUS
  <2>2. At(h, k, "org") /\ k.repos = h.repos /\ k.org = h.org
    BY <1>2, <2>1 DEF Account!Find, Account!Goes, At, Works
  <2>. QED
    BY <1>2, <2>2
<1>3. CASE ~Account!Present(r) /\ h.step # "find"
  BY <1>3 DEF Account!Find
<1>. QED
  BY <1>1, <1>2, <1>3

(* FindOrCreate gives the handler the organization that is stored.         *)
LEMMA FindOrCreateMoves ==
    ASSUME Values, NEW h \in inst_handlers, Account!FindOrCreate(h)
    PROVE  /\ \E k, step : /\ At(h, k, step) /\ step \in Inserting /\ k.repos = h.repos
                              /\ k.ids = h.ids
                           /\ k.org.id = org'.id
           /\ org.id # 0 => org'.id = org.id /\ org'.inst \in {org.inst, Account!Event(h).inst}
           /\ Account!Event(h).inst # 0 => org'.inst = Account!Event(h).inst
           /\ org.id = 0 => org'.id = lastId + 1
           /\ org.id # 0 /\ Account!Event(h).inst = 0 => org' = org
<1>. PICK e : e = Account!Event(h)
  OBVIOUS
<1>1. org \in Orgs /\ h \in Works
  BY EventIs DEF Values, StoreInv, OrgInv, HandlersInv
<1>2. org' = Account!FoundOrCreated(e)
  BY DEF Account!FindOrCreate
<1>3. org.id = 0 => org' = [id |-> lastId + 1, inst |-> e.inst, jira |-> FALSE, slug |-> e.slug,
                            members |-> FALSE]
  BY <1>2 DEF Account!FoundOrCreated, Account!NoOrg
<1>4. org.id # 0 /\ e.inst # 0 => org' = [org EXCEPT !.inst = e.inst, !.jira = FALSE]
  BY <1>2 DEF Account!FoundOrCreated
<1>5. org.id # 0 /\ e.inst = 0 => org' = org
  BY <1>2 DEF Account!FoundOrCreated
<1>6. PICK p : p = [org' EXCEPT !.slug = e.slug]
  OBVIOUS
<1>7. org' \in [id : {org'.id}, inst : {org'.inst}, jira : {org'.jira}, slug : {org'.slug},
      members : {org'.members}]
  <2>1. CASE org.id = 0
    BY <1>3, <2>1
  <2>2. CASE org.id # 0 /\ e.inst # 0
    BY <1>1, <1>4, <2>2 DEF Orgs
  <2>3. CASE org.id # 0 /\ e.inst = 0
    BY <1>1, <1>5, <2>3 DEF Orgs
  <2>. QED
    BY <2>1, <2>2, <2>3
<1>8. p.id = org'.id
  BY <1>6, <1>7
<1>9. PICK step : step = IF org'.slug # e.slug THEN "owner"
                         ELSE IF e.kind = "monitor" THEN "repos" ELSE Account!AfterOwner(org')
  OBVIOUS
<1>10. step \in Inserting
  BY <1>9 DEF Inserting, Account!AfterOwner
<1>11. PICK k : k = [h EXCEPT !.org = p, !.step = step]
  OBVIOUS
<1>12. Account!Goes(h, k)
  BY <1>2, <1>6, <1>9, <1>11 DEF Account!FindOrCreate
<1>13. At(h, k, step) /\ k.repos = h.repos /\ k.ids = h.ids /\ k.org = p
  BY <1>1, <1>11, <1>12 DEF At, Account!Goes, Works
<1>14. org.id # 0 /\ e.inst # 0 => org'.id = org.id /\ org'.inst = e.inst
  BY <1>1, <1>4 DEF Orgs
<1>. QED
  BY <1>3, <1>5, <1>8, <1>10, <1>13, <1>14

(* Owner and members change; ids and monitoring stay.                      *)
LEMMA UpdateMoves ==
    ASSUME Values, NEW h \in inst_handlers, Account!UpdateOwner(h)
           \/ Account!UpdateOwners(h) \/ Account!UpdateMembers(h)
    PROVE  /\ \E k, step : /\ At(h, k, step) /\ step \in Inserting /\ k.repos = h.repos
                              /\ k.ids = h.ids
                           /\ k.org = h.org
           /\ org'.id = org.id /\ org'.inst = org.inst
           /\ \A r \in Repos : /\ docs'[r].id = docs[r].id /\ docs'[r].org = docs[r].org
                               /\ docs'[r].monitored = docs[r].monitored
<1>1. org \in Orgs /\ h \in Works /\ docs \in [Repos -> Documents]
  BY EventIs DEF Values, StoreInv, OrgInv, DocsInv, HandlersInv
<1>2. PICK step : /\ step \in {"owners", "repos", "members"}
                  /\ Account!Goes(h, [h EXCEPT !.step = step])
  BY DEF Account!UpdateOwner, Account!UpdateOwners, Account!UpdateMembers, Account!AfterOwner
<1>3. PICK k : k = [h EXCEPT !.step = step]
  OBVIOUS
<1>4. At(h, k, step) /\ step \in Inserting /\ k.repos = h.repos /\ k.ids = h.ids
      /\ k.org = h.org
  BY <1>1, <1>2, <1>3 DEF At, Account!Goes, Works, Inserting
<1>5. org'.id = org.id /\ org'.inst = org.inst
  BY <1>1 DEF Account!UpdateOwner, Account!UpdateOwners, Account!UpdateMembers, Orgs
<1>6. ASSUME NEW r \in Repos
      PROVE  docs'[r].id = docs[r].id /\ docs'[r].org = docs[r].org
             /\ docs'[r].monitored = docs[r].monitored
  <2>1. docs[r] \in Documents /\ (docs'[r] = docs[r]
        \/ docs'[r] = [docs[r] EXCEPT !.slug = h.org.slug])
    BY <1>1 DEF Account!UpdateOwner, Account!UpdateOwners, Account!UpdateMembers
  <2>. QED
    BY <2>1 DEF Documents
<1>. QED
  BY <1>4, <1>5, <1>6

(* One more repository is stored for the organization of the handler.      *)
LEMMA InsertMoves ==
    ASSUME Values, NEW h \in inst_handlers, Account!InsertOrUpdate(h)
    PROVE  \E r, k :
               /\ r \in h.repos
               /\ At(h, k, IF Account!Event(h).kind = "monitor" THEN "monitor" ELSE "process")
               /\ k.org = h.org /\ k.repos = h.repos \ {r} /\ k.ids = {docs'[r].id}
               /\ docs' \in [Repos -> Documents] /\ \A s \in Repos \ {r} : docs'[s] = docs[s]
               /\ docs'[r].org = h.org.id /\ docs'[r].id # 0
               /\ Account!Present(r) => docs'[r].id = docs[r].id
               /\ docs'[r].monitored = ((Account!Present(r) => docs[r].monitored)
                  /\ Account!Event(h).kind = "monitor")
               /\ r \in Repos
<1>1. h \in Works /\ docs \in [Repos -> Documents] /\ lastId \in Nat /\ h.org \in Orgs
      /\ h.repos \subseteq Repos
  BY EventIs DEF Values, StoreInv, DocsInv, HandlersInv
<1>2. PICK r \in h.repos :
         /\ docs' = [docs EXCEPT ![r] = Account!Stored(r, h)]
         /\ Account!Goes(h, [h EXCEPT !.repos = @ \ {r}, !.ids = {Account!Stored(r, h).id},
                              !.step = IF Account!Event(h).kind = "monitor" THEN "monitor"
                                ELSE "process"])
  BY DEF Account!InsertOrUpdate
<1>3. PICK d, step : d = Account!Stored(r, h)
           /\ step = IF Account!Event(h).kind = "monitor" THEN "monitor" ELSE "process"
  OBVIOUS
<1>4. PICK b : b = (Account!Event(h).kind = "monitor")
  OBVIOUS
<1>5. /\ d \in Documents /\ d.org = h.org.id /\ r \in Repos
      /\ d.id = IF Account!Present(r) THEN docs[r].id ELSE lastId + 1
  BY <1>1, <1>3, StoredIs
<1>6. d.monitored = ((Account!Present(r) => docs[r].monitored)
      /\ Account!Event(h).kind = "monitor")
  BY <1>1, <1>3, StoredIs
<1>7. docs' \in [Repos -> Documents] /\ docs'[r] = d
      /\ \A s \in Repos \ {r} : docs'[s] = docs[s]
  BY <1>1, <1>2, <1>3, <1>5
<1>8. d.id # 0 /\ (Account!Present(r) => d.id = docs[r].id)
  BY <1>1, <1>5 DEF Account!Present
<1>9. PICK ids, rest : ids = {d.id} /\ rest = h.repos \ {r}
  OBVIOUS
<1>10. PICK k : k = [h EXCEPT !.repos = rest, !.ids = ids, !.step = step]
  OBVIOUS
<1>11. At(h, k, step) /\ k.org = h.org /\ k.repos = rest /\ k.ids = ids
  BY <1>1, <1>2, <1>3, <1>9, <1>10 DEF At, Account!Goes, Works
<1>. QED
  BY <1>3, <1>5, <1>6, <1>7, <1>8, <1>9, <1>11

(* The handler goes on to the job or leaves.                               *)
LEMMA InsertMonitorMoves ==
    ASSUME NEW h \in Works, Account!InsertMonitor(h)
    PROVE  \/ Account!Leaves(h)
           \/ \E k : At(h, k, "process") /\ k.repos = h.repos /\ k.org = h.org /\ k.ids = h.ids
<1>. PICK k : k = [h EXCEPT !.step = "process"]
  OBVIOUS
<1>1. k.n = h.n /\ k.act = h.act /\ k.step = "process" /\ k.repos = h.repos /\ k.org = h.org
      /\ k.ids = h.ids
  BY DEF Works
<1>. QED
  BY <1>1 DEF Account!InsertMonitor, Account!Goes, At

(* After the job an addition goes on and a push looks again.               *)
LEMMA ProcessMoves ==
    ASSUME NEW h \in Works, Account!ProcessRepository(h)
    PROVE  \/ /\ h.repos # {} /\ Account!Event(h).kind = "add"
              /\ \E k : At(h, k, "repos") /\ k.repos = h.repos /\ k.org = h.org /\ k.ids = h.ids
           \/ /\ Account!Event(h).kind = "push" /\ h.org # Account!NoOrg
              /\ \E k : At(h, k, "findAgain") /\ k.org = Account!NoOrg
           \/ /\ ~(h.repos # {} /\ Account!Event(h).kind = "add") /\ Account!Leaves(h)
<1>. PICK k : k = [h EXCEPT !.step = "repos"]
  OBVIOUS
<1>. PICK k2 : k2 = [h EXCEPT !.step = "findAgain", !.org = Account!NoOrg]
  OBVIOUS
<1>1. k.n = h.n /\ k.act = h.act /\ k.step = "repos" /\ k.repos = h.repos /\ k.org = h.org
      /\ k.ids = h.ids
  BY DEF Works
<1>2. k2.n = h.n /\ k2.act = h.act /\ k2.step = "findAgain" /\ k2.org = Account!NoOrg
  BY DEF Works
<1>. QED
  BY <1>1, <1>2 DEF Account!ProcessRepository, Account!Goes, At

(* The list names the documents of the repositories of the event.          *)
LEMMA ListMoves ==
    ASSUME NEW h \in Works, Account!List(h)
    PROVE  \E k : /\ At(h, k, "stop") /\ k.repos = h.repos
                 /\ k.ids = {docs[r].id : r \in IF Account!Event(h).kind = "uninstall"
                    THEN Repos ELSE h.repos} \ {0}
<1>1. PICK ids : /\ ids = {docs[r].id : r \in IF Account!Event(h).kind = "uninstall"
                    THEN Repos ELSE h.repos} \ {0}
                 /\ Account!Goes(h, [h EXCEPT !.step = "stop", !.ids = ids])
  BY DEF Account!List
<1>2. PICK k : k = [h EXCEPT !.step = "stop", !.ids = ids]
  OBVIOUS
<1>3. k.n = h.n /\ k.act = h.act /\ k.step = "stop" /\ k.repos = h.repos /\ k.ids = ids
  BY <1>2 DEF Works
<1>. QED
  BY <1>1, <1>2, <1>3 DEF Account!Goes, At

(* One of the ids is taken in hand.                                        *)
LEMMA StopMoves ==
    ASSUME NEW h \in Works, Account!Stop(h)
    PROVE  \E id, k : /\ id \in h.ids
                       /\ At(h, k, "deleteCommits") /\ k.repos = h.repos /\ k.ids = h.ids
                       /\ k.org.id = id /\ Account!StopRepository(id)
<1>1. PICK id \in h.ids : /\ Account!StopRepository(id)
                          /\ Account!Goes(h,
                             [h EXCEPT !.step = "deleteCommits",
                               !.org = [Account!NoOrg EXCEPT !.id = id]])
  BY DEF Account!Stop
<1>2. PICK p : p = [Account!NoOrg EXCEPT !.id = id]
  OBVIOUS
<1>3. PICK k : k = [h EXCEPT !.step = "deleteCommits", !.org = p]
  OBVIOUS
<1>4. p.id = id
  BY <1>2 DEF Account!NoOrg
<1>5. k.n = h.n /\ k.act = h.act /\ k.step = "deleteCommits" /\ k.repos = h.repos
      /\ k.ids = h.ids /\ k.org = p
  BY <1>3 DEF Works
<1>. QED
  BY <1>1, <1>2, <1>3, <1>4, <1>5 DEF Account!Goes, At

(* The id in hand stays the same.                                          *)
LEMMA DeleteCommitsMoves ==
    ASSUME NEW h \in Works, Account!DeleteRepoCommits(h)
    PROVE  \E k : At(h, k, "delete") /\ k.repos = h.repos /\ k.org = h.org /\ k.ids = h.ids
<1>. PICK k : k = [h EXCEPT !.step = "delete"]
  OBVIOUS
<1>1. k.n = h.n /\ k.act = h.act /\ k.step = "delete" /\ k.repos = h.repos /\ k.org = h.org
      /\ k.ids = h.ids
  BY DEF Works
<1>. QED
  BY <1>1 DEF Account!DeleteRepoCommits, Account!Goes, At

(* The document in hand leaves, if it is still there.                      *)
LEMMA DeleteMoves ==
    ASSUME NEW h \in Works, Account!Delete(h)
    PROVE  \/ /\ h.org.id \in Account!DocIds
              /\ \E k : At(h, k, "stop") /\ k.repos = h.repos /\ k.ids = h.ids \ {h.org.id}
           \/ h.org.id \notin Account!DocIds /\ Account!Leaves(h)
<1>. PICK ids : ids = h.ids \ {h.org.id}
  OBVIOUS
<1>. PICK k : k = [h EXCEPT !.step = "stop", !.ids = ids]
  OBVIOUS
<1>1. k.n = h.n /\ k.act = h.act /\ k.step = "stop" /\ k.repos = h.repos /\ k.ids = ids
  BY DEF Works
<1>2. h.org.id \in Account!DocIds => inst_handlers' = (inst_handlers \ {h}) \cup {k}
  BY DEF Account!Delete, Account!Goes
<1>3. h.org.id \notin Account!DocIds => Account!Leaves(h)
  BY DEF Account!Delete
<1>. QED
  BY <1>1, <1>2, <1>3 DEF At

(* The event of a handler that moves, or that stays where it is.           *)
LEMMA EventsStay ==
    ASSUME Values, [Account!Next]_(Account!vars)
    PROVE  /\ \A h \in inst_handlers : Account!Event(h)' = Account!Event(h)
           /\ \A h \in inst_handlers : \A k : k.n = h.n /\ k.act = h.act =>
              Account!Event(k)' = Account!Event(h)
<1>1. ASSUME NEW h \in inst_handlers PROVE Account!Event(h)' = Account!Event(h)
  BY SentStays DEF Values, HandlersInv, Well, Account!Event, Works
<1>. QED
  BY <1>1 DEF Account!Event

(* A handler steps and the others stay: it is enough to look at the one    *)
(* that moved, while the organization is the same.                         *)
LEMMA OthersOwned ==
    ASSUME Values, [Account!Next]_(Account!vars), OwnedInv, ~overlap, NEW h \in inst_handlers,
           org'.id = org.id,
           Account!Leaves(h) \/ \E k, step : At(h, k, step) /\ Owned(k)',
           \A r \in Repos : docs'[r].id # 0 => docs'[r].org = org.id /\ org.id # 0
    PROVE  OwnedInv'
<1>1. ASSUME NEW o \in inst_handlers, o # h PROVE Owned(o)'
  <2>1. Owned(o) /\ Account!Event(o)' = Account!Event(o)
    BY EventsStay DEF OwnedInv
  <2>2. Account!Event(o).kind # "uninstall"
    BY <1>1, <2>1 DEF Owned
  <2>. QED
    BY <2>1, <2>2 DEF Owned
<1>. QED
  BY <1>1 DEF OwnedInv, Account!Present, Account!Leaves, At

(* Unless an uninstallation overlaps, the repositories are those of the    *)
(* organization, which is kept while somebody works with it.               *)
LEMMA OwnedKept == Values /\ OwnedInv /\ [Account!Next]_(Account!vars) => OwnedInv'
<1>. SUFFICES ASSUME Values, OwnedInv, [Account!Next]_(Account!vars), ~overlap' PROVE OwnedInv'
  BY DEF OwnedInv
<1>. GithubInv /\ StoreInv /\ HandlersInv
  BY DEF Values
<1>1. ASSUME ~overlap, UNCHANGED <<inst_handlers, docs>>, org'.id = org.id PROVE OwnedInv'
  <2>1. \A o \in inst_handlers : Owned(o)' /\ Account!Event(o)' = Account!Event(o)
    BY <1>1, EventsStay DEF OwnedInv, Owned, Account!DocIds
  <2>. QED
    BY <1>1, <2>1 DEF OwnedInv, Account!Present
<1>2. ASSUME NEW k, Account!Enters(k), UNCHANGED <<org, docs>>,
             k.step \in {"find", "org", "list"} \/
               (k.step = "stop" /\ Account!Event(k)'.kind # "uninstall"),
                 Account!Event(k)' = Account!Event(k)
      PROVE  OwnedInv'
  <2>1. ~overlap /\ inst_handlers' = inst_handlers \cup {k}
        /\ (inst_handlers # {} =>
           \A o \in inst_handlers \cup {k} : Account!Event(o).kind # "uninstall")
    BY <1>2 DEF Account!Enters
  <2>2. Owned(k)'
    BY <1>2, <2>1 DEF Owned, Inserting, Removing
  <2>3. \A o \in inst_handlers : Owned(o)'
    BY <1>2, <2>1, EventsStay DEF OwnedInv, Owned
  <2>. QED
    BY <1>2, <2>1, <2>2, <2>3 DEF OwnedInv, Account!Present
<1>3. CASE Github
  BY <1>1, <1>3, GithubSends DEF Sends, Account!database, Account!history
<1>4. ASSUME NEW n \in inst_mail, Account!Handle(n) PROVE OwnedInv'
  <2>1. PICK k : k = Account!Handler(n, Account!NoAct, Account!FirstStep(inst_sent[n].kind),
             inst_sent[n].repos, {})
    OBVIOUS
  <2>2. n \in DOMAIN inst_sent /\ inst_sent[n] \in AccountDeliveries
        /\ UNCHANGED <<inst_sent, org, docs>>
    BY <1>4 DEF GithubInv, Account!Handle, Account!github, Account!database
  <2>3. k.step \in {"find", "org", "list"} /\ k.n = n /\ k.act = Account!NoAct
    BY <2>1, <2>2 DEF Account!Handler, Account!FirstStep, AccountDeliveries
  <2>. QED
    BY <1>2, <1>4, <2>1, <2>2, <2>3 DEF Account!Handle, Account!Event
<1>5. ASSUME NEW u \in Users, NEW r \in Repos, Account!Monitor(u, r) PROVE OwnedInv'
  <2>1. PICK k : /\ k = Account!Handler(0, [kind |-> "monitor", inst |-> 0, slug |-> slug,
                    repos |-> {r}, user |-> u],
                              "org", {r}, {})
                 /\ Account!Enters(k)
    BY <1>5 DEF Account!Monitor
  <2>2. k.step = "org" /\ k.n = 0 /\ UNCHANGED <<org, docs>>
    BY <1>5, <2>1 DEF Account!Handler, Account!Monitor, Account!database
  <2>. QED
    BY <1>2, <2>1, <2>2 DEF Account!Event
<1>6. ASSUME NEW r \in Repos, Account!AdminDeletes(r) PROVE OwnedInv'
  <2>1. PICK a : a = [Account!NoAct EXCEPT !.kind = "admin"]
    OBVIOUS
  <2>2. PICK k : k = Account!Handler(0, a, "stop", {}, {docs[r].id}) /\ Account!Enters(k)
    BY <1>6, <2>1 DEF Account!AdminDeletes
  <2>3. k.step = "stop" /\ k.n = 0 /\ k.act = a /\ a.kind = "admin" /\ UNCHANGED <<org, docs>>
    BY <1>6, <2>1, <2>2 DEF Account!Handler, Account!AdminDeletes, Account!database,
       Account!NoAct
  <2>4. Account!Event(k)' = a /\ Account!Event(k) = a
    BY <2>3 DEF Account!Event
  <2>. QED
    BY <1>2, <2>2, <2>3, <2>4
<1>7. ASSUME NEW h \in inst_handlers, Account!Step(h) \/ Account!Fails(h) PROVE OwnedInv'
  <2>. /\ Well(h) /\ h \in Works /\ Takes(Account!Event(h).kind, h.step)
          /\ h.ids \subseteq Nat /\ h.repos \subseteq Repos
       /\ org \in Orgs /\ docs \in [Repos -> Documents]
    BY EventIs DEF HandlersInv, Well, StoreInv, OrgInv, DocsInv
  <2>1. ~overlap
    BY <1>7 DEF Account!history, Account!Fails, Account!Step, Account!Find,
       Account!FindOrCreate, Account!UpdateOwner, Account!UpdateOwners,
       Account!UpdateMembers,
              Account!InsertOrUpdate, Account!InsertMonitor, Account!ProcessRepository,
              Account!List, Account!Stop, Account!DeleteRepoCommits, Account!Delete,
              Account!Deleted
  <2>2. /\ \A r \in Repos : Account!Present(r) => docs[r].org = org.id /\ org.id # 0
        /\ \A o \in inst_handlers : Owned(o)
        /\ \A k : k.n = h.n /\ k.act = h.act => Account!Event(k)' = Account!Event(h)
    BY <2>1, EventsStay DEF OwnedInv
  <2>3. CASE Account!Fails(h)
    BY <2>1, <2>2, <2>3, OthersOwned DEF Account!Fails, Account!database, Account!Present
  <2>4. CASE Account!Find(h)
    <3>1. Account!Event(h).kind = "push" /\ UNCHANGED <<org, docs>>
      BY <2>4 DEF Account!Find, Takes, Inserting, Removing, Account!database
    <3>2. ASSUME NEW k, NEW step, At(h, k, step), step \in {"org", "process"} PROVE Owned(k)'
      BY <2>2, <3>1, <3>2 DEF Owned, At, Inserting
    <3>. QED
      BY <2>1, <2>2, <2>4, <3>1, <3>2, FindMoves, OthersOwned DEF Account!Present
  <2>5. CASE Account!FindOrCreate(h)
    <3>1. UNCHANGED docs /\ h.step = "org"
      BY <2>5 DEF Account!FindOrCreate
    <3>2. PICK k, step : /\ At(h, k, step) /\ step \in Inserting /\ k.org.id = org'.id
      BY <2>5, FindOrCreateMoves
    <3>3. Account!Event(h).kind # "uninstall" /\ Account!Event(k)' = Account!Event(h)
      BY <2>2, <3>1, <3>2 DEF Takes, At, Inserting, Removing
    <3>4. org'.id # 0 /\ (org.id # 0 => org'.id = org.id)
      BY <2>5, FindOrCreateMoves DEF StoreInv
    <3>5. Owned(k)'
      BY <3>2, <3>3, <3>4 DEF Owned
    <3>6. CASE org.id # 0
      BY <2>1, <2>2, <3>1, <3>2, <3>4, <3>5, <3>6, OthersOwned DEF Account!Present
    <3>7. CASE org.id = 0
      <4>1. \A r \in Repos : ~Account!Present(r)
        BY <2>2, <3>7
      <4>2. ASSUME NEW o \in inst_handlers, o # h PROVE Owned(o)'
        <5>1. Owned(o) /\ Account!Event(o)' = Account!Event(o)
          BY <2>2, EventsStay
        <5>2. Account!Event(o).kind # "uninstall"
          BY <4>2, <5>1 DEF Owned
        <5>. QED
          BY <3>7, <5>1, <5>2 DEF Owned
      <4>. QED
        BY <3>1, <3>2, <3>5, <4>1, <4>2 DEF OwnedInv, Account!Present, At
    <3>. QED
      BY <3>6, <3>7
  <2>6. CASE Account!UpdateOwner(h) \/ Account!UpdateOwners(h) \/ Account!UpdateMembers(h)
    <3>1. PICK k, step : At(h, k, step) /\ step \in Inserting /\ k.org = h.org
      BY <2>6, UpdateMoves
    <3>2. org'.id = org.id /\ \A r \in Repos : docs'[r].id = docs[r].id
          /\ docs'[r].org = docs[r].org
      BY <2>6, UpdateMoves
    <3>3. h.step \in Inserting
      BY <2>6 DEF Account!UpdateOwner, Account!UpdateOwners, Account!UpdateMembers, Inserting
    <3>4. Account!Event(h).kind # "uninstall" /\ Account!Event(k)' = Account!Event(h)
      BY <2>2, <3>1, <3>3 DEF Takes, At, Inserting, Removing
    <3>5. Owned(k)'
      BY <2>2, <3>1, <3>2, <3>3, <3>4 DEF Owned
    <3>. QED
      BY <2>1, <2>2, <3>1, <3>2, <3>5, OthersOwned DEF Account!Present
  <2>7. CASE Account!InsertOrUpdate(h)
    <3>1. PICK r, k :
             /\ r \in h.repos
             /\ At(h, k, IF Account!Event(h).kind = "monitor" THEN "monitor" ELSE "process")
             /\ k.org = h.org /\ r \in Repos
             /\ docs'[r].org = h.org.id /\ \A s \in Repos \ {r} : docs'[s] = docs[s]
      BY <2>7, InsertMoves
    <3>2. h.step \in Inserting /\ UNCHANGED org
      BY <2>7 DEF Account!InsertOrUpdate, Inserting
    <3>3. Account!Event(h).kind # "uninstall" /\ Account!Event(k)' = Account!Event(h)
      BY <2>2, <3>1, <3>2 DEF Takes, At, Inserting, Removing
    <3>4. h.org.id = org.id /\ org.id # 0
      BY <2>2, <3>2 DEF Owned
    <3>5. Owned(k)'
      BY <3>1, <3>2, <3>3, <3>4 DEF Owned
    <3>6. \A s \in Repos : docs'[s].id # 0 => docs'[s].org = org.id /\ org.id # 0
      BY <2>2, <3>1, <3>4 DEF Account!Present
    <3>. QED
      BY <2>1, <3>1, <3>2, <3>5, <3>6, OthersOwned
  <2>8. CASE Account!InsertMonitor(h)
    <3>1. Account!Event(h).kind = "monitor" /\ UNCHANGED <<org, docs>>
      BY <2>8 DEF Account!InsertMonitor, Takes, Inserting, Removing
    <3>2. ASSUME NEW k, At(h, k, "process") PROVE Owned(k)'
      BY <2>2, <3>1, <3>2 DEF Owned, At, Inserting
    <3>. QED
      BY <2>1, <2>2, <2>8, <3>1, <3>2, InsertMonitorMoves, OthersOwned DEF Account!Present
  <2>9. CASE Account!ProcessRepository(h)
    <3>1. UNCHANGED <<org, docs>> /\ h.step = "process"
      BY <2>9 DEF Account!ProcessRepository, Account!database
    <3>2. ASSUME NEW k, At(h, k, "repos"), k.org = h.org, Account!Event(h).kind = "add"
                 PROVE Owned(k)'
      BY <2>2, <3>1, <3>2 DEF Owned, At, Inserting
    <3>3. ASSUME NEW k, At(h, k, "findAgain"), Account!Event(h).kind = "push" PROVE Owned(k)'
      BY <2>2, <3>3 DEF Owned, At, Inserting
    <3>. QED
      BY <2>1, <2>2, <2>9, <3>1, <3>2, <3>3, ProcessMoves, OthersOwned DEF Account!Present
  <2>10. CASE Account!List(h)
    <3>1. PICK k : /\ At(h, k, "stop")
                   /\ k.ids = {docs[r].id : r \in IF Account!Event(h).kind = "uninstall"
                      THEN Repos ELSE h.repos} \ {0}
      BY <2>10, ListMoves
    <3>2. UNCHANGED <<org, docs>>
      BY <2>10 DEF Account!List, Account!database
    <3>3. Account!Event(h).kind = "uninstall" =>
          Account!DocIds \subseteq k.ids /\ Account!DocIds' = Account!DocIds
      BY <3>1, <3>2 DEF Account!DocIds
    <3>4. Owned(k)'
      BY <2>2, <3>1, <3>3 DEF Owned, At, Inserting
    <3>. QED
      BY <2>1, <2>2, <3>1, <3>2, <3>4, OthersOwned DEF Account!Present
  <2>11. CASE Account!Stop(h) \/ Account!DeleteRepoCommits(h)
    <3>1. PICK k, step : At(h, k, step) /\ step \in {"deleteCommits", "delete"} /\ k.ids = h.ids
      BY <2>11, StopMoves, DeleteCommitsMoves
    <3>2. UNCHANGED <<org, docs>> /\ h.step \in Removing /\ Account!DocIds' = Account!DocIds
      BY <2>11 DEF Account!Stop, Account!DeleteRepoCommits, Account!database, Removing,
         Account!DocIds
    <3>3. Owned(k)'
      BY <2>2, <3>1, <3>2 DEF Owned, At, Inserting
    <3>. QED
      BY <2>1, <2>2, <3>1, <3>2, <3>3, OthersOwned DEF Account!Present
  <2>12. CASE Account!Delete(h)
    <3>1. docs' = [r \in Repos |-> IF docs[r].id = h.org.id THEN Account!NoDoc ELSE docs[r]]
          /\ UNCHANGED org
          /\ h.step \in Removing
      BY <2>12 DEF Account!Delete, Removing
    <3>2. \A r \in Repos : docs'[r].id # 0 => docs'[r] = docs[r] /\ docs[r].id # h.org.id
      BY <3>1 DEF Account!NoDoc
    <3>3. Account!DocIds' \subseteq Account!DocIds \ {h.org.id}
      BY <3>2 DEF Account!DocIds
    <3>4. ASSUME NEW k, At(h, k, "stop"), k.ids = h.ids \ {h.org.id} PROVE Owned(k)'
      BY <2>2, <3>1, <3>3, <3>4 DEF Owned, At, Inserting
    <3>. QED
      BY <2>1, <2>2, <2>12, <3>1, <3>2, <3>4, DeleteMoves, OthersOwned DEF Account!Present
  <2>13. CASE Account!Deleted(h)
    <3>1. UNCHANGED docs /\ Account!Leaves(h) /\ h.step = "stop" /\ h.ids = {}
          /\ org' = IF Account!Event(h).kind = "uninstall" THEN Account!NoOrg ELSE org
      BY <2>13 DEF Account!Deleted
    <3>2. CASE Account!Event(h).kind = "uninstall"
      <4>1. inst_handlers' = {} /\ Account!DocIds = {}
        BY <2>2, <3>1, <3>2 DEF Owned, Account!Leaves, Removing
      <4>2. \A r \in Repos : docs[r].id = 0
        BY <4>1 DEF Account!DocIds
      <4>. QED
        BY <3>1, <4>1, <4>2 DEF OwnedInv, Account!Present
    <3>3. CASE Account!Event(h).kind # "uninstall"
      BY <2>1, <2>2, <3>1, <3>3, OthersOwned DEF Account!Present
    <3>. QED
      BY <3>2, <3>3
  <2>. QED
    BY <1>7, <2>3, <2>4, <2>5, <2>6, <2>7, <2>8, <2>9, <2>10, <2>11, <2>12, <2>13 DEF
       Account!Step
<1>8. CASE \/ Account!HandleOrganisationLinking \/ Account!DeleteIntegration
           \/ \E id \in verifications : Account!LinkingCallback(id) \/ Account!Expire(id)
           \/ \E m \in monitors : Account!StopRepositoryMonitoring(m)
           \/ \E u \in Users : \E id \in Account!DocIds : Account!MonitorKnown(u, id)
           \/ \E id \in inst_jobs \cup stopping : Account!Write(id) \/ Account!End(id)
           \/ UNCHANGED Account!vars
  <2>1. ~overlap /\ UNCHANGED <<inst_handlers, docs>>
    BY <1>8 DEF Account!HandleOrganisationLinking, Account!DeleteIntegration,
       Account!LinkingCallback, Account!Expire, Account!MonitorKnown,
              Account!StopRepositoryMonitoring, Account!Write, Account!End, Account!history,
              Account!vars, Account!database
  <2>2. org' = org \/ org' = [org EXCEPT !.jira = TRUE] \/ org' = [org EXCEPT !.jira = FALSE]
    BY <1>8 DEF Account!HandleOrganisationLinking, Account!DeleteIntegration,
       Account!LinkingCallback, Account!Expire, Account!MonitorKnown,
              Account!StopRepositoryMonitoring, Account!Write, Account!End, Account!vars,
              Account!database
  <2>3. org'.id = org.id
    BY <2>2 DEF StoreInv, OrgInv, Orgs
  <2>. QED
    BY <1>1, <2>1, <2>3
<1>. QED
  BY <1>3, <1>4, <1>5, <1>6, <1>7, <1>8 DEF Account!Next, Account!Handling, Account!Acting,
     Github

(* No deletion of a repository begins, and no process and no commits.      *)
LEMMA LateStays ==
    ASSUME LateInv, UNCHANGED <<repos_with_commits, inst_jobs, stopping, written_late>>,
           Account!DocIds \subseteq Account!DocIds',
           \A k \in inst_handlers' : k \in inst_handlers
             \/ k.step \notin {"deleteCommits", "delete"}
    PROVE  LateInv'
BY DEF LateInv, Parting

(* What a repository that was deleted leaves behind is written late.       *)
LEMMA LateKept == Values /\ LateInv /\ [Account!Next]_(Account!vars) => LateInv'
<1>. SUFFICES ASSUME Values, LateInv, [Account!Next]_(Account!vars) PROVE LateInv'
  OBVIOUS
<1>. GithubInv /\ StoreInv /\ HandlersInv
  BY DEF Values
<1>1. ASSUME UNCHANGED <<docs, inst_handlers, repos_with_commits, inst_jobs, stopping,
             written_late>> PROVE LateInv'
  BY <1>1, LateStays DEF Account!DocIds
<1>2. ASSUME NEW k, Account!Enters(k), k.step \notin {"deleteCommits", "delete"},
             UNCHANGED <<docs, repos_with_commits, inst_jobs, stopping, written_late>>
      PROVE  LateInv'
  BY <1>2, LateStays DEF Account!Enters, Account!DocIds
<1>3. CASE Github
  BY <1>1, <1>3, GithubSends DEF Sends, Account!database, Account!server, Account!history
<1>4. ASSUME NEW n \in inst_mail, Account!Handle(n) PROVE LateInv'
  <2>1. PICK k : k = Account!Handler(n, Account!NoAct, Account!FirstStep(inst_sent[n].kind),
             inst_sent[n].repos, {})
    OBVIOUS
  <2>2. inst_sent[n] \in AccountDeliveries
    BY DEF GithubInv
  <2>3. k.step \in {"find", "org", "list"}
    BY <2>1, <2>2 DEF Account!Handler, Account!FirstStep, AccountDeliveries
  <2>. QED
    BY <1>2, <1>4, <2>1, <2>3 DEF Account!Handle, Account!database, Account!server
<1>5. ASSUME NEW u \in Users, NEW r \in Repos, Account!Monitor(u, r) PROVE LateInv'
  <2>1. PICK k : /\ k = Account!Handler(0, [kind |-> "monitor", inst |-> 0, slug |-> slug,
                    repos |-> {r}, user |-> u],
                              "org", {r}, {})
                 /\ Account!Enters(k)
    BY <1>5 DEF Account!Monitor
  <2>2. k.step = "org"
    BY <2>1 DEF Account!Handler
  <2>. QED
    BY <1>2, <1>5, <2>1, <2>2 DEF Account!Monitor, Account!database, Account!server
<1>6. ASSUME NEW r \in Repos, Account!AdminDeletes(r) PROVE LateInv'
  <2>1. PICK k : k = Account!Handler(0, [Account!NoAct EXCEPT !.kind = "admin"], "stop", {},
             {docs[r].id}) /\ Account!Enters(k)
    BY <1>6 DEF Account!AdminDeletes
  <2>2. k.step = "stop"
    BY <2>1 DEF Account!Handler
  <2>. QED
    BY <1>2, <1>6, <2>1, <2>2 DEF Account!AdminDeletes, Account!database, Account!server
<1>7. ASSUME NEW h \in inst_handlers, Account!Step(h) \/ Account!Fails(h) PROVE LateInv'
  <2>. h \in Works /\ h.repos \subseteq Repos /\ docs \in [Repos -> Documents]
    BY EventIs DEF HandlersInv, StoreInv, DocsInv
  <2>1. CASE Account!Fails(h)
    BY <2>1, LateStays DEF Account!Fails, Account!database, Account!server, Account!DocIds,
       Account!Leaves
  <2>2. CASE Account!Find(h)
    <3>1. UNCHANGED <<docs, repos_with_commits, inst_jobs, stopping, written_late>>
      BY <2>2 DEF Account!Find, Account!database, Account!server, Account!history
    <3>2. \A k \in inst_handlers' : k \in inst_handlers
          \/ k.step \notin {"deleteCommits", "delete"}
      BY <2>2, FindMoves DEF At, Account!Leaves
    <3>. QED
      BY <3>1, <3>2, LateStays DEF Account!DocIds
  <2>3. CASE Account!FindOrCreate(h)
    <3>1. UNCHANGED <<docs, repos_with_commits, inst_jobs, stopping, written_late>>
      BY <2>3 DEF Account!FindOrCreate, Account!server
    <3>2. PICK k, step : At(h, k, step) /\ step \in Inserting
      BY <2>3, FindOrCreateMoves
    <3>3. \A o \in inst_handlers' : o \in inst_handlers
          \/ o.step \notin {"deleteCommits", "delete"}
      BY <3>2 DEF At, Inserting
    <3>. QED
      BY <3>1, <3>3, LateStays DEF Account!DocIds
  <2>4. CASE Account!UpdateOwner(h) \/ Account!UpdateOwners(h) \/ Account!UpdateMembers(h)
    <3>1. UNCHANGED <<repos_with_commits, inst_jobs, stopping, written_late>>
      BY <2>4 DEF Account!UpdateOwner, Account!UpdateOwners, Account!UpdateMembers,
         Account!server, Account!history
    <3>2. Account!DocIds \subseteq Account!DocIds'
      BY <2>4, UpdateMoves DEF Account!DocIds
    <3>3. PICK k, step : At(h, k, step) /\ step \in Inserting
      BY <2>4, UpdateMoves
    <3>4. \A o \in inst_handlers' : o \in inst_handlers
          \/ o.step \notin {"deleteCommits", "delete"}
      BY <3>3 DEF At, Inserting
    <3>. QED
      BY <3>1, <3>2, <3>4, LateStays
  <2>5. CASE Account!InsertOrUpdate(h)
    <3>1. UNCHANGED <<repos_with_commits, inst_jobs, stopping, written_late>>
      BY <2>5 DEF Account!InsertOrUpdate, Account!server, Account!history
    <3>2. PICK r, k :
             /\ r \in h.repos
             /\ At(h, k, IF Account!Event(h).kind = "monitor" THEN "monitor" ELSE "process")
             /\ docs' \in [Repos -> Documents] /\ \A s \in Repos \ {r} : docs'[s] = docs[s]
             /\ Account!Present(r) => docs'[r].id = docs[r].id
             /\ r \in Repos
      BY <2>5, InsertMoves
    <3>3. ASSUME NEW s \in Repos, Account!Present(s) PROVE docs'[s].id = docs[s].id
      BY <3>2, <3>3
    <3>4. Account!DocIds \subseteq Account!DocIds'
      BY <3>3 DEF Account!DocIds, Account!Present
    <3>5. \A o \in inst_handlers' : o \in inst_handlers
          \/ o.step \notin {"deleteCommits", "delete"}
      BY <3>2 DEF At
    <3>. QED
      BY <3>1, <3>4, <3>5, LateStays
  <2>6. CASE Account!InsertMonitor(h)
    <3>1. UNCHANGED <<docs, repos_with_commits, inst_jobs, stopping, written_late>>
      BY <2>6 DEF Account!InsertMonitor, Account!server, Account!history
    <3>2. \A k \in inst_handlers' : k \in inst_handlers
          \/ k.step \notin {"deleteCommits", "delete"}
      BY <2>6, InsertMonitorMoves DEF At, Account!Leaves
    <3>. QED
      BY <3>1, <3>2, LateStays DEF Account!DocIds
  <2>7. CASE Account!ProcessRepository(h)
    <3>1. /\ UNCHANGED <<docs, repos_with_commits, stopping>>
             /\ inst_jobs' = inst_jobs \cup h.ids
          /\ written_late' = written_late \cup (h.ids \ (Account!DocIds \ Account!Deleting))
             /\ Account!DocIds' = Account!DocIds
      BY <2>7 DEF Account!ProcessRepository, Account!database, Account!DocIds
    <3>2. \A k \in inst_handlers' : k \in inst_handlers
          \/ k.step \notin {"deleteCommits", "delete"}
      BY <2>7, ProcessMoves DEF At, Account!Leaves
    <3>3. \A o \in inst_handlers : o.step \in {"deleteCommits", "delete"} =>
          o.org.id \in Account!Deleting
      BY DEF Account!Deleting
    <3>. QED
      BY <3>1, <3>2, <3>3 DEF LateInv, Parting
  <2>8. CASE Account!List(h)
    <3>1. UNCHANGED <<docs, repos_with_commits, inst_jobs, stopping, written_late>>
      BY <2>8 DEF Account!List, Account!database, Account!server, Account!history
    <3>2. \A k \in inst_handlers' : k \in inst_handlers
          \/ k.step \notin {"deleteCommits", "delete"}
      BY <2>8, ListMoves DEF At
    <3>. QED
      BY <3>1, <3>2, LateStays DEF Account!DocIds
  <2>9. CASE Account!Stop(h)
    <3>1. PICK id, k : /\ id \in h.ids /\ At(h, k, "deleteCommits")
                        /\ k.org.id = id /\ Account!StopRepository(id)
      BY <2>9, StopMoves
    <3>2. UNCHANGED <<docs, repos_with_commits>> /\ Account!DocIds' = Account!DocIds
      BY <2>9 DEF Account!Stop, Account!database, Account!DocIds
    <3>. QED
      BY <3>1, <3>2 DEF LateInv, Parting, At, Account!StopRepository
  <2>10. CASE Account!DeleteRepoCommits(h)
    <3>1. PICK k : At(h, k, "delete") /\ k.org = h.org
      BY <2>10, DeleteCommitsMoves
    <3>2. UNCHANGED <<docs, inst_jobs, stopping, written_late>>
          /\ Account!DocIds' = Account!DocIds
             /\ repos_with_commits' = repos_with_commits \ {h.org.id}
          /\ h.step = "deleteCommits"
      BY <2>10 DEF Account!DeleteRepoCommits, Account!server, Account!history, Account!DocIds
    <3>. QED
      BY <3>1, <3>2 DEF LateInv, Parting, At
  <2>11. CASE Account!Delete(h)
    <3>1. docs' = [r \in Repos |-> IF docs[r].id = h.org.id THEN Account!NoDoc ELSE docs[r]]
          /\ UNCHANGED <<repos_with_commits, inst_jobs, stopping, written_late>>
             /\ h.step = "delete"
      BY <2>11 DEF Account!Delete, Account!server, Account!history
    <3>2. Account!DocIds \subseteq Account!DocIds' \cup {h.org.id}
      BY <3>1 DEF Account!DocIds
    <3>3. \A k \in inst_handlers' : k \in inst_handlers
          \/ k.step \notin {"deleteCommits", "delete"}
      BY <2>11, DeleteMoves DEF At, Account!Leaves
    <3>. QED
      BY <3>1, <3>2, <3>3 DEF LateInv, Parting
  <2>12. CASE Account!Deleted(h)
    BY <2>12, LateStays DEF Account!Deleted, Account!server, Account!history,
       Account!DocIds, Account!Leaves
  <2>. QED
    BY <1>7, <2>1, <2>2, <2>3, <2>4, <2>5, <2>6, <2>7, <2>8, <2>9, <2>10, <2>11, <2>12 DEF
       Account!Step
<1>8. ASSUME NEW id \in inst_jobs \cup stopping, Account!Write(id) \/ Account!End(id)
             PROVE LateInv'
  <2>1. UNCHANGED <<docs, inst_handlers, written_late>> /\ Account!DocIds' = Account!DocIds
    BY <1>8 DEF Account!Write, Account!End, Account!database, Account!history, Account!DocIds
  <2>2. /\ repos_with_commits' \subseteq repos_with_commits \cup {id}
        /\ inst_jobs' \subseteq inst_jobs /\ stopping' \subseteq stopping
    BY <1>8 DEF Account!Write, Account!End, Account!server, Account!database
  <2>. QED
    BY <2>1, <2>2 DEF LateInv, Parting
<1>9. CASE \/ Account!HandleOrganisationLinking \/ Account!DeleteIntegration
           \/ \E id \in verifications : Account!LinkingCallback(id) \/ Account!Expire(id)
           \/ \E m \in monitors : Account!StopRepositoryMonitoring(m)
           \/ \E u \in Users : \E id \in Account!DocIds : Account!MonitorKnown(u, id)
           \/ UNCHANGED Account!vars
  BY <1>1, <1>9 DEF Account!HandleOrganisationLinking, Account!DeleteIntegration,
     Account!LinkingCallback, Account!Expire, Account!MonitorKnown,
              Account!StopRepositoryMonitoring, Account!history, Account!vars,
              Account!database, Account!server
<1>. QED
  BY <1>3, <1>4, <1>5, <1>6, <1>7, <1>8, <1>9 DEF Account!Next, Account!Handling,
     Account!Acting, Github

(* Who reads a repository in monitor mode, as long as it has an id.        *)
Read(id) ==
    \/ \E m \in monitors : m[2] = id
    \/ id \in unread
    \/ \E h \in inst_handlers : h.step = "monitor" /\ id \in h.ids

(* Whoever is about to enter a monitor stays, the monitors stay.           *)
LEMMA ReadStays ==
    ASSUME monitors \subseteq monitors', unread \subseteq unread',
           \A h \in inst_handlers : h.step = "monitor" => h \in inst_handlers'
    PROVE  \A id : Read(id) => Read(id)'
BY DEF Read

(* The documents in monitor mode are the same or fewer.                    *)
LEMMA MonitoredStays ==
    ASSUME Account!MonitoredIsRead, \A id : Read(id) => Read(id)',
           \A r \in Repos : docs'[r].monitored => docs[r].monitored /\ docs'[r].id = docs[r].id
    PROVE  Account!MonitoredIsRead'
<1>. SUFFICES ASSUME NEW r \in Repos, docs'[r].monitored PROVE Read(docs[r].id)'
  BY DEF Account!MonitoredIsRead, Read
<1>1. docs[r].monitored /\ docs'[r].id = docs[r].id
  OBVIOUS
<1>2. PICK i : i = docs[r].id
  OBVIOUS
<1>3. Read(i)
  BY <1>1, <1>2 DEF Account!MonitoredIsRead, Read
<1>4. Read(i)'
  BY <1>3
<1>. QED
  BY <1>1, <1>2, <1>4 DEF Read

(* A repository in monitor mode is read with the token of a monitor.       *)
LEMMA MonitoredKept == Values /\ Account!MonitoredIsRead /\ [Account!Next]_(Account!vars) =>
                       Account!MonitoredIsRead'
<1>. SUFFICES ASSUME Values, Account!MonitoredIsRead, [Account!Next]_(Account!vars)
                     PROVE Account!MonitoredIsRead'
  OBVIOUS
<1>. GithubInv /\ StoreInv /\ HandlersInv
  BY DEF Values
<1>1. ASSUME UNCHANGED docs, monitors \subseteq monitors', unread \subseteq unread',
             \A h \in inst_handlers : h.step = "monitor" => h \in inst_handlers'
      PROVE  Account!MonitoredIsRead'
  BY <1>1, ReadStays, MonitoredStays
<1>2. CASE Github
  BY <1>1, <1>2, GithubSends DEF Sends, Account!database, Account!history
<1>3. ASSUME NEW h \in inst_handlers, Account!Step(h) \/ Account!Fails(h)
             PROVE Account!MonitoredIsRead'
  <2>. h \in Works /\ h.repos \subseteq Repos /\ docs \in [Repos -> Documents]
    BY EventIs DEF HandlersInv, StoreInv, DocsInv
  <2>1. CASE Account!Fails(h)
    <3>1. UNCHANGED <<docs, monitors>> /\ inst_handlers' = inst_handlers \ {h}
          /\ unread' = IF h.step = "monitor" THEN unread \cup h.ids ELSE unread
      BY <2>1 DEF Account!Fails, Account!Leaves, Account!database
    <3>2. \A id : Read(id) => Read(id)'
      BY <3>1 DEF Read
    <3>. QED
      BY <3>1, <3>2, MonitoredStays
  <2>2. CASE Account!InsertMonitor(h)
    <3>1. UNCHANGED <<docs, unread>> /\ monitors' = monitors \cup {<<h.act.user,
          id>> : id \in h.ids}
          /\ inst_handlers \ {h} \subseteq inst_handlers'
      BY <2>2 DEF Account!InsertMonitor, Account!Leaves, Account!Goes, Account!history
    <3>2. ASSUME NEW id \in h.ids PROVE Read(id)'
      <4>1. <<h.act.user, id>> \in monitors' /\ <<h.act.user, id>>[2] = id
        BY <3>1
      <4>. QED
        BY <4>1 DEF Read
    <3>3. ASSUME NEW id, Read(id), id \notin h.ids PROVE Read(id)'
      BY <3>1, <3>3 DEF Read
    <3>4. \A id : Read(id) => Read(id)'
      BY <3>2, <3>3
    <3>. QED
      BY <3>1, <3>4, MonitoredStays
  <2>3. CASE Account!InsertOrUpdate(h)
    <3>1. PICK r, k :
             /\ r \in h.repos
             /\ At(h, k, IF Account!Event(h).kind = "monitor" THEN "monitor" ELSE "process")
             /\ k.ids = {docs'[r].id}
             /\ docs' \in [Repos -> Documents] /\ \A s \in Repos \ {r} : docs'[s] = docs[s]
             /\ docs'[r].monitored = ((Account!Present(r) => docs[r].monitored)
                /\ Account!Event(h).kind = "monitor")
             /\ r \in Repos
      BY <2>3, InsertMoves
    <3>2. UNCHANGED <<monitors, unread>> /\ h.step = "repos"
      BY <2>3 DEF Account!InsertOrUpdate, Account!history
    <3>3. \A id : Read(id) => Read(id)'
      BY <3>1, <3>2, ReadStays DEF At
    <3>4. ASSUME docs'[r].monitored PROVE Read(docs[r].id)'
      <4>1. Account!Event(h).kind = "monitor"
        BY <3>1, <3>4
      <4>2. k \in inst_handlers' /\ k.step = "monitor" /\ docs'[r].id \in k.ids
        BY <3>1, <4>1 DEF At
      <4>. QED
        BY <4>2 DEF Read
    <3>5. ASSUME NEW s \in Repos, s # r, docs'[s].monitored PROVE Read(docs[s].id)'
      <4>1. docs'[s] = docs[s] /\ docs[s].monitored
        BY <3>1, <3>5
      <4>2. PICK i : i = docs[s].id
        OBVIOUS
      <4>3. Read(i)
        BY <4>1, <4>2 DEF Account!MonitoredIsRead, Read
      <4>4. Read(i)'
        BY <3>3, <4>3
      <4>. QED
        BY <4>1, <4>2, <4>4 DEF Read
    <3>. QED
      BY <3>4, <3>5 DEF Account!MonitoredIsRead, Read
  <2>4. CASE ~(Account!Fails(h) \/ Account!InsertMonitor(h) \/ Account!InsertOrUpdate(h))
    <3>1. UNCHANGED <<monitors, unread>> /\ h.step # "monitor"
          /\ inst_handlers \ {h} \subseteq inst_handlers'
      BY <1>3, <2>4 DEF Account!Step, Account!Find, Account!FindOrCreate,
         Account!UpdateOwner, Account!UpdateOwners, Account!UpdateMembers,
              Account!ProcessRepository, Account!List, Account!Stop,
              Account!DeleteRepoCommits, Account!Delete, Account!Deleted, Account!Goes,
              Account!Leaves, Account!database, Account!history
    <3>2. \A id : Read(id) => Read(id)'
      BY <3>1, ReadStays
    <3>3. CASE UNCHANGED docs
      BY <3>2, <3>3, MonitoredStays
    <3>4. CASE Account!UpdateOwners(h)
      BY <3>2, <3>4, UpdateMoves, MonitoredStays
    <3>5. CASE Account!Delete(h)
      <4>1. ASSUME NEW r \in Repos, docs'[r].monitored PROVE docs'[r] = docs[r]
        BY <3>5, <4>1 DEF Account!Delete, Account!NoDoc
      <4>. QED
        BY <3>2, <4>1, MonitoredStays
    <3>. QED
      BY <1>3, <2>4, <3>3, <3>4, <3>5 DEF Account!Step, Account!Find, Account!FindOrCreate,
         Account!UpdateOwner, Account!UpdateMembers,
              Account!ProcessRepository, Account!List, Account!Stop,
              Account!DeleteRepoCommits, Account!Deleted, Account!database
  <2>. QED
    BY <1>3, <2>1, <2>2, <2>3, <2>4
<1>4. ASSUME NEW m \in monitors, Account!StopRepositoryMonitoring(m)
             PROVE Account!MonitoredIsRead'
  <2>1. UNCHANGED <<docs, inst_handlers>> /\ monitors' = monitors \ {m}
        /\ unread' = IF \A o \in monitors : o = m \/ o[2] # m[2] THEN unread \cup {m[2]}
           ELSE unread
    BY <1>4 DEF Account!StopRepositoryMonitoring
  <2>2. \A id : Read(id) => Read(id)'
    BY <2>1 DEF Read
  <2>. QED
    BY <2>1, <2>2, MonitoredStays
<1>5. CASE \/ Account!HandleOrganisationLinking \/ Account!DeleteIntegration
           \/ \E n \in inst_mail : Account!Handle(n)
           \/ \E u \in Users, r \in Repos : Account!Monitor(u, r)
           \/ \E r \in Repos : Account!AdminDeletes(r)
           \/ \E id \in verifications : Account!LinkingCallback(id) \/ Account!Expire(id)
           \/ \E u \in Users : \E id \in Account!DocIds : Account!MonitorKnown(u, id)
           \/ \E id \in inst_jobs \cup stopping : Account!Write(id) \/ Account!End(id)
           \/ UNCHANGED Account!vars
  BY <1>1, <1>5 DEF Account!HandleOrganisationLinking, Account!DeleteIntegration,
     Account!LinkingCallback, Account!Expire, Account!MonitorKnown,
              Account!Handle, Account!Monitor, Account!AdminDeletes, Account!Enters,
              Account!Write, Account!End, Account!history, Account!vars, Account!database
<1>. QED
  BY <1>2, <1>3, <1>4, <1>5 DEF Account!Next, Account!Handling, Account!Acting, Github

(* Only an installation event takes the link of an organization away.      *)
LEMMA LinkedKept == Values /\ Account!LinkKept /\ [Account!Next]_(Account!vars) =>
                    Account!LinkKept'
<1>. SUFFICES ASSUME Values, Account!LinkKept, [Account!Next]_(Account!vars)
                     PROVE Account!LinkKept'
  OBVIOUS
<1>. GithubInv /\ StoreInv /\ HandlersInv
  BY DEF Values
<1>1. CASE UNCHANGED <<org, linked>>
  BY <1>1 DEF Account!LinkKept
<1>2. CASE Github
  BY <1>1, <1>2, GithubSends DEF Sends, Account!database, Account!history
<1>3. ASSUME NEW h \in inst_handlers, Account!Step(h) \/ Account!Fails(h)
             PROVE Account!LinkKept'
  <2>1. org \in Orgs /\ linked \in 0 .. lastId /\ lastId \in Nat
    BY DEF StoreInv, OrgInv, SetsInv
  <2>2. CASE Account!FindOrCreate(h)
    <3>1. linked' = IF Account!Event(h).inst # 0 THEN 0 ELSE linked
      BY <2>2 DEF Account!FindOrCreate
    <3>. QED
      BY <2>1, <2>2, <3>1, FindOrCreateMoves DEF Account!LinkKept
  <2>3. CASE Account!UpdateOwner(h) \/ Account!UpdateMembers(h)
    <3>1. UNCHANGED linked /\ (\/ org' = org \/ org' = [org EXCEPT !.slug = h.org.slug]
                              \/ org' = [org EXCEPT !.members = TRUE])
      BY <2>3 DEF Account!UpdateOwner, Account!UpdateMembers, Account!history
    <3>2. org'.id = org.id /\ org'.jira = org.jira
      BY <2>1, <3>1 DEF Orgs
    <3>. QED
      BY <3>1, <3>2 DEF Account!LinkKept
  <2>4. CASE Account!Deleted(h)
    BY <1>1, <2>4 DEF Account!Deleted, Account!history, Account!LinkKept, Account!NoOrg
  <2>. QED
    BY <1>1, <1>3, <2>2, <2>3, <2>4 DEF Account!Step, Account!Fails, Account!Find,
       Account!UpdateOwners, Account!InsertOrUpdate, Account!InsertMonitor,
              Account!ProcessRepository, Account!List, Account!Stop,
              Account!DeleteRepoCommits, Account!Delete, Account!database, Account!history
<1>4. ASSUME NEW id \in verifications, Account!LinkingCallback(id) PROVE Account!LinkKept'
  <2>1. CASE org.id = id
    <3>1. org' = [org EXCEPT !.jira = TRUE] /\ org \in Orgs
      BY <1>4, <2>1 DEF Account!LinkingCallback, StoreInv, OrgInv
    <3>2. org'.jira = TRUE
      BY <3>1 DEF Orgs
    <3>. QED
      BY <3>2 DEF Account!LinkKept
  <2>. QED
    BY <1>1, <1>4, <2>1 DEF Account!LinkingCallback
<1>5. CASE Account!DeleteIntegration
  BY <1>5 DEF Account!DeleteIntegration, Account!LinkKept
<1>6. CASE \/ Account!HandleOrganisationLinking
           \/ \E n \in inst_mail : Account!Handle(n)
           \/ \E u \in Users, r \in Repos : Account!Monitor(u, r)
           \/ \E r \in Repos : Account!AdminDeletes(r)
           \/ \E id \in verifications : Account!Expire(id)
           \/ \E m \in monitors : Account!StopRepositoryMonitoring(m)
           \/ \E u \in Users : \E id \in Account!DocIds : Account!MonitorKnown(u, id)
           \/ \E id \in inst_jobs \cup stopping : Account!Write(id) \/ Account!End(id)
           \/ UNCHANGED Account!vars
  BY <1>1, <1>6 DEF Account!HandleOrganisationLinking, Account!Expire, Account!MonitorKnown,
     Account!StopRepositoryMonitoring,
              Account!Handle, Account!Monitor, Account!AdminDeletes, Account!Write,
              Account!End, Account!history, Account!vars, Account!database
<1>. QED
  BY <1>2, <1>3, <1>4, <1>5, <1>6 DEF Account!Next, Account!Handling, Account!Acting, Github

(* Before the first delivery GitHub and the database have nothing.         *)
LEMMA CalmInit == Account!Init => CalmInv
<1>. SUFFICES ASSUME Account!Init PROVE CalmInv
  OBVIOUS
<1>. PICK views, by : views = [i \in 0 .. 0 |-> {}] /\ by = [i \in 0 .. 0 |-> 0]
  OBVIOUS
<1>1. inst_sent = <<>> /\ Len(inst_sent) = 0 /\ DOMAIN inst_sent = {}
  BY DEF Account!Init
<1>2. Tells(views, by)
  BY <1>1 DEF Account!Init, Tells
<1>3. Installed = {}
  BY DEF Account!Init, Installed, Account!Present, Account!NoDoc
<1>4. InTurn(views, by, 0)
  BY <1>1, <1>3 DEF Account!Init, InTurn, Agrees
<1>. QED
  BY <1>1, <1>2, <1>4 DEF CalmInv, Account!Init

(* GitHub sends the next delivery: nobody has heard of it.                 *)
LEMMA CalmHears == Values /\ CalmInv /\ Github => CalmInv'
<1>. SUFFICES ASSUME Values, CalmInv, Github PROVE CalmInv'
  OBVIOUS
<1>. GithubInv /\ HandlersInv
  BY DEF Values
<1>1. PICK views, by : Tells(views, by) /\ (calm =>
           ~overlap /\ \E k \in 0 .. Len(inst_sent) : InTurn(views, by, k))
  BY DEF CalmInv
<1>2. UNCHANGED <<inst_handlers, calm, overlap, docs, org>> /\ installs' \in Nat
      /\ Installed' = Installed
  BY GithubSends DEF Sends, Account!database, Account!history, Installed, Account!Present
<1>3. CASE Account!Rename
  <2>1. UNCHANGED <<inst_sent, inst_mail, selected, inst>>
    BY <1>3 DEF Account!Rename
  <2>2. Tells(views, by)' /\ \A k : InTurn(views, by, k) => InTurn(views, by, k)'
    BY <1>1, <1>2, <2>1 DEF Tells, InTurn, Working, Agrees, Account!Event, Named
  <2>. QED
    BY <1>1, <1>2, <2>1, <2>2 DEF CalmInv
<1>4. ASSUME NEW e \in AccountDeliveries, Sent(e) PROVE CalmInv'
  <2>1. PICK len : len = Len(inst_sent) /\ len \in Nat /\ Len(inst_sent') = len + 1
    BY <1>4 DEF Sent, AccountAdds, GithubInv
  <2>2. /\ inst_sent'[len + 1] = e /\ \A n \in 1 .. len : inst_sent'[n] = inst_sent[n]
        /\ DOMAIN inst_sent = 1 .. len /\ DOMAIN inst_sent' = 1 .. len + 1
           /\ inst_mail' = inst_mail \cup {len + 1}
        /\ AccountFollows(e, selected, selected', inst, inst') /\ selected' \subseteq Repos
           /\ inst' \in Nat
    BY <1>2, <1>4, <2>1 DEF Sent, AccountAdds
  <2>3. PICK seen2, by2 : /\ seen2 = [i \in 0 .. len + 1 |-> IF i = len + 1 THEN selected'
                             ELSE views[i]]
                          /\ by2 = [i \in 0 .. len + 1 |-> IF i = len + 1 THEN inst' ELSE by[i]]
    OBVIOUS
  <2>4. /\ seen2[len + 1] = selected' /\ by2[len + 1] = inst'
        /\ \A i \in 0 .. len : seen2[i] = views[i] /\ by2[i] = by[i]
    BY <2>1, <2>3
  <2>5. seen2 \in [0 .. len + 1 -> SUBSET Repos] /\ by2 \in [0 .. len + 1 -> Nat]
    BY <1>1, <2>1, <2>2, <2>3 DEF Tells
  <2>6. ASSUME NEW i, i \in DOMAIN inst_sent'
               PROVE AccountFollows(inst_sent'[i], seen2[i - 1], seen2[i], by2[i - 1], by2[i])
    <3>1. CASE i = len + 1
      <4>1. seen2[i - 1] = selected /\ by2[i - 1] = inst
        BY <1>1, <2>1, <2>4, <3>1 DEF Tells
      <4>. QED
        BY <2>2, <2>4, <3>1, <4>1
    <3>2. CASE i # len + 1
      <4>1. i \in 1 .. len /\ i \in 0 .. len /\ i - 1 \in 0 .. len
        BY <2>1, <2>2, <2>6, <3>2
      <4>2. AccountFollows(inst_sent[i], views[i - 1], views[i], by[i - 1], by[i])
        BY <1>1, <2>2, <4>1 DEF Tells
      <4>. QED
        BY <2>2, <2>4, <4>1, <4>2
    <3>. QED
      BY <3>1, <3>2
  <2>7. Tells(seen2, by2)'
    BY <2>1, <2>4, <2>5, <2>6 DEF Tells
  <2>8. ASSUME NEW k \in 0 .. len, InTurn(views, by, k) PROVE InTurn(seen2, by2, k)'
    <3>1. inst_mail' = k + 1 .. Len(inst_sent')
      BY <2>1, <2>2, <2>8 DEF InTurn
    <3>2. CASE inst_handlers = {}
      BY <1>2, <2>4, <2>8, <3>1, <3>2 DEF InTurn, Agrees
    <3>3. ASSUME NEW h \in inst_handlers, inst_handlers = {h}
          PROVE  InTurn(seen2, by2, k)'
      <4>1. Account!Event(h)' = Account!Event(h) /\ Well(h)
        BY <2>1, <2>2 DEF HandlersInv, Well, Account!Event, Works
      <4>2. IF h.n = 0 THEN Account!Event(h).kind = "monitor" /\ Agrees(views[k], by[k])
                       ELSE h.n = k /\ Working(h, views[k - 1], by[k - 1])
        BY <2>8, <3>3 DEF InTurn
      <4>3. CASE h.n = 0
        BY <1>2, <2>4, <3>1, <3>3, <4>1, <4>2, <4>3 DEF InTurn, Agrees
      <4>4. CASE h.n # 0
        <5>1. k - 1 \in 0 .. len
          BY <2>1, <2>2, <4>1, <4>2, <4>4 DEF Well
        <5>2. Working(h, views[k - 1], by[k - 1])'
          BY <1>2, <4>1, <4>2, <4>4 DEF Working, Agrees, Named
        <5>3. Working(h, seen2[k - 1], by2[k - 1])'
          BY <2>4, <5>1, <5>2
        <5>. QED
          BY <1>2, <3>1, <3>3, <4>2, <4>4, <5>3 DEF InTurn
      <4>. QED
        BY <4>3, <4>4
    <3>. QED
      BY <2>8, <3>2, <3>3 DEF InTurn
  <2>9. calm' => ~overlap' /\ \E k \in 0 .. Len(inst_sent') : InTurn(seen2, by2, k)'
    BY <1>1, <1>2, <2>1, <2>8
  <2>. QED
    BY <2>7, <2>9 DEF CalmInv
<1>. QED
  BY <1>3, <1>4, GithubSends DEF Sends

(* The repositories of the installation and its number stay.               *)
LEMMA CalmStays ==
    ASSUME Values, [Account!Next]_(Account!vars), NEW views, NEW by, NEW k,
           InTurn(views, by, k),
           UNCHANGED <<docs, inst_sent, inst_mail, inst_handlers>>, org'.inst = org.inst
    PROVE  InTurn(views, by, k)'
<1>1. \A h \in inst_handlers : Account!Event(h)' = Account!Event(h)
  BY EventsStay
<1>2. Installed' = Installed
  BY DEF Installed, Account!Present
<1>. QED
  BY <1>1, <1>2 DEF InTurn, Working, Agrees, Named

(* A handler of monitoring at work changes nothing of the installation.    *)
LEMMA MonitoringCalm ==
    ASSUME Values, OwnedInv, [Account!Next]_(Account!vars), ~overlap, NEW S, NEW a,
           NEW h \in inst_handlers, Account!Step(h),
           Account!Event(h).kind = "monitor", Agrees(S, a)
    PROVE  Agrees(S, a)'
<1>. /\ Well(h) /\ h \in Works /\ Takes(Account!Event(h).kind, h.step)
        /\ h.repos \subseteq Repos
     /\ docs \in [Repos -> Documents] /\ Account!Event(h).inst = 0
  BY EventIs DEF Values, HandlersInv, Well, StoreInv, DocsInv, AccountDeliveries
<1>1. CASE Account!FindOrCreate(h)
  <2>1. UNCHANGED docs /\ Installed' = Installed
    BY <1>1 DEF Account!FindOrCreate, Installed, Account!Present
  <2>2. CASE org.id = 0
    <3>1. Installed = {}
      BY <2>2 DEF OwnedInv, Installed
    <3>. QED
      BY <2>1, <3>1 DEF Agrees
  <2>3. CASE org.id # 0
    BY <1>1, <2>1, <2>3, FindOrCreateMoves DEF Agrees
  <2>. QED
    BY <2>2, <2>3
<1>2. CASE Account!UpdateOwner(h) \/ Account!UpdateOwners(h) \/ Account!UpdateMembers(h)
  <2>1. Installed' = Installed /\ org'.inst = org.inst
    BY <1>2, UpdateMoves DEF Installed, Account!Present
  <2>. QED
    BY <2>1 DEF Agrees
<1>3. CASE Account!InsertOrUpdate(h)
  <2>1. PICK r \in Repos :
           /\ \A s \in Repos \ {r} : docs'[s] = docs[s]
           /\ Account!Present(r) => docs'[r].id = docs[r].id
           /\ docs'[r].monitored = ((Account!Present(r) => docs[r].monitored)
              /\ Account!Event(h).kind = "monitor")
    BY <1>3, InsertMoves
  <2>2. UNCHANGED org
    BY <1>3 DEF Account!InsertOrUpdate
  <2>3. r \in Installed' <=> r \in Installed
    BY <2>1 DEF Installed, Account!Present
  <2>4. \A s \in Repos \ {r} : s \in Installed' <=> s \in Installed
    BY <2>1 DEF Installed, Account!Present
  <2>5. Installed' = Installed
    BY <2>3, <2>4 DEF Installed
  <2>. QED
    BY <2>2, <2>5 DEF Agrees
<1>4. CASE Account!InsertMonitor(h) \/ Account!ProcessRepository(h)
  <2>1. UNCHANGED <<docs, org>> /\ Installed' = Installed
    BY <1>4 DEF Account!InsertMonitor, Account!ProcessRepository, Account!database,
       Installed, Account!Present
  <2>. QED
    BY <2>1 DEF Agrees
<1>. QED
  BY <1>1, <1>2, <1>3, <1>4 DEF Account!Step, Takes, Inserting, Removing, Account!Find,
     Account!List, Account!Stop, Account!DeleteRepoCommits,
              Account!Delete, Account!Deleted

(* A handler of a delivery that adds repositories does so one by one.      *)
LEMMA AddingCalm ==
    ASSUME Values, [Account!Next]_(Account!vars), NEW S, NEW T, NEW a, NEW b,
           NEW h \in inst_handlers, Account!Step(h),
           inst_handlers = {h}, Account!Event(h).kind = "add", Working(h, S, a),
             AccountFollows(Account!Event(h), S, T, a, b)
    PROVE  \/ inst_handlers' = {} /\ Agrees(T, b)'
           \/ \E k : inst_handlers' = {k} /\ k.n = h.n /\ Working(k, S, a)'
<1>. /\ Well(h) /\ h \in Works /\ Takes(Account!Event(h).kind, h.step)
        /\ h.repos \subseteq Repos
     /\ docs \in [Repos -> Documents] /\ h.n # 0 /\ Account!Event(h).inst \in 1 .. installs
        /\ installs \in Nat
     /\ Account!Event(h).inst # 0
  BY EventIs DEF Values, HandlersInv, Well, StoreInv, DocsInv, GithubInv
<1>1. /\ h.repos \subseteq Account!Event(h).repos
      /\ Installed = S \cup (Account!Event(h).repos \ h.repos)
      /\ h.step = "org" => h.repos = Account!Event(h).repos
      /\ h.step # "org" => org.inst = Account!Event(h).inst
      /\ T = S \cup Account!Event(h).repos /\ b = Account!Event(h).inst
      /\ \A k : k.n = h.n /\ k.act = h.act => Account!Event(k)' = Account!Event(h)
  BY EventsStay DEF Working, AccountFollows
<1>2. ASSUME NEW k, NEW step, At(h, k, step), step # "org", org'.inst = Account!Event(h).inst,
             k.repos \subseteq Account!Event(h).repos,
               Installed' = S \cup (Account!Event(h).repos \ k.repos)
      PROVE  inst_handlers' = {k} /\ k.n = h.n /\ Working(k, S, a)'
  BY <1>1, <1>2 DEF At, Working
<1>3. CASE Account!FindOrCreate(h)
  <2>1. UNCHANGED docs /\ Installed' = Installed
    BY <1>3 DEF Account!FindOrCreate, Installed, Account!Present
  <2>2. org'.inst = Account!Event(h).inst
    BY <1>3, FindOrCreateMoves
  <2>3. PICK k, step : At(h, k, step) /\ step \in Inserting /\ k.repos = h.repos
    BY <1>3, FindOrCreateMoves
  <2>. QED
    BY <1>1, <1>2, <2>1, <2>2, <2>3 DEF Inserting
<1>4. CASE Account!UpdateOwner(h) \/ Account!UpdateOwners(h) \/ Account!UpdateMembers(h)
  <2>1. Installed' = Installed /\ org'.inst = org.inst
    BY <1>4, UpdateMoves DEF Installed, Account!Present
  <2>2. PICK k, step : At(h, k, step) /\ step \in Inserting /\ k.repos = h.repos
    BY <1>4, UpdateMoves
  <2>3. h.step # "org"
    BY <1>4 DEF Account!UpdateOwner, Account!UpdateOwners, Account!UpdateMembers
  <2>. QED
    BY <1>1, <1>2, <2>1, <2>2, <2>3 DEF Inserting
<1>5. CASE Account!InsertOrUpdate(h)
  <2>1. PICK r, k :
           /\ r \in h.repos
           /\ At(h, k, "process") /\ k.repos = h.repos \ {r} /\ r \in Repos
           /\ \A s \in Repos \ {r} : docs'[s] = docs[s]
           /\ docs'[r].id # 0
           /\ docs'[r].monitored = ((Account!Present(r) => docs[r].monitored)
              /\ Account!Event(h).kind = "monitor")
    BY <1>5, InsertMoves
  <2>2. UNCHANGED org /\ h.step # "org"
    BY <1>5 DEF Account!InsertOrUpdate
  <2>3. r \in Installed'
    BY <2>1 DEF Installed, Account!Present
  <2>4. \A s \in Repos \ {r} : s \in Installed' <=> s \in Installed
    BY <2>1 DEF Installed, Account!Present
  <2>5. Installed' = Installed \cup {r}
    BY <2>3, <2>4 DEF Installed
  <2>6. Installed' = S \cup (Account!Event(h).repos \ k.repos)
    BY <1>1, <2>1, <2>5
  <2>. QED
    BY <1>1, <1>2, <2>1, <2>2, <2>6
<1>6. CASE Account!ProcessRepository(h)
  <2>1. UNCHANGED <<docs, org>> /\ Installed' = Installed /\ h.step # "org"
    BY <1>6 DEF Account!ProcessRepository, Account!database, Installed, Account!Present
  <2>2. CASE \E k : At(h, k, "repos") /\ k.repos = h.repos
    BY <1>1, <1>2, <2>1, <2>2
  <2>3. CASE h.repos = {} /\ Account!Leaves(h)
    BY <1>1, <2>1, <2>3 DEF Account!Leaves, Agrees
  <2>. QED
    BY <1>6, <2>2, <2>3, ProcessMoves
<1>. QED
  BY <1>3, <1>4, <1>5, <1>6 DEF Account!Step, Takes, Inserting, Removing, Account!Find,
     Account!List, Account!Stop, Account!DeleteRepoCommits,
              Account!Delete, Account!Deleted, Account!InsertMonitor

(* A push finds its repository, which was installed.                       *)
LEMMA PushCalm ==
    ASSUME Values, [Account!Next]_(Account!vars), NEW S, NEW T, NEW a, NEW b,
           NEW h \in inst_handlers, Account!Step(h),
           inst_handlers = {h}, Account!Event(h).kind = "push", Working(h, S, a),
             AccountFollows(Account!Event(h), S, T, a, b)
    PROVE  \/ inst_handlers' = {} /\ Agrees(T, b)'
           \/ \E k : inst_handlers' = {k} /\ k.n = h.n /\ Working(k, S, a)'
<1>. h \in Works
  BY DEF Values, HandlersInv, Well
<1>1. /\ h.step \in {"find", "process"} /\ h.org = Account!NoOrg /\ Agrees(S, a)
      /\ Account!Event(h).repos # {} /\ Account!Event(h).repos \subseteq S /\ T = S /\ b = a
      /\ \A k : k.n = h.n /\ k.act = h.act => Account!Event(k)' = Account!Event(h)
  BY EventsStay DEF Working, AccountFollows
<1>2. CASE Account!Find(h)
  <2>1. UNCHANGED <<docs, org>> /\ Installed' = Installed /\ Agrees(S, a)'
    BY <1>1, <1>2 DEF Account!Find, Account!database, Installed, Account!Present, Agrees
  <2>2. Account!Present(CHOOSE x \in Account!Event(h).repos : TRUE)
    BY <1>1 DEF Agrees, Installed
  <2>3. PICK k : At(h, k, "process") /\ k.org = h.org
    BY <1>2, <2>2, FindMoves
  <2>4. inst_handlers' = {k} /\ k.n = h.n /\ Working(k, S, a)'
    BY <1>1, <2>1, <2>3 DEF At, Working
  <2>. QED
    BY <2>4
<1>3. CASE Account!ProcessRepository(h)
  <2>1. UNCHANGED <<docs, org>> /\ Installed' = Installed /\ Agrees(S, a)'
    BY <1>1, <1>3 DEF Account!ProcessRepository, Account!database, Installed,
       Account!Present, Agrees
  <2>2. Account!Leaves(h)
    BY <1>1, <1>3, ProcessMoves
  <2>. QED
    BY <1>1, <2>1, <2>2 DEF Account!Leaves
<1>. QED
  BY <1>1, <1>2, <1>3 DEF Account!Step, Account!FindOrCreate, Account!UpdateOwner,
     Account!UpdateOwners, Account!UpdateMembers, Account!InsertOrUpdate,
              Account!InsertMonitor, Account!List, Account!Stop, Account!DeleteRepoCommits,
              Account!Delete, Account!Deleted

(* A handler of a delivery that takes repositories away deletes each.      *)
LEMMA RemovingCalm ==
    ASSUME Values, [Account!Next]_(Account!vars), NEW S \in SUBSET Repos, NEW T, NEW a, NEW b,
           NEW h \in inst_handlers, Account!Step(h),
           inst_handlers = {h}, Account!Event(h).kind \in {"remove", "uninstall"},
             Working(h, S, a),
           AccountFollows(Account!Event(h), S, T, a, b)
    PROVE  \/ inst_handlers' = {} /\ Agrees(T, b)'
           \/ \E k : inst_handlers' = {k} /\ k.n = h.n /\ Working(k, S, a)'
<1>. /\ Well(h) /\ h \in Works /\ Takes(Account!Event(h).kind, h.step)
        /\ docs \in [Repos -> Documents]
     /\ Account!Event(h).repos \subseteq Repos
  BY EventIs DEF Values, HandlersInv, Well, StoreInv, DocsInv
<1>. PICK N : N = Named(Account!Event(h))
  OBVIOUS
<1>1. /\ h.repos = Account!Event(h).repos /\ (S # {} => org.inst = a)
      /\ Installed \subseteq S /\ S \ N \subseteq Installed
      /\ h.step # "list" => h.ids = {docs[r].id : r \in N} \ {0}
      /\ h.step \in {"deleteCommits", "delete"} => h.org.id \in h.ids
      /\ \A k : k.n = h.n /\ k.act = h.act => Account!Event(k)' = Account!Event(h)
      /\ N \subseteq Repos
  BY EventsStay DEF Working, Named
<1>2. ASSUME NEW k, NEW step, At(h, k, step), org'.inst = org.inst, k.repos = h.repos,
             Installed' \subseteq S, S \ N \subseteq Installed',
             k.ids = {docs'[r].id : r \in N} \ {0},
             step \in {"deleteCommits", "delete"} => k.org.id \in k.ids
      PROVE  inst_handlers' = {k} /\ k.n = h.n /\ Working(k, S, a)'
  BY <1>1, <1>2 DEF At, Working, Named
<1>3. CASE Account!List(h)
  <2>1. UNCHANGED <<docs, org>> /\ Installed' = Installed
    BY <1>3 DEF Account!List, Account!database, Installed, Account!Present
  <2>2. PICK k : /\ At(h, k, "stop") /\ k.repos = h.repos
                 /\ k.ids = {docs[r].id : r \in IF Account!Event(h).kind = "uninstall"
                    THEN Repos ELSE h.repos} \ {0}
    BY <1>3, ListMoves
  <2>3. k.ids = {docs'[r].id : r \in N} \ {0}
    BY <1>1, <2>1, <2>2 DEF Named
  <2>. QED
    BY <1>1, <1>2, <2>1, <2>2, <2>3
<1>4. CASE Account!Stop(h) \/ Account!DeleteRepoCommits(h)
  <2>1. UNCHANGED <<docs, org>> /\ Installed' = Installed /\ h.step # "list"
    BY <1>4 DEF Account!Stop, Account!DeleteRepoCommits, Account!database, Installed,
       Account!Present
  <2>2. PICK k, step : /\ At(h, k, step) /\ step \in {"deleteCommits", "delete"}
                          /\ k.repos = h.repos
                       /\ k.ids = h.ids /\ k.org.id \in k.ids
    <3>1. CASE Account!Stop(h)
      BY <3>1, StopMoves
    <3>2. CASE Account!DeleteRepoCommits(h)
      <4>1. h.org.id \in h.ids
        BY <1>1, <3>2 DEF Account!DeleteRepoCommits
      <4>. QED
        BY <3>2, <4>1, DeleteCommitsMoves
    <3>. QED
      BY <1>4, <3>1, <3>2
  <2>. QED
    BY <1>1, <1>2, <2>1, <2>2
<1>5. CASE Account!Delete(h)
  <2>1. docs' = [r \in Repos |-> IF docs[r].id = h.org.id THEN Account!NoDoc ELSE docs[r]]
        /\ UNCHANGED org
        /\ h.step = "delete"
    BY <1>5 DEF Account!Delete
  <2>2. h.org.id \in h.ids /\ h.ids = {docs[r].id : r \in N} \ {0}
    BY <1>1, <2>1
  <2>3. PICK r0 \in N : docs[r0].id = h.org.id /\ h.org.id # 0
    BY <2>2
  <2>4. h.org.id \in Account!DocIds
    BY <1>1, <2>3 DEF Account!DocIds
  <2>5. PICK k : At(h, k, "stop") /\ k.repos = h.repos /\ k.ids = h.ids \ {h.org.id}
    BY <1>5, <2>4, DeleteMoves
  <2>6. \A r \in Repos : docs[r].id = h.org.id => r = r0
    BY <1>1, <2>3 DEF Values, StoreInv, DocsInv, Account!Present
  <2>7. docs'[r0].id = 0 /\ \A r \in Repos \ {r0} : docs'[r] = docs[r] /\ docs[r].id # h.org.id
    BY <1>1, <2>1, <2>3, <2>6 DEF Account!NoDoc
  <2>8. k.ids = {docs'[r].id : r \in N} \ {0}
    <3>1. ASSUME NEW i \in k.ids PROVE i \in {docs'[r].id : r \in N} \ {0}
      <4>1. PICK r \in N : i = docs[r].id /\ i # 0 /\ i # h.org.id
        BY <2>2, <2>5, <3>1
      <4>2. docs'[r].id = i
        BY <1>1, <2>1, <4>1
      <4>. QED
        BY <4>1, <4>2
    <3>2. ASSUME NEW i \in {docs'[r].id : r \in N} \ {0} PROVE i \in k.ids
      <4>1. PICK r \in N : i = docs'[r].id /\ i # 0
        BY <3>2
      <4>2. docs'[r] = docs[r] /\ docs[r].id # h.org.id
        BY <1>1, <2>7, <4>1
      <4>. QED
        BY <2>2, <2>5, <4>1, <4>2
    <3>. QED
      BY <3>1, <3>2
  <2>9. Installed' \subseteq Installed /\ Installed \ {r0} \subseteq Installed'
    BY <2>7 DEF Installed, Account!Present
  <2>10. Installed' \subseteq S /\ S \ N \subseteq Installed'
    BY <1>1, <2>3, <2>9
  <2>. QED
    BY <1>2, <2>1, <2>5, <2>8, <2>10
<1>6. CASE Account!Deleted(h)
  <2>1. UNCHANGED docs /\ Account!Leaves(h) /\ h.ids = {} /\ h.step = "stop"
        /\ Installed' = Installed
        /\ (Account!Event(h).kind = "remove" => UNCHANGED org)
    BY <1>6 DEF Account!Deleted, Installed, Account!Present
  <2>2. \A r \in N : docs[r].id = 0
    BY <1>1, <2>1
  <2>3. Installed = S \ N
    BY <1>1, <2>2 DEF Installed, Account!Present
  <2>4. CASE Account!Event(h).kind = "remove"
    <3>1. N = Account!Event(h).repos /\ T = S \ Account!Event(h).repos /\ b = a
      BY <2>4 DEF Named, AccountFollows
    <3>. QED
      BY <1>1, <2>1, <2>3, <2>4, <3>1 DEF Agrees, Account!Leaves
  <2>5. CASE Account!Event(h).kind = "uninstall"
    <3>1. N = Repos /\ T = {}
      BY <2>5 DEF Named, AccountFollows
    <3>. QED
      BY <1>1, <2>1, <2>3, <3>1 DEF Agrees, Account!Leaves
  <2>. QED
    BY <2>4, <2>5
<1>. QED
  BY <1>3, <1>4, <1>5, <1>6 DEF Account!Step, Takes, Inserting, Removing, Account!Find,
     Account!FindOrCreate, Account!UpdateOwner,
              Account!UpdateOwners, Account!UpdateMembers, Account!InsertOrUpdate,
              Account!InsertMonitor, Account!ProcessRepository

(* Deliveries that are handled one by one, in order and without failure    *)
(* leave what GitHub told: the handler at work is on its way there.        *)
LEMMA CalmKept == Values /\ OwnedInv /\ CalmInv /\ [Account!Next]_(Account!vars) => CalmInv'
<1>. SUFFICES ASSUME Values, OwnedInv, CalmInv, [Account!Next]_(Account!vars) PROVE CalmInv'
  OBVIOUS
<1>. GithubInv /\ StoreInv /\ HandlersInv
  BY DEF Values
<1>1. CASE Github
  BY <1>1, CalmHears
<1>2. CASE ~Github
  <2>1. PICK views, by : Tells(views, by) /\ (calm =>
             ~overlap /\ \E k \in 0 .. Len(inst_sent) : InTurn(views, by, k))
    BY DEF CalmInv
  <2>2. UNCHANGED <<inst, installs, selected, slug, inst_sent>>
    BY <1>2, OthersLeave DEF Account!github
  <2>3. Tells(views, by)'
    BY <2>1, <2>2 DEF Tells
  <2>4. PICK len : len = Len(inst_sent) /\ len \in Nat /\ DOMAIN inst_sent = 1 .. len
             /\ Len(inst_sent') = len
    BY <2>2 DEF GithubInv
  <2>5. ASSUME calm' = TRUE PROVE ~overlap' /\ \E k \in 0 .. len : InTurn(views, by, k)'
    <3>1. ASSUME NEW n \in inst_mail, Account!Handle(n)
                 PROVE ~overlap' /\ \E k \in 0 .. len : InTurn(views, by, k)'
      <4>1. PICK h : h = Account!Handler(n, Account!NoAct,
                 Account!FirstStep(inst_sent[n].kind), inst_sent[n].repos, {})
        OBVIOUS
      <4>2. /\ calm /\ inst_handlers = {} /\ inst_mail' = inst_mail \ {n}
               /\ inst_handlers' = {h} /\ (\A m \in inst_mail : n <= m)
            /\ UNCHANGED <<docs, org>> /\ ~overlap'
        <5>1. calm /\ inst_handlers = {} /\ (\A m \in inst_mail : n <= m)
          BY <2>5, <3>1 DEF Account!Handle
        <5>2. Account!Enters(h) /\ inst_mail' = inst_mail \ {n} /\ UNCHANGED <<docs, org>>
          BY <3>1, <4>1 DEF Account!Handle, Account!database
        <5>. QED
          BY <2>1, <5>1, <5>2 DEF Account!Enters
      <4>3. PICK k \in 0 .. len : InTurn(views, by, k)
        BY <2>1, <2>4, <4>2
      <4>4. inst_mail = k + 1 .. len /\ Agrees(views[k], by[k])
        BY <2>4, <4>2, <4>3 DEF InTurn
      <4>5. n = k + 1 /\ inst_mail' = k + 2 .. len /\ k + 1 \in 0 .. len /\ n # 0
        BY <2>4, <4>2, <4>4
      <4>6. h.n = n /\ h.step = Account!FirstStep(inst_sent[n].kind)
            /\ h.repos = inst_sent[n].repos /\ h.org = Account!NoOrg
        BY <4>1 DEF Account!Handler
      <4>7. Account!Event(h)' = inst_sent[n] /\ inst_sent[n] \in AccountDeliveries
            /\ Installed' = Installed
        BY <2>2, <2>4, <4>2, <4>5, <4>6 DEF Account!Event, Installed, Account!Present, GithubInv
      <4>8. Working(h, views[k], by[k])'
        <5>1. CASE inst_sent[n].kind = "add"
          BY <4>2, <4>4, <4>6, <4>7, <5>1 DEF Working, Agrees, Account!FirstStep
        <5>2. CASE inst_sent[n].kind = "push"
          BY <4>2, <4>4, <4>6, <4>7, <5>2 DEF Working, Agrees, Account!FirstStep
        <5>3. CASE inst_sent[n].kind \in {"remove", "uninstall"}
          BY <4>2, <4>4, <4>6, <4>7, <5>3 DEF Working, Agrees, Account!FirstStep
        <5>. QED
          BY <4>7, <5>1, <5>2, <5>3 DEF AccountDeliveries
      <4>9. InTurn(views, by, k + 1)'
        BY <2>2, <2>4, <4>2, <4>5, <4>6, <4>8 DEF InTurn
      <4>. QED
        BY <2>1, <4>2, <4>5, <4>9
    <3>2. ASSUME NEW u \in Users, NEW r \in Repos, Account!Monitor(u, r)
          PROVE  ~overlap' /\ \E k \in 0 .. len : InTurn(views, by, k)'
      <4>1. PICK h : /\ h = Account!Handler(0,
                        [kind |-> "monitor", inst |-> 0, slug |-> slug, repos |-> {r},
                          user |-> u],
                                  "org", {r}, {})
                     /\ Account!Enters(h)
        BY <3>2 DEF Account!Monitor
      <4>2. calm /\ inst_handlers = {} /\ inst_handlers' = {h}
            /\ UNCHANGED <<docs, org, inst_mail>> /\ ~overlap'
        <5>1. calm /\ inst_handlers = {} /\ UNCHANGED <<docs, org, inst_mail>>
          BY <2>5, <3>2 DEF Account!Monitor, Account!database
        <5>. QED
          BY <2>1, <4>1, <5>1 DEF Account!Enters
      <4>3. PICK k \in 0 .. len : InTurn(views, by, k)
        BY <2>1, <2>4, <4>2
      <4>4. h.n = 0 /\ h.act.kind = "monitor" /\ Account!Event(h)' = h.act
        BY <4>1 DEF Account!Handler, Account!Event
      <4>5. Agrees(views[k], by[k])'
        BY <4>2, <4>3 DEF InTurn, Agrees, Installed, Account!Present
      <4>6. InTurn(views, by, k)'
        BY <2>2, <4>2, <4>3, <4>4, <4>5 DEF InTurn
      <4>. QED
        BY <2>1, <4>2, <4>6
    <3>3. ASSUME NEW h \in inst_handlers, Account!Step(h)
          PROVE  ~overlap' /\ \E k \in 0 .. len : InTurn(views, by, k)'
      <4>1. UNCHANGED <<calm, overlap, inst_mail>>
        BY <3>3 DEF Account!Step, Account!Find, Account!FindOrCreate, Account!UpdateOwner,
           Account!UpdateOwners, Account!UpdateMembers, Account!InsertOrUpdate,
              Account!InsertMonitor, Account!ProcessRepository, Account!List, Account!Stop,
              Account!DeleteRepoCommits, Account!Delete, Account!Deleted, Account!history
      <4>2. PICK k \in 0 .. len : InTurn(views, by, k)
        BY <2>1, <2>4, <2>5, <4>1
      <4>3. /\ inst_handlers = {h} /\ inst_mail = k + 1 .. len
            /\ IF h.n = 0 THEN Account!Event(h).kind = "monitor" /\ Agrees(views[k], by[k])
                          ELSE h.n = k /\ Working(h, views[k - 1], by[k - 1])
        BY <2>4, <3>3, <4>2 DEF InTurn
      <4>4. CASE h.n = 0
        <5>1. Agrees(views[k], by[k])'
          BY <2>1, <2>5, <3>3, <4>1, <4>3, <4>4, MonitoringCalm
        <5>2. ASSUME Account!Leaves(h) PROVE InTurn(views, by, k)'
          BY <2>2, <2>4, <4>1, <4>3, <5>1, <5>2 DEF InTurn, Account!Leaves
        <5>3. ASSUME NEW i, Advances(h, i) PROVE InTurn(views, by, k)'
          <6>1. inst_handlers' = {i} /\ i.n = 0 /\ Account!Event(i)' = Account!Event(h)
            BY <4>3, <4>4, <5>3, EventsStay DEF Advances
          <6>. QED
            BY <2>2, <4>1, <4>2, <4>3, <4>4, <5>1, <6>1 DEF InTurn
        <5>. QED
          BY <2>1, <2>5, <3>3, <4>1, <5>2, <5>3, StepMoves
      <4>5. CASE h.n # 0
        <5>1. h.n \in DOMAIN inst_sent /\ Account!Event(h) = inst_sent[h.n] /\ h.n = k
              /\ Account!Event(h).kind \in {"add", "remove", "uninstall", "push"}
          BY <4>3, <4>5, EventIs DEF HandlersInv
        <5>2. k \in 1 .. len /\ k - 1 \in 0 .. len
          BY <2>4, <5>1
        <5>3. /\ AccountFollows(Account!Event(h), views[k - 1], views[k], by[k - 1], by[k])
              /\ views[k - 1] \in SUBSET Repos
          BY <2>1, <2>4, <5>1, <5>2 DEF Tells
        <5>4. Working(h, views[k - 1], by[k - 1])
          BY <4>3, <4>5
        <5>5. \/ inst_handlers' = {} /\ Agrees(views[k], by[k])'
              \/ \E i : inst_handlers' = {i} /\ i.n = h.n
                 /\ Working(i, views[k - 1], by[k - 1])'
          <6>1. CASE Account!Event(h).kind = "add"
            BY <3>3, <4>3, <5>3, <5>4, <6>1, AddingCalm
          <6>2. CASE Account!Event(h).kind = "push"
            BY <3>3, <4>3, <5>3, <5>4, <6>2, PushCalm
          <6>3. CASE Account!Event(h).kind \in {"remove", "uninstall"}
            BY <3>3, <4>3, <5>3, <5>4, <6>3, RemovingCalm
          <6>. QED
            BY <5>1, <6>1, <6>2, <6>3
        <5>6. InTurn(views, by, k)'
          BY <2>2, <2>4, <4>1, <4>3, <4>5, <5>1, <5>5 DEF InTurn
        <5>. QED
          BY <2>1, <2>5, <4>1, <5>6
      <4>. QED
        BY <4>4, <4>5
    <3>4. CASE \/ Account!HandleOrganisationLinking \/ Account!DeleteIntegration
               \/ \E id \in verifications : Account!LinkingCallback(id) \/ Account!Expire(id)
               \/ \E m \in monitors : Account!StopRepositoryMonitoring(m)
               \/ \E u \in Users : \E id \in Account!DocIds : Account!MonitorKnown(u, id)
               \/ \E id \in inst_jobs \cup stopping : Account!Write(id) \/ Account!End(id)
               \/ UNCHANGED Account!vars
      <4>1. UNCHANGED <<inst_handlers, docs, inst_mail, calm, overlap>>
        BY <3>4 DEF Account!HandleOrganisationLinking, Account!DeleteIntegration,
           Account!LinkingCallback, Account!Expire, Account!MonitorKnown,
              Account!StopRepositoryMonitoring, Account!Write, Account!End, Account!history,
              Account!vars, Account!database
      <4>2. org' = org \/ org' = [org EXCEPT !.jira = TRUE]
            \/ org' = [org EXCEPT !.jira = FALSE]
        BY <3>4 DEF Account!HandleOrganisationLinking, Account!DeleteIntegration,
           Account!LinkingCallback, Account!Expire, Account!MonitorKnown,
              Account!StopRepositoryMonitoring, Account!Write, Account!End, Account!vars,
              Account!database
      <4>3. org'.inst = org.inst
        BY <4>2 DEF StoreInv, OrgInv, Orgs
      <4>4. PICK k \in 0 .. len : InTurn(views, by, k)
        BY <2>1, <2>4, <2>5, <4>1
      <4>5. InTurn(views, by, k)'
        BY <2>2, <4>1, <4>3, <4>4, CalmStays
      <4>. QED
        BY <2>1, <2>5, <4>1, <4>5
    <3>5. ~(\E r \in Repos : Account!AdminDeletes(r))
          /\ ~(\E h \in inst_handlers : Account!Fails(h))
      BY <2>5 DEF Account!AdminDeletes, Account!Fails
    <3>. QED
      BY <1>2, <3>1, <3>2, <3>3, <3>4, <3>5 DEF Account!Next, Account!Handling,
         Account!Acting, Github
  <2>6. calm' => ~overlap' /\ \E k \in 0 .. Len(inst_sent') : InTurn(views, by, k)'
    BY <2>4, <2>5
  <2>. QED
    BY <2>3, <2>6 DEF CalmInv
<1>. QED
  BY <1>1, <1>2

(* The inductive invariant.                                                *)
AccountInv == Values /\ OwnedInv /\ LateInv /\ Account!MonitoredIsRead /\ Account!LinkKept
              /\ CalmInv

(* The invariant holds in the beginning.                                   *)
LEMMA AccountInit == Account!Init => AccountInv
<1>. SUFFICES ASSUME Account!Init PROVE AccountInv
  OBVIOUS
<1>1. Values
  BY GithubInit, StoreInit, HandlersInit DEF Values
<1>2. OwnedInv /\ LateInv
  BY DEF Account!Init, OwnedInv, LateInv, Account!NoDoc, Account!Present
<1>3. Account!MonitoredIsRead /\ Account!LinkKept
  BY DEF Account!Init, Account!MonitoredIsRead, Account!LinkKept, Account!NoDoc
<1>. QED
  BY <1>1, <1>2, <1>3, CalmInit DEF AccountInv

(* Every step keeps the invariant.                                         *)
LEMMA AccountNext == AccountInv /\ [Account!Next]_(Account!vars) => AccountInv'
BY GithubKept, StoreKept, HandlersKept, OwnedKept, LateKept, MonitoredKept, LinkedKept, CalmKept
DEF AccountInv, Values

(* The invariant tells the types.                                          *)
LEMMA TypeHolds == AccountInv => Account!TypeOK
<1>. SUFFICES ASSUME AccountInv PROVE Account!TypeOK
  OBVIOUS
<1>. GithubInv /\ StoreInv /\ HandlersInv
  BY DEF AccountInv, Values
<1>1. inst \in 0 .. installs /\ installs \in 0 .. MaxDeliveries /\ selected \subseteq Repos
      /\ slug \in 1 .. 2
      /\ inst_mail \subseteq DOMAIN inst_sent
  BY InstallationsAssumed DEF GithubInv, Account!InstallationsAssumption
<1>2. org.id \in 0 .. lastId /\ org.inst \in 0 .. installs
  BY DEF StoreInv, OrgInv, Orgs, GithubInv
<1>3. \A r \in Repos : docs[r].id \in 0 .. lastId /\ docs[r].org \in 0 .. lastId
  BY DEF StoreInv, DocsInv, Documents
<1>4. /\ \A r, s \in Repos : Account!Present(r) /\ docs[r].id = docs[s].id => r = s
      /\ org.id # 0 => org.id \notin Account!DocIds
  BY DEF StoreInv, DocsInv, Account!DocIds
<1>5. \A m \in monitors : m[1] \in Users /\ m[2] \in 1 .. lastId
  BY DEF StoreInv, SetsInv
<1>6. repos_with_commits \cup inst_jobs \cup stopping \subseteq 1 .. lastId
      /\ verifications \subseteq 1 .. lastId
  BY DEF StoreInv, SetsInv
<1>. QED
  BY <1>1, <1>2, <1>3, <1>4, <1>5, <1>6, AccountCardinality DEF Account!TypeOK, HandlersInv

(* With nothing to be done all deliveries were handled.                    *)
LEMMA InstalledHold == AccountInv => Account!InstalledAgree
<1>. SUFFICES ASSUME AccountInv, Account!Settled, calm PROVE Account!InstalledAgree
  BY DEF Account!InstalledAgree
<1>1. PICK views, by : Tells(views, by) /\ \E k \in 0 .. Len(inst_sent) : InTurn(views, by, k)
  BY DEF AccountInv, CalmInv
<1>2. PICK k \in 0 .. Len(inst_sent) : InTurn(views, by, k)
  BY <1>1
<1>3. Len(inst_sent) \in Nat
  BY DEF AccountInv, Values, GithubInv
<1>4. inst_handlers = {} /\ k + 1 .. Len(inst_sent) = {} /\ Agrees(views[k], by[k])
  BY <1>2 DEF InTurn, Account!Settled
<1>5. k = Len(inst_sent)
  BY <1>3, <1>4
<1>. QED
  BY <1>1, <1>4, <1>5 DEF Tells, Agrees, Installed, Account!InstalledAgree

(* What is stored belongs together.                                        *)
LEMMA OrphansHold == AccountInv => Account!RepoHasOrganization /\ Account!NoOrphanCommits
                     /\ Account!MonitoredIsRead /\ Account!LinkKept
BY DEF AccountInv, OwnedInv, LateInv, Account!RepoHasOrganization, Account!NoOrphanCommits

-----------------------------------------------------------------------------
(* The account moves alone or not at all.                                  *)
LEMMA AccountRuns ==
    ASSUME [SourceNext]_SourceVars, asks = "account" \/ asks' = "account"
    PROVE  asks = "account" /\ asks' = "account" /\ [Account!Next]_(Account!vars)
  BY DEF SourceNext, SourceVars, AccountVars, Account!vars, Account!github, Account!server,
     Account!database, Account!acting, Account!history

(* The invariant holds while the account is served.                        *)
LEMMA AccountHolds == SourceSpec => [](asks = "account" => AccountInv)
<1> DEFINE Inv == asks = "account" => AccountInv
<1>1. SourceInit => Inv
  BY AccountInit DEF SourceInit
<1>2. Inv /\ [SourceNext]_SourceVars => Inv'
  BY AccountNext, AccountRuns
<1>3. QED
  BY <1>1, <1>2, PTL DEF SourceSpec

(* Deliveries that were handled one by one, in order and without failure,  *)
(* leave the repositories that GitHub lets the installation see, with that *)
(* installation: installationEvent, installationRepositoriesEvent and      *)
(* pushEvent, for any number of repositories, deliveries, users and acts.  *)
THEOREM InstallationsAgree == SourceSpec => []InstalledAgree
<1>1. (asks = "account" => AccountInv) => InstalledAgree
  BY TypeHolds, InstalledHold DEF InstalledAgree
<1>2. QED
  BY <1>1, AccountHolds, PTL

(* However handlers and users overlap or fail: repositories have the       *)
(* organization that is stored unless an uninstallation overlaps, commits  *)
(* without a repository are of a late process only, who is monitored has a *)
(* monitor or none could be entered, and a link outlives all but an        *)
(* installation.                                                           *)
THEOREM NothingIsOrphaned == SourceSpec => []NothingOrphaned
<1>1. (asks = "account" => AccountInv) => NothingOrphaned
  BY OrphansHold DEF NothingOrphaned
<1>2. QED
  BY <1>1, AccountHolds, PTL

-----------------------------------------------------------------------------
(* The lists that come in pages.                                           *)

(* The assumptions of the lists are among those of this module, and the    *)
(* cardinality of a set is the one that Paging takes.                      *)
LEMMA PagingAssumed ==
    /\ Walk!PagingAssumption /\ IsFiniteSet(Entries)
    /\ \A S : Walk!Cardinality(S) = Cardinality(S)
<1>1. \A S : Walk!IsFiniteSet(S) => IsFiniteSet(S)
  BY DEF Walk!IsFiniteSet, IsFiniteSet
<1>2. \A S : Walk!Cardinality(S) = Cardinality(S)
  BY DEF Walk!Cardinality, Cardinality
<1>3. QED
  BY <1>1, <1>2, SourceAssumption DEF Walk!PagingAssumption

(* The entries of the page that are not handled yet.                       *)
InHand == {fetched[i].entry : i \in DOMAIN fetched}

(* GitHub's list holds an entry once.                                      *)
ListInv ==
    /\ kind \in Walk!Kinds /\ list \in Seq(Entries) /\ IsInjective(list)
    /\ version \in [Entries -> Nat] /\ list_changes \in 0 .. MaxChanges
    /\ stayed \subseteq Walk!SetOf(list)

(* A page is in hand only while it is handled, and no entry of it twice;   *)
(* the documents are never ahead of GitHub.                                *)
HandInv ==
    /\ state \in {"fetch", "handle", "done", "failed"}
    /\ page \in Nat \ {0} /\ page <= Cardinality(Entries) + 2
    /\ state = "fetch" => page <= Cardinality(Entries) + 1
    /\ next_page \in 0 .. Cardinality(Entries) /\ last_page \in 0 .. Cardinality(Entries)
    /\ state = "handle" => next_page \in {0, page}
    /\ state # "handle" => fetched = <<>>
    /\ fetched \in Seq([entry : Entries, version : Nat]) /\ Len(fetched) <= PerPage
    /\ \A i, j \in DOMAIN fetched : fetched[i].entry = fetched[j].entry => i = j
    /\ \A i \in DOMAIN fetched : fetched[i].version <= version[fetched[i].entry]
    /\ result \subseteq Entries
    /\ source_stored \in [Entries -> Int]
       /\ \A e \in Entries : source_stored[e] \in -1 .. version[e]

(* What stayed was reached, is in hand, or lies on the pages to come.      *)
ReachInv ==
    kind = "pulls" /\ ~shifted =>
        /\ state \in {"fetch", "handle"} => \A i \in DOMAIN list :
             \/ list[i] \notin stayed \/ list[i] \in result \cup InHand
             \/ i > (page - 1) * PerPage
        /\ state = "handle" /\ next_page = 0 => stayed \subseteq result \cup InHand
        /\ state = "done" => stayed \subseteq result

(* An entry that is stored or in hand is as GitHub has it, or was          *)
(* overtaken.                                                              *)
FreshInv ==
    kind = "pulls" =>
        /\ \A e \in result : source_stored[e] = version[e] \/ e \in overtaken
        /\ \A i \in DOMAIN fetched : \/ fetched[i].version = version[fetched[i].entry]
                                     \/ fetched[i].entry \in overtaken

(* The users of the pages up to the n-th, or of the n-th alone.            *)
UpTo(n) ==
    UNION {Walk!SetOf(Walk!OfPage(k)) : k \in IF kind = "members" THEN 1 .. n ELSE {n} \ {0}}

(* A list of users does not change: the pages before the one asked for     *)
(* were read, and there is a page after it.                                *)
UsersInv ==
    kind # "pulls" =>
        /\ state = "fetch" => (page = 1 \/ page < Walk!Pages) /\ result = UpTo(page - 1)
        /\ state = "handle" =>
             /\ page > 1 /\ (page = 2 \/ page - 1 < Walk!Pages)
             /\ next_page = IF page - 1 < Walk!Pages THEN page ELSE 0
             /\ last_page = IF page - 1 < Walk!Pages THEN Walk!Pages ELSE 0
             /\ fetched = <<>> => result = UpTo(page - 1)
             /\ fetched # <<>> => InHand = Walk!SetOf(Walk!OfPage(page - 1))
                /\ result = UpTo(page - 2)
        /\ state = "done" =>
             result = UpTo(IF Walk!Pages <= 1 THEN Walk!Pages ELSE Walk!Pages - 1)

PagingInv == ListInv /\ HandInv /\ ReachInv /\ FreshInv /\ UsersInv

(* A list holds its entries once when it has as many as places.            *)
LEMMA CountOnce ==
    ASSUME NEW s \in Seq(Entries)
    PROVE  /\ Cardinality(Entries) \in Nat
           /\ Cardinality(Walk!SetOf(s)) = Len(s) <=> IsInjective(s)
           /\ IsInjective(s) => Len(s) <= Cardinality(Entries)
<1> DEFINE D == 1 .. Len(s)
           E == Walk!SetOf(s)
<1>1. IsFiniteSet(Entries) /\ Cardinality(Entries) \in Nat
  BY PagingAssumed, FS_CardinalityType DEF Walk!PagingAssumption
<1>2. Len(s) \in Nat /\ DOMAIN s = D /\ E \subseteq Entries
  BY DEF Walk!SetOf
<1>3. IsFiniteSet(D) /\ Cardinality(D) = Len(s)
  <2>1. 1 \in Int /\ Len(s) \in Int /\ (IF 1 > Len(s) THEN 0 ELSE Len(s) - 1 + 1) = Len(s)
    BY <1>2
  <2> QED
    BY <2>1, FS_Interval
<1>4. s \in Surjection(D, E)
  <2>1. s \in [D -> E]
    BY <1>2 DEF Walk!SetOf
  <2>2. \A t \in E : \E a \in D : s[a] = t
    BY <1>2 DEF Walk!SetOf
  <2> QED
    BY <2>1, <2>2 DEF Surjection
<1> HIDE DEF E, D
<1>5. Cardinality(E) = Cardinality(D) <=> s \in Injection(D, E)
  BY <1>3, <1>4, FS_Surjection
<1>6. Cardinality(E) <= Cardinality(Entries)
  BY <1>1, <1>2, FS_Subset
<1>7. s \in Injection(D, E) <=> IsInjective(s)
  BY <1>2, <1>4 DEF Injection, Surjection, IsInjective
<1>8. QED
  BY <1>1, <1>3, <1>5, <1>6, <1>7 DEF E

(* The lists of GitHub are those that hold their entries once.             *)
LEMMA ListsAre == \A s : s \in Walk!Lists <=> s \in Seq(Entries) /\ IsInjective(s)
<1>1. ASSUME NEW s \in Walk!Lists PROVE s \in Seq(Entries) /\ IsInjective(s)
  <2>1. PICK n \in 0 .. Cardinality(Entries) : s \in [1 .. n -> Entries]
    BY PagingAssumed DEF Walk!Lists
  <2>2. s \in Seq(Entries)
    <3>1. Cardinality(Entries) \in Nat
      BY PagingAssumed, FS_CardinalityType DEF Walk!PagingAssumption
    <3>2. n \in Nat
      BY <3>1
    <3> QED
      BY <2>1, <3>2, SeqDef
  <2> QED
    BY <2>2, CountOnce, PagingAssumed DEF Walk!Lists
<1>2. ASSUME NEW s \in Seq(Entries), IsInjective(s) PROVE s \in Walk!Lists
  <2>1. Len(s) \in 0 .. Cardinality(Entries) /\ Cardinality(Walk!SetOf(s)) = Len(s)
    BY <1>2, CountOnce
  <2>2. s \in [1 .. Len(s) -> Entries]
    OBVIOUS
  <2> QED
    BY <2>1, <2>2, PagingAssumed DEF Walk!Lists
<1>3. QED
  BY <1>1, <1>2

(* The division of the list into pages.                                    *)
LEMMA Division ==
    ASSUME NEW n \in Nat, NEW b \in Nat \ {0}
    PROVE  (n + b - 1) \div b \in Nat /\ ((n + b - 1) \div b) * b <= n + b - 1
           /\ n + b - 1 < ((n + b - 1) \div b) * b + b
<1>1. n + b - 1 \in Nat
  OBVIOUS
<1>2. \A m \in Nat : m \div b \in Nat /\ (m \div b) * b <= m /\ m < (m \div b) * b + b
  OBVIOUS
<1>3. QED
  BY <1>1, <1>2

(* Pages come one after the other.                                         *)
LEMMA PagesGrow ==
    ASSUME NEW p \in Nat, NEW q \in Nat
    PROVE  /\ p * PerPage \in Nat /\ q * PerPage \in Nat
           /\ p <= q => p * PerPage <= q * PerPage
           /\ p < q => p * PerPage + PerPage <= q * PerPage
           /\ p # 0 => p * PerPage = (p - 1) * PerPage + PerPage /\ (p - 1) * PerPage \in Nat
<1> PerPage \in Nat
  BY PagingAssumed DEF Walk!PagingAssumption
<1>1. p * PerPage \in Nat /\ q * PerPage \in Nat
  OBVIOUS
<1>2. p <= q => p * PerPage <= q * PerPage
  OBVIOUS
<1>3. p < q => p * PerPage + PerPage <= q * PerPage
  OBVIOUS
<1>4. (p - 1) * PerPage = p * PerPage - PerPage
  OBVIOUS
<1>5. p # 0 => (p - 1) * PerPage \in Nat
  <2>1. p # 0 => p - 1 \in Nat
    OBVIOUS
  <2>2. \A r \in Nat : r * PerPage \in Nat
    OBVIOUS
  <2> QED
    BY <2>1, <2>2
<1>6. QED
  BY <1>1, <1>2, <1>3, <1>4, <1>5

(* There are no more pages than entries, and a page is not the last one    *)
(* when the list goes on after it.                                         *)
LEMMA PagesAre ==
    ASSUME ListInv
    PROVE  /\ Cardinality(Entries) \in Nat /\ Len(list) \in Nat
           /\ Walk!Pages \in 0 .. Cardinality(Entries)
           /\ \A p \in Nat : p < Walk!Pages <=> p * PerPage < Len(list)
<1> DEFINE b == PerPage
           n == Len(list)
           q == Walk!Pages
<1>1. b \in Nat \ {0}
  BY PagingAssumed DEF Walk!PagingAssumption
<1>2. n \in Nat /\ n <= Cardinality(Entries) /\ Cardinality(Entries) \in Nat
  BY CountOnce DEF ListInv
<1>3. q \in Nat /\ q * b <= n + b - 1 /\ n + b - 1 < q * b + b
  BY <1>1, <1>2, Division DEF Walk!Pages
<1>4. ASSUME NEW p \in Nat PROVE p < q <=> p * b < n
  <2>1. p * b \in Nat /\ q * b \in Nat
    BY <1>3, PagesGrow
  <2>2. CASE p < q
    <3>1. p * b + b <= q * b
      BY <2>2, <1>3, PagesGrow
    <3> HIDE DEF b, n, q
    <3> QED
      BY <3>1, <2>1, <2>2, <1>1, <1>2, <1>3
  <2>3. CASE q <= p
    <3>1. q * b <= p * b
      BY <2>3, <1>3, PagesGrow
    <3> HIDE DEF b, n, q
    <3> QED
      BY <3>1, <2>1, <2>3, <1>1, <1>2, <1>3
  <2> HIDE DEF b, n, q
  <2>4. QED
    BY <2>2, <2>3, <1>3
<1>5. q <= n
  <2> SUFFICES ASSUME n < q PROVE FALSE
    BY <1>2, <1>3
  <2>1. n * b < n
    BY <1>2, <1>4
  <2>2. \A k \in Nat, c \in Nat \ {0} : k <= k * c
    OBVIOUS
  <2>3. n <= n * b
    BY <1>1, <1>2, <2>2
  <2>4. n * b \in Nat
    BY <1>2, PagesGrow
  <2> HIDE DEF b, n, q
  <2> QED
    BY <2>1, <2>3, <2>4, <1>2
<1>6. QED
  BY <1>2, <1>3, <1>4, <1>5

(* A page holds the entries of its places in the list.                     *)
LEMMA PageIs ==
    ASSUME ListInv, NEW k \in Nat \ {0}
    PROVE  /\ Walk!OfPage(k) \in Seq(Entries) /\ Len(Walk!OfPage(k)) <= PerPage
           /\ \A i \in DOMAIN Walk!OfPage(k) :
                /\ (k - 1) * PerPage + i \in DOMAIN list
                /\ (k - 1) * PerPage + i <= k * PerPage
                /\ Walk!OfPage(k)[i] = list[(k - 1) * PerPage + i]
           /\ \A j \in DOMAIN list : (k - 1) * PerPage < j /\ j <= k * PerPage =>
                 \E i \in DOMAIN Walk!OfPage(k) : Walk!OfPage(k)[i] = list[j]
<1> DEFINE lo == (k - 1) * PerPage
           hi == IF k * PerPage < Len(list) THEN k * PerPage ELSE Len(list)
           s == Walk!OfPage(k)
<1>1. PerPage \in Nat \ {0} /\ lo \in Nat /\ k * PerPage = lo + PerPage
  BY PagesGrow, PagingAssumed DEF Walk!PagingAssumption
<1>2. list \in Seq(Entries) /\ Len(list) \in Nat /\ DOMAIN list = 1 .. Len(list)
  BY DEF ListInv
<1>3. hi \in Nat /\ hi <= Len(list) /\ hi <= lo + PerPage
      /\ (hi < Len(list) => hi = lo + PerPage)
  <2> HIDE DEF lo
  <2> QED
    BY <1>1, <1>2
<1>4. s = SubSeq(list, lo + 1, hi)
  BY DEF Walk!OfPage
<1> HIDE DEF lo, hi, s
<1>5. lo + 1 \in Int /\ hi \in Int /\ \A i \in lo + 1 .. hi : list[i] \in Entries
  BY <1>1, <1>2, <1>3
<1>6. /\ s \in Seq(Entries)
      /\ Len(s) = IF lo + 1 <= hi THEN hi - (lo + 1) + 1 ELSE 0
      /\ \A i \in 1 .. hi - (lo + 1) + 1 : s[i] = list[lo + 1 + i - 1]
  BY <1>2, <1>4, <1>5, SubSeqProperties
<1>7. DOMAIN s = 1 .. Len(s) /\ Len(s) <= PerPage
  BY <1>1, <1>3, <1>6
<1>8. ASSUME NEW i \in DOMAIN s
      PROVE  lo + i \in DOMAIN list /\ lo + i <= k * PerPage /\ s[i] = list[lo + i]
  <2>1. i \in 1 .. hi - (lo + 1) + 1 /\ lo + 1 + i - 1 = lo + i
    BY <1>1, <1>3, <1>6, <1>7
  <2>2. lo + i \in 1 .. hi
    BY <2>1, <1>1, <1>3
  <2>3. lo + i <= hi /\ lo + i >= 1 /\ lo + i \in Int
    BY <2>2, <1>3
  <2>4. lo + i \in 1 .. Len(list) /\ lo + i <= lo + PerPage
    BY <2>3, <1>1, <1>2, <1>3
  <2> QED
    BY <2>1, <2>4, <1>1, <1>2, <1>6
<1>9. ASSUME NEW j \in DOMAIN list, lo < j, j <= k * PerPage
      PROVE  \E i \in DOMAIN s : s[i] = list[j]
  <2>1. j \in Nat /\ j <= Len(list) /\ j <= lo + PerPage
    BY <1>1, <1>2, <1>9
  <2>2. j <= hi
    BY <2>1, <1>1, <1>2, <1>3
  <2>3. j - lo \in DOMAIN s /\ lo + (j - lo) = j
    BY <2>1, <2>2, <1>1, <1>3, <1>6, <1>7, <1>9
  <2> QED
    BY <2>3, <1>8
<1>10. QED
  BY <1>6, <1>7, <1>8, <1>9 DEF lo, s

(* An entry is on the page of its place, and on no other.                  *)
LEMMA OnPage ==
    ASSUME ListInv, NEW k \in Nat \ {0}
    PROVE  /\ Walk!SetOf(Walk!OfPage(k)) \subseteq Walk!SetOf(list)
           /\ \A e : e \in Walk!SetOf(Walk!OfPage(k)) <=>
                \E j \in DOMAIN list : e = list[j] /\ (k - 1) * PerPage < j /\ j <= k * PerPage
           /\ Walk!OfPage(k) = <<>> <=> Len(list) <= (k - 1) * PerPage
           /\ IsInjective(Walk!OfPage(k))
<1> DEFINE lo == (k - 1) * PerPage
<1>1. lo \in Nat /\ PerPage \in Nat \ {0} /\ k * PerPage = lo + PerPage
  BY PagesGrow, PagingAssumed DEF Walk!PagingAssumption
<1>2. list \in Seq(Entries) /\ Len(list) \in Nat /\ DOMAIN list = 1 .. Len(list)
      /\ IsInjective(list)
  BY DEF ListInv
<1>3. /\ Walk!OfPage(k) \in Seq(Entries)
      /\ \A i \in DOMAIN Walk!OfPage(k) :
           lo + i \in DOMAIN list /\ lo + i <= k * PerPage /\ Walk!OfPage(k)[i] = list[lo + i]
      /\ \A j \in DOMAIN list : lo < j /\ j <= k * PerPage =>
           \E i \in DOMAIN Walk!OfPage(k) : Walk!OfPage(k)[i] = list[j]
  BY PageIs
<1> HIDE DEF lo
<1>4. \A i \in DOMAIN Walk!OfPage(k) : i \in Nat \ {0} /\ lo < lo + i
  <2>1. DOMAIN Walk!OfPage(k) = 1 .. Len(Walk!OfPage(k)) /\ Len(Walk!OfPage(k)) \in Nat
    BY <1>3
  <2> QED
    BY <2>1, <1>1
<1>5. Walk!SetOf(Walk!OfPage(k)) \subseteq Walk!SetOf(list)
  BY <1>3 DEF Walk!SetOf
<1>6. \A e : e \in Walk!SetOf(Walk!OfPage(k)) <=>
        \E j \in DOMAIN list : e = list[j] /\ lo < j /\ j <= k * PerPage
  BY <1>3, <1>4 DEF Walk!SetOf
<1>7. Walk!OfPage(k) = <<>> <=> Len(list) <= lo
  <2>1. CASE Len(list) <= lo
    <3>1. \A j \in DOMAIN list : j <= lo
      BY <2>1, <1>1, <1>2
    <3>2. \A i \in DOMAIN Walk!OfPage(k) : FALSE
      BY <3>1, <1>1, <1>2, <1>3, <1>4
    <3>3. DOMAIN Walk!OfPage(k) = 1 .. Len(Walk!OfPage(k)) /\ Len(Walk!OfPage(k)) \in Nat
      BY <1>3
    <3>4. Len(Walk!OfPage(k)) = 0
      BY <3>2, <3>3
    <3> QED
      BY <2>1, <3>4, <1>3, EmptySeq
  <2>2. CASE lo < Len(list)
    <3>1. lo + 1 \in DOMAIN list /\ lo < lo + 1 /\ lo + 1 <= k * PerPage
      BY <2>2, <1>1, <1>2
    <3>2. DOMAIN Walk!OfPage(k) # {}
      BY <3>1, <1>3
    <3>3. ~(Len(list) <= lo)
      BY <2>2, <1>1, <1>2
    <3>4. Walk!OfPage(k) # <<>>
      BY <3>2
    <3> QED
      BY <3>3, <3>4
  <2> QED
    BY <2>1, <2>2, <1>1, <1>2
<1>8. IsInjective(Walk!OfPage(k))
  <2> SUFFICES ASSUME NEW x \in DOMAIN Walk!OfPage(k), NEW y \in DOMAIN Walk!OfPage(k),
                      Walk!OfPage(k)[x] = Walk!OfPage(k)[y]
               PROVE  x = y
    BY DEF IsInjective
  <2>1. lo + x = lo + y
    BY <1>2, <1>3 DEF IsInjective
  <2> QED
    BY <2>1, <1>1, <1>4
<1>9. QED
  BY <1>5, <1>6, <1>7, <1>8 DEF lo

(* A place behind the one that is left out.                                *)
LEMMA PlaceAfter ==
    ASSUME NEW i \in Int, NEW j \in Int, NEW n \in Int, j <= n - 1, i <= j
    PROVE  ~(j <= i - 1) /\ j - (i - 1) \in 1 .. n - i /\ i + (j - (i - 1)) = j + 1
OBVIOUS

(* The list without one of its entries (Close).                            *)
LEMMA ListWithout ==
    ASSUME ListInv, NEW i \in DOMAIN list, NEW t,
           t = SubSeq(list, 1, i - 1) \o SubSeq(list, i + 1, Len(list))
    PROVE  /\ t \in Seq(Entries) /\ IsInjective(t)
              /\ Walk!SetOf(t) = Walk!SetOf(list) \ {list[i]}
           /\ i \in Nat
           /\ \A k \in DOMAIN t : k \in Nat /\ ((k \in DOMAIN list /\ t[k] = list[k]) \/ i <= k)
<1> DEFINE n == Len(list)
           a == SubSeq(list, 1, i - 1)
           c == SubSeq(list, i + 1, n)
<1>1. list \in Seq(Entries) /\ n \in Nat /\ DOMAIN list = 1 .. n /\ IsInjective(list)
  BY DEF ListInv
<1>2. i \in 1 .. n /\ i - 1 \in Int /\ i + 1 \in Int /\ 1 \in Int /\ n \in Int
  BY <1>1
<1>3. \A j \in 1 .. n : list[j] \in Entries
  BY <1>1
<1>4. a \in Seq(Entries) /\ Len(a) = i - 1 /\ \A j \in 1 .. i - 1 : a[j] = list[j]
  <2>1. \A j \in 1 .. i - 1 : list[j] \in Entries
    BY <1>2, <1>3
  <2>2. /\ a \in Seq(Entries) /\ Len(a) = IF 1 <= i - 1 THEN i - 1 - 1 + 1 ELSE 0
        /\ \A j \in 1 .. i - 1 - 1 + 1 : a[j] = list[1 + j - 1]
    BY <1>2, <2>1, SubSeqProperties
  <2> HIDE DEF a, n
  <2> QED
    BY <2>2, <1>2
<1>5. c \in Seq(Entries) /\ Len(c) = n - i /\ \A j \in 1 .. n - i : c[j] = list[i + j]
  <2>1. \A j \in i + 1 .. n : list[j] \in Entries
    BY <1>2, <1>3
  <2>2. /\ c \in Seq(Entries) /\ Len(c) = IF i + 1 <= n THEN n - (i + 1) + 1 ELSE 0
        /\ \A j \in 1 .. n - (i + 1) + 1 : c[j] = list[i + 1 + j - 1]
    BY <1>2, <2>1, SubSeqProperties
  <2>3. n - (i + 1) + 1 = n - i /\ (IF i + 1 <= n THEN n - (i + 1) + 1 ELSE 0) = n - i
    <3> HIDE DEF n
    <3> QED
      BY <1>2
  <2> HIDE DEF c, n
  <2>4. \A j \in 1 .. n - i : i + 1 + j - 1 = i + j
    BY <1>2
  <2> QED
    BY <2>2, <2>3, <2>4
<1> HIDE DEF a, c, n
<1>6. /\ t \in Seq(Entries) /\ Len(t) = n - 1
      /\ \A j \in 1 .. n - 1 : t[j] = IF j < i THEN list[j] ELSE list[j + 1]
  <2>1. t = a \o c
    BY DEF a, c, n
  <2>2. /\ t \in Seq(Entries) /\ Len(t) = Len(a) + Len(c)
        /\ \A j \in 1 .. Len(a) + Len(c) : t[j] = IF j <= Len(a) THEN a[j] ELSE c[j - Len(a)]
    <3>1. a \in Seq(Entries) /\ c \in Seq(Entries)
      BY <1>4, <1>5
    <3>2. /\ a \o c \in Seq(Entries) /\ Len(a \o c) = Len(a) + Len(c)
          /\ \A j \in 1 .. Len(a) + Len(c) :
               (a \o c)[j] = IF j <= Len(a) THEN a[j] ELSE c[j - Len(a)]
      BY <3>1, ConcatProperties
    <3> QED
      BY <2>1, <3>2
  <2>3. Len(a) + Len(c) = n - 1 /\ Len(a) = i - 1 /\ i \in Int /\ n \in Int
    BY <1>1, <1>2, <1>4, <1>5
  <2>4. ASSUME NEW j \in 1 .. n - 1 PROVE t[j] = IF j < i THEN list[j] ELSE list[j + 1]
    <3>1. t[j] = IF j <= Len(a) THEN a[j] ELSE c[j - Len(a)]
      BY <2>2, <2>3
    <3>2. CASE j < i
      BY <3>1, <3>2, <1>2, <1>4
    <3>3. CASE ~(j < i)
      <4>1. ~(j <= Len(a)) /\ j - Len(a) \in 1 .. n - i /\ i + (j - Len(a)) = j + 1
        <5>1. j \in Int /\ j <= n - 1 /\ i <= j
          BY <3>3, <2>3
        <5>2. ~(j <= i - 1) /\ j - (i - 1) \in 1 .. n - i /\ i + (j - (i - 1)) = j + 1
          BY <5>1, <2>3, PlaceAfter
        <5> QED
          BY <5>2, <2>3
      <4> QED
        BY <4>1, <3>1, <3>3, <1>5
    <3> QED
      BY <3>2, <3>3
  <2> QED
    BY <2>2, <2>3, <2>4
<1>7. DOMAIN t = 1 .. n - 1 /\ n - 1 \in Nat
  BY <1>1, <1>2, <1>6
<1>8. IsInjective(t)
  <2> SUFFICES ASSUME NEW x \in 1 .. n - 1, NEW y \in 1 .. n - 1, t[x] = t[y] PROVE x = y
    BY <1>7 DEF IsInjective
  <2> DEFINE X == IF x < i THEN x ELSE x + 1
             Y == IF y < i THEN y ELSE y + 1
  <2>1. X \in 1 .. n /\ Y \in 1 .. n
    BY <1>1, <1>2
  <2>2. list[X] = list[Y]
    BY <1>6
  <2>3. X = Y
    BY <2>1, <2>2, <1>1 DEF IsInjective
  <2>4. i \in Int /\ x \in Int /\ y \in Int
    BY <1>2
  <2> QED
    BY <2>3, <2>4
<1>9. Walk!SetOf(t) \subseteq Walk!SetOf(list) \ {list[i]}
  <2> SUFFICES ASSUME NEW x \in 1 .. n - 1 PROVE t[x] \in Walk!SetOf(list) \ {list[i]}
    BY <1>7 DEF Walk!SetOf
  <2> DEFINE X == IF x < i THEN x ELSE x + 1
  <2>1. X \in 1 .. n /\ X # i /\ t[x] = list[X]
    <3>1. i \in Int /\ n \in Int
      BY <1>2
    <3>2. X \in 1 .. n /\ X # i
      BY <3>1
    <3>3. t[x] = list[X]
      BY <1>6
    <3> QED
      BY <3>2, <3>3
  <2> HIDE DEF X
  <2>2. list[X] # list[i]
    BY <2>1, <1>1, <1>2 DEF IsInjective
  <2> QED
    BY <2>1, <2>2, <1>1 DEF Walk!SetOf
<1>10. Walk!SetOf(list) \ {list[i]} \subseteq Walk!SetOf(t)
  <2> SUFFICES ASSUME NEW x \in 1 .. n, x # i PROVE list[x] \in Walk!SetOf(t)
    BY <1>1 DEF Walk!SetOf
  <2> DEFINE X == IF x < i THEN x ELSE x - 1
  <2>1. X \in 1 .. n - 1 /\ t[X] = list[x]
    <3>1. X \in 1 .. n - 1
      BY <1>1, <1>2
    <3>2. t[X] = IF X < i THEN list[X] ELSE list[X + 1]
      BY <3>1, <1>6
    <3> QED
      BY <3>1, <3>2, <1>1, <1>2
  <2> QED
    BY <2>1, <1>7 DEF Walk!SetOf
<1>11. \A k \in DOMAIN t : k \in Nat /\ ((k \in DOMAIN list /\ t[k] = list[k]) \/ i <= k)
  <2> SUFFICES ASSUME NEW k \in 1 .. n - 1
               PROVE  k \in Nat /\ ((k \in 1 .. n /\ t[k] = list[k]) \/ i <= k)
    BY <1>1, <1>7
  <2> QED
    BY <1>1, <1>2, <1>6
<1>12. QED
  BY <1>2, <1>6, <1>8, <1>9, <1>10, <1>11

(* The list with a new entry before the others (Open).                     *)
LEMMA ListWith ==
    ASSUME ListInv, NEW e \in Entries, e \notin Walk!SetOf(list), NEW t, t = <<e>> \o list
    PROVE  /\ t \in Seq(Entries) /\ IsInjective(t) /\ Walk!SetOf(t) = Walk!SetOf(list) \cup {e}
           /\ \A k \in DOMAIN t : k \in Nat /\ (t[k] = e
              \/ (k - 1 \in DOMAIN list /\ t[k] = list[k - 1]))
<1> DEFINE n == Len(list)
<1>1. list \in Seq(Entries) /\ n \in Nat /\ DOMAIN list = 1 .. n /\ IsInjective(list)
  BY DEF ListInv
<1>2. <<e>> \in Seq(Entries) /\ Len(<<e>>) = 1 /\ <<e>>[1] = e
  OBVIOUS
<1> HIDE DEF n
<1>3. /\ t \in Seq(Entries) /\ Len(t) = n + 1
      /\ \A j \in 1 .. n + 1 : t[j] = IF j = 1 THEN e ELSE list[j - 1]
  <2>1. /\ t \in Seq(Entries) /\ Len(t) = 1 + n
        /\ \A j \in 1 .. 1 + n : t[j] = IF j <= 1 THEN <<e>>[j] ELSE list[j - 1]
    BY <1>1, <1>2, ConcatProperties DEF n
  <2>2. ASSUME NEW j \in 1 .. n + 1 PROVE t[j] = IF j = 1 THEN e ELSE list[j - 1]
    BY <2>1, <1>1, <1>2
  <2> QED
    BY <2>1, <2>2, <1>1
<1>4. DOMAIN t = 1 .. n + 1
  BY <1>1, <1>3
<1>5. \A k \in DOMAIN t : k \in Nat /\ (t[k] = e
      \/ (k - 1 \in DOMAIN list /\ t[k] = list[k - 1]))
  BY <1>1, <1>3, <1>4
<1>6. IsInjective(t)
  <2> SUFFICES ASSUME NEW x \in 1 .. n + 1, NEW y \in 1 .. n + 1, t[x] = t[y] PROVE x = y
    BY <1>4 DEF IsInjective
  <2>1. \A z \in 1 .. n + 1 : z # 1 => z - 1 \in 1 .. n /\ t[z] = list[z - 1] /\ t[z] # e
    <3> TAKE z \in 1 .. n + 1
    <3> HAVE z # 1
    <3>1. z - 1 \in 1 .. n /\ t[z] = list[z - 1]
      BY <1>1, <1>3
    <3> QED
      BY <3>1, <1>1 DEF Walk!SetOf
  <2>2. 1 \in 1 .. n + 1 /\ t[1] = e
    BY <1>1, <1>3
  <2>3. CASE x = 1 \/ y = 1
    BY <2>1, <2>2, <2>3
  <2>4. CASE x # 1 /\ y # 1
    <3>1. x - 1 = y - 1
      BY <2>1, <2>4, <1>1 DEF IsInjective
    <3> QED
      BY <3>1, <1>1
  <2> QED
    BY <2>3, <2>4
<1>7. Walk!SetOf(t) \subseteq Walk!SetOf(list) \cup {e}
  BY <1>5 DEF Walk!SetOf
<1>8. Walk!SetOf(list) \cup {e} \subseteq Walk!SetOf(t)
  <2>1. 1 \in 1 .. n + 1 /\ t[1] = e
    BY <1>1, <1>3
  <2>2. \A x \in 1 .. n : x + 1 \in 1 .. n + 1 /\ t[x + 1] = list[x]
    <3> TAKE x \in 1 .. n
    <3>1. x + 1 \in 1 .. n + 1 /\ x + 1 # 1 /\ x + 1 - 1 = x
      BY <1>1
    <3> QED
      BY <3>1, <1>3
  <2>3. e \in Walk!SetOf(t)
    BY <2>1, <1>4 DEF Walk!SetOf
  <2>4. ASSUME NEW x \in 1 .. n PROVE list[x] \in Walk!SetOf(t)
    BY <2>2, <1>4 DEF Walk!SetOf
  <2> QED
    BY <2>3, <2>4, <1>1 DEF Walk!SetOf
<1>9. QED
  BY <1>3, <1>5, <1>6, <1>7, <1>8

(* Nothing is fetched before the first page.                               *)
LEMMA PagingInit == Walk!Init => PagingInv
<1> SUFFICES ASSUME Walk!Init PROVE PagingInv
  OBVIOUS
<1> USE DEF Walk!Init
<1>1. ListInv
  <2>1. list \in Seq(Entries) /\ IsInjective(list)
    BY ListsAre
  <2>2. version \in [Entries -> Nat]
    OBVIOUS
  <2>3. list_changes \in 0 .. MaxChanges
    BY PagingAssumed DEF Walk!PagingAssumption
  <2> QED
    BY <2>1, <2>2, <2>3 DEF ListInv
<1>2. HandInv
  <2>1. Cardinality(Entries) \in Nat /\ PerPage \in Nat
    BY PagingAssumed, FS_CardinalityType DEF Walk!PagingAssumption
  <2>2. fetched \in Seq([entry : Entries, version : Nat]) /\ Len(fetched) = 0
        /\ DOMAIN fetched = {}
    OBVIOUS
  <2>3. source_stored \in [Entries -> Int]
        /\ \A e \in Entries : source_stored[e] \in -1 .. version[e]
    OBVIOUS
  <2> QED
    BY <2>1, <2>2, <2>3 DEF HandInv
<1>3. ReachInv
  <2>1. list \in Seq(Entries)
    BY <1>1 DEF ListInv
  <2>2. \A i \in DOMAIN list : i > (page - 1) * PerPage
    BY <2>1, PagingAssumed DEF Walk!PagingAssumption
  <2> QED
    BY <2>2 DEF ReachInv
<1>4. FreshInv
  BY DEF FreshInv
<1>5. UsersInv
  <2>1. UpTo(0) = {}
    BY DEF UpTo
  <2> QED
    BY <2>1 DEF UsersInv
<1>6. QED
  BY <1>1, <1>2, <1>3, <1>4, <1>5 DEF PagingInv

(* The entries of a page in hand, with the versions they were served with. *)
LEMMA ElementsAre ==
    ASSUME NEW f \in Seq([entry : Entries, version : Nat])
    PROVE  /\ DOMAIN f = 1 .. Len(f) /\ Len(f) \in Nat
           /\ \A i \in DOMAIN f : f[i].entry \in Entries /\ f[i].version \in Nat
<1>1. \A R : f \in Seq(R) => DOMAIN f = 1 .. Len(f) /\ Len(f) \in Nat
      /\ \A i \in DOMAIN f : f[i] \in R
  OBVIOUS
<1>2. \A i \in DOMAIN f : f[i] \in [entry : Entries, version : Nat]
  BY <1>1
<1>3. DOMAIN f = 1 .. Len(f) /\ Len(f) \in Nat
  BY <1>1
<1>4. QED
  BY <1>2, <1>3

(* What is in hand stays, and no step of GitHub touches the walk.          *)
LEMMA OpenKeeps == ASSUME PagingInv, NEW e \in Entries, Walk!Open(e) PROVE PagingInv'
<1> USE DEF Walk!Open, Walk!Changing, Walk!Walking
<1>1. /\ kind = "pulls" /\ kind' = kind /\ version' = version /\ stayed' = stayed
      /\ state' = state /\ page' = page /\ fetched' = fetched /\ next_page' = next_page
         /\ last_page' = last_page
      /\ result' = result /\ overtaken' = overtaken /\ shifted' = shifted
  OBVIOUS
<1>2. ListInv /\ HandInv /\ ReachInv /\ FreshInv
  BY DEF PagingInv
<1>3. /\ list' \in Seq(Entries) /\ IsInjective(list')
         /\ Walk!SetOf(list') = Walk!SetOf(list) \cup {e}
      /\ \A k \in DOMAIN list' :
           k \in Nat /\ (list'[k] = e \/ (k - 1 \in DOMAIN list /\ list'[k] = list[k - 1]))
  <2>1. ListInv /\ e \notin Walk!SetOf(list) /\ list' = <<e>> \o list
    BY <1>2
  <2> QED
    BY <2>1, ListWith
<1>4. source_stored' = [source_stored EXCEPT ![e] = version[e]]
  OBVIOUS
<1>5. ListInv'
  <2>1. list_changes' \in 0 .. MaxChanges
    BY <1>2, PagingAssumed DEF ListInv, Walk!PagingAssumption
  <2> QED
    BY <1>1, <1>2, <1>3, <2>1 DEF ListInv
<1>6. HandInv'
  <2>1. source_stored' \in [Entries -> Int]
        /\ \A x \in Entries : source_stored'[x] \in -1 .. version'[x]
    BY <1>1, <1>2, <1>4 DEF HandInv, ListInv
  <2> QED
    BY <1>1, <1>2, <2>1 DEF HandInv
<1>7. ReachInv'
  <2> SUFFICES ASSUME ~shifted
               PROVE  /\ state \in {"fetch", "handle"} => \A i \in DOMAIN list' :
                           \/ list'[i] \notin stayed \/ list'[i] \in result \cup InHand
                           \/ i > (page - 1) * PerPage
                      /\ state = "handle" /\ next_page = 0 =>
                         stayed \subseteq result \cup InHand
                      /\ state = "done" => stayed \subseteq result
    BY <1>1 DEF ReachInv, InHand
  <2>1. ASSUME NEW i \in DOMAIN list', state \in {"fetch", "handle"}, list'[i] \in stayed,
               list'[i] \notin result \cup InHand
        PROVE  i > (page - 1) * PerPage
    <3>1. e \notin stayed
      BY <1>2 DEF ListInv
    <3>2. i \in Nat /\ i - 1 \in DOMAIN list /\ list'[i] = list[i - 1]
      BY <1>3, <2>1, <3>1
    <3>3. i - 1 > (page - 1) * PerPage
      BY <1>1, <1>2, <2>1, <3>2 DEF ReachInv
    <3>4. (page - 1) * PerPage \in Nat
      BY <1>2, PagesGrow DEF HandInv
    <3> QED
      BY <3>2, <3>3, <3>4
  <2> QED
    BY <1>1, <1>2, <2>1 DEF ReachInv
<1>8. FreshInv'
  <2>1. \A x \in result : source_stored'[x] = version[x] \/ x \in overtaken
    BY <1>1, <1>2, <1>4 DEF FreshInv, HandInv
  <2> QED
    BY <1>1, <1>2, <2>1 DEF FreshInv
<1>9. QED
  BY <1>1, <1>5, <1>6, <1>7, <1>8 DEF PagingInv, UsersInv

(* An entry that closes on a page that was not asked for yet moves only    *)
(* others that were not.                                                   *)
LEMMA CloseKeeps == ASSUME PagingInv, NEW c \in DOMAIN list, Walk!Close(c) PROVE PagingInv'
<1> USE DEF Walk!Close, Walk!Changing, Walk!Walking
<1>1. /\ kind = "pulls" /\ kind' = kind /\ version' = version /\ stayed' = stayed \ {list[c]}
      /\ state' = state /\ page' = page /\ fetched' = fetched /\ next_page' = next_page
         /\ last_page' = last_page
      /\ result' = result /\ source_stored' = source_stored /\ overtaken' = overtaken
      /\ shifted' = (shifted \/ c <= (page - 1) * PerPage)
  BY DEF Walk!walk
<1>2. ListInv /\ HandInv /\ ReachInv /\ FreshInv
  BY DEF PagingInv
<1>3. /\ list' \in Seq(Entries) /\ IsInjective(list')
         /\ Walk!SetOf(list') = Walk!SetOf(list) \ {list[c]}
      /\ c \in Nat
      /\ \A k \in DOMAIN list' : k \in Nat /\ ((k \in DOMAIN list /\ list'[k] = list[k])
         \/ c <= k)
  BY <1>2, ListWithout
<1>4. ListInv'
  <2>1. list_changes' \in 0 .. MaxChanges
    BY <1>2, PagingAssumed DEF ListInv, Walk!PagingAssumption
  <2> QED
    BY <1>1, <1>2, <1>3, <2>1 DEF ListInv
<1>5. HandInv'
  BY <1>1, <1>2 DEF HandInv
<1>6. ReachInv'
  <2> SUFFICES ASSUME ~shifted, ~(c <= (page - 1) * PerPage)
               PROVE  /\ state \in {"fetch", "handle"} => \A i \in DOMAIN list' :
                           \/ list'[i] \notin stayed' \/ list'[i] \in result \cup InHand
                           \/ i > (page - 1) * PerPage
                      /\ state = "handle" /\ next_page = 0 =>
                         stayed' \subseteq result \cup InHand
                      /\ state = "done" => stayed' \subseteq result
    BY <1>1 DEF ReachInv, InHand
  <2>1. ASSUME NEW i \in DOMAIN list', state \in {"fetch", "handle"}, list'[i] \in stayed',
               list'[i] \notin result \cup InHand
        PROVE  i > (page - 1) * PerPage
    <3>1. (page - 1) * PerPage \in Nat
      BY <1>2, PagesGrow DEF HandInv
    <3>2. CASE i \in DOMAIN list /\ list'[i] = list[i]
      BY <1>1, <1>2, <2>1, <3>2 DEF ReachInv
    <3>3. CASE c <= i
      BY <1>3, <3>1, <3>3
    <3> QED
      BY <1>3, <3>2, <3>3
  <2> QED
    BY <1>1, <1>2, <2>1 DEF ReachInv
<1>7. FreshInv'
  BY <1>1, <1>2 DEF FreshInv
<1>8. QED
  BY <1>1, <1>4, <1>5, <1>6, <1>7 DEF PagingInv, UsersInv

(* A change of an entry in hand is noted.                                  *)
LEMMA SynchronizeKeeps == ASSUME PagingInv, NEW e \in Entries, Walk!Synchronize(e)
                                 PROVE PagingInv'
<1> USE DEF Walk!Synchronize, Walk!Changing, Walk!Walking
<1>1. /\ kind = "pulls" /\ kind' = kind /\ list' = list /\ stayed' = stayed
      /\ state' = state /\ page' = page /\ fetched' = fetched /\ next_page' = next_page
         /\ last_page' = last_page
      /\ result' = result /\ shifted' = shifted
  OBVIOUS
<1>2. ListInv /\ HandInv /\ ReachInv /\ FreshInv
  BY DEF PagingInv
<1>3. /\ version' = [version EXCEPT ![e] = version[e] + 1]
      /\ source_stored' = [source_stored EXCEPT ![e] = version[e] + 1]
      /\ overtaken' = IF \E i \in DOMAIN fetched : fetched[i].entry = e
                         THEN overtaken \cup {e} ELSE overtaken
  OBVIOUS
<1>4. version \in [Entries -> Nat] /\ source_stored \in [Entries -> Int]
  BY <1>2 DEF ListInv, HandInv
<1>5. /\ version' \in [Entries -> Nat] /\ source_stored' \in [Entries -> Int]
      /\ \A x \in Entries : version'[x] = IF x = e THEN version[x] + 1 ELSE version[x]
      /\ \A x \in Entries : source_stored'[x] = IF x = e THEN version[x] + 1
         ELSE source_stored[x]
  BY <1>3, <1>4
<1>6. ListInv'
  <2>1. list_changes' \in 0 .. MaxChanges
    BY <1>2, PagingAssumed DEF ListInv, Walk!PagingAssumption
  <2> QED
    BY <1>1, <1>2, <1>5, <2>1 DEF ListInv
<1>7. fetched \in Seq([entry : Entries, version : Nat])
  BY <1>2 DEF HandInv
<1>8. \A i \in DOMAIN fetched : fetched[i].entry \in Entries /\ fetched[i].version \in Nat
  BY <1>7, ElementsAre
<1>9. HandInv'
  <2>1. \A x \in Entries : source_stored'[x] \in -1 .. version'[x]
    BY <1>2, <1>4, <1>5 DEF HandInv
  <2>2. ASSUME NEW i \in DOMAIN fetched
        PROVE  fetched[i].version <= version'[fetched[i].entry]
    <3>1. fetched[i].version <= version[fetched[i].entry]
      BY <1>2 DEF HandInv
    <3> QED
      BY <3>1, <1>4, <1>5, <1>8
  <2> QED
    BY <1>1, <1>2, <1>5, <2>1, <2>2 DEF HandInv
<1>10. ReachInv'
  BY <1>1, <1>2 DEF ReachInv, InHand
<1>11. FreshInv'
  <2>1. ASSUME NEW x \in result PROVE source_stored'[x] = version'[x] \/ x \in overtaken'
    <3>1. x \in Entries
      BY <1>2 DEF HandInv
    <3> QED
      BY <3>1, <1>1, <1>2, <1>3, <1>5 DEF FreshInv
  <2>2. ASSUME NEW i \in DOMAIN fetched
        PROVE  fetched[i].version = version'[fetched[i].entry]
               \/ fetched[i].entry \in overtaken'
    <3>1. fetched[i].version = version[fetched[i].entry] \/ fetched[i].entry \in overtaken
      BY <1>1, <1>2 DEF FreshInv
    <3> QED
      BY <3>1, <1>3, <1>5, <1>8
  <2> QED
    BY <1>1, <2>1, <2>2 DEF FreshInv
<1>12. QED
  BY <1>1, <1>6, <1>9, <1>10, <1>11 DEF PagingInv, UsersInv

(* A walk that failed has no page in hand.                                 *)
LEMMA FailsKeeps == ASSUME PagingInv, Walk!Fails PROVE PagingInv'
<1> USE DEF Walk!Fails
<1>1. /\ kind' = kind /\ list' = list /\ version' = version /\ list_changes' = list_changes
      /\ stayed' = stayed /\ state' = "failed" /\ page' = page /\ fetched' = <<>>
      /\ next_page' = next_page /\ last_page' = last_page /\ result' = result
         /\ source_stored' = source_stored
      /\ overtaken' = overtaken /\ shifted' = shifted
  BY DEF Walk!github
<1>2. ListInv /\ HandInv /\ ReachInv /\ FreshInv
  BY DEF PagingInv
<1>3. ListInv'
  BY <1>1, <1>2 DEF ListInv
<1>4. HandInv'
  <2>1. fetched' \in Seq([entry : Entries, version : Nat]) /\ Len(fetched') = 0
        /\ DOMAIN fetched' = {}
    BY <1>1
  <2>2. 0 <= PerPage
    BY PagingAssumed DEF Walk!PagingAssumption
  <2> QED
    BY <1>1, <1>2, <2>1, <2>2 DEF HandInv
<1>5. ReachInv' /\ UsersInv'
  BY <1>1 DEF ReachInv, UsersInv
<1>6. FreshInv'
  BY <1>1, <1>2 DEF FreshInv
<1>7. QED
  BY <1>3, <1>4, <1>5, <1>6 DEF PagingInv

(* The page that is fetched holds what stayed on it.                       *)
LEMMA FetchKeeps == ASSUME PagingInv, Walk!Fetch PROVE PagingInv'
<1> DEFINE s == Walk!OfPage(page)
<1>1. /\ kind' = kind /\ list' = list /\ version' = version /\ list_changes' = list_changes
      /\ stayed' = stayed /\ state = "fetch" /\ state' = "handle" /\ page' = page + 1
      /\ next_page' = (IF page < Walk!Pages THEN page + 1 ELSE 0)
      /\ last_page' = (IF page < Walk!Pages THEN Walk!Pages ELSE 0)
      /\ fetched' = [i \in DOMAIN s |-> [entry |-> s[i], version |-> version[s[i]]]]
      /\ result' = result /\ source_stored' = source_stored /\ overtaken' = overtaken
         /\ shifted' = shifted
  BY DEF Walk!Fetch, Walk!github, Walk!Response
<1>2. ListInv /\ HandInv /\ ReachInv /\ FreshInv /\ UsersInv
  BY DEF PagingInv
<1>3. page \in Nat \ {0} /\ page <= Cardinality(Entries) + 1 /\ fetched = <<>>
  BY <1>1, <1>2 DEF HandInv
<1>4. /\ Cardinality(Entries) \in Nat /\ Len(list) \in Nat
         /\ Walk!Pages \in 0 .. Cardinality(Entries)
      /\ page < Walk!Pages <=> page * PerPage < Len(list)
  BY <1>2, <1>3, PagesAre
<1>5. /\ s \in Seq(Entries) /\ Len(s) <= PerPage /\ Walk!SetOf(s) \subseteq Walk!SetOf(list)
         /\ IsInjective(s)
      /\ \A e : e \in Walk!SetOf(s) <=>
           \E j \in DOMAIN list : e = list[j] /\ (page - 1) * PerPage < j /\ j <= page * PerPage
      /\ s = <<>> <=> Len(list) <= (page - 1) * PerPage
  BY <1>2, <1>3, PageIs, OnPage
<1>6. list \in Seq(Entries) /\ DOMAIN list = 1 .. Len(list) /\ version \in [Entries -> Nat]
  BY <1>2 DEF ListInv
<1> HIDE DEF s
<1>7. DOMAIN s = 1 .. Len(s) /\ Len(s) \in Nat /\ \A i \in DOMAIN s : s[i] \in Entries
  BY <1>5
<1>8. /\ DOMAIN fetched' = DOMAIN s
      /\ \A i \in DOMAIN s : fetched'[i].entry = s[i] /\ fetched'[i].version = version[s[i]]
  BY <1>1
<1>9. fetched' \in Seq([entry : Entries, version : Nat]) /\ Len(fetched') = Len(s)
  <2>1. \A i \in 1 .. Len(s) : [entry |-> s[i], version |-> version[s[i]]] \in
                                [entry : Entries, version : Nat]
    BY <1>6, <1>7
  <2>2. fetched' \in [1 .. Len(s) -> [entry : Entries, version : Nat]]
    BY <1>1, <1>7, <2>1
  <2>3. fetched' \in Seq([entry : Entries, version : Nat])
    <3> DEFINE T == [entry : Entries, version : Nat]
    <3>1. fetched' \in [1 .. Len(s) -> T]
      BY <2>2
    <3> HIDE DEF T
    <3>2. fetched' \in Seq(T)
      BY <1>7, <3>1, SeqDef
    <3> QED
      BY <3>2 DEF T
  <2>4. DOMAIN fetched' = 1 .. Len(fetched') /\ Len(fetched') \in Nat
    BY <2>3, ElementsAre
  <2> QED
    BY <1>7, <1>8, <2>3, <2>4
<1>10. InHand' = Walk!SetOf(s)
  BY <1>8 DEF InHand, Walk!SetOf
<1>11. ListInv'
  BY <1>1, <1>2 DEF ListInv
<1>12. HandInv'
  <2>1. page' \in Nat \ {0} /\ page' <= Cardinality(Entries) + 2
    BY <1>1, <1>3, <1>4
  <2>2. next_page' \in 0 .. Cardinality(Entries) /\ last_page' \in 0 .. Cardinality(Entries)
        /\ next_page' \in {0, page'}
    BY <1>1, <1>3, <1>4
  <2>3. \A i, j \in DOMAIN fetched' : fetched'[i].entry = fetched'[j].entry => i = j
    BY <1>5, <1>8 DEF IsInjective
  <2>4. \A i \in DOMAIN fetched' : fetched'[i].version <= version[fetched'[i].entry]
    BY <1>6, <1>7, <1>8
  <2>5. Len(fetched') <= PerPage
    BY <1>5, <1>9
  <2> QED
    BY <1>1, <1>2, <1>9, <2>1, <2>2, <2>3, <2>4, <2>5 DEF HandInv
<1>13. ReachInv'
  <2> SUFFICES ASSUME kind = "pulls", ~shifted
               PROVE  /\ \A i \in DOMAIN list :
                           \/ list[i] \notin stayed \/ list[i] \in result \cup Walk!SetOf(s)
                           \/ i > page * PerPage
                      /\ next_page' = 0 => stayed \subseteq result \cup Walk!SetOf(s)
    <3>1. page' - 1 = page
      BY <1>1, <1>3
    <3> QED
      BY <1>1, <1>10, <3>1 DEF ReachInv
  <2>1. InHand = {}
    BY <1>3 DEF InHand
  <2>2. \A i \in DOMAIN list : list[i] \notin stayed \/ list[i] \in result
        \/ i > (page - 1) * PerPage
    BY <1>1, <1>2, <2>1 DEF ReachInv
  <2>3. (page - 1) * PerPage \in Nat /\ page * PerPage \in Nat
    BY <1>3, PagesGrow
  <2>4. \A i \in DOMAIN list : list[i] \notin stayed
        \/ list[i] \in result \cup Walk!SetOf(s) \/ i > page * PerPage
    BY <1>5, <1>6, <2>2, <2>3
  <2>5. ASSUME next_page' = 0 PROVE stayed \subseteq result \cup Walk!SetOf(s)
    <3>1. Len(list) <= page * PerPage
      BY <1>1, <1>3, <1>4, <2>3, <2>5
    <3>2. \A i \in DOMAIN list : ~(i > page * PerPage)
      BY <1>4, <1>6, <2>3, <3>1
    <3>3. stayed \subseteq Walk!SetOf(list)
      BY <1>2 DEF ListInv
    <3> QED
      BY <2>4, <3>2, <3>3 DEF Walk!SetOf
  <2> QED
    BY <2>4, <2>5
<1>14. FreshInv'
  <2>1. \A i \in DOMAIN fetched' : fetched'[i].version = version[fetched'[i].entry]
    BY <1>8
  <2> QED
    BY <1>1, <1>2, <2>1 DEF FreshInv
<1>15. UsersInv'
  <2> SUFFICES ASSUME kind # "pulls" PROVE UsersInv'
    BY <1>1 DEF UsersInv
  <2>1. (page = 1 \/ page < Walk!Pages) /\ result = UpTo(page - 1)
    BY <1>1, <1>2 DEF UsersInv
  <2>2. page + 1 > 1 /\ (page + 1 = 2 \/ page < Walk!Pages)
    BY <1>3, <2>1
  <2>3. ASSUME fetched' = <<>> PROVE result = UpTo(page)
    <3>1. s = <<>>
      BY <2>3, <1>5, <1>9, EmptySeq
    <3>2. page = 1
      <4> SUFFICES ASSUME page < Walk!Pages PROVE FALSE
        BY <2>1
      <4>1. page * PerPage = (page - 1) * PerPage + PerPage /\ (page - 1) * PerPage \in Nat
        BY <1>3, PagesGrow
      <4>2. Len(list) <= (page - 1) * PerPage /\ page * PerPage < Len(list)
        BY <1>4, <1>5, <3>1
      <4> HIDE DEF s
      <4> QED
        BY <4>1, <4>2, <1>4, PagingAssumed DEF Walk!PagingAssumption
    <3>3. UpTo(page) = Walk!SetOf(s)
      <4>1. UpTo(1) = Walk!SetOf(Walk!OfPage(1))
        BY DEF UpTo
      <4> QED
        BY <3>2, <4>1 DEF s
    <3>4. Walk!SetOf(s) = {} /\ UpTo(page - 1) = {}
      BY <3>1, <3>2 DEF Walk!SetOf, UpTo
    <3> QED
      BY <2>1, <3>3, <3>4
  <2>4. page' = page + 1 /\ page \in Nat /\ page' - 1 = page /\ page' - 2 = page - 1
    BY <1>1, <1>3
  <2>5. Walk!Pages' = Walk!Pages
    BY <1>1 DEF Walk!Pages
  <2>7. UpTo(page - 1)' = UpTo(page) /\ UpTo(page - 2)' = UpTo(page - 1)
    BY <1>1, <2>4 DEF UpTo, Walk!OfPage
  <2>8. Walk!OfPage(page - 1)' = s
    BY <1>1, <2>4 DEF Walk!OfPage, s
  <2>9. InHand' = Walk!SetOf(Walk!OfPage(page - 1))'
    BY <1>10, <2>8
  <2>10. kind' # "pulls" /\ state' = "handle" /\ result' = result
    BY <1>1
  <2>11. /\ page' > 1 /\ (page' = 2 \/ page' - 1 < Walk!Pages')
         /\ next_page' = (IF page' - 1 < Walk!Pages' THEN page' ELSE 0)
         /\ last_page' = (IF page' - 1 < Walk!Pages' THEN Walk!Pages' ELSE 0)
    BY <1>1, <2>2, <2>4, <2>5
  <2>12. /\ fetched' = <<>> => result' = UpTo(page - 1)'
         /\ fetched' # <<>> => InHand' = Walk!SetOf(Walk!OfPage(page - 1))'
            /\ result' = UpTo(page - 2)'
    BY <2>1, <2>3, <2>7, <2>9, <2>10
  <2> QED
    BY <2>10, <2>11, <2>12 DEF UsersInv
<1>16. QED
  BY <1>11, <1>12, <1>13, <1>14, <1>15 DEF PagingInv

(* A pull request that is handled goes over to those that were reached.    *)
LEMMA HandlePullKeeps == ASSUME PagingInv, Walk!HandlePull PROVE PagingInv'
<1> DEFINE f == Head(fetched)
<1>1. /\ kind = "pulls" /\ kind' = kind /\ list' = list /\ version' = version
         /\ list_changes' = list_changes
      /\ stayed' = stayed /\ state = "handle" /\ state' = state /\ page' = page
      /\ fetched # <<>> /\ fetched' = Tail(fetched)
      /\ next_page' = next_page /\ last_page' = last_page /\ result' = result \cup {f.entry}
      /\ source_stored' = [source_stored EXCEPT ![f.entry] = f.version]
      /\ overtaken' = overtaken /\ shifted' = shifted
  BY DEF Walk!HandlePull, Walk!github, Walk!Store
<1>2. ListInv /\ HandInv /\ ReachInv /\ FreshInv
  BY DEF PagingInv
<1>3. fetched \in Seq([entry : Entries, version : Nat])
  BY <1>2 DEF HandInv
<1>4. /\ fetched' \in Seq([entry : Entries, version : Nat])
      /\ Len(fetched') = Len(fetched) - 1
         /\ \A i \in 1 .. Len(fetched') : fetched'[i] = fetched[i + 1]
  BY <1>1, <1>3, HeadTailProperties
<1>5. /\ DOMAIN fetched = 1 .. Len(fetched) /\ Len(fetched) \in Nat
      /\ \A i \in DOMAIN fetched : fetched[i].entry \in Entries /\ fetched[i].version \in Nat
      /\ DOMAIN fetched' = 1 .. Len(fetched')
  BY <1>3, <1>4, ElementsAre
<1>6. 1 \in DOMAIN fetched /\ f = fetched[1]
  BY <1>1, <1>3, <1>5, EmptySeq
<1>7. \A i \in DOMAIN fetched' : i \in Nat /\ i + 1 \in DOMAIN fetched
      /\ fetched'[i] = fetched[i + 1]
  BY <1>4, <1>5
<1> HIDE DEF f
<1>8. f.entry \in Entries /\ f.version \in Nat
  BY <1>5, <1>6
<1>9. InHand \subseteq InHand' \cup {f.entry}
  <2> SUFFICES ASSUME NEW i \in DOMAIN fetched
               PROVE  fetched[i].entry \in InHand' \cup {f.entry}
    BY DEF InHand
  <2>1. CASE i = 1
    BY <1>6, <2>1
  <2>2. CASE i # 1
    <3>1. i - 1 \in DOMAIN fetched' /\ fetched'[i - 1] = fetched[i]
      BY <1>4, <1>5, <2>2
    <3> QED
      BY <3>1 DEF InHand
  <2> QED
    BY <2>1, <2>2
<1>10. /\ source_stored' \in [Entries -> Int]
       /\ \A x \in Entries : source_stored'[x] = IF x = f.entry THEN f.version
          ELSE source_stored[x]
  BY <1>1, <1>2, <1>8 DEF HandInv
<1>11. ListInv'
  BY <1>1, <1>2 DEF ListInv
<1>12. HandInv'
  <2>1. \A i, j \in DOMAIN fetched' : fetched'[i].entry = fetched'[j].entry => i = j
    <3> TAKE i, j \in DOMAIN fetched'
    <3> HAVE fetched'[i].entry = fetched'[j].entry
    <3>1. i + 1 = j + 1
      BY <1>2, <1>7 DEF HandInv
    <3> QED
      BY <3>1, <1>7
  <2>2. \A i \in DOMAIN fetched' : fetched'[i].version <= version[fetched'[i].entry]
    BY <1>2, <1>7 DEF HandInv
  <2>3. Len(fetched') <= PerPage
    BY <1>2, <1>4, <1>5, PagingAssumed DEF HandInv, Walk!PagingAssumption
  <2>4. \A x \in Entries : source_stored'[x] \in -1 .. version[x]
    <3>1. f.version <= version[f.entry] /\ version[f.entry] \in Nat
      BY <1>2, <1>6, <1>8 DEF HandInv, ListInv
    <3>2. \A x \in Entries : source_stored[x] \in -1 .. version[x]
      BY <1>2 DEF HandInv
    <3>3. f.version \in -1 .. version[f.entry]
      BY <1>8, <3>1
    <3> QED
      BY <1>10, <3>2, <3>3
  <2>5. result' \subseteq Entries
    BY <1>1, <1>2, <1>8 DEF HandInv
  <2> QED
    BY <1>1, <1>2, <1>4, <1>10, <2>1, <2>2, <2>3, <2>4, <2>5 DEF HandInv
<1>13. ReachInv'
  <2>1. result \cup InHand \subseteq (result \cup InHand)'
    BY <1>1, <1>9
  <2> QED
    BY <1>1, <1>2, <2>1 DEF ReachInv
<1>14. FreshInv'
  <2>1. ASSUME NEW x \in result' PROVE source_stored'[x] = version[x] \/ x \in overtaken
    <3>1. x \in Entries
      BY <1>1, <1>2, <1>8 DEF HandInv
    <3>2. CASE x = f.entry
      BY <1>1, <1>2, <1>6, <1>10, <3>1, <3>2 DEF FreshInv
    <3>3. CASE x # f.entry
      BY <1>1, <1>2, <1>10, <3>1, <3>3 DEF FreshInv
    <3> QED
      BY <3>2, <3>3
  <2>2. \A i \in DOMAIN fetched' : \/ fetched'[i].version = version[fetched'[i].entry]
                                   \/ fetched'[i].entry \in overtaken
    BY <1>1, <1>2, <1>7 DEF FreshInv
  <2> QED
    BY <1>1, <2>1, <2>2 DEF FreshInv
<1>15. QED
  BY <1>1, <1>11, <1>12, <1>13, <1>14 DEF PagingInv, UsersInv

(* The users of a page join those before, or take their place.             *)
LEMMA HandleUsersKeeps == ASSUME PagingInv, Walk!HandleUsers PROVE PagingInv'
<1> DEFINE p == page - 1
<1>1. /\ kind # "pulls" /\ kind' = kind /\ list' = list /\ version' = version
         /\ list_changes' = list_changes
      /\ stayed' = stayed /\ state = "handle" /\ state' = state /\ page' = page
      /\ fetched # <<>> /\ fetched' = <<>> /\ next_page' = next_page /\ last_page' = last_page
      /\ source_stored' = source_stored /\ overtaken' = overtaken /\ shifted' = shifted
  BY DEF Walk!HandleUsers, Walk!github
<1>2. result' = IF kind = "members" THEN result \cup InHand ELSE InHand
  <2>1. {f.entry : f \in Walk!SetOf(fetched)} = InHand
    BY DEF Walk!SetOf, InHand
  <2> QED
    BY <2>1 DEF Walk!HandleUsers
<1>3. ListInv /\ HandInv /\ UsersInv
  BY DEF PagingInv
<1>4. /\ page \in Nat /\ page > 1 /\ (page = 2 \/ page - 1 < Walk!Pages)
      /\ next_page = (IF page - 1 < Walk!Pages THEN page ELSE 0)
      /\ last_page = (IF page - 1 < Walk!Pages THEN Walk!Pages ELSE 0)
      /\ InHand = Walk!SetOf(Walk!OfPage(page - 1)) /\ result = UpTo(page - 2)
  BY <1>1, <1>3 DEF UsersInv, HandInv
<1>5. p \in Nat \ {0} /\ page - 2 = p - 1
  BY <1>4
<1>6. result' = UpTo(p)
  <2>1. CASE kind = "members"
    <3>1. 1 .. p = (1 .. p - 1) \cup {p}
      <4> HIDE DEF p
      <4> QED
        BY <1>5
    <3>2. UpTo(p) = UpTo(p - 1) \cup Walk!SetOf(Walk!OfPage(p))
      <4> HIDE DEF p
      <4> QED
        BY <2>1, <3>1 DEF UpTo
    <3> QED
      BY <2>1, <3>2, <1>2, <1>4, <1>5
  <2>2. CASE kind # "members"
    <3>1. UpTo(p) = Walk!SetOf(Walk!OfPage(p))
      <4> HIDE DEF p
      <4> QED
        BY <2>2, <1>5 DEF UpTo
    <3> QED
      BY <2>2, <3>1, <1>2, <1>4
  <2> QED
    BY <2>1, <2>2
<1>7. ListInv'
  BY <1>1, <1>3 DEF ListInv
<1>8. HandInv'
  <2>1. fetched' \in Seq([entry : Entries, version : Nat]) /\ Len(fetched') = 0
        /\ DOMAIN fetched' = {}
    BY <1>1
  <2>2. 0 <= PerPage
    BY PagingAssumed DEF Walk!PagingAssumption
  <2>3. InHand \subseteq Entries
    <3>1. fetched \in Seq([entry : Entries, version : Nat])
      BY <1>3 DEF HandInv
    <3> QED
      BY <3>1, ElementsAre DEF InHand
  <2>4. result' \subseteq Entries
    BY <1>2, <1>3, <2>3 DEF HandInv
  <2> QED
    BY <1>1, <1>3, <2>1, <2>2, <2>4 DEF HandInv
<1>9. ReachInv' /\ FreshInv'
  BY <1>1 DEF ReachInv, FreshInv
<1>10. UsersInv'
  <2>1. Walk!Pages' = Walk!Pages
    BY <1>1 DEF Walk!Pages
  <2>2. UpTo(page - 1)' = UpTo(p)
    BY <1>1 DEF UpTo, Walk!OfPage
  <2>3. /\ kind' # "pulls" /\ state' = "handle" /\ page' = page /\ next_page' = next_page
           /\ last_page' = last_page
        /\ fetched' = <<>>
    BY <1>1
  <2>4. result' = UpTo(page - 1)'
    BY <1>6, <2>2
  <2> HIDE DEF p
  <2> QED
    BY <1>4, <2>1, <2>3, <2>4 DEF UsersInv
<1>11. QED
  BY <1>7, <1>8, <1>9, <1>10 DEF PagingInv

(* The walk goes on to the next page, or all that it reads is read.        *)
LEMMA TurnKeeps == ASSUME PagingInv, Walk!Turn PROVE PagingInv'
<1>1. /\ kind' = kind /\ list' = list /\ version' = version /\ list_changes' = list_changes
      /\ stayed' = stayed /\ state = "handle" /\ fetched = <<>> /\ fetched' = <<>>
      /\ state' = (IF Walk!More THEN "fetch" ELSE "done")
         /\ page' = (IF Walk!More THEN next_page ELSE page)
      /\ next_page' = next_page /\ last_page' = last_page /\ result' = result
      /\ source_stored' = source_stored /\ overtaken' = overtaken /\ shifted' = shifted
  BY DEF Walk!Turn, Walk!github
<1>2. ListInv /\ HandInv /\ ReachInv /\ FreshInv /\ UsersInv
  BY DEF PagingInv
<1>3. /\ Cardinality(Entries) \in Nat /\ Len(list) \in Nat
         /\ Walk!Pages \in 0 .. Cardinality(Entries)
  BY <1>2, PagesAre
<1>4. /\ page \in Nat \ {0} /\ next_page \in 0 .. Cardinality(Entries)
         /\ last_page \in 0 .. Cardinality(Entries)
      /\ next_page \in {0, page}
  BY <1>1, <1>2 DEF HandInv
<1>5. Walk!More => next_page = page
  <2>1. Walk!More => next_page > 0 \/ (next_page < last_page /\ kind # "pulls")
    BY DEF Walk!More
  <2>2. ASSUME kind # "pulls", next_page = 0 PROVE ~(next_page < last_page)
    <3>1. ~(page - 1 < Walk!Pages)
      BY <1>1, <1>2, <1>4, <2>2 DEF UsersInv
    <3>2. last_page = 0
      BY <1>1, <1>2, <2>2, <3>1 DEF UsersInv
    <3> QED
      BY <2>2, <3>2
  <2> QED
    BY <1>3, <1>4, <2>1, <2>2
<1>6. page' = page
  BY <1>1, <1>5
<1>7. ListInv'
  BY <1>1, <1>2 DEF ListInv
<1>8. HandInv'
  <2>1. fetched' \in Seq([entry : Entries, version : Nat]) /\ Len(fetched') = 0
        /\ DOMAIN fetched' = {}
    BY <1>1
  <2>2. 0 <= PerPage
    BY PagingAssumed DEF Walk!PagingAssumption
  <2>3. state' = "fetch" => page' <= Cardinality(Entries) + 1
    BY <1>1, <1>3, <1>4, <1>5, <1>6
  <2>4. state' \in {"fetch", "done"}
    BY <1>1
  <2> QED
    BY <1>1, <1>2, <1>6, <2>1, <2>2, <2>3, <2>4 DEF HandInv
<1>9. InHand = {} /\ InHand' = {}
  BY <1>1 DEF InHand
<1>10. ReachInv'
  <2>1. kind = "pulls" /\ ~Walk!More => next_page = 0
    BY <1>3, <1>4 DEF Walk!More
  <2> QED
    BY <1>1, <1>2, <1>6, <1>9, <2>1 DEF ReachInv
<1>11. FreshInv'
  BY <1>1, <1>2 DEF FreshInv
<1>12. UsersInv'
  <2> SUFFICES ASSUME kind # "pulls" PROVE UsersInv'
    BY <1>1 DEF UsersInv
  <2>1. /\ page > 1 /\ (page = 2 \/ page - 1 < Walk!Pages)
        /\ next_page = (IF page - 1 < Walk!Pages THEN page ELSE 0)
        /\ last_page = (IF page - 1 < Walk!Pages THEN Walk!Pages ELSE 0)
        /\ result = UpTo(page - 1)
    BY <1>1, <1>2 DEF UsersInv
  <2>2. Walk!More <=> next_page < last_page
    BY DEF Walk!More
  <2>3. Walk!Pages' = Walk!Pages /\ kind' # "pulls" /\ result' = result
    BY <1>1 DEF Walk!Pages
  <2>4. CASE Walk!More
    <3>1. page < Walk!Pages
      BY <1>3, <1>4, <2>1, <2>2, <2>4
    <3>2. UpTo(page - 1)' = UpTo(page - 1)
      BY <1>1, <1>6 DEF UpTo, Walk!OfPage
    <3>3. state' = "fetch" /\ page' < Walk!Pages' /\ result' = UpTo(page - 1)'
      BY <1>1, <1>6, <2>1, <2>3, <2>4, <3>1, <3>2
    <3> QED
      BY <2>3, <3>3 DEF UsersInv
  <2>5. CASE ~Walk!More
    <3> DEFINE read == IF Walk!Pages <= 1 THEN Walk!Pages ELSE Walk!Pages - 1
    <3>1. UpTo(page - 1) = UpTo(read)
      <4>1. CASE page - 1 < Walk!Pages
        <5>1. page = Walk!Pages /\ read = page - 1
          BY <1>3, <1>4, <2>1, <2>2, <2>5, <4>1
        <5> QED
          BY <5>1
      <4>2. CASE ~(page - 1 < Walk!Pages)
        <5>1. page - 1 = 1 /\ Walk!Pages \in {0, 1} /\ read = Walk!Pages
          BY <1>3, <1>4, <2>1, <4>2
        <5>2. CASE Walk!Pages = 1
          BY <5>1, <5>2
        <5>3. CASE Walk!Pages = 0
          <6>1. UpTo(1) = Walk!SetOf(Walk!OfPage(1)) /\ UpTo(0) = {}
            BY DEF UpTo
          <6>2. Walk!OfPage(1) = <<>>
            <7>1. Len(list) <= 0
              BY <1>2, <1>3, <5>3, PagesAre, PagingAssumed DEF Walk!PagingAssumption
            <7>2. (1 - 1) * PerPage = 0
              BY PagingAssumed DEF Walk!PagingAssumption
            <7> QED
              BY <1>2, <7>1, <7>2, OnPage
          <6>3. Walk!SetOf(<<>>) = {}
            BY DEF Walk!SetOf
          <6> QED
            BY <5>1, <5>3, <6>1, <6>2, <6>3
        <5> QED
          BY <5>1, <5>2, <5>3
      <4> QED
        BY <4>1, <4>2
    <3>2. UpTo(IF Walk!Pages <= 1 THEN Walk!Pages ELSE Walk!Pages - 1)' = UpTo(read)
      BY <1>1, <2>3 DEF UpTo, Walk!OfPage
    <3>3. state' = "done" /\ result' = UpTo(IF Walk!Pages <= 1 THEN Walk!Pages
          ELSE Walk!Pages - 1)'
      BY <1>1, <2>1, <2>3, <2>5, <3>1, <3>2
    <3> QED
      BY <2>3, <3>3 DEF UsersInv
  <2> QED
    BY <2>4, <2>5
<1>13. QED
  BY <1>7, <1>8, <1>10, <1>11, <1>12 DEF PagingInv

(* Every step keeps the invariant.                                         *)
LEMMA PagingNext == PagingInv /\ [Walk!Next]_(Walk!vars) => PagingInv'
<1> SUFFICES ASSUME PagingInv, [Walk!Next]_(Walk!vars) PROVE PagingInv'
  OBVIOUS
<1>1. CASE \E e \in Entries : Walk!Open(e) \/ Walk!Synchronize(e)
  BY <1>1, OpenKeeps, SynchronizeKeeps
<1>2. CASE \E i \in DOMAIN list : Walk!Close(i)
  BY <1>2, CloseKeeps
<1>3. CASE Walk!Step
  BY <1>3, FetchKeeps, HandlePullKeeps, HandleUsersKeeps, TurnKeeps, FailsKeeps DEF Walk!Step
<1>4. CASE UNCHANGED Walk!vars
  <2>1. /\ kind' = kind /\ list' = list /\ version' = version /\ list_changes' = list_changes
        /\ stayed' = stayed /\ state' = state /\ page' = page /\ fetched' = fetched
        /\ next_page' = next_page /\ last_page' = last_page /\ result' = result
           /\ source_stored' = source_stored
        /\ overtaken' = overtaken /\ shifted' = shifted
    BY <1>4 DEF Walk!vars, Walk!github, Walk!walk
  <2>2. UsersInv => UsersInv'
    BY <2>1 DEF UsersInv, UpTo, InHand, Walk!Pages, Walk!OfPage
  <2> QED
    BY <2>1, <2>2 DEF PagingInv, ListInv, HandInv, ReachInv, FreshInv, InHand
<1>5. QED
  BY <1>1, <1>2, <1>3, <1>4 DEF Walk!Next

(* The invariant tells the types.                                          *)
LEMMA PagingTypes == PagingInv => Walk!TypeOK
<1> SUFFICES ASSUME PagingInv PROVE Walk!TypeOK
  OBVIOUS
<1>1. ListInv /\ HandInv /\ UsersInv
  BY DEF PagingInv
<1>2. list \in Walk!Lists
  BY <1>1, ListsAre DEF ListInv
<1>3. page \in 1 .. Cardinality(Entries) + 2
      /\ {next_page, last_page} \subseteq 0 .. Cardinality(Entries)
  <2>1. Cardinality(Entries) \in Nat
    BY PagingAssumed, FS_CardinalityType DEF Walk!PagingAssumption
  <2> QED
    BY <1>1, <2>1 DEF HandInv
<1>4. Cardinality({fetched[i].entry : i \in DOMAIN fetched}) = Len(fetched)
  <2> DEFINE s == [i \in DOMAIN fetched |-> fetched[i].entry]
  <2>1. /\ DOMAIN fetched = 1 .. Len(fetched) /\ Len(fetched) \in Nat
        /\ \A i \in DOMAIN fetched : fetched[i].entry \in Entries
    BY <1>1, ElementsAre DEF HandInv
  <2>2. s \in [1 .. Len(fetched) -> Entries]
    BY <2>1
  <2>3. s \in Seq(Entries)
    BY <2>1, <2>2, SeqDef
  <2>4. Len(s) = Len(fetched)
    <3>1. DOMAIN s = 1 .. Len(fetched) /\ DOMAIN s = 1 .. Len(s) /\ Len(s) \in Nat
      BY <2>1, <2>3
    <3> HIDE DEF s
    <3> QED
      BY <2>1, <3>1
  <2>5. IsInjective(s)
    BY <1>1 DEF HandInv, IsInjective
  <2>6. Walk!SetOf(s) = {fetched[i].entry : i \in DOMAIN fetched}
    BY DEF Walk!SetOf
  <2> HIDE DEF s
  <2> QED
    BY <2>3, <2>4, <2>5, <2>6, CountOnce
<1>5. kind = "members" => InHand \cap result = {}
  <2> SUFFICES ASSUME kind = "members", NEW e \in InHand, e \in result PROVE FALSE
    OBVIOUS
  <2>1. fetched # <<>>
    BY DEF InHand
  <2>2. state = "handle"
    BY <1>1, <2>1 DEF HandInv
  <2>3. page \in Nat /\ page > 1 /\ InHand = Walk!SetOf(Walk!OfPage(page - 1))
        /\ result = UpTo(page - 2)
    BY <1>1, <2>1, <2>2 DEF UsersInv, HandInv
  <2>4. PICK k \in 1 .. page - 2 : e \in Walk!SetOf(Walk!OfPage(k))
    BY <2>3 DEF UpTo
  <2>5. k \in Nat \ {0} /\ page - 1 \in Nat \ {0} /\ page - 1 - 1 = page - 2
        /\ page - 2 \in Nat /\ k <= page - 2
    BY <2>3
  <2>6. PICK j \in DOMAIN list : e = list[j] /\ j <= k * PerPage
    BY <1>1, <2>4, <2>5, OnPage
  <2>7. PICK i \in DOMAIN list : e = list[i] /\ (page - 2) * PerPage < i
    BY <1>1, <2>3, <2>5, OnPage
  <2>8. i = j
    BY <1>1, <2>6, <2>7 DEF ListInv, IsInjective
  <2>9. k * PerPage <= (page - 2) * PerPage /\ k * PerPage \in Nat
        /\ (page - 2) * PerPage \in Nat
    BY <2>5, PagesGrow
  <2>10. i \in Nat
    <3>1. DOMAIN list = 1 .. Len(list)
      BY <1>1 DEF ListInv
    <3> QED
      BY <3>1
  <2> QED
    BY <2>6, <2>7, <2>8, <2>9, <2>10
<1>6. QED
  BY <1>1, <1>2, <1>3, <1>4, <1>5, PagingAssumed DEF Walk!TypeOK, ListInv, HandInv, InHand

(* The invariant tells what a walk that is done has reached.               *)
LEMMA PagingReaches == PagingInv => Walk!EveryPullReached /\ Walk!DocumentsAreFresh
  BY DEF PagingInv, ReachInv, FreshInv, Walk!EveryPullReached, Walk!DocumentsAreFresh

-----------------------------------------------------------------------------
(* The walk over a list moves alone or not at all.                         *)
LEMMA ListsRun ==
    ASSUME [SourceNext]_SourceVars, asks = "lists" \/ asks' = "lists"
    PROVE  asks = "lists" /\ asks' = "lists" /\ [Walk!Next]_(Walk!vars)
  BY DEF SourceNext, SourceVars, ListsVars, Walk!vars, Walk!github, Walk!walk

(* The invariant holds while a list is walked.                             *)
LEMMA ListsHold == SourceSpec => [](asks = "lists" => PagingInv)
<1> DEFINE Inv == asks = "lists" => PagingInv
<1>1. SourceInit => Inv
  BY PagingInit DEF SourceInit
<1>2. Inv /\ [SourceNext]_SourceVars => Inv'
  BY PagingNext, ListsRun
<1>3. QED
  BY <1>1, <1>2, PTL DEF SourceSpec

(* ForEach with AddPullRequests reaches, in lists of any length and pages  *)
(* of any size and whatever opens, closes and changes during the walk,     *)
(* every pull request that was open throughout unless one that was served  *)
(* closed, and leaves its head as GitHub has it unless a push overtook it. *)
THEOREM ListsAreReached == SourceSpec => []ListsReached
<1>1. (asks = "lists" => PagingInv) => ListsReached
  BY PagingTypes, PagingReaches DEF ListsReached
<1>2. QED
  BY <1>1, ListsHold, PTL
=============================================================================

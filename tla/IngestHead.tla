----------------------------- MODULE IngestHead -----------------------------
(***************************************************************************)
(* The commits of a repository as the engine reads them from git:          *)
(* Repository.IngestHead in src/ingest/pkg/engine/repository.go, called    *)
(* for one head after another, by the jobs that share an engine. It links  *)
(* commits with their parents and children and finds the roots. A step     *)
(* reads one commit, or registers and links one parent; any of them may    *)
(* fail, or find the context of the job done.                              *)
(***************************************************************************)
EXTENDS Integers, Sequences, Functions

CONSTANTS
    Commits,    \* the commits of the clone
    Graphs      \* the histories it may have: the parent hashes of each commit

(* Assumed of the constants by every module that instantiates this one.    *)
IngestAssumption == Graphs \subseteq [Commits -> Seq(Commits)]

VARIABLES
    graph,      \* the history in the clone
    commits,    \* Repository.commits
    parents,    \* of each commit, Commit.Parents()
    children,   \* of each commit, the set of Commit.Children()
    roots,      \* Repository.roots
    pc,         \* "idle" between calls, "pop" and "parents" in a call
    head,       \* the argument
    stack,      \* the commits to read, the top at the end
    cur,        \* the commit whose parents are being linked
    heads,      \* history: heads for which IngestHead returned no error
    asked,      \* history: heads that were registered
    truncated   \* history: commits a failed call left without all their parents

engine == <<commits, parents, children, roots>>
locals == <<pc, head, stack, cur>>
vars == <<graph, engine, locals, heads, asked, truncated>>

Init ==
    /\ graph \in Graphs
    /\ commits = {}
    /\ parents = [c \in Commits |-> <<>>]
    /\ children = [c \in Commits |-> {}]
    /\ roots = {}
    /\ pc = "idle"
    /\ head \in Commits
    /\ stack = <<>>
    /\ cur \in Commits
    /\ heads = {}
    /\ asked = {}
    /\ truncated = {}

----------------------------------------------------------------------------
(* A head that is registered is not read again, whoever registered it.     *)
CallKnown(h) ==
    /\ pc = "idle"
    /\ h \in commits
    /\ heads' = heads \cup {h}
    /\ UNCHANGED <<graph, engine, locals, asked, truncated>>

CallNew(h) ==
    /\ pc = "idle"
    /\ h \notin commits
    /\ commits' = commits \cup {h}
    /\ asked' = asked \cup {h}
    /\ head' = h
    /\ stack' = <<h>>
    /\ pc' = "pop"
    /\ UNCHANGED <<graph, parents, children, roots, cur, heads, truncated>>

top == stack[Len(stack)]
popped == SubSeq(stack, 1, Len(stack) - 1)

Roots == IF graph[top] = <<>> THEN roots \cup {top} ELSE roots

(* Object, and what is done once for the commit.                           *)
Pop ==
    /\ pc = "pop"
    /\ stack # <<>>
    /\ cur' = top
    /\ stack' = popped
    /\ roots' = Roots
    /\ pc' = IF graph[top] = <<>> THEN "pop" ELSE "parents"
    /\ UNCHANGED <<graph, commits, parents, children, head, heads, asked, truncated>>

parent == graph[cur][Len(parents[cur]) + 1]
IsLastParent == Len(parents[cur]) + 1 = Len(graph[cur])

(* mutant: only the first parent is put on the stack                       *)
PushFirst == IF parent \in commits \/ parents[cur] # <<>> THEN stack ELSE Append(stack, parent)

Push == IF parent \in commits THEN stack ELSE Append(stack, parent)

(* mutant: a parent that is registered is not linked a second time         *)
LinkNew ==
    IF parent \in commits THEN children ELSE [children EXCEPT ![parent] = @ \cup {cur}]

Link == [children EXCEPT ![parent] = @ \cup {cur}]

AddParent ==
    /\ pc = "parents"
    /\ commits' = commits \cup {parent}
    /\ children' = Link
    /\ parents' = [parents EXCEPT ![cur] = Append(@, parent)]
    /\ stack' = Push
    /\ pc' = IF IsLastParent THEN "pop" ELSE "parents"
    /\ UNCHANGED <<graph, roots, head, cur, heads, asked, truncated>>

Return ==
    /\ pc = "pop"
    /\ stack = <<>>
    /\ heads' = heads \cup {head}
    /\ pc' = "idle"
    /\ UNCHANGED <<graph, engine, head, stack, cur, asked, truncated>>

Unread == Range(stack) \cup (IF pc = "parents" THEN {cur} ELSE {})

(* The commits stay registered; a later call does not read them again.     *)
Fail ==
    /\ pc # "idle"
    /\ Unread # {}
    /\ truncated' = truncated \cup Unread
    /\ stack' = <<>>
    /\ pc' = "idle"
    /\ UNCHANGED <<graph, engine, head, cur, heads, asked>>

Next ==
    \/ \E h \in Commits : CallKnown(h) \/ CallNew(h)
    \/ Pop \/ AddParent \/ Return \/ Fail

Spec == Init /\ [][Next]_vars

----------------------------------------------------------------------------
(* Properties. *)

(* Every variable has its type.                                            *)
TypeOK ==
    /\ graph \in [Commits -> Seq(Commits)]
    /\ commits \subseteq Commits
    /\ parents \in [Commits -> Seq(Commits)]
    /\ children \in [Commits -> SUBSET Commits]
    /\ roots \subseteq Commits
    /\ pc \in {"idle", "pop", "parents"}
    /\ head \in Commits
    /\ stack \in Seq(Commits)
    /\ cur \in Commits
    /\ heads \subseteq Commits
    /\ asked \subseteq Commits
    /\ truncated \subseteq Commits
    /\ pc = "parents" => Len(parents[cur]) < Len(graph[cur])

(* Between calls, every registered commit has its parents in git's order,  *)
(* each once, is a child of each of them and of no other commit, and is a  *)
(* root if it has none; but for the commits at which a call has failed.    *)
LinksExact ==
    pc = "idle" =>
        /\ \A c \in commits \ truncated :
              /\ parents[c] = graph[c]
              /\ c \in roots <=> graph[c] = <<>>
        /\ \A p, c \in Commits : c \in children[p] <=> p \in Range(parents[c])

(* S has the heads hs and the parents of its commits, but for those in cut.*)
Holds(S, hs, cut) == hs \subseteq S /\ \A c \in S \ cut : Range(graph[c]) \subseteq S

(* Between calls, the heads and what they reach without going past a       *)
(* commit at which a call has failed are registered, and nothing else is   *)
(* that no head reaches.                                                   *)
IngestsReachable ==
    pc = "idle" =>
        /\ Holds(commits, heads, truncated)
        /\ \A S \in SUBSET Commits : Holds(S, asked, {}) => commits \subseteq S

(* Between calls the engine is git's history below the heads.              *)
EngineExact == TypeOK /\ LinksExact /\ IngestsReachable
=============================================================================

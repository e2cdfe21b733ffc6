----------------------------- MODULE Traversal ------------------------------
(***************************************************************************)
(* The walks over the commit graph in src/ingest/pkg/engine/repository.go: *)
(* AncestorsList, SuccessorList, AncestorsListUntil, UnseenAncestors and   *)
(* IsAncestor are one loop over a stack and a set, and differ in what they *)
(* skip, where they stop and what ends them early. A step is one iteration.*)
(***************************************************************************)
EXTENDS Integers, Sequences, Functions

CONSTANTS
    Registered,  \* the commits registered in the repository
    WalkGraphs   \* the graphs to walk: Parents() (or Children()) of each commit

ASSUME TraversalAssumption == WalkGraphs \subseteq [Registered -> Seq(Registered)]

Walks == {"AncestorsList", "AncestorsListUntil", "UnseenAncestors", "IsAncestor"}

VARIABLES
    walk,       \* the function that runs; SuccessorList is AncestorsList on Children()
    next,       \* the graph
    walk_heads, \* its heads
    skip,       \* the seen set given to UnseenAncestors
    until,      \* the stopPoints of AncestorsListUntil
    base,       \* the base of IsAncestor, as a set; empty in the other walks
    walk_stack, \* CommitsStack, its top at the end
    seen,       \* the set that is built
    found       \* IsAncestor has met base

args == <<walk, next, walk_heads, skip, until, base>>
walkVars == <<args, walk_stack, seen, found>>

----------------------------------------------------------------------------
InitWith(headSeqs) ==
    /\ walk \in Walks
    /\ next \in WalkGraphs
    /\ walk_heads \in headSeqs
    /\ walk = "IsAncestor" => Len(walk_heads) = 1
    /\ skip \in IF walk = "UnseenAncestors" THEN SUBSET Registered ELSE {{}}
    /\ until \in IF walk = "AncestorsListUntil" THEN SUBSET Registered ELSE {{}}
    /\ base \in IF walk = "IsAncestor" THEN {{c} : c \in Registered} ELSE {{}}
    /\ walk_stack = walk_heads
    /\ seen = {}
    /\ found = FALSE

WalkInit == InitWith(Seq(Registered))

top == walk_stack[Len(walk_stack)]
popped == SubSeq(walk_stack, 1, Len(walk_stack) - 1)

(* Nothing is left to pop, or IsAncestor has returned true.                *)
Done == walk_stack = <<>> \/ found

(* A commit met before is popped and forgotten.                            *)
Skip ==
    /\ ~Done
    /\ top \in seen \cup skip
    /\ walk_stack' = popped
    /\ UNCHANGED <<args, seen, found>>

Found ==
    /\ ~Done
    /\ top \notin seen \cup skip
    /\ top \in base
    /\ walk_stack' = popped
    /\ found' = TRUE
    /\ UNCHANGED <<args, seen>>

(* mutant: a stop point is not followed, and not added either              *)
StopsBefore == IF top \in until THEN {} ELSE {top}

Adds == {top}

(* mutant: only FirstParent is followed                                    *)
FollowsFirst == IF top \in until \/ next[top] = <<>> THEN <<>> ELSE <<next[top][1]>>

(* mutant: the positions of the parents are pushed in place of the parents *)
FollowsIndexes == IF top \in until THEN <<>> ELSE [i \in DOMAIN next[top] |-> i - 1]

Follows == IF top \in until THEN <<>> ELSE next[top]

Visit ==
    /\ ~Done
    /\ top \notin seen \cup skip
    /\ top \notin base
    /\ seen' = seen \cup Adds
    /\ walk_stack' = popped \o Follows
    /\ UNCHANGED <<args, found>>

WalkNext == Skip \/ Found \/ Visit

WalkSpec == WalkInit /\ [][WalkNext]_walkVars

----------------------------------------------------------------------------
(* Properties. *)

(* Every variable has its type.                                            *)
WalkTyped ==
    /\ walk \in Walks
    /\ next \in [Registered -> Seq(Registered)]
    /\ walk_heads \in Seq(Registered)
    /\ skip \subseteq Registered
    /\ until \subseteq Registered
    /\ base \subseteq Registered /\ \A c, d \in base : c = d
    /\ walk_stack \in Seq(Registered)
    /\ seen \subseteq Registered
    /\ found \in BOOLEAN

(* S holds the heads and all that can be reached from them without going   *)
(* through a skipped commit or past a stop point.                          *)
Holds(S) ==
    /\ Range(walk_heads) \subseteq S \cup skip
    /\ \A c \in S \ until : Range(next[c]) \subseteq S \cup skip

(* What a walk returns is what can be reached from the heads: it holds     *)
(* that, and nothing that another such set can do without.                 *)
ReturnsReachable ==
    walk_stack = <<>> /\ ~found =>
        /\ Holds(seen)
        /\ \A S \in SUBSET Registered : Holds(S) => seen \subseteq S

(* IsAncestor answers true only for a commit that the head reaches, and    *)
(* false only for one that it does not: some set with the head is closed   *)
(* under parents and does not have the commit.                             *)
IsAncestorExact ==
    walk = "IsAncestor" =>
        /\ found => \A S \in SUBSET Registered : Holds(S) => base \subseteq S
        /\ walk_stack = <<>> /\ ~found => \E S \in SUBSET Registered : Holds(S) /\ base \cap S = {}

(* Of all walks, what they return and what they answer.                    *)
WalksExact == ReturnsReachable /\ IsAncestorExact
=============================================================================

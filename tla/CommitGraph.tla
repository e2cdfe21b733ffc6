---------------------------- MODULE CommitGraph -----------------------------
(***************************************************************************)
(* What the functions of src/ingest/pkg/engine/repository.go return for a  *)
(* history: parents maps each commit to its parents in order, known is the *)
(* set of the commits that are registered (closed under parents). That the *)
(* loops over a stack return these sets is the subject of Traversal. The   *)
(* history may be git's or, after a call of IngestHead that failed half    *)
(* way, the part of it that the engine has.                                *)
(***************************************************************************)
EXTENDS Integers, Sequences, FiniteSets, Functions

(* What is reached from the commits of a set, without entering skip and    *)
(* without going on from a commit of until.                                *)
Reach(next, from, skip, until) ==
    LET R[n \in Nat] ==
            IF n = 0 THEN from \ skip
            ELSE LET before == R[n - 1]
                 IN  before \cup ((UNION {next[c] : c \in before \ until}) \ skip)
    IN  R[Cardinality(DOMAIN next)]

Parents(parents) == [c \in DOMAIN parents |-> Range(parents[c])]

Children(parents, known) ==
    [c \in DOMAIN parents |-> {d \in known : c \in Range(parents[d])}]

AncestorsList(parents, heads) == Reach(Parents(parents), heads, {}, {})
AncestorsListUntil(parents, stopPoints, heads) == Reach(Parents(parents), heads, {}, stopPoints)
UnseenAncestors(parents, seen, heads) == Reach(Parents(parents), heads, seen, {})
SuccessorList(parents, known, heads) == Reach(Children(parents, known), heads, {}, {})

IsAncestor(parents, known, base, head) ==
    base \in known /\ head \in known /\ base \in AncestorsList(parents, {head})

IsMerge(parents, c) == Len(parents[c]) > 1

(* Repository.roots, when the commits of a set were read.                  *)
Roots(parents, read) == {c \in read : parents[c] = <<>>}

(* The parents that the engine has of each commit, after a call that read  *)
(* some commits: all of them, but for the commit whose parents were being  *)
(* linked when the call failed, which has the first n.                     *)
LinksAfter(parents, links, read, cut, n) ==
    [c \in DOMAIN parents |-> IF c \notin read THEN links[c]
                              ELSE IF c = cut THEN SubSeq(parents[c], 1, n) ELSE parents[c]]

(* What a call for a head may have read when it fails: commits on a way    *)
(* from the head through commits that were read, none of them beyond cut.  *)
(* The order in which the stack reaches them is left open.                 *)
ReadInPart(parents, known, head, cut) ==
    {read \in SUBSET UnseenAncestors(parents, known, {head}) :
        read = Reach(Parents(parents), {head}, DOMAIN parents \ read, {cut})}

(* mutant: only the first parents are followed back                        *)
UnseenRootsFirstParent(parents, known, seen, heads) ==
    LET first    == [c \in DOMAIN parents |-> IF parents[c] = <<>> THEN {} ELSE {parents[c][1]}]
        scanned  == Reach(first, heads, seen, {})
        boundary == (heads \cup UNION {first[c] : c \in scanned}) \cap seen
    IN  {child \in (UNION {Children(parents, known)[c] : c \in boundary}) \ seen :
            Range(parents[child]) \subseteq seen}

(* Go back from the heads to the first seen commits, and take those of     *)
(* their children all of whose parents are seen.                           *)
UnseenRoots(parents, known, seen, heads) ==
    LET scanned  == UnseenAncestors(parents, seen, heads)
        boundary == (heads \cup UNION {Range(parents[c]) : c \in scanned}) \cap seen
    IN  {child \in (UNION {Children(parents, known)[c] : c \in boundary}) \ seen :
            Range(parents[child]) \subseteq seen}

(* The queue that FindCommonAncestor extends is a new variable of the loop *)
(* body: the loop sees the first parent again until it has counted it      *)
(* once for every parent.                                                  *)
FindCommonAncestor(commits) == commits[1]
=============================================================================

----------------------------- MODULE Connection -----------------------------
(***************************************************************************)
(* The pages of a list of the GraphQL API (ItemConnection in               *)
(* src/ingest/internal/entity/mongosrc/connection_generic.go, from which   *)
(* the connections of commits, jobs, repositories and the others are       *)
(* generated). A page is cut by cursors out of the documents in the order  *)
(* of an index; its edges, nodes and page information are resolved at the  *)
(* same time and share one query. Clients walk from page to page while     *)
(* documents come and go.                                                  *)
(***************************************************************************)
EXTENDS Integers, Sequences, SequencesExt, FiniteSets

CONSTANTS
    Keys,      \* positions in the index, positive
    Limit,     \* the largest page, 100
    MaxChanges \* bound: documents added and deleted

(* Assumed of the constants by every module that instantiates this one.    *)
ConnectionAssumption ==
    /\ Keys \subseteq Nat \ {0}
    /\ Limit \in Nat
    /\ MaxChanges \in Nat

Resolvers == {"edges", "nodes", "pageInfo"}
NoCursor == 0
NoArg == -2          \* first or last is not given
Failed == <<-1>>   \* answers that are no edges
Silent == <<-2>>

VARIABLES
    docs,      \* the documents that match the filter, finitely many
    changes,   \* how many times they have changed
    pc,        \* what the client does: "idle", "asking", "ended"
    walk,      \* whether it follows the pages to the end
    q,         \* the PaginationInput and the direction of its request
    once,      \* whether the query of the request has been made
    edges, hasNext, \* what it returned
    at,        \* the documents at that time
    told,      \* the edges each resolver has answered with
    seen,      \* the keys on the pages of the walk, in its direction
    stayed     \* the documents that have been there since it started

query == <<q, once, edges, hasNext, at, told>>
vars == <<docs, changes, pc, walk, query, seen, stayed>>

Args == {NoArg} \cup (-1 .. Limit + 1)
Inputs == [dir : {"asc", "desc"}, first : Args, last : Args,
           after : Keys \cup {NoCursor}, before : Keys \cup {NoCursor}]

Unanswered == [r \in Resolvers |-> Silent]

Init ==
    /\ docs \in SUBSET Keys /\ IsFiniteSet(docs)
    /\ changes = 0
    /\ pc = "idle"
    /\ walk = FALSE
    /\ q = [dir |-> "asc", first |-> 0, last |-> NoArg, after |-> NoCursor, before |-> NoCursor]
    /\ once = "no"
    /\ edges = <<>>
    /\ hasNext = FALSE
    /\ at = {}
    /\ told = Unanswered
    /\ seen = <<>>
    /\ stayed = {}

Request(input) ==
    /\ pc' = "asking"
    /\ q' = input
    /\ once' = "no"
    /\ edges' = <<>>
    /\ hasNext' = FALSE
    /\ at' = {}
    /\ told' = Unanswered

(* One page, with any arguments.                                           *)
Ask ==
    /\ pc = "idle"
    /\ \E input \in Inputs : Request(input)
    /\ walk' = FALSE
    /\ seen' = <<>>
    /\ stayed' = docs
    /\ UNCHANGED <<docs, changes>>

(* The first page of a walk, or the last one of a walk backwards.          *)
Walk(dir, n, forward) ==
    /\ pc = "idle"
    /\ Request([dir |-> dir, after |-> NoCursor, before |-> NoCursor,
                first |-> IF forward THEN n ELSE NoArg,
                last |-> IF forward THEN NoArg ELSE n])
    /\ walk' = TRUE
    /\ seen' = <<>>
    /\ stayed' = docs
    /\ UNCHANGED <<docs, changes>>

(* PaginationInput.Validate                                                *)
Valid ==
    /\ q.first = NoArg \/ q.last = NoArg
    /\ q.first # NoArg \/ q.last # NoArg
    /\ q.first \in {NoArg} \cup (0 .. Limit)
    /\ q.last \in {NoArg} \cup (0 .. Limit)

Size == IF q.last # NoArg THEN q.last ELSE q.first

(* The bounds of the index scan, and the order of the scan.                *)
MinKey == IF q.dir = "desc" THEN q.before ELSE q.after
MaxKey == IF q.dir = "desc" THEN q.after ELSE q.before
Ascending == (q.first # NoArg) = (q.dir = "asc")

(* mutant: the lower bound of the scan is on the page                      *)
ScannedInclusive == {k \in docs : k >= MinKey /\ (MaxKey # NoCursor => k < MaxKey)}

(* min is inclusive and max exclusive; $nor takes the cursors out.         *)
Scanned ==
    {k \in docs : k >= MinKey /\ (MaxKey # NoCursor => k < MaxKey)} \ {MinKey, MaxKey}

(* The query answers with an error, taken as no result, for crossed bounds.*)
NoResults == MinKey # NoCursor /\ MaxKey # NoCursor /\ MinKey >= MaxKey

Before(a, b) == IF Ascending THEN a < b ELSE a > b

(* The documents in the order of the scan.                                 *)
Scan ==
    CHOOSE s \in [1 .. Cardinality(Scanned) -> Scanned] :
        \A i, j \in DOMAIN s : i < j => Before(s[i], s[j])

(* One document more than asked tells whether there is a next page.        *)
Found ==
    IF NoResults THEN <<>>
                 ELSE SubSeq(Scan, 1, IF Len(Scan) < Size + 1 THEN Len(Scan) ELSE Size + 1)

Cut == SubSeq(Found, 1, IF Len(Found) < Size THEN Len(Found) ELSE Size)

(* mutant: a page from the end is given in the order of the scan           *)
SortedUnflipped == Cut

(* A page from the end was scanned backwards.                              *)
Sorted == IF q.last # NoArg THEN Reverse(Cut) ELSE Cut

Answer(r, value) == told' = [told EXCEPT ![r] = value]

(* The first resolver makes the query, ...                                 *)
Find(r) ==
    /\ pc = "asking" /\ once = "no" /\ Valid
    /\ once' = "done"
    /\ at' = docs
    /\ edges' = Sorted
    /\ hasNext' = (Len(Found) > Size)
    /\ Answer(r, Sorted)
    /\ UNCHANGED <<docs, changes, pc, walk, q, seen, stayed>>

(* mutant: the error stays inside the function that is called once         *)
FindFailsUntold(r) ==
    /\ pc = "asking" /\ once = "no"
    /\ once' = "failed"
    /\ at' = docs
    /\ Answer(r, <<>>)
    /\ UNCHANGED <<docs, changes, pc, walk, q, edges, hasNext, seen, stayed>>

(* ... which may fail, and does for arguments that are not valid; ...      *)
FindFails(r) ==
    /\ pc = "asking" /\ once = "no"
    /\ once' = "failed"
    /\ at' = docs
    /\ Answer(r, Failed)
    /\ UNCHANGED <<docs, changes, pc, walk, q, edges, hasNext, seen, stayed>>

(* mutant: they wait for a result, which a failed query never leaves       *)
ReuseResult(r) ==
    /\ pc = "asking" /\ once = "done" /\ told[r] = Silent
    /\ Answer(r, edges)
    /\ UNCHANGED <<docs, changes, pc, walk, q, once, edges, hasNext, at, seen, stayed>>

(* ... the others take what it left, without an error.                     *)
Reuse(r) ==
    /\ pc = "asking" /\ once # "no" /\ told[r] = Silent
    /\ Answer(r, edges)
    /\ UNCHANGED <<docs, changes, pc, walk, q, once, edges, hasNext, at, seen, stayed>>

(* PageInfoFromItemEdges                                                   *)
HasNextPage ==
    CASE edges = <<>> -> q.last # NoArg /\ q.before # NoCursor
      [] edges # <<>> /\ q.last # NoArg -> q.before # NoCursor
      [] OTHER -> Len(edges) = q.first /\ hasNext

HasPreviousPage ==
    CASE edges = <<>> -> q.first # NoArg /\ q.after # NoCursor
      [] edges # <<>> /\ q.last # NoArg -> Len(edges) = q.last /\ hasNext
      [] OTHER -> q.after # NoCursor

Answered == pc = "asking" /\ \A r \in Resolvers : told[r] # Silent
Refused == \E r \in Resolvers : told[r] = Failed
Collected == IF q.last # NoArg THEN edges \o seen ELSE seen \o edges

(* The client goes on where the page ends, ...                             *)
NextPage ==
    /\ Answered /\ walk /\ ~Refused
    /\ \/ q.first # NoArg /\ HasNextPage /\ Request([q EXCEPT !.after = Last(edges)])
       \/ q.last # NoArg /\ HasPreviousPage /\ Request([q EXCEPT !.before = Head(edges)])
    /\ seen' = Collected
    /\ UNCHANGED <<docs, changes, walk, stayed>>

(* ... and stops at the last page or an error.                             *)
End ==
    /\ Answered
    /\ \/ ~walk \/ Refused
       \/ q.first # NoArg /\ ~HasNextPage
       \/ q.last # NoArg /\ ~HasPreviousPage
    /\ pc' = "ended"
    /\ seen' = IF Refused THEN seen ELSE Collected
    /\ UNCHANGED <<docs, changes, walk, query, stayed>>

Insert(k) ==
    /\ k \notin docs /\ changes < MaxChanges
    /\ docs' = docs \cup {k}
    /\ changes' = changes + 1
    /\ UNCHANGED <<pc, walk, query, seen, stayed>>

Delete(k) ==
    /\ k \in docs /\ changes < MaxChanges
    /\ docs' = docs \ {k}
    /\ stayed' = stayed \ {k}
    /\ changes' = changes + 1
    /\ UNCHANGED <<pc, walk, query, seen>>

Client == (\E r \in Resolvers : Find(r) \/ FindFails(r) \/ Reuse(r)) \/ NextPage \/ End

Next ==
    \/ Ask
    \/ \E dir \in {"asc", "desc"}, n \in 0 .. Limit, forward \in BOOLEAN : Walk(dir, n, forward)
    \/ Client
    \/ \E k \in Keys : Insert(k) \/ Delete(k)

Spec == Init /\ [][Next]_vars

(* Resolvers are run by the server, and the client follows the pages.      *)
FairSpec == Spec /\ WF_vars(Client)

----------------------------------------------------------------------------
(* Properties. *)

(* Every variable has its type, and a page is never longer than allowed.   *)
TypeOK ==
    /\ docs \subseteq Keys
    /\ changes \in 0 .. MaxChanges
    /\ pc \in {"idle", "asking", "ended"}
    /\ walk \in BOOLEAN
    /\ q \in Inputs
    /\ once \in {"no", "done", "failed"}
    /\ edges \in Seq(Keys) /\ Len(edges) <= Limit
    /\ hasNext \in BOOLEAN
    /\ at \subseteq Keys
    /\ \A r \in Resolvers : told[r] \in {Silent, Failed} \/ told[r] \in Seq(Keys)
    /\ seen \in Seq(Keys)
    /\ stayed \subseteq docs

(* Strictly in the direction that was asked for: nothing is there twice.   *)
InOrder(s) ==
    \A i, j \in DOMAIN s : i < j => IF q.dir = "asc" THEN s[i] < s[j] ELSE s[i] > s[j]

(* The page is the one the arguments describe: of the documents strictly   *)
(* between the cursors, in the direction asked for, the first or the last  *)
(* n, whatever way the query scanned the index.                            *)
PageIsRange ==
    once = "done" =>
        LET follows(a, b) == IF q.dir = "asc" THEN a > b ELSE a < b
            range == {k \in at : /\ q.after # NoCursor => follows(k, q.after)
                                 /\ q.before # NoCursor => follows(q.before, k)}
            page == ToSet(edges)
        IN  /\ InOrder(edges)
            /\ page \subseteq range
            /\ Cardinality(page) = (IF Cardinality(range) < Size THEN Cardinality(range) ELSE Size)
            /\ \A k \in range \ page, p \in page :
                  IF q.first # NoArg THEN follows(k, p) ELSE follows(p, k)

(* The edges, the nodes and the page information of a request are about    *)
(* the same page, also when documents come and go while they are resolved; *)
(* and when the query failed one of them says so.                          *)
OnePage ==
    /\ \A r, s \in Resolvers :
          {told[r], told[s]} \cap {Silent, Failed} = {} => told[r] = told[s]
    /\ once = "failed" => Refused

(* A walk that ended without an error has shown every document that was    *)
(* there all the time, once and in order, unless it asked for empty pages. *)
WalkComplete ==
    /\ InOrder(seen)
    /\ pc = "ended" /\ walk /\ ~Refused /\ Size > 0 => stayed \subseteq ToSet(seen)

(* Every walk ends: each page brings it nearer to the end of the index.    *)
WalksEnd == pc = "asking" ~> pc = "ended"
=============================================================================

------------------------------- MODULE Paging -------------------------------
(***************************************************************************)
(* Lists that GitHub serves in pages: the open pull requests               *)
(* (pullRequestItr.ForEach in src/ingest/pkg/ghapp/ghapp.go with           *)
(* AddPullRequests in src/ingest/pkg/manage/tasks.go), and the members and *)
(* collaborators (listAllMembers, listAllCollaborators in handlers.go).    *)
(* Entries come, go and change between two pages, and while the entries of *)
(* a page are handled; pull requests are served newest first.              *)
(***************************************************************************)
EXTENDS Integers, Sequences, FiniteSets

CONSTANTS
    Entries,      \* what a list may hold
    PerPage,      \* entries of a page, 100 in the code
    MaxChanges    \* bound: changes during the walk

(* Assumed of the constants by every module that instantiates this one.    *)
PagingAssumption ==
    PerPage \in Nat \ {0} /\ MaxChanges \in Nat /\ IsFiniteSet(Entries)

VARIABLES
    kind,         \* whose list is walked
    list,         \* GitHub's list, in the order it is served
    version,      \* how often each entry has changed
    changes,
    state,        \* the walk
    page,         \* the page it asks for next
    fetched,      \* the entries of the page in hand: [entry, version]
    next, last,   \* the page numbers of the response, 0 for none
    result,       \* the entries reached; collaborators: the map returned
    stored,       \* the versions in the documents, -1 for no document
    \* history
    stayed,       \* the entries that were in the list all the time
    overtaken,    \* entries that changed while their page was in hand
    shifted       \* an entry of a page already fetched has left

github == <<kind, list, version, changes>>
walk == <<state, page, fetched, next, last, result, stored>>
vars == <<github, walk, stayed, overtaken, shifted>>

Kinds == {"pulls", "members", "collaborators"}
SetOf(s) == {s[i] : i \in DOMAIN s}
Lists == {s \in UNION {[1 .. n -> Entries] : n \in 0 .. Cardinality(Entries)} :
             Cardinality(SetOf(s)) = Len(s)}

Init ==
    /\ kind \in Kinds
    /\ list \in Lists
    /\ version = [e \in Entries |-> 0]
    /\ changes = 0
    /\ state = "fetch"
    /\ page = 1
    /\ fetched = <<>>
    /\ next = 0 /\ last = 0
    /\ result = {}
    /\ stored = [e \in Entries |-> -1]
    /\ stayed = SetOf(list)
    /\ overtaken = {}
    /\ shifted = FALSE

Walking == state \in {"fetch", "handle"}

----------------------------------------------------------------------------
(* GitHub and its webhooks (external). *)

Pages == (Len(list) + PerPage - 1) \div PerPage
OfPage(k) == SubSeq(list, (k - 1) * PerPage + 1,
                    IF k * PerPage < Len(list) THEN k * PerPage ELSE Len(list))

Changing == Walking /\ kind = "pulls" /\ changes < MaxChanges /\ changes' = changes + 1

(* A pull request is opened; its webhook stores it.                        *)
Open(e) ==
    /\ Changing
    /\ e \notin SetOf(list) /\ stored[e] = -1
    /\ list' = <<e>> \o list
    /\ stored' = [stored EXCEPT ![e] = version[e]]
    /\ UNCHANGED <<kind, version, state, page, fetched, next, last, result, stayed, overtaken, shifted>>

Close(i) ==
    /\ Changing
    /\ list' = SubSeq(list, 1, i - 1) \o SubSeq(list, i + 1, Len(list))
    /\ stayed' = stayed \ {list[i]}
    /\ shifted' = (shifted \/ i <= (page - 1) * PerPage)
    /\ UNCHANGED <<kind, version, walk, overtaken>>

(* A pull request gets a new head; its webhook stores it.                  *)
Synchronize(e) ==
    /\ Changing
    /\ e \in SetOf(list)
    /\ version' = [version EXCEPT ![e] = @ + 1]
    /\ stored' = [stored EXCEPT ![e] = version[e] + 1]
    /\ overtaken' = IF \E i \in DOMAIN fetched : fetched[i].entry = e
                      THEN overtaken \cup {e} ELSE overtaken
    /\ UNCHANGED <<kind, list, state, page, fetched, next, last, result, stayed, shifted>>

----------------------------------------------------------------------------
(* The walk. *)

(* The last page names no next page, and itself not as the last (external).*)
Response ==
    [entries |-> OfPage(page),
     next |-> IF page < Pages THEN page + 1 ELSE 0,
     last |-> IF page < Pages THEN Pages ELSE 0]

Fetch ==
    /\ state = "fetch"
    /\ fetched' = [i \in DOMAIN Response.entries |->
                     [entry |-> Response.entries[i], version |-> version[Response.entries[i]]]]
    /\ next' = Response.next
    /\ last' = Response.last
    /\ page' = page + 1
    /\ state' = "handle"
    /\ UNCHANGED <<github, result, stored, stayed, overtaken, shifted>>

(* A page, or the job of a pull request, fails: the walk ends with an      *)
(* error, and the caller keeps nothing of the members.                     *)
Fails ==
    /\ Walking
    /\ state' = "failed"
    /\ fetched' = <<>>
    /\ UNCHANGED <<github, page, next, last, result, stored, stayed, overtaken, shifted>>

(* mutant: without upsert                                                  *)
StoreExisting(f) == stored' = IF stored[f.entry] = -1 THEN stored
                                ELSE [stored EXCEPT ![f.entry] = f.version]

(* FindAndUpdateSource.                                                    *)
Store(f) == stored' = [stored EXCEPT ![f.entry] = f.version]

HandlePull ==
    /\ state = "handle" /\ kind = "pulls" /\ fetched # <<>>
    /\ Store(Head(fetched))
    /\ result' = result \cup {Head(fetched).entry}
    /\ fetched' = Tail(fetched)
    /\ UNCHANGED <<github, state, page, next, last, stayed, overtaken, shifted>>

(* The users of a page are handled at once: members are appended, the      *)
(* collaborators of a page replace those before.                           *)
HandleUsers ==
    /\ state = "handle" /\ kind # "pulls" /\ fetched # <<>>
    /\ LET users == {f.entry : f \in SetOf(fetched)}
       IN  result' = IF kind = "members" THEN result \cup users ELSE users
    /\ fetched' = <<>>
    /\ UNCHANGED <<github, state, page, next, last, stored, stayed, overtaken, shifted>>

(* mutant: pull requests are walked as users are                           *)
MoreAsUsers == next < last

(* ForEach goes on while there is a next page, the others while it is      *)
(* smaller than the last one.                                              *)
More == IF kind = "pulls" THEN next > 0 ELSE next < last

(* mutant: the page that was asked for last is asked for again             *)
TurnBack ==
    /\ state = "handle" /\ fetched = <<>>
    /\ state' = IF More THEN "fetch" ELSE "done"
    /\ page' = IF More THEN next - 1 ELSE page
    /\ UNCHANGED <<github, fetched, next, last, result, stored, stayed, overtaken, shifted>>

Turn ==
    /\ state = "handle" /\ fetched = <<>>
    /\ state' = IF More THEN "fetch" ELSE "done"
    /\ page' = IF More THEN next ELSE page
    /\ UNCHANGED <<github, fetched, next, last, result, stored, stayed, overtaken, shifted>>

Step == Fetch \/ HandlePull \/ HandleUsers \/ Turn \/ Fails

Next ==
    \/ \E e \in Entries : Open(e) \/ Synchronize(e)
    \/ \E i \in DOMAIN list : Close(i)
    \/ Step

Spec == Init /\ [][Next]_vars

(* Requests are answered and callbacks return.                             *)
FairSpec == Spec /\ WF_vars(Step)

----------------------------------------------------------------------------
(* Properties. *)

(* Every variable has its type; a page in hand holds no entry twice, and no*)
(* member that was reached before.                                         *)
TypeOK ==
    /\ kind \in Kinds /\ list \in Lists
    /\ state \in {"fetch", "handle", "done", "failed"}
    /\ changes \in 0 .. MaxChanges
    /\ page \in 1 .. Cardinality(Entries) + 2
    /\ {next, last} \subseteq 0 .. Cardinality(Entries)
    /\ Len(fetched) <= PerPage
    /\ Cardinality({fetched[i].entry : i \in DOMAIN fetched}) = Len(fetched)
    /\ kind = "members" => {fetched[i].entry : i \in DOMAIN fetched} \cap result = {}
    /\ result \subseteq Entries /\ stayed \subseteq SetOf(list)
    /\ \A e \in Entries : stored[e] \in -1 .. version[e]

(* A walk over the pull requests reaches all that were open throughout,    *)
(* whatever is opened or changed on the way; only the closing of one that  *)
(* was served already can hide another one.                                *)
EveryPullReached ==
    kind = "pulls" /\ state = "done" /\ ~shifted => stayed \subseteq result

(* After the walk the documents have the heads GitHub has, except those    *)
(* that were pushed to between the fetch of their page and their turn:     *)
(* their newer head has been overwritten by the older one.                 *)
DocumentsAreFresh ==
    kind = "pulls" /\ state = "done" =>
        \A e \in result \cap stayed : stored[e] = version[e] \/ e \in overtaken

(* The walk ends, also if the list changes under it.                       *)
WalkEnds == <>~Walking

(* All members and all collaborators are reached, as the names of the      *)
(* functions that walk over them and the callers' comment have it.         *)
UsersReached == kind # "pulls" /\ state = "done" => stayed \subseteq result
=============================================================================

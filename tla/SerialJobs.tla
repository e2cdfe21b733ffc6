----------------------------- MODULE SerialJobs -----------------------------
(***************************************************************************)
(* What the job manager promises to those who submit jobs, as long as no   *)
(* repository is stopped: the jobs of a repository are run one at a time,  *)
(* in the order in which they were submitted, and every one of them is     *)
(* eventually run, or given up because the one before it was cancelled.    *)
(* Nothing is said of queues, workers and locks.                           *)
(***************************************************************************)
EXTENDS Sequences

CONSTANTS Repos, Jobs, RepoOf, NoJob

VARIABLES
    submitted,  \* jobs submitted so far
    waiting,    \* the jobs of a repository that wait, oldest first
    active      \* the job of a repository that is being run, or NoJob

svars == <<submitted, waiting, active>>

Init ==
    /\ submitted = {}
    /\ waiting = [r \in Repos |-> <<>>]
    /\ active = [r \in Repos |-> NoJob]

Submit(j) ==
    /\ j \notin submitted
    /\ submitted' = submitted \cup {j}
    /\ waiting' = [waiting EXCEPT ![RepoOf[j]] = Append(@, j)]
    /\ UNCHANGED active

(* The oldest waiting job becomes the active one; the job that was active  *)
(* before, if any, is over.                                                *)
Start(r) ==
    /\ waiting[r] # <<>>
    /\ active' = [active EXCEPT ![r] = Head(waiting[r])]
    /\ waiting' = [waiting EXCEPT ![r] = Tail(@)]
    /\ UNCHANGED submitted

(* The last job is over. *)
Complete(r) ==
    /\ active[r] # NoJob
    /\ waiting[r] = <<>>
    /\ active' = [active EXCEPT ![r] = NoJob]
    /\ UNCHANGED <<submitted, waiting>>

(* The active job was cancelled: those behind it are given up. *)
GiveUp(r) ==
    /\ active[r] # NoJob
    /\ waiting' = [waiting EXCEPT ![r] = <<>>]
    /\ UNCHANGED <<submitted, active>>

Next ==
    \/ \E j \in Jobs : Submit(j)
    \/ \E r \in Repos : Start(r) \/ Complete(r) \/ GiveUp(r)

Spec == Init /\ [][Next]_svars

FairSpec == Spec /\ \A r \in Repos : WF_svars(Start(r) \/ Complete(r))
=============================================================================

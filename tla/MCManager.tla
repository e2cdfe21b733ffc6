----------------------------- MODULE MCManager -----------------------------
(* Small instances of Manager for TLC. *)
EXTENDS Manager, TLC

CONSTANTS r1, r2, j1, j2, j3, j4, j5

(* Three jobs of r1, one for each queue, and two of r2 that share a queue  *)
(* with the first of r1.                                                   *)
MCRepoOf == (j1 :> r1) @@ (j2 :> r1) @@ (j3 :> r1) @@ (j4 :> r2) @@ (j5 :> r2)
MCActionOf == (j1 :> "PullRequestUpdate") @@ (j2 :> "RepositoryRecovering")
    @@ (j3 :> "MonitorRepository") @@ (j4 :> "PushCheck") @@ (j5 :> "PullRequestAdded")
=============================================================================

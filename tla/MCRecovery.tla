----------------------------- MODULE MCRecovery -----------------------------
(* A repository over restarts of the server. The constants of Recovery are *)
(* the largest of its six instances, one of which a behaviour chooses: a   *)
(* user who stops the repository; a server that crashes once; both, with   *)
(* the check of a pull request; failing predictions, with two events of    *)
(* the pull request; a restart with a new version while a pull request is  *)
(* at work, and two restarts. Beside them, as a component of its own, the  *)
(* lists that clients turn over in pages.                                  *)
EXTENDS Recovery, Lists

CONSTANT Parts  \* the instances a behaviour may choose

VARIABLE part   \* the one it has chosen

Stopped == INSTANCE Recovery WITH MaxEvents <- 1, MaxCrashes <- 0,
    ChecksEnabled <- FALSE, Upgrade <- FALSE, Stops <- TRUE
Crashed == INSTANCE Recovery WITH MaxEvents <- 1, MaxCrashes <- 1,
    ChecksEnabled <- FALSE, Upgrade <- FALSE, Stops <- FALSE
Checked == INSTANCE Recovery WITH MaxEvents <- 2, MaxCrashes <- 1,
    ChecksEnabled <- TRUE, Upgrade <- FALSE, Stops <- TRUE
Predicted == INSTANCE Recovery WITH MaxEvents <- 2, MaxCrashes <- 0,
    ChecksEnabled <- FALSE, Upgrade <- FALSE, Stops <- FALSE
Migrated == INSTANCE Recovery WITH MaxEvents <- 1, MaxCrashes <- 1,
    ChecksEnabled <- FALSE, Upgrade <- TRUE, Stops <- FALSE
Upgraded == INSTANCE Recovery WITH MaxEvents <- 0, MaxCrashes <- 2,
    ChecksEnabled <- FALSE, Upgrade <- TRUE, Stops <- FALSE

ASSUME ComponentsAssumption ==
    /\ RecoveryAssumption
    /\ Stopped!RecoveryAssumption /\ Crashed!RecoveryAssumption
    /\ Checked!RecoveryAssumption /\ Predicted!RecoveryAssumption
    /\ Migrated!RecoveryAssumption /\ Upgraded!RecoveryAssumption

(* Lists are about no repository in particular.                            *)
ComponentsInit ==
    /\ part \in Parts
    /\ listed = (part \in {"requests", "walks"})
    /\ Init
    /\ ListsInit

(* Only some of the instances have a second push.                          *)
OnePush == pushed' = 1

RecoveryNext ==
    \/ part = "stopped" /\ Stopped!Next
    \/ part = "crashed" /\ Crashed!Next
    \/ part = "checked" /\ Checked!Next /\ OnePush
    \/ part = "predicted" /\ Predicted!Next
    \/ part = "migrated" /\ Migrated!Next /\ OnePush
    \/ part = "upgraded" /\ Upgraded!Next /\ OnePush

(* A single request has many arguments, and one that gives both first and  *)
(* last is refused whatever they are; a walk needs more documents that     *)
(* come and go.                                                            *)
WithinRequests ==
    /\ ~walk /\ docs \subseteq 1 .. 3 /\ changes <= 1
    /\ Query!NoArg \in {q.first, q.last} \/ (q.first = 1 /\ q.last = 1)
    /\ q.after <= 3 /\ q.before <= 3

WithinWalks == walk \/ at_query = "idle"

ComponentsNext ==
    /\ \/ RecoveryNext /\ UNCHANGED ListVars
       \/ part = "requests" /\ ListsNext /\ WithinRequests' /\ UNCHANGED vars
       \/ part = "walks" /\ ListsNext /\ WithinWalks' /\ UNCHANGED vars
    /\ UNCHANGED <<part, listed>>

ComponentsSpec ==
    ComponentsInit /\ [][ComponentsNext]_<<part, listed, vars, ListVars>>
=============================================================================

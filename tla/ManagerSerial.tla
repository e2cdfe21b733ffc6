--------------------------- MODULE ManagerSerial ---------------------------
(***************************************************************************)
(* The job manager implements SerialJobs as long as no repository is       *)
(* stopped.                                                                *)
(***************************************************************************)
EXTENDS Manager

(* The job at the head of the process of the repository is the active one, *)
(* its followers wait; without a process, the queued jobs wait.            *)
activeJob == [r \in Repos |->
    IF processes[r] = NoJob THEN NoJob ELSE Head(chain[processes[r]])]
waitingJobs == [r \in Repos |->
    IF processes[r] = NoJob THEN queued[r] ELSE Tail(chain[processes[r]])]

Serial == INSTANCE SerialJobs WITH
    submitted <- created, waiting <- waitingJobs, active <- activeJob

FairSpecNoStop == SpecNoStop /\ Fairness

(* Without StopRepository the jobs of a repository are run one at a time   *)
(* and in order, whatever queues they go through, and all of them leave.   *)
ImplementsSerialJobs == Serial!FairSpec
=============================================================================

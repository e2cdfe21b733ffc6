------------------------------ MODULE Progress ------------------------------
(***************************************************************************)
(* Progress of a repository as its clients see it: the registry of         *)
(* observables, their lists of observers and the notifications             *)
(* (src/ingest/pkg/manage/progress.go), the subscription changeProgress    *)
(* (graph/schema.resolvers.go), and the processes that set the stages.     *)
(*                                                                         *)
(* There is one repository, so one key of the registry. A slice has its    *)
(* array: notifyNow reads the array without the lock while RemoveObserver  *)
(* changes it in place and AddObserver may move on to a larger one.        *)
(***************************************************************************)
EXTENDS Integers, Sequences, SequencesExt, FiniteSets

CONSTANTS
    Subscribers,  \* clients, one subscription each
    JobKinds,     \* kinds of jobs that may run: "update", "check"
    MaxJobs,
    MaxTicks,     \* calls of IncreaseProgress that are not held back
    MaxNotifiers, \* notifications at a time
    Stops,        \* a user may stop the repository
    Nil           \* an empty place of an array

(* A job is the update of the repository or a check of a pull request; the *)
(* bounds allow something, and an empty place is nobody's.                 *)
ASSUME ProgressAssumption ==
    /\ JobKinds \subseteq {"update", "check"} /\ JobKinds # {}
    /\ MaxJobs \in Nat \ {0}
    /\ MaxTicks \in Nat
    /\ MaxNotifiers \in Nat \ {0}
    /\ Stops \in BOOLEAN
    /\ Nil \notin Subscribers

VARIABLES
    db,        \* the status of the repository in the database
    registry,  \* ProgressObservableRegistry.observables, 0 for no entry
    removing,  \* how far RemoveEmpty is
    stage,     \* of each observable, its progress.Status
    slice,     \* of each observable, how many observers it has
    arrays,    \* of each observable, the arrays they have been in, the last is in use
    notifiers, \* the goroutines notifyNow
    jobs,      \* each job: kind, pc, tracker and the stage it saves
    current,   \* Manager.processes: the job of the repository's process, or 0
    client,    \* each client: pc, the observable it got, the status it read
    shown,     \* what the client's page shows
    ticks,
    lastSaver, \* history: the job that saved the status last, or NotSaved
    detached,  \* history: jobs that ran next to another, or after a stop
    missed,    \* history: clients that a notification did not reach
    late       \* history: clients that joined an entry RemoveEmpty had looked at

observables == <<stage, slice, arrays>>
progress == <<db, registry, removing, observables, notifiers, jobs, current, client, shown,
               ticks, lastSaver, detached, missed, late>>

NoEntry == 0
NotSaved == -1
Outcomes == {"Ready", "Failed", "Canceled"}
Stages == {"Queued", "Progressing"} \cup Outcomes

(* The array in use, and the observers, who are in the first places.       *)
array(o) == arrays[o][Len(arrays[o])]
Observers(o) == {array(o)[i] : i \in 1..slice[o]}

(* mutant: the lock is not held while the database is asked                *)
HeldBriefly == removing = "delete"

RegistryLocked ==
    removing = "delete" \/ \E c \in Subscribers : client[c].pc \in {"locked", "create"}

Nowhere == <<>>  \* the array of a nil slice

newProgressObservable(s) ==
    /\ stage' = Append(stage, s)
    /\ slice' = Append(slice, 0)
    /\ arrays' = Append(arrays, <<Nowhere>>)

ProgressInit ==
    /\ db = "Ready"
    /\ registry = NoEntry
    /\ removing = "no"
    /\ stage = <<>> /\ slice = <<>> /\ arrays = <<>>
    /\ notifiers = <<>>
    /\ jobs = <<>>
    /\ current = 0
    /\ client = [c \in Subscribers |-> [pc |-> "away", po |-> NoEntry, read |-> "Queued"]]
    /\ shown = [c \in Subscribers |-> "Queued"]
    /\ ticks = 0
    /\ lastSaver = 0
    /\ detached = {}
    /\ missed = {}
    /\ late = {}

----------------------------------------------------------------------------
(* The processes. A check is the job of a pull request: it has the tracker *)
(* of the pull request, and saves the repository's status with repoStatus, *)
(* whose tracker has another key than the one clients ask for.             *)

Over(j) == jobs[j].pc = "over"

NewJob(k) == [kind |-> k, pc |-> IF k = "update" THEN "begin" ELSE "save",
              tracker |-> NoEntry, saves |-> "Progressing"]

Start(k) ==
    /\ Len(jobs) < MaxJobs
    /\ current = 0 /\ removing = "no"
    /\ jobs' = Append(jobs, NewJob(k))
    /\ current' = Len(jobs) + 1
    /\ detached' = IF \A j \in DOMAIN jobs : Over(j) THEN detached
                   ELSE detached \cup {Len(jobs) + 1}
    /\ UNCHANGED <<db, registry, removing, observables, notifiers, client, shown, ticks,
                   lastSaver, missed, late>>

(* The first look of GetOrCreate is not locked.                            *)
GetOrCreate(j) ==
    /\ \/ /\ jobs[j].pc = "begin"
          /\ IF registry # NoEntry
               THEN jobs' = [jobs EXCEPT ![j].tracker = registry, ![j].pc = "save"]
               ELSE jobs' = [jobs EXCEPT ![j].pc = "create"]
          /\ UNCHANGED <<registry, observables>>
       \/ /\ jobs[j].pc = "create"
          /\ ~RegistryLocked
          /\ IF registry # NoEntry
               THEN /\ jobs' = [jobs EXCEPT ![j].tracker = registry, ![j].pc = "save"]
                    /\ UNCHANGED <<registry, observables>>
               ELSE /\ newProgressObservable("Queued")
                    /\ registry' = Len(stage) + 1
                    /\ jobs' = [jobs EXCEPT ![j].tracker = registry', ![j].pc = "save"]
    /\ UNCHANGED <<db, removing, notifiers, current, client, shown, ticks, lastSaver,
                   detached, missed, late>>

(* saveStatus and repoStatus write to the database first. saveStatus sets  *)
(* the new stage also when it could not write; a check that fails, here or *)
(* elsewhere, does not save the repository's status again.                 *)
SaveStatus(j) ==
    /\ jobs[j].pc = "save"
    /\ \/ /\ db' = jobs[j].saves
          /\ lastSaver' = j
          /\ jobs' = [jobs EXCEPT ![j].pc = "set"]
       \/ /\ jobs[j].kind = "update"
          /\ lastSaver' = NotSaved
          /\ jobs' = [jobs EXCEPT ![j].pc = "unsaved"]
          /\ UNCHANGED db
       \/ /\ jobs[j].kind = "check"
          /\ jobs' = [jobs EXCEPT ![j].pc = "report"]
          /\ UNCHANGED <<db, lastSaver>>
    /\ UNCHANGED <<registry, removing, observables, notifiers, current, client, shown,
                   ticks, detached, missed, late>>

Going(j) == current = j /\ removing = "no"

(* A job that is stopped is canceled, or has failed or succeeded before; it *)
(* fails if a status could not be saved. checkErrors saves nothing when    *)
(* the error of a job cannot be reported or its outcome cannot be saved.   *)
NextStage(j) ==
    \/ \E s \in IF jobs[j].kind = "check" THEN {"Ready"} ELSE Outcomes :
          /\ s = "Canceled" => ~Going(j)
          /\ IF jobs[j].pc = "set" THEN jobs[j].saves = "Progressing"
             ELSE s # "Ready" /\ jobs[j].saves \in {"Progressing", "Ready"}
          /\ jobs' = [jobs EXCEPT ![j].saves = s, ![j].pc = "save"]
    \/ /\ jobs[j].kind = "update" \/ jobs[j].saves # "Progressing"
       /\ jobs' = [jobs EXCEPT ![j].pc = "report"]

CanNotify == Len(notifiers) < MaxNotifiers

notifyNow(o) == Append(notifiers, [o |-> o, in |-> 0, len |-> -1, next |-> 1])

(* mutant: the stage is announced with notify, which may hold it back      *)
SetNewStageHeldBack(j) ==
    /\ jobs[j].pc \in {"set", "unsaved"} /\ CanNotify
    /\ NextStage(j)
    /\ IF jobs[j].kind = "check"
         THEN UNCHANGED <<stage, notifiers>>
         ELSE /\ stage' = [stage EXCEPT ![jobs[j].tracker] = jobs[j].saves]
              /\ notifiers' \in {notifiers, notifyNow(jobs[j].tracker)}
    /\ UNCHANGED <<db, registry, removing, slice, arrays, current, client, shown, ticks,
                   lastSaver, detached, missed, late>>

SetNewStage(j) ==
    /\ jobs[j].pc \in {"set", "unsaved"} /\ CanNotify
    /\ NextStage(j)
    /\ IF jobs[j].kind = "check"
         THEN UNCHANGED <<stage, notifiers>>
         ELSE /\ stage' = [stage EXCEPT ![jobs[j].tracker] = jobs[j].saves]
              /\ notifiers' = notifyNow(jobs[j].tracker)
    /\ UNCHANGED <<db, registry, removing, slice, arrays, current, client, shown, ticks,
                   lastSaver, detached, missed, late>>

(* notify: not more often than some time apart, and with observers only.   *)
IncreaseProgress(j) ==
    /\ ticks < MaxTicks /\ CanNotify
    /\ jobs[j].pc = "save" /\ jobs[j].saves # "Progressing" /\ jobs[j].kind = "update"
    /\ slice[jobs[j].tracker] > 0
    /\ ticks' = ticks + 1
    /\ notifiers' = notifyNow(jobs[j].tracker)
    /\ UNCHANGED <<db, registry, removing, observables, jobs, current, client, shown,
                   lastSaver, detached, missed, late>>

(* deleteProcess, for the process in the map, whosever it is; the entry of *)
(* a check is that of its pull request.                                    *)
deleteProcess ==
    /\ removing = "no"
    /\ removing' = IF current # 0 /\ jobs[current].kind = "update" THEN "check" ELSE "no"
    /\ current' = 0

runNext(j) ==
    /\ jobs[j].pc = "report"
    /\ deleteProcess
    /\ jobs' = [jobs EXCEPT ![j].pc = "over"]
    /\ UNCHANGED <<db, registry, observables, notifiers, client, shown, ticks, lastSaver,
                   detached, missed, late>>

(* The next job of the list, in the same process.                          *)
Follow(j) ==
    /\ jobs[j].pc = "report"
    /\ current = j /\ removing = "no"
    /\ Len(jobs) < MaxJobs
    /\ \E k \in JobKinds :
          jobs' = Append([jobs EXCEPT ![j].pc = "over"], NewJob(k))
    /\ current' = Len(jobs) + 1
    /\ detached' = IF j \in detached THEN detached \cup {Len(jobs) + 1} ELSE detached
    /\ UNCHANGED <<db, registry, removing, observables, notifiers, client, shown, ticks,
                   lastSaver, missed, late>>

(* The process leaves the map, and the entry of the registry stays.        *)
StopRepository ==
    /\ Stops
    /\ current # 0 /\ removing = "no"
    /\ current' = 0
    /\ detached' = detached \cup {current}
    /\ UNCHANGED <<db, registry, removing, observables, notifiers, jobs, client, shown,
                   ticks, lastSaver, missed, late>>

(* mutant: an entry is removed with its observers                          *)
RemoveAny ==
    /\ \/ /\ removing = "check"
          /\ ~RegistryLocked
          /\ removing' = IF registry = NoEntry THEN "no"
                         ELSE "delete"
          /\ UNCHANGED registry
       \/ /\ removing = "delete"
          /\ removing' = "no"
          /\ registry' = NoEntry
    /\ UNCHANGED <<db, observables, notifiers, jobs, current, client, shown, ticks,
                   lastSaver, detached, missed, late>>

(* Under the lock of the registry, not that of the observable.             *)
RemoveEmpty ==
    /\ \/ /\ removing = "check"
          /\ ~RegistryLocked
          /\ removing' = IF registry = NoEntry THEN "no"
                         ELSE IF slice[registry] > 0 THEN "no" ELSE "delete"
          /\ UNCHANGED registry
       \/ /\ removing = "delete"
          /\ removing' = "no"
          /\ registry' = NoEntry
    /\ UNCHANGED <<db, observables, notifiers, jobs, current, client, shown, ticks,
                   lastSaver, detached, missed, late>>

----------------------------------------------------------------------------
(* A notification. The header of the slice is read once, its places one    *)
(* after the other; the channel has no buffer, so a client that is not at  *)
(* it is passed over.                                                      *)

(* Subscribers whose page is not told of what has just been set.               *)
Waiting == {"asked", "locked", "create", "add", "listen", "busy"}
NotListed(o) == {c \in Subscribers : client[c].pc \in Waiting /\ c \notin Observers(o)}

BeginNotify(n) ==
    LET o == notifiers[n].o
    IN  /\ notifiers[n].len = -1
        /\ notifiers' = IF slice[o] = 0 THEN RemoveAt(notifiers, n)
                         ELSE [notifiers EXCEPT ![n].in = Len(arrays[o]), ![n].len = slice[o]]
        /\ missed' = missed \cup NotListed(o)
        /\ UNCHANGED <<db, registry, removing, observables, jobs, current, client, shown,
                       ticks, lastSaver, detached, late>>

NotifyNext(n) ==
    LET me == notifiers[n]
        c == arrays[me.o][me.in][me.next]
    IN  /\ me.len # -1
        /\ notifiers' = IF me.next = me.len THEN RemoveAt(notifiers, n)
                         ELSE [notifiers EXCEPT ![n].next = @ + 1]
        /\ IF c # Nil /\ client[c].pc = "listen"
             THEN client' = [client EXCEPT ![c].pc = "busy"] /\ UNCHANGED missed
             ELSE missed' = missed \cup ({c} \ {Nil}) /\ UNCHANGED client
        /\ UNCHANGED <<db, registry, removing, observables, jobs, current, shown, ticks,
                       lastSaver, detached, late>>

(* The clients that are moved behind the place a notification is at.       *)
Skipped(o, i) ==
    LET last == slice[o]
    IN  {array(o)[last] :
           n \in {m \in DOMAIN notifiers :
                    /\ notifiers[m].o = o /\ notifiers[m].in = Len(arrays[o])
                    /\ i < notifiers[m].next /\ notifiers[m].next <= last
                    /\ last <= notifiers[m].len}}

----------------------------------------------------------------------------
(* The clients. A page is queried, then subscribes, then shows what it is  *)
(* sent: a reference, whose fields are read when the answer is written.    *)

Go(c, pc) == client' = [client EXCEPT ![c].pc = pc]

Query(c) ==
    /\ client[c].pc = "away"
    /\ shown' = [shown EXCEPT ![c] = db]
    /\ Go(c, "asked")
    /\ UNCHANGED <<db, registry, removing, observables, notifiers, jobs, current, ticks,
                   lastSaver, detached, missed, late>>

(* mutant: a new entry is Queued, as in GetOrCreate                        *)
GetOrCreateQueued(c) ==
    /\ \/ /\ client[c].pc = "asked"
          /\ ~RegistryLocked
          /\ IF registry # NoEntry
               THEN client' = [client EXCEPT ![c].po = registry, ![c].pc = "add"]
               ELSE Go(c, "locked")
          /\ UNCHANGED <<registry, observables>>
       \/ /\ client[c].pc = "locked"
          /\ client' = [client EXCEPT ![c].read = db, ![c].pc = "create"]
          /\ UNCHANGED <<registry, observables>>
       \/ /\ client[c].pc = "create"
          /\ newProgressObservable("Queued")
          /\ registry' = Len(stage) + 1
          /\ client' = [client EXCEPT ![c].po = registry', ![c].pc = "add"]
    /\ UNCHANGED <<db, removing, notifiers, jobs, current, shown, ticks, lastSaver,
                   detached, missed, late>>

(* It holds the lock of the registry while it asks the database.           *)
GetOrCreateStateful(c) ==
    /\ \/ /\ client[c].pc = "asked"
          /\ ~RegistryLocked
          /\ IF registry # NoEntry
               THEN client' = [client EXCEPT ![c].po = registry, ![c].pc = "add"]
               ELSE Go(c, "locked")
          /\ UNCHANGED <<registry, observables>>
       \/ /\ client[c].pc = "locked"
          /\ client' = [client EXCEPT ![c].read = db, ![c].pc = "create"]
          /\ UNCHANGED <<registry, observables>>
       \/ /\ client[c].pc = "create"
          /\ newProgressObservable(client[c].read)
          /\ registry' = Len(stage) + 1
          /\ client' = [client EXCEPT ![c].po = registry', ![c].pc = "add"]
    /\ UNCHANGED <<db, removing, notifiers, jobs, current, shown, ticks, lastSaver,
                   detached, missed, late>>

(* append: an array that is full is left for a larger one, of twice its    *)
(* size as long as it is small.                                            *)
Larger(a) ==
    [i \in 1 .. (IF Len(a) = 0 THEN 1 ELSE 2 * Len(a)) |-> IF i <= Len(a) THEN a[i] ELSE Nil]

AddObserver(c) ==
    LET o == client[c].po
        mine == arrays[o]
        place == slice[o] + 1
    IN  /\ client[c].pc = "add"
        /\ slice' = [slice EXCEPT ![o] = place]
        /\ arrays' = [arrays EXCEPT ![o] =
                        IF place <= Len(array(o))
                          THEN [mine EXCEPT ![Len(mine)] = [array(o) EXCEPT ![place] = c]]
                          ELSE Append(mine, [Larger(array(o)) EXCEPT ![place] = c])]
        /\ Go(c, "listen")
        /\ late' = IF o = registry /\ removing # "delete" THEN late ELSE late \cup {c}
        /\ UNCHANGED <<db, registry, removing, stage, notifiers, jobs, current, shown,
                       ticks, lastSaver, detached, missed>>

Show(c) ==
    /\ client[c].pc = "busy"
    /\ shown' = [shown EXCEPT ![c] = stage[client[c].po]]
    /\ missed' = IF client[c].po = registry THEN missed \ {c} ELSE missed
    /\ Go(c, "listen")
    /\ UNCHANGED <<db, registry, removing, observables, notifiers, jobs, current, ticks,
                   lastSaver, detached, late>>

(* The context of the request is done; Get is not locked.                  *)
Leave(c) ==
    /\ client[c].pc \in {"listen", "busy"}
    /\ client' = [client EXCEPT ![c].po = registry, ![c].pc = "leave"]
    /\ UNCHANGED <<db, registry, removing, observables, notifiers, jobs, current, shown,
                   ticks, lastSaver, detached, missed, late>>

(* mutant: the search stops before the last observer                       *)
RemoveObserverNotLast(c) ==
    LET o == client[c].po
        a == array(o)
        last == slice[o]
        i == CHOOSE x \in 1..last : a[x] = c
    IN  /\ client[c].pc = "leave"
        /\ IF o = NoEntry \/ (\A x \in 1..last - 1 : a[x] # c)
             THEN missed' = missed \ {c} /\ UNCHANGED <<slice, arrays>>
             ELSE /\ arrays' = [arrays EXCEPT ![o][Len(arrays[o])] =
                                  [a EXCEPT ![i] = a[last], ![last] = Nil]]
                  /\ slice' = [slice EXCEPT ![o] = last - 1]
                  /\ missed' = (missed \cup Skipped(o, i)) \ {c}
        /\ client' = [client EXCEPT ![c].pc = "gone", ![c].po = NoEntry]
        /\ shown' = [shown EXCEPT ![c] = "Queued"]
        /\ UNCHANGED <<db, registry, removing, stage, notifiers, jobs, current, ticks,
                       lastSaver, detached, late>>

(* The last observer takes the place of the one that is removed.           *)
RemoveObserver(c) ==
    LET o == client[c].po
        a == array(o)
        last == slice[o]
        i == CHOOSE x \in 1..last : a[x] = c
    IN  /\ client[c].pc = "leave"
        /\ IF o = NoEntry \/ c \notin Observers(o)
             THEN missed' = missed \ {c} /\ UNCHANGED <<slice, arrays>>
             ELSE /\ arrays' = [arrays EXCEPT ![o][Len(arrays[o])] =
                                  [a EXCEPT ![i] = a[last], ![last] = Nil]]
                  /\ slice' = [slice EXCEPT ![o] = last - 1]
                  /\ missed' = (missed \cup Skipped(o, i)) \ {c}
        /\ client' = [client EXCEPT ![c].pc = "gone", ![c].po = NoEntry]
        /\ shown' = [shown EXCEPT ![c] = "Queued"]
        /\ UNCHANGED <<db, registry, removing, stage, notifiers, jobs, current, ticks,
                       lastSaver, detached, late>>

ProcessStep ==
    \E j \in DOMAIN jobs :
        GetOrCreate(j) \/ SaveStatus(j) \/ SetNewStage(j) \/ runNext(j) \/ Follow(j)

NotifyStep == \E n \in DOMAIN notifiers : BeginNotify(n) \/ NotifyNext(n)

ProgressNext ==
    \/ \E k \in JobKinds : Start(k)
    \/ ProcessStep \/ StopRepository \/ RemoveEmpty
    \/ \E j \in DOMAIN jobs : IncreaseProgress(j)
    \/ NotifyStep
    \/ \E c \in Subscribers :
          \/ Query(c) \/ GetOrCreateStateful(c) \/ AddObserver(c) \/ Show(c)
          \/ Leave(c) \/ RemoveObserver(c)

ProgressSpec == ProgressInit /\ [][ProgressNext]_progress

----------------------------------------------------------------------------
(* Properties. *)

(* Every variable keeps its range; a slice is within its array.            *)
ProgressTypeOK ==
    /\ db \in Stages
    /\ registry \in 0..Len(stage)
    /\ removing \in {"no", "check", "delete"}
    /\ stage \in Seq(Stages)
    /\ Len(slice) = Len(stage) /\ Len(arrays) = Len(stage)
    /\ \A o \in DOMAIN slice : slice[o] \in 0..Len(array(o))
    /\ \A o \in DOMAIN arrays : Nil \notin Observers(o)
    /\ \A n \in DOMAIN notifiers :
          notifiers[n].len # -1 =>
              notifiers[n].len \in 1..Len(arrays[notifiers[n].o][notifiers[n].in])
    /\ \A j \in DOMAIN jobs : /\ jobs[j].pc \in {"begin", "create", "save", "set",
                                                  "unsaved", "report", "over"}
                              /\ jobs[j].tracker \in 0..Len(stage)
    /\ current \in 0..Len(jobs)
    /\ \A c \in Subscribers : /\ client[c].pc \in {"away", "asked", "locked", "create", "add",
                                               "listen", "busy", "leave", "gone"}
                          /\ client[c].po \in 0..Len(stage)
    /\ shown \in [Subscribers -> Stages]
    /\ missed \subseteq Subscribers

Quiet == removing = "no" /\ \A j \in DOMAIN jobs : Over(j)

(* A check, or a process that was no longer, or not alone, in the map of   *)
(* processes saved the status last, or the stage that was set last could   *)
(* not be saved.                                                           *)
OutOfStep ==
    \/ lastSaver = NotSaved
    \/ lastSaver > 0 /\ (jobs[lastSaver].kind = "check" \/ lastSaver \in detached)

(* Between jobs, an entry of the registry tells the status that is in the  *)
(* database, unless they are out of step.                                  *)
EntryTellsStatus ==
    Quiet /\ registry # NoEntry =>
        stage[registry] = db \/ OutOfStep

(* A process in the map sets its stages on the entry that clients get.     *)
TrackerInRegistry ==
    \A j \in DOMAIN jobs :
        jobs[j].kind = "update" /\ jobs[j].pc \in {"save", "set", "unsaved"} /\ j \notin detached =>
            jobs[j].tracker = registry

(* When nothing is left to do, a page that listens shows the status of the *)
(* repository, unless a notification found it outside the list or busy, or *)
(* passed it while it was moved by a client that left, and no later one of *)
(* the entry in the registry reached it; a check, a stopped process or a   *)
(* failed write may leave it behind, too.                                  *)
PageShowsStatus ==
    Quiet /\ notifiers = <<>> =>
        \A c \in Subscribers :
            client[c].pc = "listen" /\ c \notin missed =>
                shown[c] = db \/ OutOfStep

(* A client that listens is in the list of the entry of the registry,      *)
(* which the next job will find, unless it joined after RemoveEmpty had    *)
(* found the entry empty.                                                  *)
ListenersAreListed ==
    \A c \in Subscribers : client[c].pc \in {"listen", "busy"} /\ c \notin late =>
        registry # NoEntry /\ c \in Observers(registry)

(* A client that has gone is in the list of no observable that others get. *)
GoneIsForgotten ==
    \A c \in Subscribers : client[c].pc = "gone" /\ registry # NoEntry =>
        c \notin Observers(registry)

(* A page shows the status of its repository when nothing is left to do,   *)
(* and between jobs an entry of the registry tells it, also after a stop.  *)
(* A client that listens is in the list the next job will find, one that   *)
(* has gone in none, and a process sets its stages where clients look.     *)
ProgressShown ==
    /\ ProgressTypeOK
    /\ EntryTellsStatus /\ TrackerInRegistry
    /\ PageShowsStatus /\ ListenersAreListed /\ GoneIsForgotten
=============================================================================

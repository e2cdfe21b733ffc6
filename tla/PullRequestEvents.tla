------------------------- MODULE PullRequestEvents -------------------------
(***************************************************************************)
(* The webhooks of a pull request (pullRequestEvent, pushEvent and         *)
(* checkSuiteEvent in src/ingest/pkg/ghapp/handlers.go) and the jobs they  *)
(* start. Deliveries may be lost, repeated and out of order, and handlers  *)
(* run at the same time; the jobs of the repository run one by one. Heads  *)
(* are numbered in the order they are pushed.                              *)
(***************************************************************************)
EXTENDS Integers, Sequences, FiniteSets

CONSTANTS
    MaxHead,      \* bound: heads
    MaxEvents,    \* bound: deliveries GitHub makes
    MaxAgain,     \* bound: deliveries that are repeated
    MaxToggles    \* bound: changes of the checks configuration

(* Assumed of the constants by every module that instantiates this one.    *)
EventsAssumption ==
    /\ MaxHead \in Nat \ {0}
    /\ MaxEvents \in Nat /\ MaxAgain \in Nat /\ MaxToggles \in Nat

VARIABLES
    \* GitHub
    sameOrigin,   \* whether the branch is in the repository itself
    head, open,   \* the pull request
    sent,         \* the deliveries made, in order
    mail,         \* the ones on their way, by number
    again,        \* how many were repeated
    runs,         \* the check runs: [id, head, reported]
    \* the service
    checks,       \* repo.ChecksConfig.Enable
    toggles,      \* how often it was changed
    handlers,     \* handlers at work: [n, cfg, step]
    src, analyzed,\* the document: Source.Head and AnalyzedHead, 0 for none
    marked,       \* the head whose commits carry the pull request
    stored,       \* the newest head whose commits are analysed
    jobs,         \* the jobs that wait: [run, pull]
    job,          \* the job that runs, after it has loaded the pull request
    excuse        \* what has happened that may leave an old head behind

github == <<sameOrigin, head, open, sent>>
document == <<src, analyzed, marked, stored>>
vars == <<github, mail, again, runs, checks, toggles, handlers, document, jobs, job, excuse>>

Heads == 1 .. MaxHead
NoJob == [run |-> 0, pull |-> 0]
Excuses == {"lost", "order", "early", "config", "reopened", "failed"}

Init ==
    /\ sameOrigin \in BOOLEAN
    /\ head = 1 /\ open = FALSE
    /\ sent = <<>>
    /\ mail = {}
    /\ again = 0
    /\ runs = {}
    /\ checks \in BOOLEAN
    /\ toggles = 0
    /\ handlers = {}
    /\ src = 0 /\ analyzed = 0 /\ marked = 0 /\ stored = 0
    /\ jobs = <<>>
    /\ job = NoJob
    /\ excuse = {}

----------------------------------------------------------------------------
(* GitHub (external): what it delivers when the pull request changes.      *)

PullEvent(action, h) == [event |-> "pull_request", action |-> action, head |-> h]
Suite(h) == [event |-> "check_suite", action |-> "requested", head |-> h]

Deliver(events) ==
    /\ Len(sent) + Len(events) <= MaxEvents
    /\ sent' = sent \o events
    /\ mail' = mail \cup (Len(sent) + 1 .. Len(sent) + Len(events))

Change(action) ==
    /\ Deliver(<<PullEvent(action, head)>>)
    /\ UNCHANGED <<sameOrigin, head, again, runs, checks, toggles, handlers, document, jobs, job>>

Open == ~open /\ sent = <<>> /\ open' = TRUE /\ Change("opened") /\ UNCHANGED excuse
Close == open /\ open' = FALSE /\ Change("closed") /\ UNCHANGED excuse
Edit == UNCHANGED open /\ sent # <<>> /\ Change("edited") /\ UNCHANGED excuse

(* A head that was pushed while the pull request was closed.               *)
Reopen ==
    /\ ~open /\ sent # <<>>
    /\ open' = TRUE
    /\ Change("reopened")
    /\ excuse' = IF \E n \in DOMAIN sent : sent[n].head = head /\ sent[n].action # "edited"
                   THEN excuse ELSE excuse \cup {"reopened"}

(* A suite names its open pull requests, and is of the repository only.    *)
Push ==
    /\ head < MaxHead /\ sent # <<>>
    /\ head' = head + 1
    /\ IF open THEN Deliver(<<PullEvent("synchronize", head + 1)>>
                              \o IF sameOrigin THEN <<Suite(head + 1)>> ELSE <<>>)
               ELSE UNCHANGED <<sent, mail>>
    /\ UNCHANGED <<sameOrigin, open, again, runs, checks, toggles, handlers, document, jobs, job, excuse>>

Lose(n) ==
    /\ n \in mail
    /\ mail' = mail \ {n}
    /\ excuse' = excuse \cup {"lost"}
    /\ UNCHANGED <<github, again, runs, checks, toggles, handlers, document, jobs, job>>

Redeliver(n) ==
    /\ n \in DOMAIN sent \ mail /\ again < MaxAgain
    /\ again' = again + 1
    /\ mail' = mail \cup {n}
    /\ UNCHANGED <<github, runs, checks, toggles, handlers, document, jobs, job, excuse>>

----------------------------------------------------------------------------
(* The service. *)

SetChecks ==
    /\ toggles < MaxToggles
    /\ toggles' = toggles + 1
    /\ checks' = ~checks
    /\ excuse' = excuse \cup {"config"}
    /\ UNCHANGED <<github, mail, again, runs, handlers, document, jobs, job>>

(* A handler reads the repository, and its configuration with it. Suites   *)
(* are ignored unless checks are enabled.                                  *)
Handle(n) ==
    /\ n \in mail /\ \A h \in handlers : h.n # n
    /\ mail' = mail \ {n}
    /\ handlers' = handlers \cup
         IF sent[n].event = "pull_request"
           THEN {[n |-> n, cfg |-> checks, step |-> "store"]}
           ELSE IF checks THEN {[n |-> n, cfg |-> TRUE, step |-> "submit"]} ELSE {}
    /\ UNCHANGED <<github, again, runs, checks, toggles, document, jobs, job, excuse>>

(* mutant: both events of a head start a job                               *)
SkippedByAction(h) == h.cfg /\ sent[h.n].action \notin {"opened", "synchronize"}

(* With checks, a head of the repository itself is left to its suite.      *)
Skipped(h) ==
    h.cfg /\ \/ sent[h.n].action \notin {"opened", "synchronize"}
             \/ sent[h.n].action = "synchronize" /\ sameOrigin

(* FindAndUpdateSource, and whether a job is wanted.                       *)
Store(h) ==
    /\ h \in handlers /\ h.step = "store"
    /\ LET new == sent[h.n].head
           ends == new = analyzed \/ Skipped(h)
       IN  /\ src' = new
           /\ handlers' = (handlers \ {h}) \cup IF ends THEN {} ELSE {[h EXCEPT !.step = "submit"]}
           /\ excuse' = IF new < src THEN excuse \cup {"order"} ELSE excuse
    /\ UNCHANGED <<github, mail, again, runs, checks, toggles, analyzed, marked, stored, jobs, job>>

(* CreateCheckRun with checks, and ProcessRepository. The job of a pull    *)
(* request event carries the entity, the job of a suite only the number.   *)
Submit(h) ==
    /\ h \in handlers /\ h.step = "submit"
    /\ handlers' = handlers \ {h}
    /\ LET m == sent[h.n]
           run == IF h.cfg THEN Cardinality(runs) + 1 ELSE 0
           pull == IF m.event = "pull_request" THEN m.head ELSE 0
       IN  /\ runs' = IF h.cfg THEN runs \cup {[id |-> run, head |-> m.head, reported |-> 0]} ELSE runs
           /\ jobs' = Append(jobs, [run |-> run, pull |-> pull])
    /\ UNCHANGED <<github, mail, again, checks, toggles, document, job, excuse>>

(* Any of the calls of a handler fails: GitHub does not try again.         *)
HandlerFails(h) ==
    /\ h \in handlers
    /\ handlers' = handlers \ {h}
    /\ excuse' = excuse \cup {"failed"}
    /\ UNCHANGED <<github, mail, again, runs, checks, toggles, document, jobs, job>>

RunOf(j) == {r \in runs : r.id = j.run}
Report(j, h) == runs' = (runs \ RunOf(j)) \cup {[r EXCEPT !.reported = h] : r \in RunOf(j)}

(* mutant: every job loads the pull request when it starts                 *)
StartUncached ==
    /\ job = NoJob /\ jobs # <<>>
    /\ jobs' = Tail(jobs)
    /\ LET next == Head(jobs)
           loaded == src
       IN  IF loaded = 0
             THEN /\ Report(next, -1)
                  /\ excuse' = excuse \cup {"early"}
                  /\ UNCHANGED job
             ELSE /\ job' = [next EXCEPT !.pull = loaded]
                  /\ excuse' = excuse \cup
                       (IF \E r \in RunOf(next) : r.head > loaded THEN {"early"} ELSE {}) \cup
                       (IF loaded < marked THEN {"order"} ELSE {})
                  /\ UNCHANGED runs
    /\ UNCHANGED <<github, mail, again, checks, toggles, handlers, document>>

(* mutant: a job waits for its pull request to be known                    *)
StartKnown ==
    /\ job = NoJob /\ jobs # <<>>
    /\ jobs' = Tail(jobs)
    /\ LET next == Head(jobs)
           loaded == IF next.pull # 0 THEN next.pull ELSE src
       IN  /\ loaded # 0
           /\ job' = [next EXCEPT !.pull = loaded]
    /\ UNCHANGED <<runs, excuse>>
    /\ UNCHANGED <<github, mail, again, checks, toggles, handlers, document>>

(* The next job starts; one of a suite loads the pull request by its       *)
(* number, with the head that is stored by then.                           *)
Start ==
    /\ job = NoJob /\ jobs # <<>>
    /\ jobs' = Tail(jobs)
    /\ LET next == Head(jobs)
           loaded == IF next.pull # 0 THEN next.pull ELSE src
       IN  IF loaded = 0
             THEN /\ Report(next, -1)
                  /\ excuse' = excuse \cup {"early"}
                  /\ UNCHANGED job
             ELSE /\ job' = [next EXCEPT !.pull = loaded]
                  /\ excuse' = excuse \cup
                       (IF \E r \in RunOf(next) : r.head > loaded THEN {"early"} ELSE {}) \cup
                       (IF loaded < marked THEN {"order"} ELSE {})
                  /\ UNCHANGED runs
    /\ UNCHANGED <<github, mail, again, checks, toggles, handlers, document>>

(* What a job leaves behind: branches are saved as they are after the      *)
(* fetch, the analysed head is saved for a fork, if anything was new.      *)
Analysed == IF job.pull <= stored THEN stored ELSE IF sameOrigin THEN head ELSE job.pull
AnalyzedHead == IF job.pull > stored /\ ~sameOrigin THEN job.pull ELSE analyzed

(* mutant: the commits are marked only if some of them are analysed        *)
FinishMarkingNew ==
    /\ job # NoJob
    /\ job' = NoJob
    /\ stored' = Analysed
    /\ marked' = IF job.pull > stored THEN job.pull ELSE marked
    /\ analyzed' = AnalyzedHead
    /\ Report(job, job.pull)
    /\ UNCHANGED <<github, mail, again, checks, toggles, handlers, src, jobs, excuse>>

(* The job fetches, analyses what is new, marks the commits of its head    *)
(* and reports it.                                                         *)
Finish ==
    /\ job # NoJob
    /\ job' = NoJob
    /\ stored' = Analysed
    /\ marked' = job.pull
    /\ analyzed' = AnalyzedHead
    /\ Report(job, job.pull)
    /\ UNCHANGED <<github, mail, again, checks, toggles, handlers, src, jobs, excuse>>

(* It fails before or after it has analysed and marked.                    *)
FinishFails ==
    /\ job # NoJob
    /\ job' = NoJob
    /\ Report(job, -1)
    /\ excuse' = excuse \cup {"failed"}
    /\ \/ UNCHANGED document
       \/ /\ stored' = Analysed
          /\ \/ UNCHANGED <<marked, analyzed>>
             \/ marked' = job.pull /\ analyzed' \in {analyzed, AnalyzedHead}
          /\ UNCHANGED src
    /\ UNCHANGED <<github, mail, again, checks, toggles, handlers, jobs>>

Service ==
    \/ \E n \in mail : Handle(n)
    \/ \E h \in handlers : Store(h) \/ Submit(h) \/ HandlerFails(h)
    \/ Start \/ Finish \/ FinishFails

Next ==
    \/ Open \/ Close \/ Edit \/ Reopen \/ Push
    \/ \E n \in DOMAIN sent : Lose(n) \/ Redeliver(n)
    \/ SetChecks
    \/ Service

Spec == Init /\ [][Next]_vars

(* Deliveries arrive or are lost, handlers and jobs return.                *)
FairSpec == Spec /\ WF_vars(Service)

----------------------------------------------------------------------------
(* Properties. *)

(* Every variable has its type; check runs have names of their own.        *)
TypeOK ==
    /\ sameOrigin \in BOOLEAN /\ open \in BOOLEAN /\ checks \in BOOLEAN
    /\ head \in Heads
    /\ \A n \in DOMAIN sent : sent[n].head \in Heads
    /\ mail \subseteq DOMAIN sent
    /\ again \in 0 .. MaxAgain /\ toggles \in 0 .. MaxToggles
    /\ \A r \in runs : r.head \in Heads /\ r.reported \in Heads \cup {-1, 0}
    /\ Cardinality({r.id : r \in runs}) = Cardinality(runs)
    /\ handlers \subseteq [n : DOMAIN sent, cfg : BOOLEAN, step : {"store", "submit"}]
    /\ {src, analyzed, marked, stored} \subseteq Heads \cup {0}
    /\ \A i \in DOMAIN jobs : jobs[i].pull \in Heads \cup {0}
    /\ job.pull \in Heads \cup {0}
    /\ excuse \subseteq Excuses

Settled == mail = {} /\ handlers = {} /\ jobs = <<>> /\ job = NoJob

(* When every delivery is handled and every job has run, the document has  *)
(* the head of the open pull request, and its commits are those that carry *)
(* it: repeated deliveries and handlers that run at once do no harm. What  *)
(* may leave an old head behind is named by the excuses.                   *)
SettledOnHead == Settled /\ open /\ excuse = {} => src = head /\ marked = head

(* A finished check run tells of a head at least as new as the commit it   *)
(* was made for, and of that commit itself if the branch is of a fork: a   *)
(* suite's job loads the head that is stored by the time it runs. A suite  *)
(* that overtakes the event with its head is the exception.                *)
RunTellsOwnHead ==
    "early" \notin excuse =>
        \A r \in runs : r.reported > 0 =>
            r.reported >= r.head /\ (~sameOrigin => r.reported = r.head)

(* With checks all the time, a head that came to the open pull request has *)
(* one check run: the two events GitHub sends for it do not both start     *)
(* one, and not neither.                                                   *)
OneRunPerHead ==
    Settled /\ checks /\ excuse = {} /\ again = 0 =>
        \A n \in DOMAIN sent :
            sent[n].action \in {"opened", "synchronize"} =>
                Cardinality({r \in runs : r.head = sent[n].head}) = 1

(* The service comes to rest after every delivery.                         *)
Settles == ~Settled ~> Settled
=============================================================================

-------------------------- MODULE ServiceProviders --------------------------
(***************************************************************************)
(* The clients of the external systems (IntegrationManager,                *)
(* src/ingest/pkg/manage/integrations.go): one is made for each provider   *)
(* when it is first needed, from its document in the database, and is kept *)
(* in a map. Jobs need the client of the source code and the client of the *)
(* issues of their repository; routes and mutations need one of any name.  *)
(***************************************************************************)
EXTENDS Integers

CONSTANTS
    Callers,      \* goroutines: jobs and requests
    Providers,    \* the names requests use
    KindOf,       \* the kind of the document of each
    NoProvider,   \* ""
    MaxClients    \* bound: clients made

Kinds == {"github", "jira", "bare", "unrecognized", "missing"}

(* Assumed of the constants by every module that instantiates this one.    *)
ProviderAssumption ==
    /\ KindOf \in [Providers -> Kinds]
    /\ NoProvider \notin Providers
    /\ MaxClients \in Nat \ {0}

VARIABLES
    integrations, \* the map: a client, NoClient for a nil one, or Absent
    made,         \* how many clients were made: their names are 1 .. made
    pc,           \* where each caller is
    asked,        \* the provider its call of ServiceProvider is for
    step,         \* what the call is for: "request", "scm" or "its"
    repo,         \* the providers of the repository of a job
    scm, its,     \* the clients a job has
    result        \* how the last call of each caller ended

vars == <<integrations, made, pc, asked, step, repo, scm, its, result>>

Absent == -1    \* no entry
NoClient == 0   \* an entry that is nil

Clients == 1 .. MaxClients
GithubNames == {p \in Providers : KindOf[p] = "github"}
IssueNames == {p \in Providers : KindOf[p] \in {"github", "jira"}}

Init ==
    /\ integrations = [p \in Providers |-> Absent]
    /\ made = 0
    /\ pc = [c \in Callers |-> "idle"]
    /\ asked = [c \in Callers |-> NoProvider]
    /\ step = [c \in Callers |-> "request"]
    /\ repo = [c \in Callers |-> [scm |-> NoProvider, its |-> NoProvider]]
    /\ scm = [c \in Callers |-> Absent]
    /\ its = [c \in Callers |-> Absent]
    /\ result = [c \in Callers |-> "none"]

Go(c, at) == pc' = [pc EXCEPT ![c] = at]

(* A route or a mutation asks for the client of any name.                  *)
Request(c, p) ==
    /\ pc[c] = "idle"
    /\ Go(c, "look")
    /\ asked' = [asked EXCEPT ![c] = p]
    /\ step' = [step EXCEPT ![c] = "request"]
    /\ result' = [result EXCEPT ![c] = "none"]
    /\ repo' = [repo EXCEPT ![c] = [scm |-> NoProvider, its |-> NoProvider]]
    /\ scm' = [scm EXCEPT ![c] = Absent]
    /\ its' = [its EXCEPT ![c] = Absent]
    /\ UNCHANGED <<integrations, made>>

(* A job asks for both clients of a repository, which came from GitHub.    *)
RepositoryIntegrations(c, p, i) ==
    /\ pc[c] = "idle"
    /\ Go(c, "look")
    /\ asked' = [asked EXCEPT ![c] = p]
    /\ step' = [step EXCEPT ![c] = "scm"]
    /\ result' = [result EXCEPT ![c] = "none"]
    /\ repo' = [repo EXCEPT ![c] = [scm |-> p, its |-> i]]
    /\ scm' = [scm EXCEPT ![c] = Absent]
    /\ its' = [its EXCEPT ![c] = Absent]
    /\ UNCHANGED <<integrations, made>>

Fail(c) ==
    /\ Go(c, "idle")
    /\ result' = [result EXCEPT ![c] = "error"]
    /\ UNCHANGED <<asked, step, scm, its>>

(* ServiceProvider has returned client s. A nil one is no MonitorProvider, *)
(* and a route that calls it panics in its own request.                    *)
Got(c, s) ==
    \/ /\ step[c] = "request"
       /\ Go(c, "idle")
       /\ scm' = [scm EXCEPT ![c] = s]
       /\ result' = [result EXCEPT ![c] = IF s = NoClient THEN "nil" ELSE "ok"]
       /\ UNCHANGED <<asked, step, its>>
    \/ /\ step[c] # "request"
       /\ Go(c, "integrate")
       /\ IF step[c] = "scm" THEN scm' = [scm EXCEPT ![c] = s] /\ UNCHANGED its
                             ELSE its' = [its EXCEPT ![c] = s] /\ UNCHANGED scm
       /\ UNCHANGED <<asked, step, result>>

(* The look at the map without the lock.                                   *)
Look(c) ==
    /\ pc[c] = "look"
    /\ IF integrations[asked[c]] # Absent
         THEN Got(c, integrations[asked[c]])
         ELSE Go(c, "wait") /\ UNCHANGED <<asked, step, scm, its, result>>
    /\ UNCHANGED <<integrations, made, repo>>

Locked == \E c \in Callers : pc[c] \in {"check", "find"}

Lock(c) ==
    /\ pc[c] = "wait" /\ ~Locked
    /\ Go(c, "check")
    /\ UNCHANGED <<integrations, made, asked, step, repo, scm, its, result>>

(* mutant: the map is not looked at again once the lock is taken           *)
CheckNothing(c) ==
    /\ pc[c] = "check"
    /\ Go(c, "find")
    /\ UNCHANGED <<integrations, made, asked, step, repo, scm, its, result>>

Check(c) ==
    /\ pc[c] = "check"
    /\ IF integrations[asked[c]] # Absent
         THEN Got(c, integrations[asked[c]])
         ELSE Go(c, "find") /\ UNCHANGED <<asked, step, scm, its, result>>
    /\ UNCHANGED <<integrations, made, repo>>

(* mutant: a failure leaves the lock taken                                 *)
FindFailsLocked(c) ==
    /\ pc[c] = "find"
    /\ result' = [result EXCEPT ![c] = "error"]
    /\ UNCHANGED <<integrations, made, pc, asked, step, repo, scm, its>>

(* The document is read under the lock: it may be missing, or the read may *)
(* fail; nothing is kept then.                                             *)
FindFails(c) ==
    /\ pc[c] = "find"
    /\ Fail(c)
    /\ UNCHANGED <<integrations, made, repo>>

(* The client of a document with a configuration, or of Jira without one.  *)
FindMakes(c) ==
    /\ pc[c] = "find" /\ KindOf[asked[c]] \in {"github", "jira"}
    /\ made < MaxClients
    /\ made' = made + 1
    /\ integrations' = [integrations EXCEPT ![asked[c]] = made + 1]
    /\ Got(c, made + 1)
    /\ UNCHANGED repo

(* Another platform without a configuration: a nil client is kept.         *)
FindNothing(c) ==
    /\ pc[c] = "find" /\ KindOf[asked[c]] = "bare"
    /\ integrations' = [integrations EXCEPT ![asked[c]] = NoClient]
    /\ Got(c, NoClient)
    /\ UNCHANGED <<made, repo>>

(* sp.Integration fails (the organization cannot be read or has no         *)
(* installation or link).                                                  *)
IntegrateFails(c) ==
    /\ pc[c] = "integrate"
    /\ Fail(c)
    /\ UNCHANGED <<integrations, made, repo>>

Finish(c) ==
    /\ Go(c, "idle")
    /\ result' = [result EXCEPT ![c] = "ok"]
    /\ UNCHANGED <<asked, step>>

(* mutant: the issues are read through the client of the source code       *)
IntegrateSourceOnly(c) ==
    /\ pc[c] = "integrate"
    /\ Finish(c)
    /\ its' = [its EXCEPT ![c] = IF repo[c].its = NoProvider THEN Absent ELSE scm[c]]
    /\ UNCHANGED <<integrations, made, repo, scm>>

(* The integration of the repository is made; the issues of a repository   *)
(* may have no provider, the same one, or another that is asked for next.  *)
Integrate(c) ==
    /\ pc[c] = "integrate"
    /\ \/ step[c] = "its" /\ Finish(c) /\ UNCHANGED its
       \/ step[c] = "scm" /\ repo[c].its = NoProvider /\ Finish(c) /\ UNCHANGED its
       \/ /\ step[c] = "scm" /\ repo[c].its = repo[c].scm
          /\ Finish(c)
          /\ its' = [its EXCEPT ![c] = scm[c]]
       \/ /\ step[c] = "scm" /\ repo[c].its \notin {NoProvider, repo[c].scm}
          /\ Go(c, "look")
          /\ asked' = [asked EXCEPT ![c] = repo[c].its]
          /\ step' = [step EXCEPT ![c] = "its"]
          /\ UNCHANGED <<its, result>>
    /\ UNCHANGED <<integrations, made, repo, scm>>

Proceed(c) ==
    \/ Look(c) \/ Check(c)
    \/ FindFails(c) \/ FindMakes(c) \/ FindNothing(c)
    \/ IntegrateFails(c) \/ Integrate(c)

Work(c) == Lock(c) \/ Proceed(c)

Next ==
    \E c \in Callers :
        \/ \E p \in Providers : Request(c, p)
        \/ \E p \in GithubNames, i \in IssueNames \cup {NoProvider} :
              RepositoryIntegrations(c, p, i)
        \/ Work(c)

Spec == Init /\ [][Next]_vars

(* A mutex of Go is starvation free; everything else returns.              *)
Fairness ==
    \A c \in Callers :
        /\ SF_vars(Lock(c))
        /\ WF_vars(Proceed(c))

FairSpec == Spec /\ Fairness

----------------------------------------------------------------------------
(* Properties. *)

(* Every variable has its type.                                            *)
TypeOK ==
    /\ integrations \in [Providers -> Clients \cup {Absent, NoClient}]
    /\ made \in 0 .. MaxClients
    /\ pc \in [Callers -> {"idle", "look", "wait", "check", "find", "integrate"}]
    /\ asked \in [Callers -> Providers \cup {NoProvider}]
    /\ step \in [Callers -> {"request", "scm", "its"}]
    /\ repo \in [Callers -> [scm : GithubNames \cup {NoProvider},
                              its : IssueNames \cup {NoProvider}]]
    /\ scm \in [Callers -> Clients \cup {Absent, NoClient}]
    /\ its \in [Callers -> Clients \cup {Absent, NoClient}]
    /\ result \in [Callers -> {"none", "ok", "nil", "error"}]
    /\ \A c, d \in Callers :
          pc[c] \in {"check", "find"} /\ pc[d] \in {"check", "find"} => c = d

(* A provider has one client as long as the service runs, whoever asks     *)
(* first and at once: a second one would have its own transports and       *)
(* tokens. What a failed attempt leaves behind is nothing.                 *)
OneClient ==
    /\ \A p, q \in Providers :
          integrations[p] = integrations[q] /\ integrations[p] \in Clients => p = q
    /\ \A k \in 1 .. made : \E p \in Providers : integrations[p] = k

(* A job that is given its clients has those of the providers of its       *)
(* repository, never a nil one, and the issues are left out exactly when   *)
(* the repository names no provider for them; a request is given nil only  *)
(* for a platform that has neither a configuration nor a default.          *)
ClientsFit ==
    \A c \in Callers :
        /\ result[c] = "ok" /\ repo[c].scm # NoProvider =>
              /\ scm[c] \in Clients /\ scm[c] = integrations[repo[c].scm]
              /\ IF repo[c].its = NoProvider
                   THEN its[c] = Absent
                   ELSE its[c] \in Clients /\ its[c] = integrations[repo[c].its]
        /\ result[c] = "nil" => KindOf[asked[c]] = "bare"

(* Every call ends, whatever fails while the lock is held.                 *)
CallsReturn == \A c \in Callers : pc[c] # "idle" ~> pc[c] = "idle"
=============================================================================

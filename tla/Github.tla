------------------------------- MODULE Github -------------------------------
(***************************************************************************)
(* What the service takes from GitHub for one repository: the events of a  *)
(* pull request with the jobs they start, and the commits that an engine   *)
(* reads from the clone. They share no state here: a behaviour chooses one *)
(* in the beginning and the other does not move.                           *)
(***************************************************************************)
EXTENDS PullRequestEvents

CONSTANTS Commits, Graphs    \* of the clone

VARIABLES
    part,  \* the component that runs; the other stays as it is
    graph, commits, parents, children, roots, pc, read_head, stack, cur, heads,
    asked, truncated

Engine == INSTANCE IngestHead WITH head <- read_head

ASSUME GithubAssumption == EventsAssumption /\ Engine!IngestAssumption

EngineVars == <<graph, commits, parents, children, roots, pc, read_head, stack,
                cur, heads, asked, truncated>>

all == <<part, vars, EngineVars>>

EventsOff ==
    /\ sameOrigin = "off" /\ head = "off" /\ open = "off" /\ sent = "off"
    /\ mail = "off" /\ again = "off" /\ runs = "off" /\ checks = "off"
    /\ toggles = "off" /\ handlers = "off" /\ src = "off" /\ analyzed = "off"
    /\ marked = "off" /\ stored = "off" /\ jobs = "off" /\ job = "off"
    /\ excuse = "off"
EngineOff ==
    /\ graph = "off" /\ commits = "off" /\ parents = "off" /\ children = "off"
    /\ roots = "off" /\ pc = "off" /\ read_head = "off" /\ stack = "off"
    /\ cur = "off" /\ heads = "off" /\ asked = "off" /\ truncated = "off"

(* The component of the behaviour begins, the other stays off.             *)
Begins ==
    /\ IF part = "events" THEN Init ELSE EventsOff
    /\ IF part = "commits" THEN Engine!Init ELSE EngineOff

GithubInit == part \in {"events", "commits"} /\ Begins

GithubNext ==
    \/ part = "events" /\ Next /\ UNCHANGED <<part, EngineVars>>
    \/ part = "commits" /\ Engine!Next /\ UNCHANGED <<part, vars>>

GithubSpec == GithubInit /\ [][GithubNext]_all

-----------------------------------------------------------------------------
(* The properties of each, with the comments of their own modules.         *)

(* Between calls of IngestHead the engine is git's history below the       *)
(* heads, but for what failed calls left behind.                           *)
EngineExact == part = "commits" => Engine!EngineExact

(* A finished check run tells of a head no older than its own commit, and  *)
(* each head that came to the pull request has one check run.              *)
RunsTellHeads == part = "events" => TypeOK /\ RunTellsOwnHead /\ OneRunPerHead

(* At rest the document has the head of the open pull request, also when   *)
(* deliveries were repeated.                                               *)
RestsOnHead == part = "events" => SettledOnHead
=============================================================================

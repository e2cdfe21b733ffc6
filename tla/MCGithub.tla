------------------------------ MODULE MCGithub ------------------------------
(* What the service takes from GitHub, in small instances: the commits of  *)
(* a clone (every history of a few commits, and calls for any heads in any *)
(* order) and the walks over them from every one or two heads, the events  *)
(* of a pull request, lists in pages, and the installations of an account. *)
(* A behaviour chooses one in the beginning and the others do not move.    *)
EXTENDS Github, Source, Traversal

CONSTANTS
    Parts,                    \* the components a behaviour may choose
    N,                        \* the commits, each with parents among the earlier ones
    e1, e2, e3, e4, e5,       \* entries of a list
    r1, r2, u                 \* repositories and a user

MCCommits == 1..N

(* No parent, one, or a merge of two in either order.                      *)
MCParents(c) == {<<>>} \cup {<<p>> : p \in 1..(c - 1)}
    \cup {s \in (1..(c - 1)) \X (1..(c - 1)) : s[1] # s[2]}

MCGraphs == {g \in [MCCommits -> MCParents(N)] :
                \A c \in MCCommits : g[c] \in MCParents(c)}

MCHeads == {<<>>} \cup {<<c>> : c \in MCCommits} \cup {<<c, d>> : c, d \in MCCommits}

WalksOff ==
    /\ walk = "AncestorsList" /\ next \in {CHOOSE g \in MCGraphs : TRUE} /\ walk_heads = <<>>
    /\ skip = {} /\ until = {} /\ base = {} /\ walk_stack = <<>> /\ seen = {} /\ found = FALSE

(* Which dimension of a component may grow in this behaviour.              *)
VARIABLE bounds

MCEntries == {e1, e2, e3, e4, e5}
MCRepos == {r1, r2}
MCUsers == {u}

BoundsOf(p) ==
    CASE p = "events" -> {"heads", "repeats", "toggled"}
      [] p = "account" -> {"alone", "overlap", "acting", "monitoring"}
      [] OTHER -> {"off"}

OneRepository == selected \cup UNION {h.repos : h \in inst_handlers} \subseteq {r1}

(* Many events of a pull request, events that are repeated, or checks that *)
(* are switched. Two repositories of an account and handlers that come one *)
(* by one, or one repository and two handlers at once with more deliveries *)
(* or more acts of users; processes store commits in the latter. As the    *)
(* repositories differ by their names only, the first delivery is about    *)
(* the first one.                                                          *)
WithinBounds ==
    CASE bounds = "heads" -> again = 0 /\ toggles = 0
      [] bounds = "repeats" -> Len(sent) <= 3 /\ toggles = 0
      [] bounds = "toggled" -> Len(sent) <= 2 /\ again = 0
      [] bounds = "alone" -> /\ acts = 0 /\ Cardinality(inst_handlers) <= 1
                             /\ repos_with_commits = {}
                             /\ inst_sent # <<>> => r1 \in inst_sent[1].repos
      [] bounds = "overlap" -> OneRepository /\ acts = 0
      [] bounds = "acting" -> OneRepository /\ Len(inst_sent) <= 2 /\ acts <= 1
      [] bounds = "monitoring" -> OneRepository /\ Len(inst_sent) <= 1
      [] OTHER -> TRUE

(* The head and the commit of a call are set before they are read. Entries *)
(* differ by their names only, so that a list begins with the first ones.  *)
ComponentsInit ==
    /\ part \in Parts /\ asks = part
    /\ Begins /\ SourceInit
    /\ IF part = "ancestors" THEN InitWith(MCHeads) ELSE WalksOff
    /\ part = "commits" => read_head = 1 /\ cur = 1
    /\ part = "lists" => list = SubSeq(<<e1, e2, e3, e4, e5>>, 1, Len(list))
    /\ bounds \in BoundsOf(part)

ComponentsNext ==
    /\ \/ GithubNext /\ UNCHANGED <<SourceVars, walkVars>>
       \/ SourceNext /\ UNCHANGED <<all, walkVars>>
       \/ part = "ancestors" /\ WalkNext /\ UNCHANGED <<all, SourceVars>>
    /\ UNCHANGED bounds
    /\ WithinBounds'

ComponentsSpec == ComponentsInit /\ [][ComponentsNext]_<<all, SourceVars, walkVars, bounds>>
=============================================================================

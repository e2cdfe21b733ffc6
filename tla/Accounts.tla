------------------------------ MODULE Accounts ------------------------------
(***************************************************************************)
(* The users of the accounts service and the tokens they are given:        *)
(* FindAndModifyProvider of src/accounts/internal/entity/mongosrc/user.go, *)
(* the login callbacks of loginwith1 and loginwith2, and the access and    *)
(* refresh tokens of src/accounts/pkg/jwtauth/auth.go. Callbacks run at    *)
(* the same time; one access to the database is one step.                  *)
(***************************************************************************)
EXTENDS Integers, Sequences, FiniteSets

CONSTANTS
    Identities,   \* the ids users have at providers; one per provider here
    MaxLogins,    \* bound: logins
    MaxRefreshes  \* bound: refreshed access tokens

(* Assumed of the constants by every module that instantiates this one.    *)
AccountsAssumption ==
    /\ IsFiniteSet(Identities) /\ Identities # {}
    /\ {MaxLogins, MaxRefreshes} \subseteq Nat

VARIABLES
    users,      \* the providers of each user: [identity, cred]
    logins,     \* callbacks at work: [n, identity, step, user, seen]
    begun,      \* how many there were; a login's number stands for its credential
    tokens,     \* refresh tokens: the user of each
    expired,    \* those that are no longer valid
    access,     \* the access tokens given: [n, identity, user, tells]
                \* of a login (n, {identity}) or a refresh (0, {})
    refreshes,
    \* history
    owner,      \* the user an identity belonged to when it first logged in
    disturbed,  \* identities with logins that overlapped or that failed half way
    stranded    \* users whose login failed half way

vars == <<users, logins, begun, tokens, expired, access, refreshes, owner, disturbed, stranded>>

Entry(i, n) == [identity |-> i, cred |-> n]
Tells(entries) == {e.identity : e \in entries}
Has(u, i) == i \in Tells(users[u])
HoldersOf(i) == {u \in DOMAIN users : Has(u, i)}
Of(i) == {l \in logins : l.identity = i}

(* Nobody is known yet, or one user of several providers.                  *)
Init ==
    /\ users \in {<<>>, <<{Entry(i, 0) : i \in Identities}>>}
    /\ owner = [i \in Identities |-> Len(users)]
    /\ logins = {} /\ begun = 0
    /\ tokens = <<>> /\ expired = {} /\ access = {} /\ refreshes = 0
    /\ disturbed = {} /\ stranded = {}

Goes(l, next) == logins' = (logins \ {l}) \cup {next}

(* The provider told who it is.                                            *)
HandleCallback(i) ==
    /\ begun < MaxLogins
    /\ begun' = begun + 1
    /\ logins' = logins \cup
         {[n |-> begun + 1, identity |-> i, step |-> "pull", user |-> 0, seen |-> {}]}
    /\ disturbed' = IF Of(i) # {} THEN disturbed \cup {i} ELSE disturbed
    /\ UNCHANGED <<users, tokens, expired, access, refreshes, owner, stranded>>

Inserted(l) == [l EXCEPT !.step = "push", !.user = Len(users) + 1]

(* mutant: the whole array is taken out                                    *)
PullAll(l) ==
    /\ l.step = "pull"
    /\ IF HoldersOf(l.identity) # {}
         THEN \E u \in HoldersOf(l.identity) :
                users' = [users EXCEPT ![u] = {}] /\ Goes(l, [l EXCEPT !.step = "push", !.user = u])
         ELSE users' = Append(users, {}) /\ Goes(l, Inserted(l))
    /\ UNCHANGED <<begun, tokens, expired, access, refreshes, owner, disturbed, stranded>>

(* mutant: a user who is found is left as it is                            *)
PullNothing(l) ==
    /\ l.step = "pull"
    /\ IF HoldersOf(l.identity) # {}
         THEN \E u \in HoldersOf(l.identity) :
                users' = users /\ Goes(l, [l EXCEPT !.step = "push", !.user = u])
         ELSE users' = Append(users, {}) /\ Goes(l, Inserted(l))
    /\ UNCHANGED <<begun, tokens, expired, access, refreshes, owner, disturbed, stranded>>

(* The first update: one user with the identity loses it, or there is a    *)
(* new user.                                                               *)
Pull(l) ==
    /\ l.step = "pull"
    /\ IF HoldersOf(l.identity) # {}
         THEN \E u \in HoldersOf(l.identity) :
                LET left == {e \in users[u] : e.identity # l.identity}
                IN  /\ users' = [users EXCEPT ![u] = left]
                    /\ Goes(l, [l EXCEPT !.step = "push", !.user = u, !.seen = left])
         ELSE /\ users' = Append(users, {})
              /\ Goes(l, Inserted(l))
    /\ UNCHANGED <<begun, tokens, expired, access, refreshes, owner, disturbed, stranded>>

(* mutant: the identity is put to a user only if nobody else has it        *)
MissesSomewhere(l) == l.user # 0 /\ HoldersOf(l.identity) = {}

Misses(l) == l.user # 0 /\ ~Has(l.user, l.identity)

(* The second update; what it returns is the user before it.               *)
Push(l) ==
    /\ l.step = "push"
    /\ IF Misses(l)
         THEN /\ users' = [users EXCEPT ![l.user] = @ \cup {Entry(l.identity, l.n)}]
              /\ Goes(l, [l EXCEPT !.step = "token", !.seen = users[l.user]])
         ELSE users' = users /\ Goes(l, [l EXCEPT !.step = "token"])
    /\ UNCHANGED <<begun, tokens, expired, access, refreshes, owner, disturbed, stranded>>

LoginToken(l) ==
    /\ l.step = "token"
    /\ tokens' = Append(tokens, l.user)
    /\ access' = access \cup
         {[n |-> l.n, identity |-> {l.identity}, user |-> l.user, tells |-> Tells(l.seen)]}
    /\ logins' = logins \ {l}
    /\ owner' = IF owner[l.identity] = 0 THEN [owner EXCEPT ![l.identity] = l.user] ELSE owner
    /\ UNCHANGED <<users, begun, expired, refreshes, disturbed, stranded>>

(* An access to the database fails, or the server stops.                   *)
Fail(l) ==
    /\ logins' = logins \ {l}
    /\ disturbed' = IF l.step = "push" THEN disturbed \cup {l.identity} ELSE disturbed
    /\ stranded' = IF l.step = "push" THEN stranded \cup {l.user} ELSE stranded
    /\ owner' = IF l.step = "token" /\ owner[l.identity] = 0
                  THEN [owner EXCEPT ![l.identity] = l.user] ELSE owner
    /\ UNCHANGED <<users, begun, tokens, expired, access, refreshes>>

(* mutant: the new access token repeats what the user was told before      *)
ReadAgain(u) == UNION {a.tells : a \in {b \in access : b.user = u}}

(* The user is read again.                                                 *)
Read(u) == Tells(users[u])

RefreshAccessToken(t) ==
    /\ refreshes < MaxRefreshes /\ refreshes' = refreshes + 1
    /\ t \notin expired
    /\ access' = access \cup
         {[n |-> 0, identity |-> {}, user |-> tokens[t], tells |-> Read(tokens[t])]}
    /\ UNCHANGED <<users, logins, begun, tokens, expired, owner, disturbed, stranded>>

Expire(t) ==
    /\ t \notin expired
    /\ expired' = expired \cup {t}
    /\ UNCHANGED <<users, logins, begun, tokens, access, refreshes, owner, disturbed, stranded>>

Next ==
    \/ \E i \in Identities : HandleCallback(i)
    \/ \E l \in logins : Pull(l) \/ Push(l) \/ LoginToken(l) \/ Fail(l)
    \/ \E t \in DOMAIN tokens : RefreshAccessToken(t) \/ Expire(t)

Spec == Init /\ [][Next]_vars

----------------------------------------------------------------------------
(* Properties. *)

(* Every variable has its type; no user has an identity twice, no two      *)
(* logins are between their two updates of one identity of one user.       *)
TypeOK ==
    /\ begun \in 0 .. MaxLogins /\ refreshes \in 0 .. MaxRefreshes
    /\ \A u \in DOMAIN users : \A e, f \in users[u] :
         e.cred \in 0 .. begun /\ (e.identity = f.identity => e = f)
    /\ \A l \in logins : l.step = "pull" \/ l.user \in DOMAIN users
    /\ \A l, m \in logins :
         l.step = "push" /\ m.step = "push" /\ l.user = m.user /\ l.identity = m.identity => l = m
    /\ \A t \in DOMAIN tokens : tokens[t] \in DOMAIN users
    /\ expired \subseteq DOMAIN tokens
    /\ owner \in [Identities -> 0 .. Len(users)]
    /\ disturbed \subseteq Identities /\ stranded \subseteq DOMAIN users

(* An identity leads to the account it first led to, and to no other, when *)
(* none of its logins is under way, unless two overlapped or one failed    *)
(* half way.                                                               *)
SameAccount ==
    \A i \in Identities \ disturbed :
      owner[i] # 0 /\ Of(i) = {} => HoldersOf(i) = {owner[i]}

(* The credential kept of an identity is that of its latest login.         *)
LatestCredential ==
    \A u \in DOMAIN users : \A e \in users[u] : \A a \in access :
      a.identity = {e.identity} /\ e.identity \notin disturbed => e.cred >= a.n

(* An account stays within reach of some identity, also when logins        *)
(* overlap, unless a login failed between its two updates.                 *)
Reachable ==
    \A u \in DOMAIN users :
      \/ users[u] # {}
      \/ u \in stranded
      \/ \E l \in logins : l.step = "push" /\ l.user = u

(* What holds of the accounts in every state.                              *)
AccountsKept == TypeOK /\ SameAccount /\ LatestCredential /\ Reachable

(* A refreshed access token tells of every provider of the user, but for   *)
(* those with a login under way, overlapping or failed.                    *)
RefreshTold ==
    \A a \in access' \ access :
      a.n = 0 =>
        \A i \in Identities \ disturbed : owner[i] = a.user /\ Of(i) = {} => i \in a.tells

RefreshTells == [][RefreshTold]_vars

(* The access token of a login tells of the provider it was made with: the *)
(* comment of UserInfo in src/accounts/pkg/permission/permission.go.       *)
LoginTells == \A a \in access : a.identity \subseteq a.tells
=============================================================================

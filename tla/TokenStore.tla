----------------------------- MODULE TokenStore -----------------------------
(***************************************************************************)
(* The tokens of the web client: TokenStore of                             *)
(* src/web/src/account/token.ts. A page runs one callback at a time, a     *)
(* response of the server comes at any later time. One page.               *)
(***************************************************************************)
EXTENDS Integers, FiniteSets

CONSTANTS
    Accounts,
    NoAccount,
    MaxFetches    \* bound: requests to the server

(* Assumed of the constants by every module that instantiates this one.    *)
TokenStoreAssumption ==
    IsFiniteSet(Accounts) /\ NoAccount \notin Accounts /\ MaxFetches \in Nat

VARIABLES
    refresh,      \* refreshRequestInfo: whose refresh token it holds
    stored,       \* the refresh token in the local storage
    promise,      \* accessTokenPromise: [n, state, account]
    valid,        \* the expiry has not passed
    isFetching,
    shown,        \* what the subscribers were told last
    fetches,      \* requests under way: [n, kind, account]
    sent,         \* how many there were
    invalid,      \* the accounts whose refresh token the server refuses
    \* history
    account,      \* who logged in last, and has not logged out since
    raced,        \* a request was under way when the user logged in or out
    failed        \* a login failed or raced, and its promise was not replaced

vars == <<refresh, stored, promise, valid, isFetching, shown, fetches, sent, invalid,
          account, raced, failed>>

NoPromise == [n |-> 0, state |-> "none", account |-> NoAccount]
Pending(n) == [n |-> n, state |-> "pending", account |-> NoAccount]
Rejected == [n |-> 0, state |-> "rejected", account |-> NoAccount]

isAuthenticated == refresh # NoAccount

Init ==
    /\ refresh = NoAccount /\ stored = NoAccount /\ promise = NoPromise
    /\ valid = FALSE /\ isFetching = FALSE /\ shown = FALSE
    /\ fetches = {} /\ sent = 0 /\ invalid = {}
    /\ account = NoAccount /\ raced = FALSE /\ failed = FALSE

Fetch(kind, a, others) ==
    /\ sent < MaxFetches
    /\ sent' = sent + 1
    /\ fetches' = others \cup {[n |-> sent + 1, kind |-> kind, account |-> a]}
    /\ promise' = Pending(sent + 1)
    /\ isFetching' = TRUE

(* mutant: requests under way are not looked at                            *)
DueAlways == promise = NoPromise \/ ~valid

(* A request needs the access token.                                       *)
Due == promise = NoPromise \/ (~valid /\ ~isFetching)

getAccessToken ==
    /\ Due
    /\ IF refresh = NoAccount
         THEN promise' = Rejected /\ UNCHANGED <<isFetching, fetches, sent>>
         ELSE Fetch("refresh", refresh, fetches)
    /\ UNCHANGED <<refresh, stored, valid, shown, invalid, account, raced, failed>>

login(a) ==
    /\ Fetch("login", a, fetches)
    /\ raced' = (raced \/ fetches # {})
    /\ UNCHANGED <<refresh, stored, valid, shown, invalid, account, failed>>

(* mutant: the promise of the session that ends is kept                    *)
LoggedOutPromise ==
    /\ refresh' = NoAccount /\ stored' = NoAccount
    /\ promise' = promise /\ isFetching' = FALSE /\ valid' = FALSE /\ shown' = FALSE

(* mutant: the expiry is kept                                              *)
LoggedOutExpiry ==
    /\ refresh' = NoAccount /\ stored' = NoAccount
    /\ promise' = NoPromise /\ isFetching' = FALSE /\ valid' = valid /\ shown' = FALSE

(* mutant: the refresh token is kept                                       *)
LoggedOutNot ==
    /\ UNCHANGED <<refresh, stored>>
    /\ promise' = NoPromise /\ isFetching' = FALSE /\ valid' = FALSE /\ shown' = FALSE

LoggedOut ==
    /\ refresh' = NoAccount /\ stored' = NoAccount
    /\ promise' = NoPromise /\ isFetching' = FALSE /\ valid' = FALSE /\ shown' = FALSE

logout ==
    /\ LoggedOut
    /\ account' = NoAccount
    /\ raced' = (fetches # {})
    /\ failed' = FALSE
    /\ UNCHANGED <<fetches, sent, invalid>>

(* mutant: who waits for a login is not told                               *)
NotifiedNever(f) == shown' = shown

Notified(f) == shown' = (shown \/ f.kind = "login")

(* applyTokenResponse, and the promise of the request is fulfilled.        *)
Applied(f) ==
    /\ f.account \notin invalid \/ f.kind = "login"
    /\ refresh' = f.account /\ stored' = f.account
    /\ valid' = TRUE /\ isFetching' = FALSE
    /\ promise' = IF promise.n = f.n THEN [promise EXCEPT !.state = "ok", !.account = f.account]
                  ELSE promise
    /\ fetches' = fetches \ {f}
    /\ Notified(f)
    /\ IF f.kind = "login"
         THEN /\ account' = f.account
              /\ invalid' = invalid \ {f.account}
              /\ raced' = (raced /\ (fetches' # {} \/ promise.n # f.n))
         ELSE UNCHANGED <<account, invalid, raced>>
    /\ failed' = (promise'.state = "rejected" /\ (failed \/ raced))
    /\ UNCHANGED sent

(* mutant: a failure leaves isFetching set                                 *)
FailsKept(f) ==
    /\ fetches' = fetches \ {f}
    /\ isFetching' = isFetching
    /\ promise' = IF promise.n = f.n THEN [Rejected EXCEPT !.n = f.n] ELSE promise
    /\ failed' = (failed \/ raced \/ f.kind = "login")
    /\ UNCHANGED <<refresh, stored, valid, shown, sent, invalid, account, raced>>

(* The server cannot be reached, or does not accept the login.             *)
Fails(f) ==
    /\ fetches' = fetches \ {f}
    /\ isFetching' = FALSE
    /\ promise' = IF promise.n = f.n THEN [Rejected EXCEPT !.n = f.n] ELSE promise
    /\ failed' = (failed \/ raced \/ f.kind = "login")
    /\ UNCHANGED <<refresh, stored, valid, shown, sent, invalid, account, raced>>

(* 401 to a refresh: of a token that is not accepted, and of a valid one   *)
(* when the user cannot be read; the session ends in both cases.           *)
Unauthorized(f) ==
    /\ f.kind = "refresh"
    /\ LoggedOut
    /\ fetches' = fetches \ {f}
    /\ account' = NoAccount
    /\ raced' = (fetches' # {})
    /\ failed' = FALSE
    /\ UNCHANGED <<sent, invalid>>

(* The access token expires; so does the refresh token, on the server.     *)
Expire ==
    /\ valid
    /\ valid' = FALSE
    /\ UNCHANGED <<refresh, stored, promise, isFetching, shown, fetches, sent, invalid,
                   account, raced, failed>>

Revoke(a) ==
    /\ a \notin invalid
    /\ invalid' = invalid \cup {a}
    /\ UNCHANGED <<refresh, stored, promise, valid, isFetching, shown, fetches, sent,
                   account, raced, failed>>

(* The page is loaded again: the constructor; answers are not waited for.  *)
Reload ==
    /\ refresh' = stored /\ shown' = (stored # NoAccount) /\ valid' = FALSE
    /\ IF stored # NoAccount THEN Fetch("refresh", stored, {})
       ELSE promise' = NoPromise /\ isFetching' = FALSE /\ fetches' = {} /\ UNCHANGED sent
    /\ failed' = FALSE
    /\ UNCHANGED <<stored, invalid, account, raced>>

Responds(f) == Applied(f) \/ Fails(f) \/ Unauthorized(f)

Next ==
    \/ getAccessToken \/ logout \/ Expire \/ Reload
    \/ \E a \in Accounts : login(a) \/ Revoke(a)
    \/ \E f \in fetches : Responds(f)

Spec == Init /\ [][Next]_vars

----------------------------------------------------------------------------
(* Properties. *)

(* Every variable has its type; the local storage has the page's token.    *)
TypeOK ==
    /\ stored = refresh
    /\ {refresh, stored, account, promise.account} \subseteq Accounts \cup {NoAccount}
    /\ promise.n \in 0 .. sent /\ promise.state \in {"none", "pending", "ok", "rejected"}
    /\ {valid, isFetching, shown, raced, failed} \subseteq BOOLEAN
    /\ sent \in 0 .. MaxFetches /\ \A f \in fetches : f.n \in 1 .. sent
    /\ invalid \subseteq Accounts

(* The page holds the session the user began last, and none after a        *)
(* logout, unless a request was under way when the user logged in or out.  *)
SessionIsLast == ~raced => refresh = account

(* Subscribers know whether there is a session.                            *)
ShownIsTrue == ~raced => shown = isAuthenticated

(* The access token that is handed out is that of the session.             *)
TokenOfSession == ~raced /\ promise.state = "ok" => promise.account = account

(* A refresh is not begun while a request is under way.                    *)
OneRefresh ==
    ~raced => \A f, g \in fetches : f.kind = "refresh" /\ g.kind = "refresh" => f = g

(* The store never waits for a request that is not under way: it would not *)
(* begin another one.                                                      *)
WaitsForSomething ==
    /\ isFetching => fetches # {}
    /\ promise.state = "pending" => \E f \in fetches : f.n = promise.n

(* While the access token is valid, requests get one; after a login that   *)
(* failed they get its failure until the earlier token has expired.        *)
ValidServes == valid /\ promise.state = "rejected" => failed

(* What holds of the session in every state.                               *)
SessionKept ==
    /\ TypeOK /\ SessionIsLast /\ ShownIsTrue /\ TokenOfSession
    /\ OneRefresh /\ WaitsForSomething /\ ValidServes
=============================================================================

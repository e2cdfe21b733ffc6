------------------------------ MODULE Services ------------------------------
(***************************************************************************)
(* The services around the managers: the cache of transports, the clients  *)
(* of providers, the accounts, the session of the browser and the models.  *)
(* They share no state: a behaviour chooses one in the beginning and the   *)
(* others do not move.                                                     *)
(***************************************************************************)
EXTENDS TransportCache, Sequences

CONSTANTS
    Providers, KindOf, NoProvider, MaxClients,
    Requesters,              \* callers that need clients of providers
    Identities, MaxLogins, MaxRefreshes,
    Accounts, NoAccount, MaxFetches,
    MaxRequests, MaxBeside

VARIABLES
    part,  \* the component that runs; the others stay as they are
    integrations, made, at_provider, asked, step, repo, scm, its, result,
    users, logins, begun, tokens, expired, access, refreshes, owner, disturbed,
    stranded,
    refresh, stored, promise, valid, isFetching, told_user, fetches, sent,
    invalid, account, raced, failed,
    stock, files, work, requested, scores, grade, overlap, lost, torn, unscored

Client == INSTANCE ServiceProviders WITH Callers <- Requesters, pc <- at_provider
Login == INSTANCE Accounts
Store == INSTANCE TokenStore WITH shown <- told_user
Model == INSTANCE Models WITH docs <- stock, begun <- requested

ASSUME ServicesAssumption ==
    /\ Client!ProviderAssumption /\ Login!AccountsAssumption
    /\ Store!TokenStoreAssumption /\ Model!ModelsAssumption

ProviderVars == <<integrations, made, at_provider, asked, step, repo, scm, its,
                  result>>
AccountVars == <<users, logins, begun, tokens, expired, access, refreshes,
                 owner, disturbed, stranded>>
TokenVars == <<refresh, stored, promise, valid, isFetching, told_user, fetches,
               sent, invalid, account, raced, failed>>
ModelVars == <<stock, files, work, requested, scores, grade, overlap, lost, torn,
               unscored>>

services == <<part, vars, ProviderVars, AccountVars, TokenVars, ModelVars>>

ProviderOff ==
    /\ integrations = "off" /\ made = "off" /\ at_provider = "off" /\ asked = "off"
    /\ step = "off" /\ repo = "off" /\ scm = "off" /\ its = "off"
    /\ result = "off"
AccountOff ==
    /\ users = "off" /\ logins = "off" /\ begun = "off" /\ tokens = "off"
    /\ expired = "off" /\ access = "off" /\ refreshes = "off" /\ owner = "off"
    /\ disturbed = "off" /\ stranded = "off"
TokenOff ==
    /\ refresh = "off" /\ stored = "off" /\ promise = "off" /\ valid = "off"
    /\ isFetching = "off" /\ told_user = "off" /\ fetches = "off"
    /\ sent = "off" /\ invalid = "off" /\ account = "off" /\ raced = "off"
    /\ failed = "off"
ModelOff ==
    /\ stock = "off" /\ files = "off" /\ work = "off" /\ requested = "off"
    /\ scores = "off" /\ grade = "off" /\ overlap = "off" /\ lost = "off"
    /\ torn = "off" /\ unscored = "off"

(* The component of the behaviour begins, the others stay off.             *)
Starts ==
    /\ Init
    /\ IF part = "providers" THEN Client!Init ELSE ProviderOff
    /\ IF part = "accounts" THEN Login!Init ELSE AccountOff
    /\ IF part = "tokens" THEN Store!Init ELSE TokenOff
    /\ IF part = "models" THEN Model!Init ELSE ModelOff

ServicesInit == part \in {"transports", "providers", "accounts", "tokens", "models"} /\ Starts

ServicesNext ==
    \/ /\ part = "transports" /\ Next
       /\ UNCHANGED <<part, ProviderVars, AccountVars, TokenVars, ModelVars>>
    \/ /\ part = "providers" /\ Client!Next
       /\ UNCHANGED <<part, vars, AccountVars, TokenVars, ModelVars>>
    \/ /\ part = "accounts" /\ Login!Next
       /\ UNCHANGED <<part, vars, ProviderVars, TokenVars, ModelVars>>
    \/ /\ part = "tokens" /\ Store!Next
       /\ UNCHANGED <<part, vars, ProviderVars, AccountVars, ModelVars>>
    \/ /\ part = "models" /\ Model!Next
       /\ UNCHANGED <<part, vars, ProviderVars, AccountVars, TokenVars>>

ServicesSpec == ServicesInit /\ [][ServicesNext]_services

-----------------------------------------------------------------------------
(* The properties of each, with the comments of their own modules.         *)

(* A provider has one client as long as the service runs, and a job is     *)
(* given the clients of the providers of its repository.                   *)
ClientsFit == part = "providers" => Client!TypeOK /\ Client!OneClient /\ Client!ClientsFit

(* An identity leads to one account and keeps its latest credential, and   *)
(* an account stays within reach of some identity.                         *)
AccountsKept == part = "accounts" => Login!AccountsKept

(* A refreshed access token tells of every provider of the user.           *)
RefreshTells == [][part = "accounts" => Login!RefreshTold]_services

(* The access token of a login tells of the provider it was made with.     *)
LoginTells == part = "accounts" => Login!LoginTells

(* The page of the browser holds the session the user began last, tells    *)
(* subscribers of it and hands out its access token. One refresh is under  *)
(* way at a time, nobody waits for a request that is not, and while the    *)
(* token is valid, requests get it or the failure of a later login.        *)
SessionKept == part = "tokens" => Store!SessionKept

(* The file of a stored model holds that model, a repository has one for   *)
(* good, and the confidence shown is that of the model that scored.        *)
ModelsAgree == part = "models" => Model!ModelsAgree
=============================================================================

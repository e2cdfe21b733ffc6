--------------------------- MODULE TransportCache ---------------------------
(***************************************************************************)
(* The transports of the installations of a GitHub application             *)
(* (GithubApp.installationTransport, src/ingest/pkg/ghapp/ghapp.go): a map *)
(* of limited size, and a ring of its keys that tells which one to forget. *)
(* A first look at the map is not locked. A transport holds the access     *)
(* token of its installation, so callers should share it.                  *)
(***************************************************************************)
EXTENDS Integers, Functions, FiniteSets

CONSTANTS
    Callers,    \* goroutines that need a transport
    Ids,        \* identifiers of installations
    Limit,      \* defaultCacheLimit
    NoId,       \* 0, which no installation has
    None        \* no transport

ASSUME CacheAssumption ==
    /\ Limit \in Nat \ {0}
    /\ NoId \notin Ids
    /\ None \notin Callers

VARIABLES
    cacheTransports, \* of each installation, the caller that made its transport
    cacheLog,        \* the ring
    cacheIndex,      \* its oldest entry
    pc, arg,         \* where each caller is, and its installation
    got              \* the transport a caller has, unless it was forgotten since

cache == <<cacheTransports, cacheLog, cacheIndex>>
vars == <<cache, pc, arg, got>>

Slots == 0 .. Limit - 1

Cached == {id \in Ids : cacheTransports[id] # None}
Logged == Range(cacheLog) \ {NoId}

Init ==
    /\ cacheTransports = [id \in Ids |-> None]
    /\ cacheLog = [i \in Slots |-> NoId]
    /\ cacheIndex = 0
    /\ pc = [c \in Callers |-> "idle"]
    /\ arg \in [Callers -> Ids]
    /\ got = [c \in Callers |-> None]

(* mutant: the lock is released between forgetting and remembering         *)
LockedBriefly == \E c \in Callers : pc[c] = "insert"

Locked == \E c \in Callers : pc[c] \in {"evict", "insert"}

Has(c) == cacheTransports[arg[c]] # None

Take(c) ==
    /\ got' = [got EXCEPT ![c] = cacheTransports[arg[c]]]
    /\ pc' = [pc EXCEPT ![c] = "idle"]

(* A call, and the look without the lock.                                  *)
Look(c, id) ==
    /\ pc[c] = "idle"
    /\ arg' = [arg EXCEPT ![c] = id]
    /\ IF cacheTransports[id] # None
         THEN got' = [got EXCEPT ![c] = cacheTransports[id]] /\ UNCHANGED pc
         ELSE got' = [got EXCEPT ![c] = None] /\ pc' = [pc EXCEPT ![c] = "wait"]
    /\ UNCHANGED cache

(* mutant: the map is not looked at again once the lock is taken           *)
LockOnly(c) ==
    /\ pc[c] = "wait" /\ ~Locked
    /\ pc' = [pc EXCEPT ![c] = "evict"]
    /\ UNCHANGED <<cache, arg, got>>

Lock(c) ==
    /\ pc[c] = "wait" /\ ~Locked
    /\ IF Has(c) THEN Take(c) ELSE pc' = [pc EXCEPT ![c] = "evict"] /\ UNCHANGED got
    /\ UNCHANGED <<cache, arg>>

(* mutant: the ring is overwritten and the map forgets nothing             *)
nothing == NoId

oldest == cacheLog[cacheIndex]

Evict(c) ==
    /\ pc[c] = "evict"
    /\ cacheTransports' = [id \in Ids |-> IF id = oldest THEN None ELSE cacheTransports[id]]
    /\ got' = [d \in Callers |-> IF arg[d] = oldest THEN None ELSE got[d]]
    /\ pc' = [pc EXCEPT ![c] = "insert"]
    /\ UNCHANGED <<cacheLog, cacheIndex, arg>>

(* mutant: the index is advanced before the key is written                 *)
LogAfter(c) == [cacheLog EXCEPT ![(cacheIndex + 1) % Limit] = arg[c]]

Log(c) == [cacheLog EXCEPT ![cacheIndex] = arg[c]]

(* The new transport is named by the caller.                               *)
Insert(c) ==
    /\ pc[c] = "insert"
    /\ cacheLog' = Log(c)
    /\ cacheIndex' = (cacheIndex + 1) % Limit
    /\ cacheTransports' = [cacheTransports EXCEPT ![arg[c]] = c]
    /\ got' = [got EXCEPT ![c] = c]
    /\ pc' = [pc EXCEPT ![c] = "idle"]
    /\ UNCHANGED arg

Next ==
    \E c \in Callers : (\E id \in Ids : Look(c, id)) \/ Lock(c) \/ Evict(c) \/ Insert(c)

Spec == Init /\ [][Next]_vars

----------------------------------------------------------------------------
(* Properties. *)

(* Every variable has its type; the lock is held once.                     *)
TypeOK ==
    /\ cacheTransports \in [Ids -> Callers \cup {None}]
    /\ cacheLog \in [Slots -> Ids \cup {NoId}]
    /\ cacheIndex \in Slots
    /\ pc \in [Callers -> {"idle", "wait", "evict", "insert"}]
    /\ arg \in [Callers -> Ids]
    /\ got \in [Callers -> Callers \cup {None}]
    /\ \A c, d \in Callers :
          pc[c] \in {"evict", "insert"} /\ pc[d] \in {"evict", "insert"} => c = d

(* The map and the ring forget the same entry: outside the lock they have  *)
(* the same keys, and a key has one place in the ring.                     *)
RingMatchesMap ==
    ~Locked =>
        /\ Cached = Logged
        /\ \A i, j \in Slots : cacheLog[i] = cacheLog[j] /\ cacheLog[i] # NoId => i = j

(* The cache never grows over its limit, also while it is being changed.   *)
CacheBounded == Cardinality(Cached) <= Limit

(* Callers that use an installation share its transport, as long as the    *)
(* cache has not forgotten it: it is made once, whoever asks at once.      *)
TransportShared ==
    \A c \in Callers : got[c] # None => got[c] = cacheTransports[arg[c]]

(* The map, the ring and the callers agree on who is cached.               *)
TransportsAgree == TypeOK /\ RingMatchesMap /\ CacheBounded /\ TransportShared
=============================================================================

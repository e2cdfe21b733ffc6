--------------------------- MODULE ServicesProofs ---------------------------
(***************************************************************************)
(* The services around the managers, for any of their constants: the cache *)
(* of transports, the clients of providers, the accounts, the session of   *)
(* the browser and the models. They share no state; each has an inductive  *)
(* invariant of its own, which holds while its component runs.             *)
(***************************************************************************)
EXTENDS Services, FiniteSetTheorems, TLAPS

-----------------------------------------------------------------------------
(* The cache of transports. Under the lock the map is one entry behind the *)
(* ring between Evict and Insert, which the invariant says.                *)

Inserting == \E c \in Callers : pc[c] = "insert"

(* A key has one place in the ring.                                        *)
RingInjective == \A i, j \in Slots : cacheLog[i] = cacheLog[j] /\ cacheLog[i] # NoId => i = j

(* The map has the keys of the ring, but for the one being replaced.       *)
KeysMatch == Cached = Logged \ (IF Inserting THEN {oldest} ELSE {})

(* Who evicts or inserts does so for a key that is not there.              *)
Missing == \A c \in Callers : pc[c] \in {"evict", "insert"} => cacheTransports[arg[c]] = None

IInv == TypeOK /\ RingInjective /\ KeysMatch /\ Missing /\ TransportShared

LEMMA InitIInv == Init => IInv
<1> SUFFICES ASSUME Init PROVE IInv
  OBVIOUS
<1> USE DEF Init
<1>1. 0 \in Slots
  BY CacheAssumption DEF Slots
<1>2. TypeOK
  BY <1>1 DEF TypeOK
<1>3. Cached = {} /\ Logged = {} /\ ~Inserting
  BY DEF Cached, Logged, Inserting, Range
<1>4. RingInjective /\ KeysMatch /\ Missing /\ TransportShared
  BY <1>3 DEF RingInjective, KeysMatch, Missing, TransportShared
<1>5. QED
  BY <1>2, <1>4 DEF IInv

(* The steps that leave the map and the ring alone.                        *)
LEMMA LookIInv ==
    ASSUME IInv, NEW c \in Callers, NEW id \in Ids, Look(c, id)
    PROVE  IInv'
<1>1. /\ pc[c] = "idle" /\ arg' = [arg EXCEPT ![c] = id]
      /\ got' = [got EXCEPT ![c] = cacheTransports[id]]
      /\ pc' = pc \/ pc' = [pc EXCEPT ![c] = "wait"]
      /\ UNCHANGED <<cacheTransports, cacheLog, cacheIndex>>
  BY DEF Look, cache
<1>2. TypeOK'
  BY <1>1 DEF IInv, TypeOK
<1>3. Inserting' = Inserting
  BY <1>1 DEF IInv, TypeOK, Inserting
<1>4. RingInjective' /\ KeysMatch'
  BY <1>1, <1>3 DEF IInv, RingInjective, KeysMatch, Cached, Logged, oldest
<1>5. Missing'
  BY <1>1 DEF IInv, TypeOK, Missing
<1>6. TransportShared'
  BY <1>1 DEF IInv, TypeOK, TransportShared
<1>7. QED
  BY <1>2, <1>4, <1>5, <1>6 DEF IInv

LEMMA LockIInv ==
    ASSUME IInv, NEW c \in Callers, Lock(c)
    PROVE  IInv'
<1>1. /\ pc[c] = "wait" /\ ~Locked
      /\ UNCHANGED <<cacheTransports, cacheLog, cacheIndex, arg>>
      /\ \/ got' = [got EXCEPT ![c] = cacheTransports[arg[c]]] /\ pc' = [pc EXCEPT ![c] = "idle"]
         \/ got' = got /\ pc' = [pc EXCEPT ![c] = "evict"] /\ cacheTransports[arg[c]] = None
  BY DEF Lock, cache, Take, Has
<1>2. TypeOK'
  BY <1>1 DEF IInv, TypeOK, Locked
<1>3. Inserting' = Inserting
  BY <1>1 DEF IInv, TypeOK, Inserting
<1>4. RingInjective' /\ KeysMatch'
  BY <1>1, <1>3 DEF IInv, RingInjective, KeysMatch, Cached, Logged, oldest
<1>5. Missing'
  BY <1>1 DEF IInv, TypeOK, Missing
<1>6. TransportShared'
  BY <1>1 DEF IInv, TypeOK, TransportShared
<1>7. QED
  BY <1>2, <1>4, <1>5, <1>6 DEF IInv

LEMMA EvictIInv ==
    ASSUME IInv, NEW c \in Callers, Evict(c)
    PROVE  IInv'
<1>1. /\ pc[c] = "evict" /\ pc' = [pc EXCEPT ![c] = "insert"]
      /\ cacheTransports' = [id \in Ids |-> IF id = oldest THEN None ELSE cacheTransports[id]]
      /\ got' = [d \in Callers |-> IF arg[d] = oldest THEN None ELSE got[d]]
      /\ UNCHANGED <<cacheLog, cacheIndex, arg>>
  BY DEF Evict
<1>2. TypeOK'
  BY <1>1 DEF IInv, TypeOK
<1>3. Inserting' /\ ~Inserting
  BY <1>1 DEF IInv, TypeOK, Inserting
<1>4. RingInjective'
  BY <1>1 DEF IInv, RingInjective
<1>5. KeysMatch'
  <2>1. Cached = Logged
    BY <1>3 DEF IInv, KeysMatch
  <2>2. Cached' = Cached \ {oldest}
    BY <1>1 DEF Cached
  <2>3. Logged' = Logged /\ oldest' = oldest
    BY <1>1 DEF Logged, oldest
  <2>4. QED
    BY <1>3, <2>1, <2>2, <2>3 DEF KeysMatch
<1>6. Missing'
  BY <1>1 DEF IInv, TypeOK, Missing
<1>7. TransportShared'
  BY <1>1 DEF IInv, TypeOK, TransportShared
<1>8. QED
  BY <1>2, <1>4, <1>5, <1>6, <1>7 DEF IInv

LEMMA InsertIInv ==
    ASSUME IInv, NEW c \in Callers, Insert(c)
    PROVE  IInv'
<1> DEFINE k == arg[c]
           n == cacheIndex
<1>1. /\ pc[c] = "insert" /\ pc' = [pc EXCEPT ![c] = "idle"]
      /\ cacheLog' = [cacheLog EXCEPT ![n] = k]
      /\ cacheIndex' = (n + 1) % Limit
      /\ cacheTransports' = [cacheTransports EXCEPT ![k] = c]
      /\ got' = [got EXCEPT ![c] = c] /\ arg' = arg
  BY DEF Insert, Log
<1>2. /\ n \in Slots /\ k \in Ids /\ k # NoId /\ c # None
      /\ cacheLog \in [Slots -> Ids \cup {NoId}] /\ cacheTransports[k] = None
  BY <1>1, CacheAssumption DEF IInv, TypeOK, Missing
<1>3. cacheIndex' \in Slots
  BY <1>1, <1>2, CacheAssumption DEF Slots
<1>4. Cached = Logged \ {cacheLog[n]}
  BY <1>1 DEF IInv, KeysMatch, Inserting, oldest
<1> HIDE DEF k, n
<1>5. TypeOK'
  <2>1. /\ cacheTransports' \in [Ids -> Callers \cup {None}]
        /\ cacheLog' \in [Slots -> Ids \cup {NoId}]
        /\ got' \in [Callers -> Callers \cup {None}] /\ arg' \in [Callers -> Ids]
    BY <1>1, <1>2 DEF IInv, TypeOK
  <2>2. pc' \in [Callers -> {"idle", "wait", "evict", "insert"}]
    BY <1>1 DEF IInv, TypeOK
  <2>3. \A d, e \in Callers :
           pc'[d] \in {"evict", "insert"} /\ pc'[e] \in {"evict", "insert"} => d = e
    BY <1>1 DEF IInv, TypeOK
  <2>4. QED
    BY <1>3, <2>1, <2>2, <2>3 DEF TypeOK
<1>6. /\ cacheLog'[n] = k
      /\ \A i \in Slots \ {n} : cacheLog'[i] = cacheLog[i]
  BY <1>1, <1>2
<1>7. \A i \in Slots \ {n} : cacheLog[i] # k
  <2>1. SUFFICES ASSUME NEW i \in Slots \ {n}, cacheLog[i] = k PROVE FALSE
    OBVIOUS
  <2>2. k \in Logged /\ k \notin Cached
    BY <1>2, <2>1 DEF Logged, Range, Cached
  <2>3. cacheLog[n] = k
    BY <1>4, <2>2
  <2>4. QED
    BY <1>2, <2>1, <2>3 DEF IInv, RingInjective
<1>8. RingInjective'
  BY <1>2, <1>6, <1>7 DEF IInv, RingInjective
<1>9. ~Inserting'
  BY <1>1 DEF IInv, TypeOK, Inserting
<1>10. KeysMatch'
  <2>1. Cached' = Cached \cup {k}
    BY <1>1, <1>2 DEF IInv, TypeOK, Cached
  <2>2. Logged' = (Logged \ {cacheLog[n]}) \cup {k}
    <3>1. DOMAIN cacheLog = Slots /\ DOMAIN cacheLog' = Slots
      BY <1>1, <1>2
    <3>2. ASSUME NEW x, x \in Logged' PROVE x \in (Logged \ {cacheLog[n]}) \cup {k}
      <4>1. PICK i \in Slots : cacheLog'[i] = x /\ x # NoId
        BY <3>1, <3>2 DEF Logged, Range
      <4>2. CASE i = n
        BY <1>6, <4>1, <4>2
      <4>3. CASE i # n
        <5>1. x = cacheLog[i] /\ x \in Logged
          BY <1>6, <3>1, <4>1, <4>3 DEF Logged, Range
        <5>2. x # cacheLog[n]
          BY <1>2, <4>1, <4>3, <5>1 DEF IInv, RingInjective
        <5>3. QED
          BY <5>1, <5>2
      <4>4. QED
        BY <4>2, <4>3
    <3>3. ASSUME NEW x, x \in (Logged \ {cacheLog[n]}) \cup {k} PROVE x \in Logged'
      <4>1. CASE x = k
        BY <1>2, <1>6, <3>1, <4>1 DEF Logged, Range
      <4>2. CASE x # k
        <5>1. PICK i \in Slots : cacheLog[i] = x /\ x # NoId /\ i # n
          BY <3>1, <3>3, <4>2 DEF Logged, Range
        <5>2. QED
          BY <1>6, <3>1, <5>1 DEF Logged, Range
      <4>3. QED
        BY <4>1, <4>2
    <3>4. QED
      BY <3>2, <3>3
  <2>3. QED
    BY <1>4, <1>9, <2>1, <2>2 DEF KeysMatch
<1>11. Missing'
  BY <1>1 DEF IInv, TypeOK, Missing
<1>12. TransportShared'
  <2>1. ASSUME NEW d \in Callers, got'[d] # None PROVE got'[d] = cacheTransports'[arg'[d]]
    <3>1. CASE d = c
      BY <1>1, <1>2, <3>1 DEF IInv, TypeOK, k
    <3>2. CASE d # c
      <4>1. got'[d] = got[d] /\ got[d] = cacheTransports[arg[d]] /\ arg[d] \in Ids
        BY <1>1, <2>1, <3>2 DEF IInv, TypeOK, TransportShared
      <4>2. arg[d] # k
        BY <1>2, <2>1, <4>1
      <4>3. QED
        BY <1>1, <1>2, <4>1, <4>2 DEF IInv, TypeOK
    <3>3. QED
      BY <3>1, <3>2
  <2>2. QED
    BY <2>1 DEF TransportShared
<1>13. QED
  BY <1>5, <1>8, <1>10, <1>11, <1>12 DEF IInv

LEMMA SpecIInv == Spec => []IInv
<1>1. IInv /\ [Next]_vars => IInv'
  <2> SUFFICES ASSUME IInv, [Next]_vars PROVE IInv'
    OBVIOUS
  <2>1. ASSUME UNCHANGED vars PROVE IInv'
    BY <2>1
      DEF vars, cache, IInv, TypeOK, RingInjective, KeysMatch, Missing, TransportShared,
                Cached, Logged, Inserting, oldest
  <2>2. QED
    BY <2>1, LookIInv, LockIInv, EvictIInv, InsertIInv DEF Next
<1>2. QED
  BY <1>1, InitIInv, PTL DEF Spec

(* For any limit, the map and the ring forget the same entry.              *)
THEOREM RingAndMapAgree == Spec => []RingMatchesMap
<1>1. IInv => RingMatchesMap
  <2> SUFFICES ASSUME IInv, ~Locked PROVE RingMatchesMap
    BY DEF RingMatchesMap
  <2>1. ~Inserting
    BY DEF Locked, Inserting
  <2>2. QED
    BY <2>1 DEF IInv, RingInjective, KeysMatch, RingMatchesMap
<1>2. QED
  BY <1>1, SpecIInv, PTL

(* For any number of installations, no more than Limit transports are kept,*)
(* also while one replaces another.                                        *)
THEOREM CacheKeepsLimit == Spec => []CacheBounded
<1>1. IInv => CacheBounded
  <2> SUFFICES ASSUME IInv PROVE CacheBounded
    OBVIOUS
  <2>1. Cached \subseteq Range(cacheLog) /\ DOMAIN cacheLog = Slots
    BY DEF IInv, TypeOK, KeysMatch, Logged
  <2>2. IsFiniteSet(Slots) /\ Cardinality(Slots) = Limit
    <3>1. 0 \in Int /\ Limit - 1 \in Int /\ ~(0 > Limit - 1)
      BY CacheAssumption
    <3>2. IsFiniteSet(0 .. Limit - 1) /\ Cardinality(0 .. Limit - 1) = Limit - 1 - 0 + 1
      BY <3>1, FS_Interval
    <3>3. QED
      BY <3>2, CacheAssumption DEF Slots
  <2>3. cacheLog \in Surjection(Slots, Range(cacheLog))
    BY DEF IInv, TypeOK, Surjection, Range
  <2>4. IsFiniteSet(Range(cacheLog)) /\ Cardinality(Range(cacheLog)) <= Limit
    BY <2>2, <2>3, FS_Surjection
  <2>5. IsFiniteSet(Cached) /\ Cardinality(Cached) <= Cardinality(Range(cacheLog))
    BY <2>1, <2>4, FS_Subset
  <2>6. Cardinality(Cached) \in Nat /\ Cardinality(Range(cacheLog)) \in Nat
    BY <2>4, <2>5, FS_CardinalityType
  <2>7. QED
    BY <2>4, <2>5, <2>6, CacheAssumption DEF CacheBounded
<1>2. QED
  BY <1>1, SpecIInv, PTL

(* For any callers, those that use an installation have one transport.     *)
THEOREM TransportsAreShared == Spec => []TransportShared
<1>1. IInv => TransportShared
  BY DEF IInv
<1>2. QED
  BY <1>1, SpecIInv, PTL

(* For any callers, installations and limit, the map, the ring and the     *)
(* callers agree on the transports that are cached.                        *)
THEOREM CacheAgrees == Spec => []TransportsAgree
<1>1. IInv => TypeOK
  BY DEF IInv
<1>2. TypeOK /\ RingMatchesMap /\ CacheBounded /\ TransportShared => TransportsAgree
  BY DEF TransportsAgree
<1>3. QED
  BY <1>1, <1>2, SpecIInv, RingAndMapAgree, CacheKeepsLimit, TransportsAreShared, PTL

-----------------------------------------------------------------------------
(* A step of the services is a step of the component that runs.            *)

(* The clients of providers move alone or not at all.                      *)
LEMMA ClientRuns ==
    ASSUME [ServicesNext]_services, part = "providers" \/ part' = "providers"
    PROVE  part = "providers" /\ part' = "providers" /\ [Client!Next]_(Client!vars)
  BY DEF ServicesNext, services, ProviderVars, Client!vars

(* The accounts move alone or not at all.                                  *)
LEMMA LoginRuns ==
    ASSUME [ServicesNext]_services, part = "accounts" \/ part' = "accounts"
    PROVE  part = "accounts" /\ part' = "accounts" /\ [Login!Next]_(Login!vars)
  BY DEF ServicesNext, services, AccountVars, Login!vars

(* The session of the browser moves alone or not at all.                   *)
LEMMA StoreRuns ==
    ASSUME [ServicesNext]_services, part = "tokens" \/ part' = "tokens"
    PROVE  part = "tokens" /\ part' = "tokens" /\ [Store!Next]_(Store!vars)
  BY DEF ServicesNext, services, TokenVars, Store!vars

(* The models move alone or not at all.                                    *)
LEMMA ModelRuns ==
    ASSUME [ServicesNext]_services, part = "models" \/ part' = "models"
    PROVE  part = "models" /\ part' = "models" /\ [Model!Next]_(Model!vars)
  BY DEF ServicesNext, services, ModelVars, Model!vars

-----------------------------------------------------------------------------
(* The clients of providers.                                               *)

(* The clients a job has been given are those of its providers.            *)
ClientHasSource(c) == scm[c] \in Client!Clients /\ scm[c] = integrations[repo[c].scm]
ClientHasIssues(c) == its[c] \in Client!Clients /\ its[c] = integrations[repo[c].its]

(* The names a call is for.                                                *)
ClientNamesInv ==
    \A c \in Requesters :
        /\ at_provider[c] # "idle" => asked[c] \in Providers /\ result[c] = "none"
        /\ at_provider[c] # "idle" /\ step[c] = "request" => repo[c].scm = NoProvider /\ at_provider[c] # "integrate"
        /\ at_provider[c] # "idle" /\ step[c] = "scm" => asked[c] = repo[c].scm /\ its[c] = Client!Absent
        /\ at_provider[c] # "idle" /\ step[c] = "its" =>
              asked[c] = repo[c].its /\ repo[c].its # repo[c].scm /\ repo[c].scm \in Providers

(* An entry is made by who has the lock and found none, and never changed. *)
ClientEntryInv ==
    /\ \A c \in Requesters : at_provider[c] = "find" => integrations[asked[c]] = Client!Absent
    /\ \A p \in Providers : integrations[p] = Client!NoClient => KindOf[p] = "bare"
    /\ \A p \in Providers : integrations[p] \in Client!Clients =>
          KindOf[p] \in {"github", "jira"} /\ integrations[p] <= made

(* What a job has so far.                                                  *)
ClientJobInv ==
    \A c \in Requesters :
        /\ at_provider[c] = "integrate" /\ step[c] = "scm" => ClientHasSource(c)
        /\ at_provider[c] # "idle" /\ step[c] = "its" => ClientHasSource(c)
        /\ at_provider[c] = "integrate" /\ step[c] = "its" => ClientHasIssues(c)

(* The inductive invariant.                                                *)
ClientInv == Client!TypeOK /\ Client!OneClient /\ ClientNamesInv /\ ClientEntryInv /\ ClientJobInv /\ Client!ClientsFit

(* There are no clients in the beginning.                                  *)
LEMMA ClientInit == ASSUME Client!ProviderAssumption, Client!Init PROVE ClientInv
<1> USE DEF Client!Init
<1>1. Client!TypeOK
  BY DEF Client!ProviderAssumption, Client!TypeOK, Client!Absent, Client!NoClient, Client!Clients
<1>2. Client!OneClient
  BY DEF Client!OneClient, Client!Absent, Client!Clients, Client!ProviderAssumption
<1>3. ClientNamesInv /\ ClientEntryInv /\ ClientJobInv /\ Client!ClientsFit
  BY DEF ClientNamesInv, ClientEntryInv, ClientJobInv, Client!ClientsFit, Client!Absent,
      Client!NoClient, Client!Clients, Client!ProviderAssumption
<1>4. QED
  BY <1>1, <1>2, <1>3 DEF ClientInv

(* A step keeps the entries there are.                                     *)
ClientEntriesKept == \A p \in Providers : integrations[p] # Client!Absent => integrations'[p] = integrations[p]

(* A caller that is given a client s of its provider.                      *)
LEMMA ClientGotKeeps ==
    ASSUME Client!ProviderAssumption, ClientInv, NEW c \in Requesters, NEW s \in Client!Clients \cup {Client!NoClient},
           Client!Got(c, s), repo' = repo, ClientEntriesKept,
           at_provider[c] \in {"look", "check", "find"}, integrations'[asked[c]] = s,
           s = Client!NoClient => KindOf[asked[c]] = "bare",
           integrations' \in [Providers -> Client!Clients \cup {Client!Absent, Client!NoClient}], made' \in 0 .. MaxClients
    PROVE  Client!TypeOK' /\ ClientNamesInv' /\ ClientJobInv' /\ Client!ClientsFit'
<1> USE DEF ClientInv
<1>0. /\ asked[c] \in Providers /\ result[c] = "none" /\ asked' = asked /\ step' = step
      /\ at_provider[c] \notin {"idle", "integrate"}
      /\ Client!Absent \notin Client!Clients /\ Client!NoClient \notin Client!Clients /\ Client!NoClient # Client!Absent
  BY DEF ClientNamesInv, Client!Got, Client!Absent, Client!NoClient, Client!Clients
<1>1. \A d \in Requesters : d # c => /\ at_provider'[d] = at_provider[d] /\ scm'[d] = scm[d]
                                 /\ its'[d] = its[d] /\ result'[d] = result[d]
  BY DEF Client!Got, Client!Go, Client!TypeOK
<1>2. CASE step[c] = "request"
  <2>1. /\ at_provider'[c] = "idle" /\ its' = its /\ scm'[c] = s
        /\ result'[c] = IF s = Client!NoClient THEN "nil" ELSE "ok"
    BY <1>2 DEF Client!Got, Client!Go, Client!TypeOK
  <2>2. Client!TypeOK'
    <3>1. /\ at_provider' = [at_provider EXCEPT ![c] = "idle"] /\ its' = its /\ scm' = [scm EXCEPT ![c] = s]
          /\ result' = [result EXCEPT ![c] = IF s = Client!NoClient THEN "nil" ELSE "ok"]
      BY <1>2 DEF Client!Got, Client!Go
    <3>2. \A a, b \in Requesters : at_provider'[a] \in {"check", "find"} /\ at_provider'[b] \in {"check", "find"} => a = b
      BY <1>1, <2>1 DEF Client!TypeOK
    <3>3. QED
      BY <3>1, <3>2, <1>0 DEF Client!TypeOK
  <2>3. repo[c].scm = NoProvider
    BY <1>0, <1>2 DEF ClientNamesInv
  <2>4. ClientNamesInv'
    BY <1>0, <1>1, <2>1 DEF ClientNamesInv
  <2>5. ClientJobInv'
    <3>1. ASSUME NEW d \in Requesters, d # c
          PROVE  /\ at_provider'[d] = "integrate" /\ step'[d] = "scm" => ClientHasSource(d)'
                 /\ at_provider'[d] # "idle" /\ step'[d] = "its" => ClientHasSource(d)'
                 /\ at_provider'[d] = "integrate" /\ step'[d] = "its" => ClientHasIssues(d)'
      <4>1. /\ at_provider[d] = "integrate" /\ step[d] = "scm" => ClientHasSource(d) /\ repo[d].scm \in Providers
            /\ at_provider[d] # "idle" /\ step[d] = "its" => ClientHasSource(d) /\ repo[d].scm \in Providers
            /\ at_provider[d] = "integrate" /\ step[d] = "its" => ClientHasIssues(d) /\ repo[d].its \in Providers
        BY DEF ClientJobInv, ClientNamesInv
      <4>2. QED
        BY <1>0, <1>1, <3>1, <4>1 DEF ClientHasSource, ClientHasIssues, ClientEntriesKept
    <3>2. /\ at_provider'[c] = "integrate" /\ step[c] = "scm" => ClientHasSource(c)'
          /\ at_provider'[c] # "idle" /\ step[c] = "its" => ClientHasSource(c)'
          /\ at_provider'[c] = "integrate" /\ step[c] = "its" => ClientHasIssues(c)'
      <4>1. /\ step[c] = "scm" => repo[c].scm = asked[c]
            /\ step[c] = "its" => repo[c].its = asked[c] /\ ClientHasSource(c) /\ repo[c].scm \in Providers
        BY <1>0 DEF ClientJobInv, ClientNamesInv
      <4>2. QED
        BY <1>0, <2>1, <4>1 DEF ClientHasSource, ClientHasIssues, ClientEntriesKept
    <3>3. QED
      BY <1>0, <3>1, <3>2 DEF ClientJobInv
  <2>6. Client!ClientsFit'
    BY <1>0, <1>1, <2>1, <2>3
      DEF Client!ClientsFit, Client!TypeOK, ClientEntriesKept, Client!GithubNames, Client!IssueNames
  <2>7. QED
    BY <2>2, <2>4, <2>5, <2>6
<1>3. CASE step[c] # "request"
  <2>1. /\ at_provider'[c] = "integrate" /\ result' = result
        /\ step[c] = "scm" => scm'[c] = s /\ its' = its
        /\ step[c] = "its" => its'[c] = s /\ scm' = scm
        /\ step[c] \in {"scm", "its"}
    BY <1>3 DEF Client!Got, Client!Go, Client!TypeOK
  <2>2. Client!TypeOK'
    <3>1. /\ at_provider' = [at_provider EXCEPT ![c] = "integrate"] /\ UNCHANGED result
          /\ its' = IF step[c] = "scm" THEN its ELSE [its EXCEPT ![c] = s]
          /\ scm' = IF step[c] = "scm" THEN [scm EXCEPT ![c] = s] ELSE scm
      BY <1>3 DEF Client!Got, Client!Go
    <3>2. \A a, b \in Requesters : at_provider'[a] \in {"check", "find"} /\ at_provider'[b] \in {"check", "find"} => a = b
      BY <1>1, <2>1 DEF Client!TypeOK
    <3>3. its' \in [Requesters -> Client!Clients \cup {Client!Absent, Client!NoClient}] /\ scm' \in [Requesters -> Client!Clients \cup {Client!Absent, Client!NoClient}]
      BY <3>1 DEF Client!TypeOK
    <3>4. QED
      BY <3>1, <3>2, <3>3, <1>0 DEF Client!TypeOK
  <2>3. s \in Client!Clients
    BY <1>0, <2>1
      DEF ClientNamesInv, Client!TypeOK, Client!GithubNames, Client!IssueNames,
          Client!ProviderAssumption
  <2>4. ClientNamesInv'
    BY <1>0, <1>1, <2>1 DEF ClientNamesInv
  <2>5. ClientJobInv'
    <3>1. ASSUME NEW d \in Requesters, d # c
          PROVE  /\ at_provider'[d] = "integrate" /\ step'[d] = "scm" => ClientHasSource(d)'
                 /\ at_provider'[d] # "idle" /\ step'[d] = "its" => ClientHasSource(d)'
                 /\ at_provider'[d] = "integrate" /\ step'[d] = "its" => ClientHasIssues(d)'
      <4>1. /\ at_provider[d] = "integrate" /\ step[d] = "scm" => ClientHasSource(d) /\ repo[d].scm \in Providers
            /\ at_provider[d] # "idle" /\ step[d] = "its" => ClientHasSource(d) /\ repo[d].scm \in Providers
            /\ at_provider[d] = "integrate" /\ step[d] = "its" => ClientHasIssues(d) /\ repo[d].its \in Providers
        BY DEF ClientJobInv, ClientNamesInv
      <4>2. QED
        BY <1>0, <1>1, <3>1, <4>1 DEF ClientHasSource, ClientHasIssues, ClientEntriesKept
    <3>2. /\ at_provider'[c] = "integrate" /\ step[c] = "scm" => ClientHasSource(c)'
          /\ at_provider'[c] # "idle" /\ step[c] = "its" => ClientHasSource(c)'
          /\ at_provider'[c] = "integrate" /\ step[c] = "its" => ClientHasIssues(c)'
      <4>1. /\ step[c] = "scm" => repo[c].scm = asked[c]
            /\ step[c] = "its" => repo[c].its = asked[c] /\ ClientHasSource(c) /\ repo[c].scm \in Providers
        BY <1>0 DEF ClientJobInv, ClientNamesInv
      <4>2. QED
        BY <1>0, <2>1, <2>3, <4>1 DEF ClientHasSource, ClientHasIssues, ClientEntriesKept
    <3>3. QED
      BY <1>0, <3>1, <3>2 DEF ClientJobInv
  <2>6. Client!ClientsFit'
    BY <1>0, <1>1, <2>1
      DEF Client!ClientsFit, Client!TypeOK, ClientEntriesKept, Client!GithubNames, Client!IssueNames
  <2>7. QED
    BY <2>2, <2>4, <2>5, <2>6
<1>4. QED
  BY <1>2, <1>3

(* A caller that moves on or gives up while the map stays.                 *)
LEMMA ClientMovesKeep ==
    ASSUME Client!ProviderAssumption, ClientInv, UNCHANGED <<integrations, made>>
    PROVE  Client!OneClient' /\ ClientEntriesKept /\ (ClientEntryInv' <=> \A c \in Requesters : at_provider'[c] = "find" => integrations[asked'[c]] = Client!Absent)
  BY DEF ClientInv, Client!OneClient, ClientEntriesKept, ClientEntryInv, Client!Clients

(* Every step keeps the invariant.                                         *)
LEMMA ClientNext ==
    ASSUME Client!ProviderAssumption, ClientInv, [Client!Next]_(Client!vars)
    PROVE  ClientInv'
<1> USE DEF ClientInv
<1>1. CASE UNCHANGED Client!vars
  BY <1>1
    DEF Client!vars, Client!TypeOK, Client!OneClient, ClientNamesInv, ClientEntryInv,
        ClientJobInv, ClientHasSource, ClientHasIssues, Client!ClientsFit, Client!Clients
<1>2. ASSUME NEW c \in Requesters, NEW p \in Providers, Client!Request(c, p) PROVE ClientInv'
  <2>1. Client!TypeOK'
    BY <1>2 DEF Client!Request, Client!Go, Client!TypeOK
  <2>2. Client!OneClient' /\ ClientEntryInv'
    BY <1>2, ClientMovesKeep DEF Client!Request, Client!Go, Client!TypeOK, ClientEntryInv
  <2>3. ClientNamesInv' /\ ClientJobInv'
    BY <1>2
      DEF Client!Request, Client!Go, Client!TypeOK, ClientNamesInv, ClientJobInv,
          ClientHasSource, ClientHasIssues
  <2>4. Client!ClientsFit'
    BY <1>2
      DEF Client!Request, Client!Go, Client!TypeOK, Client!ClientsFit, Client!Clients
  <2>5. QED
    BY <2>1, <2>2, <2>3, <2>4
<1>3. ASSUME NEW c \in Requesters, NEW p \in Client!GithubNames, NEW i \in Client!IssueNames \cup {NoProvider},
             Client!RepositoryIntegrations(c, p, i)
      PROVE  ClientInv'
  <2>1. Client!TypeOK'
    BY <1>3
      DEF Client!RepositoryIntegrations, Client!Go, Client!TypeOK, Client!GithubNames
  <2>2. Client!OneClient' /\ ClientEntryInv'
    BY <1>3, ClientMovesKeep
      DEF Client!RepositoryIntegrations, Client!Go, Client!TypeOK, ClientEntryInv
  <2>3. ClientNamesInv' /\ ClientJobInv'
    BY <1>3
      DEF Client!RepositoryIntegrations, Client!Go, Client!TypeOK, ClientNamesInv,
          ClientJobInv, ClientHasSource, ClientHasIssues, Client!GithubNames
  <2>4. Client!ClientsFit'
    BY <1>3
      DEF Client!RepositoryIntegrations, Client!Go, Client!TypeOK, Client!ClientsFit, Client!Clients
  <2>5. QED
    BY <2>1, <2>2, <2>3, <2>4
<1>4. ASSUME NEW c \in Requesters, at_provider[c] \in {"look", "check"}, UNCHANGED <<integrations, made, repo>>,
             IF integrations[asked[c]] # Client!Absent THEN Client!Got(c, integrations[asked[c]])
             ELSE /\ at_provider' = [at_provider EXCEPT ![c] = IF at_provider[c] = "look" THEN "wait" ELSE "find"]
                  /\ UNCHANGED <<asked, step, scm, its, result>>
      PROVE  ClientInv'
  <2>1. CASE integrations[asked[c]] # Client!Absent
    <3>1. asked[c] \in Providers
      BY <1>4 DEF ClientNamesInv
    <3>2. ClientEntriesKept /\ Client!OneClient'
      BY <1>4, ClientMovesKeep
    <3>3. Client!TypeOK' /\ ClientNamesInv' /\ ClientJobInv' /\ Client!ClientsFit'
      <4> DEFINE s == integrations[asked[c]]
      <4>1. s \in Client!Clients \cup {Client!NoClient} /\ (s = Client!NoClient => KindOf[asked[c]] = "bare")
        BY <2>1, <3>1 DEF Client!TypeOK, ClientEntryInv
      <4>2. Client!Got(c, s)
        BY <1>4, <2>1
      <4>3. integrations' \in [Providers -> Client!Clients \cup {Client!Absent, Client!NoClient}] /\ made' \in 0 .. MaxClients /\ repo' = repo /\ integrations'[asked[c]] = s
        BY <1>4 DEF Client!TypeOK
      <4> HIDE DEF s
      <4>4. QED
        BY <1>4, <3>2, <4>1, <4>2, <4>3, ClientGotKeeps
    <3>4. \A d \in Requesters : at_provider'[d] = "find" => at_provider[d] = "find" /\ asked'[d] = asked[d]
      BY <1>4, <2>1 DEF Client!Got, Client!Go, Client!TypeOK
    <3>5. ClientEntryInv'
      BY <1>4, <3>4, ClientMovesKeep DEF ClientEntryInv
    <3>6. QED
      BY <3>2, <3>3, <3>5
  <2>2. CASE integrations[asked[c]] = Client!Absent
    <3>1. Client!TypeOK'
      BY <1>4, <2>2 DEF Client!TypeOK
    <3>2. Client!OneClient' /\ ClientEntryInv'
      BY <1>4, <2>2, ClientMovesKeep DEF Client!TypeOK, ClientEntryInv
    <3>3. ClientNamesInv' /\ ClientJobInv'
      BY <1>4, <2>2
        DEF Client!TypeOK, ClientNamesInv, ClientJobInv, ClientHasSource, ClientHasIssues
    <3>4. Client!ClientsFit'
      BY <1>4, <2>2 DEF Client!ClientsFit, Client!Clients
    <3>5. QED
      BY <3>1, <3>2, <3>3, <3>4
  <2>3. QED
    BY <2>1, <2>2
<1>5. ASSUME NEW c \in Requesters, Client!Look(c) PROVE ClientInv'
  BY <1>4, <1>5 DEF Client!Look, Client!Go
<1>6. ASSUME NEW c \in Requesters, Client!Check(c) PROVE ClientInv'
  BY <1>4, <1>6 DEF Client!Check, Client!Go
<1>7. ASSUME NEW c \in Requesters, Client!Lock(c) PROVE ClientInv'
  <2>1. Client!TypeOK'
    BY <1>7 DEF Client!Lock, Client!Go, Client!Locked, Client!TypeOK
  <2>2. Client!OneClient' /\ ClientEntryInv'
    BY <1>7, ClientMovesKeep DEF Client!Lock, Client!Go, Client!TypeOK, ClientEntryInv
  <2>3. ClientNamesInv' /\ ClientJobInv'
    BY <1>7
      DEF Client!Lock, Client!Go, Client!TypeOK, ClientNamesInv, ClientJobInv,
          ClientHasSource, ClientHasIssues
  <2>4. Client!ClientsFit'
    BY <1>7 DEF Client!Lock, Client!ClientsFit, Client!Clients
  <2>5. QED
    BY <2>1, <2>2, <2>3, <2>4
<1>8. ASSUME NEW c \in Requesters, Client!FindMakes(c) PROVE ClientInv'
  <2> DEFINE a == asked[c]
             s == made + 1
  <2>1. a \in Providers /\ integrations[a] = Client!Absent /\ s \in Client!Clients
    <3>1. a \in Providers /\ integrations[a] = Client!Absent
      BY <1>8 DEF Client!FindMakes, ClientNamesInv, ClientEntryInv
    <3>2. made \in 0 .. MaxClients /\ made < MaxClients /\ MaxClients \in Nat
      BY <1>8 DEF Client!FindMakes, Client!TypeOK, Client!ProviderAssumption
    <3>3. QED
      BY <3>1, <3>2 DEF Client!Clients
  <2>2. integrations' = [integrations EXCEPT ![a] = s] /\ made' = s /\ KindOf[a] \in {"github", "jira"} /\ Client!Got(c, s) /\ repo' = repo /\ at_provider[c] = "find"
    BY <1>8 DEF Client!FindMakes
  <2>3. \A p \in Providers : integrations[p] \in Client!Clients => integrations[p] <= made
    BY DEF ClientEntryInv
  <2>4. made \in Nat /\ s = made + 1 /\ MaxClients \in Nat /\ s \notin {Client!Absent, Client!NoClient}
    BY DEF Client!TypeOK, Client!ProviderAssumption, Client!Absent, Client!NoClient
  <2> HIDE DEF a, s
  <2>5. /\ integrations'[a] = s /\ \A p \in Providers : p # a => integrations'[p] = integrations[p]
        /\ integrations' \in [Providers -> Client!Clients \cup {Client!Absent, Client!NoClient}] /\ made' \in 0 .. MaxClients
    BY <2>1, <2>2, <2>4 DEF Client!TypeOK, Client!Clients
  <2>6. ClientEntriesKept
    BY <2>1, <2>5 DEF ClientEntriesKept
  <2>7. Client!TypeOK' /\ ClientNamesInv' /\ ClientJobInv' /\ Client!ClientsFit'
    <3>1. s # Client!NoClient /\ asked[c] = a
      BY <2>4 DEF a
    <3>2. QED
      BY <2>1, <2>2, <2>5, <2>6, <3>1, ClientGotKeeps
  <2>8. Client!OneClient'
    <3>1. \A p, q \in Providers : integrations'[p] = integrations'[q] /\ integrations'[p] \in Client!Clients => p = q
      BY <2>3, <2>4, <2>5 DEF Client!OneClient, Client!Clients
    <3>2. ASSUME NEW k \in 1 .. s PROVE \E p \in Providers : integrations'[p] = k
      <4>1. CASE k = s
        BY <4>1, <2>1, <2>5
      <4>2. CASE k # s
        <5>1. k \in 1 .. made
          BY <4>2, <2>4
        <5>2. PICK p \in Providers : integrations[p] = k
          BY <5>1 DEF Client!OneClient
        <5>3. p # a
          BY <5>1, <5>2, <2>1 DEF Client!Absent
        <5>4. QED
          BY <5>2, <5>3, <2>5
      <4>3. QED
        BY <4>1, <4>2
    <3>3. QED
      BY <3>1, <3>2, <2>2 DEF Client!OneClient, Client!Clients
  <2>9. ClientEntryInv'
    <3>1. \A d \in Requesters : at_provider'[d] = "find" => d # c /\ at_provider[d] = "find"
      BY <2>2 DEF Client!Got, Client!Go, Client!TypeOK
    <3>2. \A d \in Requesters : at_provider'[d] # "find"
      BY <2>2, <3>1 DEF Client!TypeOK
    <3>3. \A p \in Providers : /\ integrations'[p] = Client!NoClient => KindOf[p] = "bare"
                               /\ integrations'[p] \in Client!Clients => KindOf[p] \in {"github", "jira"} /\ integrations'[p] <= s
      <4> TAKE p \in Providers
      <4>1. CASE p = a
        BY <4>1, <2>2, <2>4, <2>5
      <4>2. CASE p # a
        <5>1. integrations'[p] = integrations[p]
          BY <4>2, <2>5
        <5>2. integrations[p] \in Client!Clients => integrations[p] \in Int /\ integrations[p] <= made
          BY <2>3 DEF Client!Clients
        <5>3. QED
          BY <5>1, <5>2, <2>4 DEF ClientEntryInv
      <4>3. QED
        BY <4>1, <4>2
    <3>4. QED
      BY <3>2, <3>3, <2>2 DEF ClientEntryInv, Client!Clients
  <2>10. QED
    BY <2>7, <2>8, <2>9
<1>9. ASSUME NEW c \in Requesters, Client!FindNothing(c) PROVE ClientInv'
  <2> DEFINE a == asked[c]
  <2>1. a \in Providers /\ integrations[a] = Client!Absent
    BY <1>9 DEF Client!FindNothing, ClientNamesInv, ClientEntryInv
  <2>2. integrations' = [integrations EXCEPT ![a] = Client!NoClient] /\ made' = made /\ KindOf[a] = "bare" /\ Client!Got(c, Client!NoClient) /\ repo' = repo /\ at_provider[c] = "find"
    BY <1>9 DEF Client!FindNothing
  <2> HIDE DEF a
  <2>5. /\ integrations'[a] = Client!NoClient /\ \A p \in Providers : p # a => integrations'[p] = integrations[p]
        /\ integrations' \in [Providers -> Client!Clients \cup {Client!Absent, Client!NoClient}] /\ made' \in 0 .. MaxClients
    BY <2>1, <2>2 DEF Client!TypeOK
  <2>6. ClientEntriesKept
    BY <2>1, <2>5 DEF ClientEntriesKept
  <2>7. Client!TypeOK' /\ ClientNamesInv' /\ ClientJobInv' /\ Client!ClientsFit'
    <3>1. asked[c] = a /\ Client!NoClient \in Client!Clients \cup {Client!NoClient}
      BY DEF a
    <3>2. QED
      BY <2>1, <2>2, <2>5, <2>6, <3>1, ClientGotKeeps
  <2>8. Client!OneClient'
    BY <2>1, <2>2, <2>5
      DEF Client!OneClient, Client!Clients, Client!NoClient, Client!Absent, Client!TypeOK
  <2>9. ClientEntryInv'
    <3>1. \A d \in Requesters : at_provider'[d] = "find" => d # c /\ at_provider[d] = "find"
      BY <2>2 DEF Client!Got, Client!Go, Client!TypeOK
    <3>2. \A d \in Requesters : at_provider'[d] # "find"
      BY <2>2, <3>1 DEF Client!TypeOK
    <3>3. QED
      BY <3>2, <2>1, <2>2, <2>5 DEF ClientEntryInv, Client!Clients, Client!NoClient
  <2>10. QED
    BY <2>7, <2>8, <2>9
<1>10. ASSUME NEW c \in Requesters, at_provider[c] # "idle", Client!Fail(c), UNCHANGED <<integrations, made, repo>>
  PROVE ClientInv'
  <2>1. Client!TypeOK'
    BY <1>10 DEF Client!Fail, Client!Go, Client!TypeOK
  <2>2. Client!OneClient' /\ ClientEntryInv'
    BY <1>10, ClientMovesKeep DEF Client!Fail, Client!Go, Client!TypeOK, ClientEntryInv
  <2>3. ClientNamesInv' /\ ClientJobInv'
    BY <1>10
      DEF Client!Fail, Client!Go, Client!TypeOK, ClientNamesInv, ClientJobInv,
          ClientHasSource, ClientHasIssues
  <2>4. Client!ClientsFit'
    BY <1>10 DEF Client!Fail, Client!TypeOK, Client!ClientsFit, Client!Clients
  <2>5. QED
    BY <2>1, <2>2, <2>3, <2>4
<1>11. ASSUME NEW c \in Requesters, Client!FindFails(c) \/ Client!IntegrateFails(c)
  PROVE ClientInv'
  BY <1>10, <1>11 DEF Client!FindFails, Client!IntegrateFails
<1>12. ASSUME NEW c \in Requesters, Client!Integrate(c) PROVE ClientInv'
  <2>0. /\ at_provider[c] = "integrate" /\ step[c] \in {"scm", "its"} /\ UNCHANGED <<integrations, made, repo, scm>> /\ ClientHasSource(c)
        /\ result[c] = "none" /\ repo[c].scm \in Providers
    <3>1. at_provider[c] = "integrate" /\ UNCHANGED <<integrations, made, repo, scm>>
      BY <1>12 DEF Client!Integrate
    <3>2. step[c] \in {"scm", "its"}
      BY <3>1 DEF Client!TypeOK, ClientNamesInv
    <3>3. ClientHasSource(c) /\ result[c] = "none"
      BY <3>1, <3>2 DEF ClientJobInv, ClientNamesInv
    <3>4. repo[c].scm \in Providers
      BY <3>1, <3>2 DEF ClientNamesInv
    <3>5. QED
      BY <3>1, <3>2, <3>3, <3>4
  <2>1. CASE Client!Finish(c)
    <3>1. at_provider' = [at_provider EXCEPT ![c] = "idle"] /\ result' = [result EXCEPT ![c] = "ok"] /\ UNCHANGED <<asked, step>>
      BY <2>1 DEF Client!Finish, Client!Go
    <3>2. /\ its'[c] = IF step[c] = "scm" /\ repo[c].its # NoProvider THEN scm[c] ELSE its[c]
          /\ \A d \in Requesters : d # c => its'[d] = its[d]
          /\ its' \in [Requesters -> Client!Clients \cup {Client!Absent, Client!NoClient}]
          /\ step[c] = "scm" => repo[c].its = NoProvider \/ repo[c].its = repo[c].scm
      <4>1. step[c] = "scm" /\ repo[c].its \notin {NoProvider, repo[c].scm} => step' # step
        BY <1>12, <2>0 DEF Client!Integrate, Client!TypeOK, Client!Finish, Client!Go
      <4>2. step[c] = "scm" => repo[c].its = NoProvider \/ repo[c].its = repo[c].scm
        BY <3>1, <4>1
      <4>3. its' = IF step[c] = "scm" /\ repo[c].its # NoProvider THEN [its EXCEPT ![c] = scm[c]] ELSE its
        BY <1>12, <2>0, <4>2 DEF Client!Integrate, Client!ProviderAssumption
      <4>4. scm[c] \in Client!Clients \cup {Client!Absent, Client!NoClient} /\ its \in [Requesters -> Client!Clients \cup {Client!Absent, Client!NoClient}]
        BY DEF Client!TypeOK
      <4>5. QED
        BY <4>2, <4>3, <4>4
    <3>3. Client!TypeOK'
      BY <2>0, <3>1, <3>2 DEF Client!TypeOK
    <3>4. Client!OneClient' /\ ClientEntryInv'
      BY <2>0, <3>1, ClientMovesKeep DEF Client!TypeOK, ClientEntryInv
    <3>5. ClientNamesInv' /\ ClientJobInv'
      BY <2>0, <3>1, <3>2
        DEF Client!TypeOK, ClientNamesInv, ClientJobInv, ClientHasSource, ClientHasIssues
    <3>6. Client!ClientsFit'
      <4>1. repo[c].its # NoProvider => ClientHasIssues(c)'
        BY <2>0, <3>2 DEF ClientHasIssues, ClientHasSource, ClientJobInv
      <4>2. repo[c].its = NoProvider => its'[c] = Client!Absent
        BY <2>0, <3>2 DEF ClientNamesInv, Client!TypeOK, Client!ProviderAssumption
      <4>3. QED
        BY <2>0, <3>1, <3>2, <4>1, <4>2
          DEF Client!ClientsFit, ClientHasSource, ClientHasIssues, Client!TypeOK
    <3>7. QED
      BY <3>3, <3>4, <3>5, <3>6
  <2>2. CASE ~Client!Finish(c)
    <3>1. /\ step[c] = "scm" /\ repo[c].its \notin {NoProvider, repo[c].scm}
          /\ at_provider' = [at_provider EXCEPT ![c] = "look"] /\ asked' = [asked EXCEPT ![c] = repo[c].its]
          /\ step' = [step EXCEPT ![c] = "its"] /\ UNCHANGED <<its, result>>
      BY <1>12, <2>2 DEF Client!Integrate, Client!Go
    <3>2. repo[c].its \in Providers
      BY <3>1 DEF Client!TypeOK, Client!IssueNames
    <3>3. Client!TypeOK'
      BY <2>0, <3>1, <3>2 DEF Client!TypeOK
    <3>4. Client!OneClient' /\ ClientEntryInv'
      BY <2>0, <3>1, ClientMovesKeep DEF Client!TypeOK, ClientEntryInv
    <3>5. ClientNamesInv' /\ ClientJobInv'
      BY <2>0, <3>1, <3>2
        DEF Client!TypeOK, ClientNamesInv, ClientJobInv, ClientHasSource, ClientHasIssues
    <3>6. Client!ClientsFit'
      BY <2>0, <3>1 DEF Client!ClientsFit, Client!TypeOK
    <3>7. QED
      BY <3>3, <3>4, <3>5, <3>6
  <2>3. QED
    BY <2>1, <2>2
<1>13. QED
  BY <1>1, <1>2, <1>3, <1>5, <1>6, <1>7, <1>8, <1>9, <1>11, <1>12
    DEF Client!Next, Client!Work, Client!Proceed

(* A provider has one client as long as the service runs, made under the   *)
(* lock, and a job has the clients of the providers of its repository, for *)
(* any callers and any providers.                                          *)
THEOREM ClientsAreFit == ServicesSpec => []ClientsFit
<1> DEFINE Inv == part = "providers" => ClientInv
<1>1. ServicesInit => Inv
  BY ClientInit, ServicesAssumption DEF ServicesInit, Starts
<1>2. Inv /\ [ServicesNext]_services => Inv'
  BY ClientNext, ClientRuns, ServicesAssumption
<1>3. Inv => ClientsFit
  BY DEF ClientInv, ClientsFit
<1>4. QED
  BY <1>1, <1>2, <1>3, PTL DEF ServicesSpec

-----------------------------------------------------------------------------
(* The accounts.                                                           *)

(* What users keep of a provider.                                          *)
LoginEntries == [identity : Identities, cred : Nat]
Logins == [n : Nat \ {0}, identity : Identities, step : {"pull", "push", "token"},
           user : Nat, seen : SUBSET LoginEntries]

(* The types of the variables the proof needs.                             *)
LoginTypeInv ==
    /\ users \in Seq(SUBSET LoginEntries) /\ begun \in Nat
    /\ logins \subseteq Logins
    /\ \A l \in logins : l.n <= begun /\ (l.step = "pull" \/ l.user \in DOMAIN users)
    /\ \A t \in DOMAIN tokens : tokens[t] \in DOMAIN users
    /\ owner \in [Identities -> {0} \cup DOMAIN users]
    /\ disturbed \subseteq Identities
    /\ \A a \in access : a.n \in Nat /\ a.n <= begun

(* A user who is between the two updates of a login lacks its identity.    *)
LoginPushMisses == \A l \in logins : l.step = "push" => ~Login!Has(l.user, l.identity)

(* No two logins are between their two updates of one identity of a user.  *)
LoginPushUnique ==
    \A l, m \in logins :
      l.step = "push" /\ m.step = "push" /\ l.user = m.user /\ l.identity = m.identity => l = m

(* Who holds an identity, by the step of its login.                        *)
LoginHoldersAt(i) ==
    /\ (\A l \in Login!Of(i) : l.step = "pull")
         => Login!HoldersOf(i) = IF owner[i] = 0 THEN {} ELSE {owner[i]}
    /\ \A l \in Login!Of(i) :
         /\ l.step \in {"push", "token"} /\ owner[i] # 0 => l.user = owner[i]
         /\ l.step = "push" => Login!HoldersOf(i) = {}
         /\ l.step = "token" => Login!HoldersOf(i) = {l.user}

(* A login under way is later than every token, and its credential is the  *)
(* one that is kept once it is put.                                        *)
LoginCredentialsAt(i) ==
    /\ \A l \in Login!Of(i) :
         /\ \A a \in access : a.identity = {i} => a.n < l.n
         /\ l.step = "token" => \A u \in DOMAIN users : \A e \in users[u] : e.identity = i => e.cred = l.n
    /\ \A u \in DOMAIN users : \A e \in users[u] : \A a \in access :
         e.identity = i /\ a.identity = {i} => e.cred >= a.n

(* What holds of an identity whose logins neither overlapped nor failed.   *)
LoginIdentitiesInv ==
    \A i \in Identities \ disturbed :
        /\ \A l, m \in Login!Of(i) : l = m
        /\ LoginHoldersAt(i) /\ LoginCredentialsAt(i)

(* The inductive invariant.                                                *)
LoginInv == LoginTypeInv /\ LoginPushMisses /\ LoginPushUnique /\ LoginIdentitiesInv /\ Login!Reachable

(* A user has an identity when one of its entries is of it.                *)
LEMMA LoginHasEntry ==
    ASSUME NEW u, NEW i PROVE Login!Has(u, i) <=> \E e \in users[u] : e.identity = i
  BY DEF Login!Has, Login!Tells

(* Nobody is known yet, or one user of all providers.                      *)
LEMMA LoginInit == ASSUME Login!AccountsAssumption, Login!Init PROVE LoginInv
  <1> USE DEF Login!Init
  <1>1. LoginTypeInv
    <2>1. CASE users = <<>> BY <2>1 DEF LoginTypeInv
    <2>2. CASE users = <<{Login!Entry(i, 0) : i \in Identities}>>
      <3>1. {Login!Entry(i, 0) : i \in Identities} \in SUBSET LoginEntries
        BY DEF Login!Entry, LoginEntries
      <3>2. users \in Seq(SUBSET LoginEntries) BY <2>2, <3>1
      <3>3. Len(users) = 1 /\ 1 \in DOMAIN users BY <2>2
      <3>4. QED BY <3>2, <3>3 DEF LoginTypeInv
    <2>3. QED BY <2>1, <2>2
  <1>2. LoginPushMisses /\ LoginPushUnique BY DEF LoginPushMisses, LoginPushUnique
  <1>3. (\A i \in Identities : LoginHoldersAt(i)) /\ Login!Reachable
    <2>1. CASE users = <<>>
      <3>1. DOMAIN users = {} /\ Len(users) = 0 BY <2>1
      <3>2. \A i \in Identities : Login!HoldersOf(i) = {} /\ owner[i] = 0 /\ Login!Of(i) = {}
        BY <3>1 DEF Login!HoldersOf, Login!Of
      <3>3. QED BY <3>1, <3>2 DEF LoginHoldersAt, Login!Reachable
    <2>2. CASE users = <<{Login!Entry(i, 0) : i \in Identities}>>
      <3>1. DOMAIN users = {1} /\ Len(users) = 1 /\ users[1] = {Login!Entry(i, 0) : i \in Identities}
        BY <2>2
      <3>2. \A i \in Identities : Login!Entry(i, 0) \in users[1] /\ Login!Entry(i, 0).identity = i
        BY <3>1 DEF Login!Entry
      <3>3. \A i \in Identities : Login!Has(1, i) BY <3>2, LoginHasEntry
      <3>4. \A i \in Identities : Login!HoldersOf(i) = {1}
        BY <3>1, <3>3 DEF Login!HoldersOf
      <3>5. \A i \in Identities : owner[i] = 1 /\ Login!Of(i) = {} BY <3>1 DEF Login!Of
      <3>6. Login!Reachable
        <4>1. PICK i \in Identities : TRUE BY DEF Login!AccountsAssumption
        <4>2. users[1] # {} BY <3>2, <4>1
        <4>3. QED BY <3>1, <4>2 DEF Login!Reachable
      <3>7. \A i \in Identities : LoginHoldersAt(i)
        <4>1. SUFFICES ASSUME NEW i \in Identities
                       PROVE  /\ Login!HoldersOf(i) = IF owner[i] = 0 THEN {} ELSE {owner[i]}
                              /\ Login!Of(i) = {}
          BY DEF LoginHoldersAt
        <4>2. Login!HoldersOf(i) = {1} BY <3>4
        <4>3. owner[i] = 1 /\ Login!Of(i) = {} BY <3>5
        <4> HIDE DEF Login!Init
        <4>4. owner[i] # 0
          <5>1. PICK o : o = owner[i] OBVIOUS
          <5>2. o \in Nat /\ o = 1 BY <4>3, <5>1
          <5>3. o # 0 BY <5>2
          <5>4. QED BY <5>1, <5>3
        <4>5. QED BY <4>2, <4>3, <4>4
      <3>8. QED BY <3>6, <3>7
    <2>3. QED BY <2>1, <2>2
  <1>4. LoginIdentitiesInv BY <1>3 DEF LoginIdentitiesInv, LoginCredentialsAt, Login!Of
  <1>5. QED BY <1>1, <1>2, <1>3, <1>4 DEF LoginInv

(* The identities a step is not about.                                     *)
LEMMA LoginOtherIdentity ==
    ASSUME LoginIdentitiesInv, NEW j \in Identities \ disturbed,
           Login!Of(j)' = Login!Of(j), owner'[j] = owner[j], Login!HoldersOf(j)' = Login!HoldersOf(j),
           \A u \in DOMAIN users' : \A e \in users'[u] :
             e.identity = j => u \in DOMAIN users /\ e \in users[u],
           \A a \in access' : a.identity = {j} => a \in access
    PROVE  (\A l, m \in Login!Of(j)' : l = m) /\ LoginHoldersAt(j)' /\ LoginCredentialsAt(j)'
  <1>1. (\A l, m \in Login!Of(j) : l = m) /\ LoginHoldersAt(j) /\ LoginCredentialsAt(j)
    BY DEF LoginIdentitiesInv
  <1>2. LoginHoldersAt(j)' BY <1>1 DEF LoginHoldersAt
  <1>3. LoginCredentialsAt(j)' BY <1>1 DEF LoginCredentialsAt
  <1>4. QED BY <1>1, <1>2, <1>3

(* A login begins; if its identity has none, it is the only one.           *)
LEMMA LoginHandleCallbackKeeps ==
    ASSUME LoginInv, NEW i \in Identities, Login!HandleCallback(i) PROVE LoginInv'
  <1> USE DEF LoginInv
  <1>0. PICK new : new = [n |-> begun + 1, identity |-> i, step |-> "pull", user |-> 0, seen |-> {}]
    OBVIOUS
  <1>1. /\ begun' = begun + 1 /\ logins' = logins \cup {new}
        /\ disturbed' = IF Login!Of(i) # {} THEN disturbed \cup {i} ELSE disturbed
        /\ UNCHANGED <<users, tokens, expired, access, refreshes, owner, stranded>>
    BY <1>0 DEF Login!HandleCallback
  <1>2. new \in Logins /\ new.n = begun + 1 /\ new.identity = i /\ new.step = "pull"
    BY <1>0 DEF Logins, LoginTypeInv
  <1>3. \A j \in Identities : /\ Login!HoldersOf(j)' = Login!HoldersOf(j)
                              /\ Login!Of(j)' = Login!Of(j) \cup (IF j = i THEN {new} ELSE {})
    BY <1>1, <1>2 DEF Login!HoldersOf, Login!Has, Login!Of
  <1>4. \A j \in Identities \ disturbed' :
          j \in Identities \ disturbed /\ (j = i => Login!Of(j) = {}) /\ (j # i => Login!Of(j)' = Login!Of(j))
    BY <1>1, <1>3
  <1>5. LoginTypeInv'
    <2>1. begun \in Nat /\ begun' \in Nat BY <1>1 DEF LoginTypeInv
    <2>2. \A l \in logins' : l.n <= begun' /\ (l.step = "pull" \/ l.user \in DOMAIN users)
      <3>1. \A l \in logins : l.n \in Nat BY DEF LoginTypeInv, Logins
      <3>2. QED BY <1>1, <1>2, <2>1, <3>1 DEF LoginTypeInv
    <2>3. \A a \in access' : a.n \in Nat /\ a.n <= begun' BY <1>1, <2>1 DEF LoginTypeInv
    <2>4. logins' \subseteq Logins /\ disturbed' \subseteq Identities
      BY <1>1, <1>2 DEF LoginTypeInv
    <2>5. QED BY <1>1, <2>1, <2>2, <2>3, <2>4 DEF LoginTypeInv
  <1>6. LoginPushMisses' /\ LoginPushUnique'
    BY <1>1, <1>2 DEF LoginPushMisses, LoginPushUnique, Login!Has
  <1>7. LoginIdentitiesInv'
    <2>1. ASSUME NEW j \in Identities \ disturbed'
          PROVE  (\A l, m \in Login!Of(j)' : l = m) /\ LoginHoldersAt(j)' /\ LoginCredentialsAt(j)'
      <3>0. j \in Identities \ disturbed BY <1>4
      <3>1. CASE j = i
        <4>1. Login!Of(j)' = {new} /\ Login!Of(j) = {} BY <3>1, <1>3, <1>4
        <4>2. LoginHoldersAt(j) /\ LoginCredentialsAt(j) BY <3>0 DEF LoginIdentitiesInv
        <4>3. LoginHoldersAt(j)' BY <4>1, <4>2, <1>1, <1>2, <1>3 DEF LoginHoldersAt
        <4>4. \A a \in access : a.n \in Nat /\ a.n <= begun BY DEF LoginTypeInv
        <4>5. \A a \in access : a.n < new.n BY <4>4, <1>2 DEF LoginTypeInv
        <4>6. LoginCredentialsAt(j)'
          BY <4>1, <4>2, <4>5, <1>1, <1>2 DEF LoginCredentialsAt
        <4>7. QED BY <4>1, <4>3, <4>6
      <3>2. CASE j # i BY <3>0, <3>2, <1>1, <1>3, <1>4, LoginOtherIdentity
      <3>3. QED BY <3>1, <3>2
    <2>2. QED BY <2>1 DEF LoginIdentitiesInv
  <1>8. Login!Reachable'
    <2>1. \A l \in logins : l \in logins' BY <1>1
    <2>2. QED BY <2>1, <1>1 DEF Login!Reachable
  <1>9. QED BY <1>5, <1>6, <1>7, <1>8

(* The one login of an identity moves on, or ends.                         *)
LEMMA LoginMoves ==
    ASSUME LoginInv, NEW l \in logins, NEW R, \A m \in R : m.identity = l.identity,
           logins' = (logins \ {l}) \cup R
    PROVE  /\ l.identity \in Identities
           /\ \A j \in Identities : j # l.identity => Login!Of(j)' = Login!Of(j)
           /\ l.identity \notin disturbed => Login!Of(l.identity) = {l} /\ Login!Of(l.identity)' = R
  <1>1. l.identity \in Identities BY DEF LoginInv, LoginTypeInv, Logins
  <1>2. \A j \in Identities : j # l.identity => Login!Of(j)' = Login!Of(j) BY DEF Login!Of
  <1>3. l.identity \notin disturbed => Login!Of(l.identity) = {l}
    <2>1. l \in Login!Of(l.identity) BY DEF Login!Of
    <2>2. QED BY <1>1, <2>1 DEF LoginInv, LoginIdentitiesInv
  <1>4. Login!Of(l.identity)' = (Login!Of(l.identity) \ {l}) \cup R BY DEF Login!Of
  <1>5. QED BY <1>1, <1>2, <1>3, <1>4

(* The first update of a user who has the identity.                        *)
LEMMA LoginPullFoundKeeps ==
    ASSUME LoginInv, NEW l \in logins, NEW u \in Login!HoldersOf(l.identity), l.step = "pull", NEW left, NEW next,
           left = {e \in users[u] : e.identity # l.identity},
           users' = [users EXCEPT ![u] = left],
           next = [l EXCEPT !.step = "push", !.user = u, !.seen = left], Login!Goes(l, next),
           UNCHANGED <<begun, tokens, expired, access, refreshes, owner, disturbed, stranded>>
    PROVE  LoginInv'
  <1> USE DEF LoginInv
  <1>1. u \in DOMAIN users /\ Login!Has(u, l.identity) /\ users \in Seq(SUBSET LoginEntries)
    BY DEF Login!HoldersOf, LoginTypeInv
  <1>2. /\ users' \in Seq(SUBSET LoginEntries) /\ DOMAIN users' = DOMAIN users
        /\ users'[u] = left /\ \A v \in DOMAIN users : v # u => users'[v] = users[v]
    BY <1>1
  <1>3. l \in Logins /\ l.n <= begun BY DEF LoginTypeInv
  <1>4. u \in Nat /\ left \in SUBSET LoginEntries BY <1>1
  <1>5. next \in Logins /\ next.n = l.n /\ next.identity = l.identity /\ next.step = "push" /\ next.user = u
    BY <1>3, <1>4 DEF Logins
  <1>6. logins' = (logins \ {l}) \cup {next} BY DEF Login!Goes
  <1>7. /\ l.identity \in Identities
        /\ \A j \in Identities : j # l.identity => Login!Of(j)' = Login!Of(j)
        /\ l.identity \notin disturbed => Login!Of(l.identity) = {l} /\ Login!Of(l.identity)' = {next}
    <2>1. PICK R : R = {next} OBVIOUS
    <2>2. QED BY <1>5, <1>6, <2>1, LoginMoves
  <1>8. /\ \A v \in DOMAIN users : \A e \in users'[v] : e \in users[v]
        /\ \A v \in DOMAIN users : \A e \in users[v] : e.identity # l.identity => e \in users'[v]
    BY <1>2
  <1>9. ~Login!Has(u, l.identity)' BY <1>2, LoginHasEntry DEF Login!Has, Login!Tells
  <1>10. \A v \in DOMAIN users : \A j : Login!Has(v, j)' => Login!Has(v, j)
    BY <1>8 DEF Login!Has, Login!Tells
  <1>11. \A v \in DOMAIN users : \A j : j # l.identity => (Login!Has(v, j)' <=> Login!Has(v, j))
    BY <1>8 DEF Login!Has, Login!Tells
  <1>12. LoginTypeInv'
    <2>1. \A m \in logins' : m.n <= begun /\ (m.step = "pull" \/ m.user \in DOMAIN users)
      BY <1>1, <1>3, <1>5, <1>6 DEF LoginTypeInv
    <2>2. logins' \subseteq Logins BY <1>5, <1>6 DEF LoginTypeInv
    <2>3. QED BY <1>2, <2>1, <2>2 DEF LoginTypeInv
  <1>13. LoginPushMisses' /\ LoginPushUnique'
    <2>1. ASSUME NEW m \in logins', m.step = "push" PROVE ~Login!Has(m.user, m.identity)'
      <3>1. CASE m = next BY <3>1, <1>5, <1>9
      <3>2. CASE m # next
        <4>1. m \in logins /\ m.user \in DOMAIN users BY <3>2, <2>1, <1>6 DEF LoginTypeInv
        <4>2. ~Login!Has(m.user, m.identity) BY <4>1, <2>1 DEF LoginPushMisses
        <4>3. QED BY <4>1, <4>2, <1>10
      <3>3. QED BY <3>1, <3>2
    <2>2. ASSUME NEW m \in logins, m.step = "push"
      PROVE ~(m.user = u /\ m.identity = l.identity)
      BY <2>2, <1>1 DEF LoginPushMisses
    <2>3. ASSUME NEW k \in logins', NEW m \in logins', k.step = "push", m.step = "push",
                 k.user = m.user, k.identity = m.identity
          PROVE  k = m
      <3>1. CASE k = next /\ m \in logins BY <3>1, <2>2, <2>3, <1>5
      <3>2. CASE m = next /\ k \in logins BY <3>2, <2>2, <2>3, <1>5
      <3>3. CASE k \in logins /\ m \in logins BY <3>3, <2>3 DEF LoginPushUnique
      <3>4. QED BY <3>1, <3>2, <3>3, <1>6
    <2>4. QED BY <2>1, <2>3 DEF LoginPushMisses, LoginPushUnique
  <1>14. \A j \in Identities : j # l.identity => Login!HoldersOf(j)' = Login!HoldersOf(j)
    BY <1>2, <1>11 DEF Login!HoldersOf
  <1>15. LoginIdentitiesInv'
    <2>1. ASSUME NEW j \in Identities \ disturbed
          PROVE  (\A k, m \in Login!Of(j)' : k = m) /\ LoginHoldersAt(j)' /\ LoginCredentialsAt(j)'
      <3>1. CASE j = l.identity
        <4>1. Login!Of(j) = {l} /\ Login!Of(j)' = {next} BY <3>1, <1>7
        <4>2. LoginHoldersAt(j) /\ LoginCredentialsAt(j) BY DEF LoginIdentitiesInv
        <4>3. Login!HoldersOf(j) = IF owner[j] = 0 THEN {} ELSE {owner[j]}
          BY <4>1, <4>2 DEF LoginHoldersAt
        <4>4. owner[j] = u /\ Login!HoldersOf(j) = {u} BY <4>3, <3>1
        <4>5. Login!HoldersOf(j)' = {}
          BY <4>4, <3>1, <1>2, <1>9, <1>10 DEF Login!HoldersOf
        <4>6. LoginHoldersAt(j)' BY <4>1, <4>4, <4>5, <1>5 DEF LoginHoldersAt
        <4>7. LoginCredentialsAt(j)'
          BY <4>1, <4>2, <1>2, <1>5, <1>8 DEF LoginCredentialsAt
        <4>8. QED BY <4>1, <4>6, <4>7
      <3>2. CASE j # l.identity
        <4>1. Login!Of(j)' = Login!Of(j) /\ Login!HoldersOf(j)' = Login!HoldersOf(j) /\ owner'[j] = owner[j]
          BY <3>2, <1>7, <1>14
        <4>2. QED BY <4>1, <1>2, <1>8, LoginOtherIdentity
      <3>3. QED BY <3>1, <3>2
    <2>2. QED BY <2>1 DEF LoginIdentitiesInv
  <1>16. Login!Reachable'
    <2>1. ASSUME NEW v \in DOMAIN users
          PROVE  users'[v] # {} \/ v \in stranded \/ \E m \in logins' : m.step = "push" /\ m.user = v
      <3>1. CASE v = u BY <3>1, <1>5, <1>6
      <3>2. CASE v # u
        <4>1. \A m \in logins : m.step = "push" => m \in logins' BY <1>6
        <4>2. QED BY <3>2, <4>1, <1>2 DEF Login!Reachable
      <3>3. QED BY <3>1, <3>2
    <2>2. QED BY <2>1, <1>2 DEF Login!Reachable
  <1>17. QED BY <1>12, <1>13, <1>15, <1>16

(* The first update makes a user when nobody has the identity.             *)
LEMMA LoginPullNewKeeps ==
    ASSUME LoginInv, NEW l \in logins, Login!HoldersOf(l.identity) = {}, l.step = "pull", NEW next,
           users' = Append(users, {}),
           next = [l EXCEPT !.step = "push", !.user = Len(users) + 1], Login!Goes(l, next),
           UNCHANGED <<begun, tokens, expired, access, refreshes, owner, disturbed, stranded>>
    PROVE  LoginInv'
  <1> USE DEF LoginInv
  <1>1. PICK n : n = Len(users) OBVIOUS
  <1>2. users \in Seq(SUBSET LoginEntries) BY DEF LoginTypeInv
  <1>3. /\ n \in Nat /\ DOMAIN users = 1 .. n
        /\ users' \in Seq(SUBSET LoginEntries) /\ DOMAIN users' = 1 .. n + 1 /\ users'[n + 1] = {}
        /\ \A v \in DOMAIN users : users'[v] = users[v]
    BY <1>1, <1>2
  <1>4. l \in Logins /\ l.n <= begun BY DEF LoginTypeInv
  <1>5. next \in Logins /\ next.n = l.n /\ next.identity = l.identity /\ next.step = "push" /\ next.user = n + 1
    <2>1. PICK k : k = n + 1 OBVIOUS
    <2>2. k \in Nat BY <1>3, <2>1
    <2>3. next = [l EXCEPT !.step = "push", !.user = k] BY <1>1, <2>1
    <2>4. next \in Logins /\ next.n = l.n /\ next.identity = l.identity /\ next.step = "push" /\ next.user = k
      BY <1>4, <2>2, <2>3 DEF Logins
    <2>5. QED BY <2>1, <2>4
  <1>6. logins' = (logins \ {l}) \cup {next} BY DEF Login!Goes
  <1>7. /\ l.identity \in Identities
        /\ \A j \in Identities : j # l.identity => Login!Of(j)' = Login!Of(j)
        /\ l.identity \notin disturbed => Login!Of(l.identity) = {l} /\ Login!Of(l.identity)' = {next}
    <2>1. PICK R : R = {next} OBVIOUS
    <2>2. QED BY <1>5, <1>6, <2>1, LoginMoves
  <1>8. DOMAIN users \subseteq DOMAIN users' /\ n + 1 \in DOMAIN users' /\ n + 1 \notin DOMAIN users
        /\ \A v \in DOMAIN users' : v = n + 1 \/ v \in DOMAIN users
    BY <1>3
  <1>9. \A j : ~Login!Has(n + 1, j)' /\ \A v \in DOMAIN users : Login!Has(v, j)' <=> Login!Has(v, j)
    BY <1>3 DEF Login!Has, Login!Tells
  <1>10. \A j : Login!HoldersOf(j)' = Login!HoldersOf(j) BY <1>8, <1>9 DEF Login!HoldersOf
  <1>12. LoginTypeInv'
    <2>1. \A m \in logins' : m.n <= begun /\ (m.step = "pull" \/ m.user \in DOMAIN users')
      BY <1>4, <1>5, <1>6, <1>8 DEF LoginTypeInv
    <2>2. logins' \subseteq Logins BY <1>5, <1>6 DEF LoginTypeInv
    <2>3. owner \in [Identities -> {0} \cup DOMAIN users'] BY <1>8 DEF LoginTypeInv
    <2>4. \A t \in DOMAIN tokens : tokens[t] \in DOMAIN users' BY <1>8 DEF LoginTypeInv
    <2>5. QED BY <1>3, <2>1, <2>2, <2>3, <2>4 DEF LoginTypeInv
  <1>13. LoginPushMisses' /\ LoginPushUnique'
    <2>1. ASSUME NEW m \in logins', m.step = "push" PROVE ~Login!Has(m.user, m.identity)'
      <3>1. CASE m = next BY <3>1, <1>5, <1>9
      <3>2. CASE m # next
        <4>1. m \in logins /\ m.user \in DOMAIN users BY <3>2, <2>1, <1>6 DEF LoginTypeInv
        <4>2. ~Login!Has(m.user, m.identity) BY <4>1, <2>1 DEF LoginPushMisses
        <4>3. QED BY <4>1, <4>2, <1>9
      <3>3. QED BY <3>1, <3>2
    <2>2. ASSUME NEW m \in logins, m.step = "push" PROVE m.user # n + 1
      BY <2>2, <1>8 DEF LoginTypeInv
    <2>3. ASSUME NEW k \in logins', NEW m \in logins', k.step = "push", m.step = "push",
                 k.user = m.user, k.identity = m.identity
          PROVE  k = m
      <3>1. CASE k = next /\ m \in logins BY <3>1, <2>2, <2>3, <1>5
      <3>2. CASE m = next /\ k \in logins BY <3>2, <2>2, <2>3, <1>5
      <3>3. CASE k \in logins /\ m \in logins BY <3>3, <2>3 DEF LoginPushUnique
      <3>4. QED BY <3>1, <3>2, <3>3, <1>6
    <2>4. QED BY <2>1, <2>3 DEF LoginPushMisses, LoginPushUnique
  <1>15. LoginIdentitiesInv'
    <2>1. ASSUME NEW j \in Identities \ disturbed
          PROVE  (\A k, m \in Login!Of(j)' : k = m) /\ LoginHoldersAt(j)' /\ LoginCredentialsAt(j)'
      <3>1. CASE j = l.identity
        <4>1. Login!Of(j) = {l} /\ Login!Of(j)' = {next} BY <3>1, <1>7
        <4>2. LoginHoldersAt(j) /\ LoginCredentialsAt(j) BY DEF LoginIdentitiesInv
        <4>3. Login!HoldersOf(j) = IF owner[j] = 0 THEN {} ELSE {owner[j]}
          BY <4>1, <4>2 DEF LoginHoldersAt
        <4>4. owner[j] = 0 /\ Login!HoldersOf(j) = {} BY <4>3, <3>1
        <4>6. LoginHoldersAt(j)' BY <4>1, <4>4, <1>5, <1>10 DEF LoginHoldersAt
        <4>7. LoginCredentialsAt(j)'
          BY <4>1, <4>2, <1>3, <1>5, <1>8 DEF LoginCredentialsAt
        <4>8. QED BY <4>1, <4>6, <4>7
      <3>2. CASE j # l.identity
        <4>1. Login!Of(j)' = Login!Of(j) /\ Login!HoldersOf(j)' = Login!HoldersOf(j) /\ owner'[j] = owner[j]
          BY <3>2, <1>7, <1>10
        <4>2. QED BY <4>1, <1>3, <1>8, LoginOtherIdentity
      <3>3. QED BY <3>1, <3>2
    <2>2. QED BY <2>1 DEF LoginIdentitiesInv
  <1>16. Login!Reachable'
    <2>1. ASSUME NEW v \in DOMAIN users'
          PROVE  users'[v] # {} \/ v \in stranded \/ \E m \in logins' : m.step = "push" /\ m.user = v
      <3>1. CASE v = n + 1 BY <3>1, <1>5, <1>6
      <3>2. CASE v # n + 1
        <4>1. \A m \in logins : m.step = "push" => m \in logins' BY <1>6
        <4>2. v \in DOMAIN users /\ users'[v] = users[v] BY <3>2, <1>3, <1>8
        <4>3. QED BY <4>1, <4>2 DEF Login!Reachable
      <3>3. QED BY <3>1, <3>2
    <2>2. QED BY <2>1 DEF Login!Reachable
  <1>17. QED BY <1>12, <1>13, <1>15, <1>16

(* The first update.                                                       *)
LEMMA LoginPullKeeps == ASSUME LoginInv, NEW l \in logins, Login!Pull(l) PROVE LoginInv'
  <1>1. CASE Login!HoldersOf(l.identity) # {}
    <2>1. PICK u \in Login!HoldersOf(l.identity) :
            /\ users' = [users EXCEPT ![u] = {e \in users[u] : e.identity # l.identity}]
            /\ Login!Goes(l, [l EXCEPT !.step = "push", !.user = u,
                                 !.seen = {e \in users[u] : e.identity # l.identity}])
      BY <1>1 DEF Login!Pull
    <2>2. PICK left : left = {e \in users[u] : e.identity # l.identity} OBVIOUS
    <2>3. PICK next : next = [l EXCEPT !.step = "push", !.user = u, !.seen = left] OBVIOUS
    <2>4. QED BY <2>1, <2>2, <2>3, LoginPullFoundKeeps DEF Login!Pull
  <1>2. CASE Login!HoldersOf(l.identity) = {}
    <2>1. PICK next : next = [l EXCEPT !.step = "push", !.user = Len(users) + 1] OBVIOUS
    <2>2. users' = Append(users, {}) /\ Login!Goes(l, next)
      BY <1>2, <2>1 DEF Login!Pull, Login!Inserted
    <2>3. QED BY <1>2, <2>1, <2>2, LoginPullNewKeeps DEF Login!Pull
  <1>3. QED BY <1>1, <1>2

(* The second update puts the identity to the user of the first.           *)
LEMMA LoginPushKeeps == ASSUME LoginInv, NEW l \in logins, Login!Push(l) PROVE LoginInv'
  <1> USE DEF LoginInv
  <1>1. l.step = "push" /\ ~Login!Has(l.user, l.identity)
        /\ UNCHANGED <<begun, tokens, expired, access, refreshes, owner, disturbed, stranded>>
    BY DEF Login!Push, LoginPushMisses
  <1>2. l \in Logins /\ l.n <= begun /\ l.user \in DOMAIN users /\ l.n \in Nat /\ l.identity \in Identities
    BY <1>1 DEF LoginTypeInv, Logins
  <1>3. l.user # 0 /\ users \in Seq(SUBSET LoginEntries) BY <1>2 DEF LoginTypeInv
  <1>4. PICK new : new = Login!Entry(l.identity, l.n) OBVIOUS
  <1>5. PICK before : before = users[l.user] OBVIOUS
  <1>6. PICK next : next = [l EXCEPT !.step = "token", !.seen = before] OBVIOUS
  <1>7. /\ users' = [users EXCEPT ![l.user] = @ \cup {new}] /\ Login!Goes(l, next)
    BY <1>1, <1>3, <1>4, <1>5, <1>6 DEF Login!Push, Login!Misses
  <1>8. new \in LoginEntries /\ new.identity = l.identity /\ new.cred = l.n
    BY <1>2, <1>4 DEF Login!Entry, LoginEntries
  <1>9. before \in SUBSET LoginEntries BY <1>2, <1>3, <1>5
  <1>10. next \in Logins /\ next.n = l.n /\ next.identity = l.identity /\ next.step = "token" /\ next.user = l.user
    BY <1>2, <1>6, <1>9 DEF Logins
  <1>11. logins' = (logins \ {l}) \cup {next} BY <1>7 DEF Login!Goes
  <1>12. /\ \A j \in Identities : j # l.identity => Login!Of(j)' = Login!Of(j)
         /\ l.identity \notin disturbed => Login!Of(l.identity) = {l} /\ Login!Of(l.identity)' = {next}
    <2>1. PICK R : R = {next} OBVIOUS
    <2>2. QED BY <1>10, <1>11, <2>1, LoginMoves
  <1>13. /\ users' \in Seq(SUBSET LoginEntries) /\ DOMAIN users' = DOMAIN users
         /\ users'[l.user] = users[l.user] \cup {new}
         /\ \A v \in DOMAIN users : v # l.user => users'[v] = users[v]
    BY <1>2, <1>3, <1>7, <1>8
  <1>14. /\ \A v \in DOMAIN users : \A e \in users'[v] : e \in users[v] \/ (v = l.user /\ e = new)
         /\ \A v \in DOMAIN users : \A e \in users[v] : e \in users'[v]
    BY <1>13
  <1>15. \A v \in DOMAIN users : \A j : (v # l.user \/ j # l.identity) => (Login!Has(v, j)' <=> Login!Has(v, j))
    BY <1>8, <1>14 DEF Login!Has, Login!Tells
  <1>16. Login!Has(l.user, l.identity)'
    <2>1. new \in users'[l.user] BY <1>13
    <2>2. QED BY <2>1, <1>8 DEF Login!Has, Login!Tells
  <1>17. LoginTypeInv'
    <2>1. \A m \in logins' : m.n <= begun /\ (m.step = "pull" \/ m.user \in DOMAIN users)
      BY <1>2, <1>10, <1>11 DEF LoginTypeInv
    <2>2. logins' \subseteq Logins BY <1>10, <1>11 DEF LoginTypeInv
    <2>3. QED BY <1>1, <1>13, <2>1, <2>2 DEF LoginTypeInv
  <1>18. LoginPushMisses' /\ LoginPushUnique'
    <2>1. ASSUME NEW m \in logins', m.step = "push"
      PROVE m \in logins /\ ~Login!Has(m.user, m.identity)'
      <3>1. m \in logins /\ m # l /\ m.user \in DOMAIN users
        BY <2>1, <1>10, <1>11 DEF LoginTypeInv
      <3>2. m.user # l.user \/ m.identity # l.identity
        BY <2>1, <3>1, <1>1 DEF LoginPushUnique
      <3>3. ~Login!Has(m.user, m.identity) BY <2>1, <3>1 DEF LoginPushMisses
      <3>4. QED BY <3>1, <3>2, <3>3, <1>15
    <2>2. QED BY <2>1 DEF LoginPushMisses, LoginPushUnique
  <1>19. \A j \in Identities : j # l.identity => Login!HoldersOf(j)' = Login!HoldersOf(j)
    BY <1>13, <1>15 DEF Login!HoldersOf
  <1>20. LoginIdentitiesInv'
    <2>1. ASSUME NEW j \in Identities \ disturbed
          PROVE  (\A k, m \in Login!Of(j)' : k = m) /\ LoginHoldersAt(j)' /\ LoginCredentialsAt(j)'
      <3>1. CASE j = l.identity
        <4>1. Login!Of(j) = {l} /\ Login!Of(j)' = {next} BY <3>1, <1>12
        <4>2. LoginHoldersAt(j) /\ LoginCredentialsAt(j) BY DEF LoginIdentitiesInv
        <4>3. Login!HoldersOf(j) = {} /\ (owner[j] # 0 => l.user = owner[j])
          BY <4>1, <4>2, <1>1 DEF LoginHoldersAt
        <4>4. \A v \in DOMAIN users : ~Login!Has(v, j) BY <4>3 DEF Login!HoldersOf
        <4>5. Login!HoldersOf(j)' = {l.user}
          BY <4>4, <3>1, <1>2, <1>13, <1>15, <1>16 DEF Login!HoldersOf
        <4>6. LoginHoldersAt(j)' BY <4>1, <4>3, <4>5, <1>1, <1>10 DEF LoginHoldersAt
        <4>7. LoginCredentialsAt(j)'
          <5>1. \A v \in DOMAIN users : \A e \in users'[v] : e.identity = j => e = new
            BY <4>4, <1>14, LoginHasEntry
          <5>2. \A a \in access : a.n \in Nat /\ (a.identity = {j} => a.n < l.n)
            BY <4>1, <4>2 DEF LoginCredentialsAt, LoginTypeInv
          <5>3. QED
            BY <4>1, <5>1, <5>2, <1>1, <1>2, <1>8, <1>10, <1>13 DEF LoginCredentialsAt
        <4>8. QED BY <4>1, <4>6, <4>7
      <3>2. CASE j # l.identity
        <4>1. Login!Of(j)' = Login!Of(j) /\ Login!HoldersOf(j)' = Login!HoldersOf(j) /\ owner'[j] = owner[j]
          BY <3>2, <1>1, <1>12, <1>19
        <4>2. \A v \in DOMAIN users' : \A e \in users'[v] : e.identity = j => v \in DOMAIN users /\ e \in users[v]
          BY <3>2, <1>8, <1>13, <1>14
        <4>3. QED BY <4>1, <4>2, <1>1, LoginOtherIdentity
      <3>3. QED BY <3>1, <3>2
    <2>2. QED BY <2>1, <1>1 DEF LoginIdentitiesInv
  <1>21. Login!Reachable'
    <2>1. ASSUME NEW v \in DOMAIN users
          PROVE  users'[v] # {} \/ v \in stranded \/ \E m \in logins' : m.step = "push" /\ m.user = v
      <3>1. CASE v = l.user BY <3>1, <1>13
      <3>2. CASE v # l.user
        <4>1. \A m \in logins : m.user = v => m \in logins' BY <3>2, <1>11
        <4>2. QED BY <3>2, <4>1, <1>13 DEF Login!Reachable
      <3>3. QED BY <3>1, <3>2
    <2>2. QED BY <2>1, <1>1, <1>13 DEF Login!Reachable
  <1>22. QED BY <1>17, <1>18, <1>20, <1>21

(* A login that ends leaves its identity with its user.                    *)
LEMMA LoginEndKeeps ==
    ASSUME LoginInv, NEW l \in logins, logins' = logins \ {l},
           UNCHANGED <<users, begun>>, disturbed \subseteq disturbed', disturbed' \subseteq Identities,
           l.step = "push" => l.identity \in disturbed' /\ l.user \in stranded',
           stranded \subseteq stranded',
           owner' = IF l.step = "token" /\ owner[l.identity] = 0
                      THEN [owner EXCEPT ![l.identity] = l.user] ELSE owner,
           \A t \in DOMAIN tokens' : tokens'[t] \in DOMAIN users,
           \A a \in access' :
             a \in access \/ (a.n = l.n /\ a.identity = {l.identity} /\ l.step = "token")
    PROVE  LoginInv'
  <1> USE DEF LoginInv
  <1>1. /\ l \in Logins /\ l.n <= begun /\ l.n \in Nat /\ l.identity \in Identities
        /\ l.step \in {"pull", "push", "token"} /\ (l.step # "pull" => l.user \in DOMAIN users)
    BY DEF LoginTypeInv, Logins
  <1>2. /\ \A j \in Identities : j # l.identity => Login!Of(j)' = Login!Of(j)
        /\ l.identity \notin disturbed => Login!Of(l.identity) = {l} /\ Login!Of(l.identity)' = {}
    <2>1. PICK R : R = {} OBVIOUS
    <2>2. logins' = (logins \ {l}) \cup R /\ \A m \in R : m.identity = l.identity BY <2>1
    <2>3. QED BY <2>1, <2>2, LoginMoves
  <1>3. owner' \in [Identities -> {0} \cup DOMAIN users]
        /\ \A j \in Identities : j # l.identity => owner'[j] = owner[j]
    BY <1>1 DEF LoginTypeInv
  <1>4. LoginTypeInv' BY <1>1, <1>3 DEF LoginTypeInv
  <1>5. LoginPushMisses' /\ LoginPushUnique'
    BY DEF LoginPushMisses, LoginPushUnique, Login!Has
  <1>6. \A j : Login!HoldersOf(j)' = Login!HoldersOf(j) BY DEF Login!HoldersOf, Login!Has
  <1>7. LoginIdentitiesInv'
    <2>1. ASSUME NEW j \in Identities \ disturbed'
          PROVE  (\A k, m \in Login!Of(j)' : k = m) /\ LoginHoldersAt(j)' /\ LoginCredentialsAt(j)'
      <3>0. j \in Identities \ disturbed OBVIOUS
      <3>1. CASE j = l.identity
        <4>1. Login!Of(j) = {l} /\ Login!Of(j)' = {} BY <3>0, <3>1, <1>2
        <4>2. LoginHoldersAt(j) /\ LoginCredentialsAt(j) BY <3>0 DEF LoginIdentitiesInv
        <4>3. CASE l.step = "pull"
          <5>1. Login!HoldersOf(j) = (IF owner[j] = 0 THEN {} ELSE {owner[j]})
            BY <4>1, <4>2, <4>3 DEF LoginHoldersAt
          <5>2. owner'[j] = owner[j] BY <4>3
          <5>3. LoginHoldersAt(j)' BY <4>1, <5>1, <5>2, <1>6 DEF LoginHoldersAt
          <5>4. LoginCredentialsAt(j)' BY <4>1, <4>2, <4>3 DEF LoginCredentialsAt
          <5>5. QED BY <4>1, <5>3, <5>4
        <4>4. CASE l.step = "token"
          <5>1. Login!HoldersOf(j) = {l.user} /\ (owner[j] # 0 => l.user = owner[j])
            BY <4>1, <4>2, <4>4 DEF LoginHoldersAt
          <5>2. owner'[j] = l.user
            <6>1. CASE owner[j] = 0 BY <6>1, <3>1, <4>4, <1>1 DEF LoginTypeInv
            <6>2. CASE owner[j] # 0 BY <6>2, <3>1, <5>1
            <6>3. QED BY <6>1, <6>2
          <5>3. l.user # 0 BY <4>4, <1>1 DEF LoginTypeInv
          <5>4. LoginHoldersAt(j)' BY <4>1, <5>1, <5>2, <5>3, <1>6 DEF LoginHoldersAt
          <5>5. /\ \A v \in DOMAIN users : \A e \in users[v] : e.identity = j => e.cred = l.n
                /\ \A a \in access : a.n \in Nat /\ (a.identity = {j} => a.n < l.n)
            BY <4>1, <4>2, <4>4 DEF LoginCredentialsAt, LoginTypeInv
          <5>6. LoginCredentialsAt(j)' BY <4>1, <5>5, <1>1 DEF LoginCredentialsAt
          <5>7. QED BY <4>1, <5>4, <5>6
        <4>5. QED BY <4>3, <4>4, <3>1, <1>1
      <3>2. CASE j # l.identity
        <4>1. Login!Of(j)' = Login!Of(j) /\ Login!HoldersOf(j)' = Login!HoldersOf(j) /\ owner'[j] = owner[j]
          BY <3>0, <3>2, <1>2, <1>3, <1>6
        <4>2. \A a \in access' : a.identity = {j} => a \in access BY <3>2
        <4>3. QED BY <3>0, <4>1, <4>2, LoginOtherIdentity
      <3>3. QED BY <3>1, <3>2
    <2>2. QED BY <2>1 DEF LoginIdentitiesInv
  <1>8. Login!Reachable'
    <2>1. ASSUME NEW v \in DOMAIN users, users[v] = {}
          PROVE  v \in stranded' \/ \E m \in logins' : m.step = "push" /\ m.user = v
      BY <2>1 DEF Login!Reachable
    <2>2. QED BY <2>1 DEF Login!Reachable
  <1>9. QED BY <1>4, <1>5, <1>7, <1>8

(* The login ends with its tokens.                                         *)
LEMMA LoginTokenKeeps ==
    ASSUME LoginInv, NEW l \in logins, Login!LoginToken(l) PROVE LoginInv'
  <1>1. PICK a : a = [n |-> l.n, identity |-> {l.identity}, user |-> l.user, tells |-> Login!Tells(l.seen)]
    OBVIOUS
  <1>2. /\ l.step = "token" /\ logins' = logins \ {l} /\ access' = access \cup {a}
        /\ UNCHANGED <<users, begun, expired, refreshes, disturbed, stranded>>
        /\ owner' = IF l.step = "token" /\ owner[l.identity] = 0
                       THEN [owner EXCEPT ![l.identity] = l.user] ELSE owner
    BY <1>1 DEF Login!LoginToken
  <1>3. a.n = l.n /\ a.identity = {l.identity} BY <1>1
  <1>4. \A t \in DOMAIN tokens' : tokens'[t] \in DOMAIN users
    BY <1>2 DEF Login!LoginToken, LoginInv, LoginTypeInv
  <1>5. disturbed \subseteq Identities BY DEF LoginInv, LoginTypeInv
  <1>6. QED BY <1>2, <1>3, <1>4, <1>5, LoginEndKeeps

(* The login fails.                                                        *)
LEMMA LoginFailKeeps == ASSUME LoginInv, NEW l \in logins, Login!Fail(l) PROVE LoginInv'
  <1>1. l.identity \in Identities /\ disturbed \subseteq Identities
        /\ \A t \in DOMAIN tokens : tokens[t] \in DOMAIN users
    BY DEF LoginInv, LoginTypeInv, Logins
  <1>2. /\ logins' = logins \ {l} /\ UNCHANGED <<users, begun, tokens, expired, access, refreshes>>
        /\ disturbed \subseteq disturbed' /\ disturbed' \subseteq Identities
        /\ l.step = "push" => l.identity \in disturbed' /\ l.user \in stranded'
        /\ stranded \subseteq stranded'
        /\ owner' = IF l.step = "token" /\ owner[l.identity] = 0
                       THEN [owner EXCEPT ![l.identity] = l.user] ELSE owner
    BY <1>1 DEF Login!Fail
  <1>3. QED BY <1>1, <1>2, LoginEndKeeps

(* The steps that leave users and logins alone.                            *)
LEMMA LoginRestKeeps ==
    ASSUME LoginInv,
           (\E t \in DOMAIN tokens : Login!RefreshAccessToken(t) \/ Login!Expire(t)) \/ UNCHANGED Login!vars
    PROVE  LoginInv'
  <1> USE DEF LoginInv
  <1>1. /\ UNCHANGED <<users, logins, begun, tokens, owner, disturbed, stranded>>
        /\ \A a \in access' : a \in access \/ (a.n = 0 /\ a.identity = {})
    BY DEF Login!RefreshAccessToken, Login!Expire, Login!vars
  <1>2. LoginTypeInv' BY <1>1 DEF LoginTypeInv
  <1>3. LoginPushMisses' /\ LoginPushUnique' /\ Login!Reachable'
    BY <1>1 DEF LoginPushMisses, LoginPushUnique, Login!Reachable, Login!Has
  <1>4. \A j : Login!HoldersOf(j)' = Login!HoldersOf(j) /\ Login!Of(j)' = Login!Of(j)
    BY <1>1 DEF Login!HoldersOf, Login!Has, Login!Of
  <1>5. \A j : \A a \in access' : a.identity = {j} => a \in access BY <1>1
  <1>6. LoginIdentitiesInv' BY <1>1, <1>4, <1>5, LoginOtherIdentity DEF LoginIdentitiesInv
  <1>7. QED BY <1>2, <1>3, <1>6

(* Every step keeps the invariant.                                         *)
LEMMA LoginNext == ASSUME LoginInv, [Login!Next]_(Login!vars) PROVE LoginInv'
  <1>1. ASSUME NEW i \in Identities, Login!HandleCallback(i)
    PROVE LoginInv' BY <1>1, LoginHandleCallbackKeeps
  <1>2. ASSUME NEW l \in logins, Login!Pull(l) \/ Login!Push(l) \/ Login!LoginToken(l) \/ Login!Fail(l)
    PROVE LoginInv'
    BY <1>2, LoginPullKeeps, LoginPushKeeps, LoginTokenKeeps, LoginFailKeeps
  <1>3. CASE (\E t \in DOMAIN tokens : Login!RefreshAccessToken(t) \/ Login!Expire(t)) \/ UNCHANGED Login!vars
    BY <1>3, LoginRestKeeps
  <1>4. QED BY <1>1, <1>2, <1>3 DEF Login!Next

(* The invariant tells who has an identity that is not logging in.         *)
LEMMA LoginSameHolder ==
    ASSUME LoginInv, NEW i \in Identities \ disturbed, owner[i] # 0, Login!Of(i) = {}
    PROVE  Login!HoldersOf(i) = {owner[i]}
  BY DEF LoginInv, LoginIdentitiesInv, LoginHoldersAt

(* What TypeOK says beyond TypeInv and PushUnique.                         *)
LoginRestInv ==
    /\ begun <= MaxLogins /\ refreshes \in 0 .. MaxRefreshes
    /\ \A u \in DOMAIN users : \A e, f \in users[u] :
         e.cred <= begun /\ (e.identity = f.identity => e = f)
    /\ tokens \in Seq(Nat) /\ expired \subseteq DOMAIN tokens
    /\ stranded \subseteq DOMAIN users

(* The users after a step have no identity twice and no later credential.  *)
LoginEntriesFit ==
    /\ \A u \in DOMAIN users' : \A e, f \in users'[u] :
         e.cred <= begun' /\ (e.identity = f.identity => e = f)
    /\ DOMAIN users \subseteq DOMAIN users'

(* The entries stay as they are.                                           *)
LEMMA LoginEntriesStay ==
    ASSUME LoginInv, LoginRestInv, users' = users, begun' \in {begun, begun + 1}
      PROVE LoginEntriesFit
  <1>1. \A u \in DOMAIN users : \A e \in users[u] : e.cred \in Nat /\ e.cred <= begun
    BY DEF LoginInv, LoginTypeInv, LoginEntries, LoginRestInv
  <1>2. begun \in Nat BY DEF LoginInv, LoginTypeInv
  <1>3. QED BY <1>1, <1>2 DEF LoginRestInv, LoginEntriesFit

(* The first update takes entries away.                                    *)
LEMMA LoginPullFits ==
    ASSUME LoginInv, LoginRestInv, NEW l \in logins, Login!Pull(l) PROVE LoginEntriesFit
  <1>1. users \in Seq(SUBSET LoginEntries) /\ begun' = begun
    BY DEF LoginInv, LoginTypeInv, Login!Pull
  <1>2. ASSUME NEW u \in Login!HoldersOf(l.identity),
               users' = [users EXCEPT ![u] = {e \in users[u] : e.identity # l.identity}]
        PROVE  LoginEntriesFit
    BY <1>1, <1>2 DEF LoginRestInv, LoginEntriesFit, Login!HoldersOf
  <1>3. CASE users' = Append(users, {})
    <2>1. DOMAIN users' = DOMAIN users \cup {Len(users) + 1} BY <1>1, <1>3
    <2>2. \A u \in DOMAIN users : users'[u] = users[u] BY <1>1, <1>3
    <2>3. users'[Len(users) + 1] = {} BY <1>1, <1>3
    <2>4. QED BY <1>1, <2>1, <2>2, <2>3 DEF LoginRestInv, LoginEntriesFit
  <1>4. QED BY <1>2, <1>3 DEF Login!Pull

(* The second update adds an entry that was missing.                       *)
LEMMA LoginPushFits ==
    ASSUME LoginInv, LoginRestInv, NEW l \in logins, Login!Push(l) PROVE LoginEntriesFit
  <1>1. users \in Seq(SUBSET LoginEntries) /\ begun' = begun
    BY DEF LoginInv, LoginTypeInv, Login!Push
  <1>2. CASE users' = users BY <1>1, <1>2, LoginEntriesStay
  <1>3. CASE /\ ~Login!Has(l.user, l.identity)
             /\ users' = [users EXCEPT ![l.user] = @ \cup {Login!Entry(l.identity, l.n)}]
    <2>0. PICK new : new = Login!Entry(l.identity, l.n) OBVIOUS
    <2>1. new.identity = l.identity /\ new.cred = l.n BY <2>0 DEF Login!Entry
    <2>2. l.n <= begun BY DEF LoginInv, LoginTypeInv
    <2>3. \A e \in users[l.user] : e.identity # l.identity BY <1>3, LoginHasEntry
    <2>4. DOMAIN users' = DOMAIN users BY <1>3
    <2>5. \A u \in DOMAIN users : \A e \in users'[u] :
             e \in users[u] \/ (u = l.user /\ e = new)
      BY <1>3, <2>0
    <2>6. QED BY <1>1, <2>1, <2>2, <2>3, <2>4, <2>5 DEF LoginRestInv, LoginEntriesFit
  <1>4. QED BY <1>2, <1>3 DEF Login!Push, Login!Misses

(* Every step keeps the rest of the types.                                 *)
LEMMA LoginNextRest ==
    ASSUME Login!AccountsAssumption, LoginInv, LoginRestInv, [Login!Next]_(Login!vars)
      PROVE LoginRestInv'
  <1> USE DEF LoginRestInv
  <1>1. ASSUME NEW i \in Identities, Login!HandleCallback(i) PROVE LoginRestInv'
    <2>1. /\ users' = users /\ begun' = begun + 1 /\ begun < MaxLogins
          /\ UNCHANGED <<tokens, expired, refreshes, stranded>>
      BY <1>1 DEF Login!HandleCallback
    <2>2. LoginEntriesFit BY <2>1, LoginEntriesStay
    <2>3. begun' <= MaxLogins BY <2>1 DEF LoginInv, LoginTypeInv, Login!AccountsAssumption
    <2>4. QED BY <2>1, <2>2, <2>3 DEF LoginEntriesFit
  <1>2. ASSUME NEW l \in logins, Login!Pull(l) \/ Login!Push(l) PROVE LoginRestInv'
    <2>1. LoginEntriesFit BY <1>2, LoginPullFits, LoginPushFits
    <2>2. UNCHANGED <<begun, tokens, expired, refreshes, stranded>>
      BY <1>2 DEF Login!Pull, Login!Push
    <2>3. QED BY <2>1, <2>2 DEF LoginEntriesFit
  <1>3. ASSUME NEW l \in logins, Login!LoginToken(l) PROVE LoginRestInv'
    <2>1. /\ tokens' = Append(tokens, l.user)
          /\ UNCHANGED <<users, begun, expired, refreshes, stranded>>
      BY <1>3 DEF Login!LoginToken
    <2>2. l.user \in Nat BY DEF LoginInv, LoginTypeInv, Logins
    <2>3. tokens' \in Seq(Nat) /\ DOMAIN tokens \subseteq DOMAIN tokens' BY <2>1, <2>2
    <2>4. LoginEntriesFit BY <2>1, LoginEntriesStay
    <2>5. QED BY <2>1, <2>3, <2>4 DEF LoginEntriesFit
  <1>4. ASSUME NEW l \in logins, Login!Fail(l) PROVE LoginRestInv'
    <2>1. /\ stranded' = IF l.step = "push" THEN stranded \cup {l.user} ELSE stranded
          /\ UNCHANGED <<users, begun, tokens, expired, refreshes>>
      BY <1>4 DEF Login!Fail
    <2>2. l.step = "push" => l.user \in DOMAIN users BY DEF LoginInv, LoginTypeInv
    <2>3. LoginEntriesFit BY <2>1, LoginEntriesStay
    <2>4. QED BY <2>1, <2>2, <2>3 DEF LoginEntriesFit
  <1>5. ASSUME NEW t \in DOMAIN tokens, Login!RefreshAccessToken(t) \/ Login!Expire(t)
    PROVE LoginRestInv'
    <2>1. /\ UNCHANGED <<users, begun, tokens, stranded>>
          /\ expired' \subseteq expired \cup {t}
      BY <1>5 DEF Login!RefreshAccessToken, Login!Expire
    <2>2. refreshes' \in 0 .. MaxRefreshes
      BY <1>5 DEF Login!RefreshAccessToken, Login!Expire, Login!AccountsAssumption
    <2>3. QED BY <2>1, <2>2
  <1>6. CASE UNCHANGED Login!vars BY <1>6 DEF Login!vars
  <1>7. QED BY <1>1, <1>2, <1>3, <1>4, <1>5, <1>6 DEF Login!Next

(* The rest of the types holds in the beginning.                           *)
LEMMA LoginInitRest == ASSUME Login!AccountsAssumption, Login!Init PROVE LoginRestInv
  <1> USE DEF Login!Init
  <1>1. \A u \in DOMAIN users : \A e \in users[u] : e = Login!Entry(e.identity, 0)
    BY DEF Login!Entry
  <1>2. \A u \in DOMAIN users : \A e \in users[u] : e.cred = 0 BY <1>1 DEF Login!Entry
  <1>3. QED BY <1>1, <1>2 DEF LoginRestInv, Login!AccountsAssumption

(* HandleCallback and its two updates keep an identity with the account it *)
(* first led to, with its latest credential, and leave no account out of   *)
(* reach, for any identities and any number of logins, tokens and          *)
(* refreshes.                                                              *)
THEOREM AccountsAreKept == ServicesSpec => []AccountsKept
  <1> DEFINE Inv == part = "accounts" => LoginInv /\ LoginRestInv
  <1>1. ServicesInit => Inv
    BY LoginInit, LoginInitRest, ServicesAssumption DEF ServicesInit, Starts
  <1>2. Inv /\ [ServicesNext]_services => Inv'
    BY LoginNext, LoginNextRest, LoginRuns, ServicesAssumption
  <1>3. LoginInv /\ LoginRestInv => Login!AccountsKept
    <2> SUFFICES ASSUME LoginInv, LoginRestInv PROVE Login!AccountsKept
      OBVIOUS
    <2>1. Login!SameAccount BY LoginSameHolder DEF Login!SameAccount
    <2>2. Login!LatestCredential
      <3>1. \A u \in DOMAIN users : \A e \in users[u] : e.identity \in Identities
        BY DEF LoginInv, LoginTypeInv, LoginEntries
      <3>2. QED
        BY <3>1
          DEF LoginInv, LoginIdentitiesInv, LoginCredentialsAt, Login!LatestCredential
    <2>3. Login!TypeOK
      <3>1. owner \in [Identities -> 0 .. Len(users)] BY DEF LoginInv, LoginTypeInv
      <3>2. begun \in 0 .. MaxLogins
        BY ServicesAssumption DEF LoginInv, LoginTypeInv, LoginRestInv, Login!AccountsAssumption
      <3>3. \A u \in DOMAIN users : \A e, f \in users[u] :
               e.cred \in 0 .. begun /\ (e.identity = f.identity => e = f)
        <4>1. \A u \in DOMAIN users : \A e \in users[u] : e.cred \in Nat
          BY DEF LoginInv, LoginTypeInv, LoginEntries
        <4>2. QED BY <4>1 DEF LoginInv, LoginTypeInv, LoginRestInv
      <3>4. QED
        BY <3>1, <3>2, <3>3
          DEF LoginInv, LoginTypeInv, LoginPushUnique, LoginRestInv, Login!TypeOK
    <2>4. QED BY <2>1, <2>2, <2>3 DEF LoginInv, Login!AccountsKept
  <1>4. Inv => AccountsKept BY <1>3 DEF AccountsKept
  <1>5. QED BY <1>1, <1>2, <1>4, PTL DEF ServicesSpec

(* A refreshed access token tells of every provider of its user that has   *)
(* no login under way: RefreshAccessToken reads the user again.            *)
THEOREM RefreshesTell == ServicesSpec => RefreshTells
  <1> DEFINE Inv == part = "accounts" => LoginInv
  <1>1. ServicesInit => Inv BY LoginInit, ServicesAssumption DEF ServicesInit, Starts
  <1>2. Inv /\ [ServicesNext]_services => Inv' BY LoginNext, LoginRuns
  <1>3. LoginInv /\ [Login!Next]_(Login!vars) => Login!RefreshTold
    <2> SUFFICES ASSUME LoginInv, Login!Next, NEW a \in access' \ access, a.n = 0,
                        NEW i \in Identities \ disturbed, owner[i] = a.user, Login!Of(i) = {}
                 PROVE  i \in a.tells
      BY DEF Login!RefreshTold, Login!vars
    <2>1. PICK t \in DOMAIN tokens : Login!RefreshAccessToken(t)
      <3>1. ASSUME NEW l \in logins, Login!LoginToken(l) PROVE FALSE
        <4>1. a.n = l.n BY <3>1 DEF Login!LoginToken
        <4>2. l.n # 0 BY DEF LoginInv, LoginTypeInv, Logins
        <4>3. QED BY <4>1, <4>2
      <3>2. QED
        BY <3>1
          DEF Login!Next, Login!HandleCallback, Login!Pull, Login!Push, Login!Fail, Login!Expire
    <2>2. a.user = tokens[t] /\ a.tells = Login!Tells(users[tokens[t]])
      BY <2>1 DEF Login!RefreshAccessToken, Login!Read
    <2>3. tokens[t] \in DOMAIN users /\ tokens[t] # 0 BY DEF LoginInv, LoginTypeInv
    <2>4. Login!HoldersOf(i) = {tokens[t]} BY <2>2, <2>3, LoginSameHolder
    <2>5. QED BY <2>2, <2>4 DEF Login!HoldersOf, Login!Has
  <1>4. Inv /\ [ServicesNext]_services => [part = "accounts" => Login!RefreshTold]_services
    <2> SUFFICES ASSUME Inv, [ServicesNext]_services, part = "accounts" PROVE Login!RefreshTold
      OBVIOUS
    <2>1. [Login!Next]_(Login!vars) BY LoginRuns
    <2>2. LoginInv OBVIOUS
    <2>3. QED BY <1>3, <2>1, <2>2
  <1>5. QED BY <1>1, <1>2, <1>4, PTL DEF ServicesSpec, RefreshTells

-----------------------------------------------------------------------------
(* The session of the browser.                                             *)

(* The requests under way, and that an expiry needs a session.             *)
StoreFetchesInv ==
    /\ \A f \in fetches : /\ f \in [n : Nat, kind : {"login", "refresh"}, account : Accounts]
                          /\ f.n \in 1 .. sent
    /\ \A f, g \in fetches : f.n = g.n => f = g
    /\ promise \in [n : Nat, state : {"none", "pending", "ok", "rejected"},
                    account : Accounts \cup {NoAccount}]
    /\ refresh = NoAccount => ~valid

(* Without a race one request is under way at most: the one the promise is *)
(* for, of the session that there is, or a login. Only a token that has    *)
(* expired is refreshed.                                                   *)
StoreCalmInv ==
    ~raced =>
        /\ \A f, g \in fetches : f = g
        /\ \A f \in fetches :
              /\ isFetching /\ promise = Store!Pending(f.n)
              /\ f.kind = "refresh" => f.account = refresh /\ ~valid
        /\ promise = Store!NoPromise => ~valid

(* The inductive invariant.                                                *)
StoreInv ==
    /\ Store!TypeOK /\ StoreFetchesInv /\ StoreCalmInv
    /\ Store!SessionIsLast /\ Store!ShownIsTrue /\ Store!TokenOfSession /\ Store!WaitsForSomething /\ Store!ValidServes

(* The page begins with the token of the local storage.                    *)
LEMMA StoreInit == ASSUME Store!TokenStoreAssumption, Store!Init PROVE StoreInv
  <1> USE DEF Store!Init, Store!NoPromise, Store!Pending, Store!isAuthenticated
  <1>1. Store!TypeOK
    <2>1. Store!NoPromise.n = 0 /\ Store!NoPromise.state = "none" /\ Store!NoPromise.account = NoAccount
      OBVIOUS
    <2>2. 0 \in 0 .. sent /\ sent \in 0 .. MaxFetches BY DEF Store!TokenStoreAssumption
    <2>3. {valid, isFetching, told_user, raced, failed} \subseteq BOOLEAN OBVIOUS
    <2>4. QED BY <2>1, <2>2, <2>3 DEF Store!TypeOK
  <1>2. StoreFetchesInv BY DEF StoreFetchesInv
  <1>3. StoreCalmInv BY DEF StoreCalmInv
  <1>4. Store!SessionIsLast /\ Store!ShownIsTrue /\ Store!TokenOfSession
    BY DEF Store!SessionIsLast, Store!ShownIsTrue, Store!TokenOfSession
  <1>5. Store!WaitsForSomething /\ Store!ValidServes
    BY DEF Store!WaitsForSomething, Store!ValidServes
  <1>6. QED BY <1>1, <1>2, <1>3, <1>4, <1>5 DEF StoreInv

(* The steps that leave the page alone.                                    *)
LEMMA StoreQuietKeeps ==
    ASSUME Store!TokenStoreAssumption, StoreInv,
           Store!Expire \/ (\E a \in Accounts : Store!Revoke(a)) \/ UNCHANGED Store!vars
    PROVE  StoreInv'
  <1> USE DEF StoreInv, Store!NoPromise, Store!Pending, Store!isAuthenticated
  <1>1. CASE Store!Expire
    BY <1>1
      DEF Store!Expire, Store!TypeOK, StoreFetchesInv, StoreCalmInv, Store!SessionIsLast,
          Store!ShownIsTrue,
                Store!TokenOfSession, Store!WaitsForSomething, Store!ValidServes
  <1>2. CASE \E a \in Accounts : Store!Revoke(a)
    <2>1. UNCHANGED <<refresh, stored, promise, valid, isFetching, told_user, fetches, sent,
                      account, raced, failed>>
      BY <1>2 DEF Store!Revoke
    <2>2. invalid' \subseteq Accounts BY <1>2 DEF Store!Revoke, Store!TypeOK
    <2>3. QED
      BY <2>1, <2>2
        DEF Store!Revoke, Store!TypeOK, StoreFetchesInv, StoreCalmInv, Store!SessionIsLast,
            Store!ShownIsTrue,
                Store!TokenOfSession, Store!WaitsForSomething, Store!ValidServes
  <1>3. CASE UNCHANGED Store!vars
    BY <1>3
      DEF Store!vars, Store!TypeOK, StoreFetchesInv, StoreCalmInv, Store!SessionIsLast,
          Store!ShownIsTrue,
                Store!TokenOfSession, Store!WaitsForSomething, Store!ValidServes
  <1>4. QED BY <1>1, <1>2, <1>3

(* A step that ends the session keeps the invariant, whatever is under way *)
(* after it.                                                               *)
LEMMA StoreEndKeeps ==
    ASSUME Store!TokenStoreAssumption, StoreInv,
           refresh' = NoAccount, stored' = NoAccount,
           promise' = Store!NoPromise, isFetching' = FALSE, valid' = FALSE, told_user' = FALSE,
           account' = NoAccount, raced' = (fetches' # {}), failed' = FALSE,
           fetches' \subseteq fetches, sent' = sent, invalid' = invalid
    PROVE  StoreInv'
  <1> USE DEF StoreInv
  <1>1. /\ promise' \in [n : Nat, state : {"none", "pending", "ok", "rejected"},
                         account : Accounts \cup {NoAccount}]
        /\ promise'.n = 0 /\ promise'.state = "none" /\ promise'.account = NoAccount
    BY DEF Store!NoPromise
  <1>2. sent \in Nat BY DEF Store!TypeOK, Store!TokenStoreAssumption
  <1>3. {valid, isFetching, told_user, raced, failed}' \subseteq BOOLEAN OBVIOUS
  <1>4. Store!TypeOK' BY <1>1, <1>2, <1>3 DEF Store!TypeOK
  <1>5. StoreFetchesInv' BY <1>1 DEF StoreFetchesInv
  <1>6. StoreCalmInv' BY DEF StoreCalmInv
  <1>7. Store!SessionIsLast' /\ Store!ShownIsTrue'
    BY DEF Store!SessionIsLast, Store!ShownIsTrue, Store!isAuthenticated
  <1>8. Store!TokenOfSession' /\ Store!ValidServes' /\ Store!WaitsForSomething'
    BY <1>1 DEF Store!TokenOfSession, Store!ValidServes, Store!WaitsForSomething
  <1>9. QED BY <1>4, <1>5, <1>6, <1>7, <1>8

(* The user logs out.                                                      *)
LEMMA StoreLogoutKeeps ==
    ASSUME Store!TokenStoreAssumption, StoreInv, Store!logout PROVE StoreInv'
  <1> USE DEF StoreInv
  <1>1. /\ refresh' = NoAccount /\ stored' = NoAccount
        /\ promise' = Store!NoPromise /\ isFetching' = FALSE /\ valid' = FALSE /\ told_user' = FALSE
        /\ account' = NoAccount /\ raced' = (fetches # {}) /\ failed' = FALSE
        /\ fetches' = fetches /\ sent' = sent /\ invalid' = invalid
    BY DEF Store!logout, Store!LoggedOut
  <1>2. QED BY <1>1, StoreEndKeeps

(* A request that is begun: it has a number of its own, and the promise is *)
(* for it.                                                                 *)
LEMMA StoreFetchBegins ==
    ASSUME Store!TokenStoreAssumption, Store!TypeOK, StoreFetchesInv,
           NEW kind \in {"login", "refresh"}, NEW a \in Accounts, NEW others \in SUBSET fetches,
           Store!Fetch(kind, a, others)
    PROVE  /\ sent' \in 0 .. MaxFetches
           /\ \A f \in fetches' : /\ f \in [n : Nat, kind : {"login", "refresh"}, account : Accounts]
                                  /\ f.n \in 1 .. sent'
           /\ \A f, g \in fetches' : f.n = g.n => f = g
           /\ \E f \in fetches' : f.n = sent'
  <1> DEFINE new == [n |-> sent + 1, kind |-> kind, account |-> a]
  <1>1. sent \in Nat /\ sent' = sent + 1 /\ sent' \in 0 .. MaxFetches
    BY DEF Store!Fetch, Store!TypeOK, Store!TokenStoreAssumption
  <1>2. new \in [n : Nat, kind : {"login", "refresh"}, account : Accounts] /\ new.n = sent'
    BY <1>1
  <1>3. fetches' = others \cup {new} BY DEF Store!Fetch
  <1> HIDE DEF new
  <1>6. \A f \in others : /\ f \in [n : Nat, kind : {"login", "refresh"}, account : Accounts]
                          /\ f.n \in 1 .. sent
    BY DEF StoreFetchesInv
  <1>7. \A f \in fetches' : /\ f \in [n : Nat, kind : {"login", "refresh"}, account : Accounts]
                            /\ f.n \in 1 .. sent'
    BY <1>1, <1>2, <1>3, <1>6
  <1>8. \A f, g \in fetches' : f.n = g.n => f = g
    <2> SUFFICES ASSUME NEW f \in fetches', NEW g \in fetches', f.n = g.n PROVE f = g
      OBVIOUS
    <2>1. CASE f \in others /\ g \in others BY <2>1 DEF StoreFetchesInv
    <2>2. CASE f = new /\ g = new BY <2>2
    <2>3. CASE f = new /\ g \in others BY <2>3, <1>1, <1>2, <1>6
    <2>4. CASE g = new /\ f \in others BY <2>4, <1>1, <1>2, <1>6
    <2> QED BY <2>1, <2>2, <2>3, <2>4, <1>3
  <1>9. QED BY <1>1, <1>2, <1>3, <1>7, <1>8

(* What the promise of a request that is begun looks like.                 *)
LEMMA StorePendingPromise ==
    ASSUME NEW n \in Nat
    PROVE  /\ Store!Pending(n) \in [n : Nat, state : {"none", "pending", "ok", "rejected"},
                              account : Accounts \cup {NoAccount}]
           /\ Store!Pending(n).n = n /\ Store!Pending(n).state = "pending" /\ Store!Pending(n).account = NoAccount
           /\ Store!Pending(n) # Store!NoPromise
  BY DEF Store!Pending, Store!NoPromise

(* A step that begins a request keeps the invariant: in a calm store there *)
(* was none, or the step counts as a race.                                 *)
LEMMA StoreFetchKeeps ==
    ASSUME Store!TokenStoreAssumption, StoreInv,
           NEW kind \in {"login", "refresh"}, NEW a \in Accounts, NEW others \in SUBSET fetches,
           Store!Fetch(kind, a, others),
           stored' = refresh', refresh' = refresh, account' = account, invalid' = invalid,
           told_user' \in BOOLEAN, valid' \in BOOLEAN, raced' \in BOOLEAN, failed' \in BOOLEAN,
           ~raced' => ~raced /\ others = {} /\ told_user' = Store!isAuthenticated,
           kind = "refresh" => a = refresh /\ (raced' \/ ~valid'),
           valid' => valid
    PROVE  StoreInv'
  <1> USE DEF StoreInv
  <1>1. sent \in Nat /\ sent' = sent + 1 /\ sent' \in Nat
    BY DEF Store!Fetch, Store!TypeOK, Store!TokenStoreAssumption
  <1>2. promise' = Store!Pending(sent') /\ isFetching' = TRUE BY <1>1 DEF Store!Fetch
  <1>3. sent' \in 0 .. MaxFetches
    BY StoreFetchBegins
  <1>4. /\ \A f \in fetches' : /\ f \in [n : Nat, kind : {"login", "refresh"}, account : Accounts]
                              /\ f.n \in 1 .. sent'
        /\ \A f, g \in fetches' : f.n = g.n => f = g
    BY StoreFetchBegins
  <1>5. \E f \in fetches' : f.n = sent'
    BY StoreFetchBegins
  <1>6. /\ promise' \in [n : Nat, state : {"none", "pending", "ok", "rejected"},
                         account : Accounts \cup {NoAccount}]
        /\ promise'.n = sent' /\ promise'.state = "pending" /\ promise'.account = NoAccount
        /\ promise' # Store!NoPromise
    BY <1>1, <1>2, StorePendingPromise
  <1>7. Store!TypeOK'
    <2>1. \A f \in fetches' : f.n \in 1 .. sent' BY <1>4
    <2>2. sent' \in 0 .. sent' BY <1>1
    <2> QED BY <1>2, <1>3, <1>6, <2>1, <2>2 DEF Store!TypeOK
  <1>8. StoreFetchesInv' BY <1>4, <1>6 DEF StoreFetchesInv
  <1>9. StoreCalmInv'
    <2> SUFFICES ASSUME ~raced'
                 PROVE  /\ \A f, g \in fetches' : f = g
                        /\ \A f \in fetches' :
                              /\ isFetching' /\ promise' = Store!Pending(f.n)
                              /\ f.kind = "refresh" => f.account = refresh' /\ ~valid'
                        /\ promise' = Store!NoPromise => ~valid'
      BY DEF StoreCalmInv
    <2>1. fetches' = {[n |-> sent', kind |-> kind, account |-> a]} BY <1>1 DEF Store!Fetch
    <2>2. \A f, g \in fetches' : f = g BY <2>1
    <2>3. \A f \in fetches' : f.n = sent' /\ f.kind = kind /\ f.account = a BY <2>1
    <2>4. QED BY <1>2, <1>6, <2>2, <2>3
  <1>10. Store!WaitsForSomething'
    <2>1. fetches' # {} BY <1>5
    <2>2. \E f \in fetches' : f.n = promise'.n BY <1>5, <1>6
    <2>3. QED BY <2>1, <2>2 DEF Store!WaitsForSomething
  <1>11. Store!SessionIsLast' BY DEF Store!SessionIsLast
  <1>12. Store!ShownIsTrue' BY DEF Store!ShownIsTrue, Store!isAuthenticated
  <1>13. Store!TokenOfSession' /\ Store!ValidServes'
    BY <1>6 DEF Store!TokenOfSession, Store!ValidServes
  <1>14. QED BY <1>7, <1>8, <1>9, <1>10, <1>11, <1>12, <1>13

(* A request asks for the access token.                                    *)
LEMMA StoreGetKeeps ==
    ASSUME Store!TokenStoreAssumption, StoreInv, Store!getAccessToken PROVE StoreInv'
  <1> USE DEF StoreInv
  <1>0. UNCHANGED <<refresh, stored, valid, told_user, invalid, account, raced, failed>>
    BY DEF Store!getAccessToken
  <1>1. CASE refresh = NoAccount
    <2>1. promise' = Store!Rejected /\ UNCHANGED <<isFetching, fetches, sent>>
      BY <1>1 DEF Store!getAccessToken
    <2>2. ~valid /\ sent \in Nat
      BY <1>1 DEF StoreFetchesInv, Store!TypeOK, Store!TokenStoreAssumption
    <2>3. ~raced => fetches = {}
      BY <2>2
        DEF Store!getAccessToken, Store!Due, StoreCalmInv, Store!Pending, Store!NoPromise
    <2>4. /\ promise' \in [n : Nat, state : {"none", "pending", "ok", "rejected"},
                           account : Accounts \cup {NoAccount}]
          /\ promise'.n = 0 /\ promise'.state = "rejected" /\ promise'.account = NoAccount
          /\ promise' # Store!NoPromise
      BY <2>1 DEF Store!Rejected, Store!NoPromise
    <2>5. Store!TypeOK' BY <1>0, <2>1, <2>2, <2>4 DEF Store!TypeOK
    <2>6. StoreFetchesInv' BY <1>0, <2>1, <2>4 DEF StoreFetchesInv
    <2>7. StoreCalmInv' BY <1>0, <2>1, <2>3, <2>4 DEF StoreCalmInv
    <2>8. Store!SessionIsLast' /\ Store!ShownIsTrue'
      BY <1>0 DEF Store!SessionIsLast, Store!ShownIsTrue, Store!isAuthenticated
    <2>9. Store!TokenOfSession' /\ Store!ValidServes' /\ Store!WaitsForSomething'
      BY <1>0, <2>1, <2>2, <2>4
        DEF Store!TokenOfSession, Store!ValidServes, Store!WaitsForSomething
    <2>10. QED BY <2>5, <2>6, <2>7, <2>8, <2>9
  <1>2. CASE refresh # NoAccount
    <2>1. Store!Fetch("refresh", refresh, fetches) /\ refresh \in Accounts
      BY <1>2 DEF Store!getAccessToken, Store!TypeOK
    <2>2. ~raced => fetches = {} /\ ~valid
      BY DEF Store!getAccessToken, Store!Due, StoreCalmInv, StoreFetchesInv, Store!Pending,
          Store!NoPromise
    <2> DEFINE k == "refresh"
    <2>3. k \in {"login", "refresh"} /\ fetches \in SUBSET fetches /\ Store!Fetch(k, refresh, fetches) /\ k = "refresh"
      BY <2>1
    <2> HIDE DEF k
    <2>4. /\ stored' = refresh' /\ refresh' = refresh /\ account' = account /\ invalid' = invalid
          /\ told_user' \in BOOLEAN /\ valid' \in BOOLEAN /\ raced' \in BOOLEAN /\ failed' \in BOOLEAN
          /\ ~raced' => ~raced /\ fetches = {} /\ told_user' = Store!isAuthenticated
          /\ refresh = refresh /\ (raced' \/ ~valid')
          /\ valid' => valid
      BY <1>0, <2>2 DEF Store!TypeOK, Store!ShownIsTrue
    <2>9. QED
      BY <2>1, <2>3, <2>4, StoreFetchKeeps
  <1>3. QED BY <1>1, <1>2

(* The user logs in.                                                       *)
LEMMA StoreLoginKeeps ==
    ASSUME Store!TokenStoreAssumption, StoreInv, NEW a \in Accounts, Store!login(a)
      PROVE StoreInv'
  <1> DEFINE k == "login"
  <1>1. /\ k \in {"login", "refresh"} /\ fetches \in SUBSET fetches /\ Store!Fetch(k, a, fetches)
        /\ k # "refresh"
    BY DEF Store!login
  <1> HIDE DEF k
  <1>2. /\ UNCHANGED <<refresh, stored, valid, told_user, invalid, account, failed>>
        /\ raced' = (raced \/ fetches # {})
    BY DEF Store!login
  <1>3. /\ stored' = refresh' /\ refresh' = refresh /\ account' = account /\ invalid' = invalid
        /\ told_user' \in BOOLEAN /\ valid' \in BOOLEAN /\ raced' \in BOOLEAN /\ failed' \in BOOLEAN
        /\ ~raced' => ~raced /\ fetches = {} /\ told_user' = Store!isAuthenticated
        /\ valid' => valid
    BY <1>2 DEF StoreInv, Store!TypeOK, Store!ShownIsTrue
  <1>4. QED BY <1>1, <1>3, StoreFetchKeeps

(* The page is loaded again.                                               *)
LEMMA StoreReloadKeeps ==
    ASSUME Store!TokenStoreAssumption, StoreInv, Store!Reload PROVE StoreInv'
  <1> USE DEF StoreInv
  <1>1. /\ refresh' = refresh /\ stored' = refresh /\ stored = refresh
        /\ told_user' = (refresh # NoAccount) /\ valid' = FALSE /\ failed' = FALSE
        /\ invalid' = invalid /\ account' = account /\ raced' = raced
    BY DEF Store!Reload, Store!TypeOK
  <1>2. CASE refresh # NoAccount
    <2> DEFINE k == "refresh"  none == {}
    <2>1. /\ k \in {"login", "refresh"} /\ none \in SUBSET fetches /\ Store!Fetch(k, refresh, none)
          /\ none = {} /\ refresh \in Accounts
      BY <1>1, <1>2 DEF Store!Reload, Store!TypeOK
    <2> HIDE DEF k, none
    <2>2. /\ told_user' \in BOOLEAN /\ valid' \in BOOLEAN /\ raced' \in BOOLEAN /\ failed' \in BOOLEAN
          /\ ~raced' => ~raced /\ told_user' = Store!isAuthenticated
          /\ ~valid'
      BY <1>1 DEF Store!TypeOK, Store!isAuthenticated
    <2>3. QED BY <1>1, <2>1, <2>2, StoreFetchKeeps
  <1>3. CASE refresh = NoAccount
    <2>1. promise' = Store!NoPromise /\ isFetching' = FALSE /\ fetches' = {} /\ sent' = sent
      BY <1>1, <1>3 DEF Store!Reload
    <2>2. /\ promise' \in [n : Nat, state : {"none", "pending", "ok", "rejected"},
                           account : Accounts \cup {NoAccount}]
          /\ promise'.n = 0 /\ promise'.state = "none" /\ promise'.account = NoAccount
      BY <2>1 DEF Store!NoPromise
    <2>3. sent \in Nat BY DEF Store!TypeOK, Store!TokenStoreAssumption
    <2>0. {valid, isFetching, told_user, raced, failed}' \subseteq BOOLEAN
      BY <1>1, <2>1 DEF Store!TypeOK
    <2>4. Store!TypeOK' BY <1>1, <2>0, <2>1, <2>2, <2>3 DEF Store!TypeOK
    <2>5. StoreFetchesInv' BY <1>1, <2>1, <2>2 DEF StoreFetchesInv
    <2>6. StoreCalmInv' BY <1>1, <2>1 DEF StoreCalmInv
    <2>7. Store!SessionIsLast' /\ Store!ShownIsTrue'
      BY <1>1 DEF Store!SessionIsLast, Store!ShownIsTrue, Store!isAuthenticated
    <2>8. Store!TokenOfSession' /\ Store!ValidServes' /\ Store!WaitsForSomething'
      BY <1>1, <2>1, <2>2
        DEF Store!TokenOfSession, Store!ValidServes, Store!WaitsForSomething
    <2>9. QED BY <2>4, <2>5, <2>6, <2>7, <2>8
  <1>4. QED BY <1>2, <1>3

(* In a calm store the answer is that of the promise, and nothing else is  *)
(* under way.                                                              *)
LEMMA StoreCalmAnswer ==
    ASSUME StoreInv, NEW f \in fetches, ~raced
    PROVE  /\ fetches \ {f} = {} /\ promise = Store!Pending(f.n) /\ promise.n = f.n
           /\ f.kind = "refresh" => f.account = refresh /\ ~valid
  <1>1. \A g \in fetches : g = f BY DEF StoreInv, StoreCalmInv
  <1>2. promise = Store!Pending(f.n) BY DEF StoreInv, StoreCalmInv
  <1>3. promise.n = f.n BY <1>2 DEF Store!Pending
  <1>4. f.kind = "refresh" => f.account = refresh /\ ~valid BY DEF StoreInv, StoreCalmInv
  <1>5. QED BY <1>1, <1>2, <1>3, <1>4

(* An answer brings an access token.                                       *)
LEMMA StoreAppliedKeeps ==
    ASSUME Store!TokenStoreAssumption, StoreInv, NEW f \in fetches, Store!Applied(f)
      PROVE StoreInv'
  <1> USE DEF StoreInv
  <1>1. /\ refresh' = f.account /\ stored' = f.account
        /\ valid' = TRUE /\ isFetching' = FALSE
        /\ fetches' = fetches \ {f} /\ sent' = sent
        /\ failed' = (promise'.state = "rejected" /\ (failed \/ raced))
        /\ told_user' = (told_user \/ f.kind = "login")
    BY DEF Store!Applied, Store!Notified
  <1>2. /\ f.account \in Accounts /\ f.account # NoAccount /\ f.kind \in {"login", "refresh"}
        /\ f.n \in 1 .. sent /\ sent \in Nat /\ f.n \in Nat
    BY DEF StoreFetchesInv, Store!TypeOK, Store!TokenStoreAssumption
  <1>3. CASE promise.n = f.n
    <2>1. promise' = [promise EXCEPT !.state = "ok", !.account = f.account]
      BY <1>3 DEF Store!Applied
    <2>2. /\ promise' \in [n : Nat, state : {"none", "pending", "ok", "rejected"},
                           account : Accounts \cup {NoAccount}]
          /\ promise'.n = promise.n /\ promise'.state = "ok" /\ promise'.account = f.account
      BY <2>1, <1>2 DEF StoreFetchesInv
    <2>3. promise' # Store!NoPromise BY <2>2 DEF Store!NoPromise
    <2>4. /\ ~raced' => account' = f.account /\ fetches' = {} /\ told_user'
          /\ raced' \in BOOLEAN /\ account' \in Accounts \cup {NoAccount} /\ invalid' \subseteq Accounts
      <3>1. CASE f.kind = "login"
        <4>1. /\ account' = f.account /\ invalid' = invalid \ {f.account}
              /\ raced' = (raced /\ (fetches' # {} \/ promise.n # f.n))
          BY <3>1 DEF Store!Applied
        <4>2. ~raced => fetches' = {} BY <1>1, StoreCalmAnswer
        <4>3. QED BY <4>1, <4>2, <1>1, <1>2, <1>3, <3>1 DEF Store!TypeOK
      <3>2. CASE f.kind = "refresh"
        <4>1. UNCHANGED <<account, invalid, raced>> BY <3>2 DEF Store!Applied
        <4>2. ~raced => fetches' = {} /\ f.account = refresh
          BY <1>1, <3>2, StoreCalmAnswer
        <4>3. ~raced => told_user /\ account = refresh
          BY <4>2, <1>2 DEF Store!ShownIsTrue, Store!isAuthenticated, Store!SessionIsLast
        <4>4. QED BY <4>1, <4>2, <4>3, <1>1 DEF Store!TypeOK
      <3>3. QED BY <3>1, <3>2, <1>2
    <2>5. {valid, isFetching, told_user, raced, failed}' \subseteq BOOLEAN
      BY <1>1, <2>4
    <2>6. promise'.n \in 0 .. sent' BY <2>2, <1>1, <1>2, <1>3
    <2>7. Store!TypeOK' BY <1>1, <1>2, <2>2, <2>4, <2>5, <2>6 DEF Store!TypeOK
    <2>8. StoreFetchesInv' BY <1>1, <1>2, <2>2 DEF StoreFetchesInv
    <2>9. StoreCalmInv' BY <1>1, <2>3, <2>4 DEF StoreCalmInv
    <2>10. Store!SessionIsLast' /\ Store!TokenOfSession'
      BY <1>1, <2>2, <2>4 DEF Store!SessionIsLast, Store!TokenOfSession
    <2>11. Store!ShownIsTrue'
      BY <1>1, <1>2, <2>4, <2>5 DEF Store!ShownIsTrue, Store!isAuthenticated
    <2>12. Store!ValidServes' /\ Store!WaitsForSomething'
      BY <1>1, <2>2 DEF Store!ValidServes, Store!WaitsForSomething
    <2>13. QED BY <2>7, <2>8, <2>9, <2>10, <2>11, <2>12
  <1>4. CASE promise.n # f.n
    <2>1. promise' = promise BY <1>4 DEF Store!Applied
    <2>2. raced BY <1>4, StoreCalmAnswer
    <2>3. /\ raced' /\ raced' \in BOOLEAN
          /\ account' \in Accounts \cup {NoAccount} /\ invalid' \subseteq Accounts
      <3>1. CASE f.kind = "login"
        <4>1. /\ account' = f.account /\ invalid' = invalid \ {f.account}
              /\ raced' = (raced /\ (fetches' # {} \/ promise.n # f.n))
          BY <3>1 DEF Store!Applied
        <4>2. QED BY <4>1, <1>2, <1>4, <2>2 DEF Store!TypeOK
      <3>2. CASE f.kind = "refresh"
        <4>1. UNCHANGED <<account, invalid, raced>> BY <3>2 DEF Store!Applied
        <4>2. QED BY <4>1, <2>2 DEF Store!TypeOK
      <3>3. QED BY <3>1, <3>2, <1>2
    <2>4. {valid, isFetching, told_user, raced, failed}' \subseteq BOOLEAN
      BY <1>1, <2>3
    <2>5. Store!TypeOK' BY <1>1, <1>2, <2>1, <2>3, <2>4 DEF Store!TypeOK
    <2>6. StoreFetchesInv' BY <1>1, <1>2, <2>1 DEF StoreFetchesInv
    <2>7. Store!WaitsForSomething' BY <1>1, <1>4, <2>1 DEF Store!WaitsForSomething
    <2>8. Store!ValidServes' BY <1>1, <2>2 DEF Store!ValidServes
    <2>9. QED
      BY <2>3, <2>5, <2>6, <2>7, <2>8
        DEF StoreCalmInv, Store!SessionIsLast, Store!ShownIsTrue, Store!TokenOfSession
  <1>5. QED BY <1>3, <1>4

(* An answer does not come.                                                *)
LEMMA StoreFailsKeeps ==
    ASSUME Store!TokenStoreAssumption, StoreInv, NEW f \in fetches, Store!Fails(f)
      PROVE StoreInv'
  <1> USE DEF StoreInv
  <1>1. /\ fetches' = fetches \ {f} /\ isFetching' = FALSE
        /\ failed' = (failed \/ raced \/ f.kind = "login")
        /\ UNCHANGED <<refresh, stored, valid, told_user, sent, invalid, account, raced>>
    BY DEF Store!Fails
  <1>2. /\ f.kind \in {"login", "refresh"}
        /\ f.n \in 1 .. sent /\ sent \in Nat /\ f.n \in Nat
    BY DEF StoreFetchesInv, Store!TypeOK, Store!TokenStoreAssumption
  <1>3. /\ promise' \in [n : Nat, state : {"none", "pending", "ok", "rejected"},
                         account : Accounts \cup {NoAccount}]
        /\ promise'.n = promise.n
        /\ promise.n # f.n => promise' = promise
        /\ promise.n = f.n => promise'.state = "rejected" /\ promise'.account = NoAccount
    <2>1. CASE promise.n = f.n
      <3>1. promise' = [Store!Rejected EXCEPT !.n = f.n] BY <2>1 DEF Store!Fails
      <3>2. promise' = [n |-> f.n, state |-> "rejected", account |-> NoAccount]
        BY <3>1 DEF Store!Rejected
      <3>3. QED BY <3>2, <2>1, <1>2
    <2>2. CASE promise.n # f.n BY <2>2 DEF Store!Fails, StoreFetchesInv
    <2>3. QED BY <2>1, <2>2
  <1>4. ~raced => /\ fetches' = {} /\ promise'.state = "rejected"
                  /\ (f.kind = "refresh" => ~valid)
    BY <1>1, <1>3, StoreCalmAnswer
  <1>5. {valid, isFetching, told_user, raced, failed}' \subseteq BOOLEAN
    BY <1>1 DEF Store!TypeOK
  <1>6. promise'.account \in Accounts \cup {NoAccount} BY <1>3
  <1>7. Store!TypeOK' BY <1>1, <1>3, <1>5, <1>6 DEF Store!TypeOK
  <1>8. StoreFetchesInv' BY <1>1, <1>3 DEF StoreFetchesInv
  <1>9. StoreCalmInv'
    <2>1. promise'.state = "rejected" => promise' # Store!NoPromise BY DEF Store!NoPromise
    <2>2. QED BY <1>1, <1>4, <2>1 DEF StoreCalmInv
  <1>10. Store!SessionIsLast' /\ Store!ShownIsTrue'
    BY <1>1 DEF Store!SessionIsLast, Store!ShownIsTrue, Store!isAuthenticated
  <1>11. Store!TokenOfSession' BY <1>1, <1>4 DEF Store!TokenOfSession
  <1>12. Store!WaitsForSomething' BY <1>1, <1>3 DEF Store!WaitsForSomething
  <1>13. Store!ValidServes' BY <1>1, <1>2, <1>4 DEF Store!ValidServes
  <1>14. QED BY <1>7, <1>8, <1>9, <1>10, <1>11, <1>12, <1>13

(* An answer ends the session.                                             *)
LEMMA StoreUnauthorizedKeeps ==
    ASSUME Store!TokenStoreAssumption, StoreInv, NEW f \in fetches, Store!Unauthorized(f)
      PROVE StoreInv'
  <1>1. /\ refresh' = NoAccount /\ stored' = NoAccount
        /\ promise' = Store!NoPromise /\ isFetching' = FALSE /\ valid' = FALSE /\ told_user' = FALSE
        /\ account' = NoAccount /\ raced' = (fetches' # {}) /\ failed' = FALSE
        /\ fetches' \subseteq fetches /\ sent' = sent /\ invalid' = invalid
    BY DEF Store!Unauthorized, Store!LoggedOut
  <1>2. QED BY <1>1, StoreEndKeeps

(* Every step keeps the invariant.                                         *)
LEMMA StoreNext ==
    ASSUME Store!TokenStoreAssumption, StoreInv, [Store!Next]_(Store!vars) PROVE StoreInv'
  <1>1. CASE Store!getAccessToken BY <1>1, StoreGetKeeps
  <1>2. CASE Store!logout BY <1>2, StoreLogoutKeeps
  <1>3. CASE Store!Expire \/ (\E a \in Accounts : Store!Revoke(a)) \/ UNCHANGED Store!vars
    BY <1>3, StoreQuietKeeps
  <1>4. CASE Store!Reload BY <1>4, StoreReloadKeeps
  <1>5. ASSUME NEW a \in Accounts, Store!login(a) PROVE StoreInv' BY <1>5, StoreLoginKeeps
  <1>6. ASSUME NEW f \in fetches, Store!Responds(f) PROVE StoreInv'
    BY <1>6, StoreAppliedKeeps, StoreFailsKeeps, StoreUnauthorizedKeeps DEF Store!Responds
  <1>7. QED BY <1>1, <1>2, <1>3, <1>4, <1>5, <1>6 DEF Store!Next

(* The page of the browser holds the session the user began last, tells of *)
(* it and hands out its access token; one refresh is under way at a time   *)
(* and nobody waits for one that is not: getAccessToken, login and logout  *)
(* of the token store, for any accounts and any number of requests.        *)
THEOREM SessionIsKept == ServicesSpec => []SessionKept
  <1> DEFINE Inv == part = "tokens" => StoreInv
  <1>1. ServicesInit => Inv BY StoreInit, ServicesAssumption DEF ServicesInit, Starts
  <1>2. Inv /\ [ServicesNext]_services => Inv' BY StoreNext, StoreRuns, ServicesAssumption
  <1>3. Inv => SessionKept
    BY DEF StoreInv, StoreCalmInv, Store!OneRefresh, Store!SessionKept, SessionKept
  <1>4. QED BY <1>1, <1>2, <1>3, PTL DEF ServicesSpec

-----------------------------------------------------------------------------
(* The models.                                                             *)

(* The statuses an answer may have.                                        *)
ModelStatuses == {"none"} \cup {Model!predictionStatus(res) : res \in Model!Unbuilt \cup Model!Built}

(* The documents of models.                                                *)
ModelDocs == [version : Nat, model : Nat, tested : Int, status : ModelStatuses]

(* The requests at work.                                                   *)
ModelRequests == [n : Nat \ {0}, step : {"find", "build", "test", "insert", "predict", "scores", "grade"},
             version : Nat, doc : ModelDocs,
             tested : Int, res : Model!Unbuilt \cup Model!Built \cup {Model!NoResult}, status : ModelStatuses, model : Int]

(* The documents have increasing versions, and the file of each is still   *)
(* the one that was tested, or lost.                                       *)
ModelDocsInv ==
    /\ stock \in Seq(ModelDocs)
    /\ \A i \in DOMAIN stock :
          /\ stock[i].version \in 1 .. stock[i].model /\ stock[i].model \in 1 .. requested
          /\ stock[i].version <= stock[Len(stock)].version
          /\ stock[i].tested = stock[i].model
          /\ files[stock[i].version] \in {Model!NoFile, stock[i].model}
          /\ ~lost => files[stock[i].version] = stock[i].model
    /\ ~lost => Len(stock) <= 1

(* The one request at work builds a version that no document has.          *)
ModelBuildsNew(w) ==
    /\ w.step \in {"find", "build", "test", "insert"} =>
          \A i \in DOMAIN stock : stock[i].model < w.n
    /\ w.step \in {"build", "test", "insert"} =>
          /\ w.version \in 1 .. w.n
          /\ \A i \in DOMAIN stock : stock[i].version < w.version
          /\ ~lost => stock = <<>>
    /\ w.step \in {"test", "insert"} =>
          /\ files[w.version] \in {Model!NoFile, w.n} /\ (~lost => files[w.version] = w.n)
          /\ w.res \in Model!Built
    /\ w.step = "insert" => w.tested = w.n
    /\ w.step = "predict" => w.doc.version \in 1 .. w.n

(* Where its grade comes from.                                             *)
ModelGradesScores(w) ==
    w.step = "grade" /\ w.status = "Ok" /\ ~unscored => w.model = scores

(* While requests do not overlap there is one at work, the latest.         *)
ModelWorkInv ==
    /\ \A v, w \in work : v = w
    /\ \A w \in work : w \in ModelRequests /\ w.n = requested /\ ModelBuildsNew(w) /\ ModelGradesScores(w)

(* A confidence that is shown is of the scores, or is about to change.     *)
ModelGradeInv ==
    grade.status = "Ok" /\ ~torn /\ ~unscored
      => grade.model = scores \/ \E w \in work : w.step = "grade" /\ w.model = scores

(* The inductive invariant of requests that never overlapped.              *)
ModelInv ==
    ~overlap => /\ requested \in 0 .. MaxRequests /\ files \in [Model!Versions -> Int]
                /\ ModelDocsInv /\ ModelWorkInv /\ ModelGradeInv

(* No model that could not be built is "Ok".                               *)
LEMMA ModelStatusOfUnbuilt ==
    ASSUME NEW res \in Model!Unbuilt PROVE Model!predictionStatus(res) # "Ok"
  <1>1. CASE res.data = "none"
    BY <1>1, Zenon DEF Model!predictionStatus, Model!Unbuilt, Model!Result
  <1>2. CASE res.data # "none"
    BY <1>2 DEF Model!predictionStatus, Model!Unbuilt, Model!Result
  <1>3. QED BY <1>1, <1>2

(* No model that gave no scores is "Ok".                                   *)
LEMMA ModelStatusOfUnscored ==
    ASSUME NEW res \in Model!Built, ~res.isPredicted
      PROVE Model!predictionStatus(res) # "Ok"
  BY DEF Model!predictionStatus, Model!Built, Model!Result

(* There are no models in the beginning.                                   *)
LEMMA ModelInit == ASSUME Model!ModelsAssumption, Model!Init PROVE ModelInv
  <1> USE DEF Model!Init
  <1>1. requested \in 0 .. MaxRequests BY DEF Model!ModelsAssumption
  <1>2. files \in [Model!Versions -> Int] BY DEF Model!NoFile
  <1>3. ModelDocsInv BY DEF ModelDocsInv
  <1>4. ModelWorkInv /\ ModelGradeInv BY DEF ModelWorkInv, ModelGradeInv
  <1>5. QED BY <1>1, <1>2, <1>3, <1>4 DEF ModelInv

(* A request that moves on is the only one.                                *)
LEMMA ModelGoesKeeps ==
    ASSUME ModelInv, ~overlap, NEW w \in work, NEW next, Model!Goes(w, next), requested' = requested,
           next \in ModelRequests, next.n = w.n, ModelBuildsNew(next)', ModelGradesScores(next)'
    PROVE  ModelWorkInv' /\ work' = {next} /\ work = {w}
  <1>1. work = {w} BY DEF ModelInv, ModelWorkInv
  <1>2. work' = {next} BY <1>1 DEF Model!Goes
  <1>3. next.n = requested' BY DEF ModelInv, ModelWorkInv
  <1>4. QED BY <1>1, <1>2, <1>3 DEF ModelWorkInv

(* A job asks for a prediction.                                            *)
LEMMA ModelPredictionKeeps ==
    ASSUME Model!ModelsAssumption, ModelInv, Model!Prediction, ~overlap' PROVE ModelInv'
  <1>0. PICK new : new = [n |-> requested + 1, step |-> "find", version |-> 0, doc |-> Model!NoDoc,
                          tested |-> 0, res |-> Model!NoResult, status |-> "none", model |-> 0]
    OBVIOUS
  <1>1. ~overlap /\ work = {} /\ requested < MaxRequests /\ requested' = requested + 1
        /\ UNCHANGED <<stock, files, scores, grade, lost, torn, unscored>>
    BY DEF Model!Prediction
  <1>2. work' = {new} BY <1>0, <1>1 DEF Model!Prediction
  <1>3. requested \in Nat /\ requested' \in 0 .. MaxRequests
    BY <1>1 DEF ModelInv, Model!ModelsAssumption
  <1>4. new \in ModelRequests
    <2>1. Model!NoDoc \in ModelDocs BY DEF Model!NoDoc, ModelDocs, ModelStatuses
    <2>2. requested + 1 \in Nat \ {0} /\ 0 \in Nat /\ 0 \in Int BY <1>3
    <2>3. Model!NoResult \in Model!Unbuilt \cup Model!Built \cup {Model!NoResult} OBVIOUS
    <2>4. "none" \in ModelStatuses BY DEF ModelStatuses
    <2>5. QED BY <1>0, <2>1, <2>2, <2>3, <2>4 DEF ModelRequests
  <1>5. new.n = requested' /\ new.step = "find" BY <1>0, <1>1
  <1>6. ModelDocsInv /\ ModelGradeInv /\ files \in [Model!Versions -> Int]
    BY <1>1 DEF ModelInv
  <1>7. \A i \in DOMAIN stock : stock[i].model \in 1 .. requested BY <1>6 DEF ModelDocsInv
  <1>8. \A i \in DOMAIN stock' : stock'[i].model \in 1 .. requested' /\ stock'[i].model < requested'
    BY <1>1, <1>3, <1>7
  <1>9. ModelDocsInv' BY <1>1, <1>6, <1>8 DEF ModelDocsInv
  <1>10. ModelWorkInv'
    <2>1. \A w \in work' : w = new BY <1>2
    <2>2. ModelBuildsNew(new)' /\ ModelGradesScores(new)'
      BY <1>5, <1>8 DEF ModelBuildsNew, ModelGradesScores
    <2>3. QED BY <2>1, <2>2, <1>4, <1>5, <1>2 DEF ModelWorkInv
  <1>11. ModelGradeInv' BY <1>1, <1>6 DEF ModelGradeInv
  <1>12. QED BY <1>1, <1>3, <1>6, <1>9, <1>10, <1>11 DEF ModelInv

(* Before the grade, a step leaves scores and grade alone.                 *)
LEMMA ModelScoresKept ==
    ASSUME ModelInv, ~overlap, NEW w \in work, w.step # "grade",
           UNCHANGED <<scores, grade, torn>>, unscored => unscored'
    PROVE  ModelGradeInv'
  <1>1. work = {w} BY DEF ModelInv, ModelWorkInv
  <1>2. ModelGradeInv BY DEF ModelInv
  <1>3. QED BY <1>1, <1>2 DEF ModelGradeInv

(* The request looks for the latest model.                                 *)
LEMMA ModelPredictKeeps ==
    ASSUME Model!ModelsAssumption, ModelInv, NEW w \in work, Model!Predict(w), ~overlap'
      PROVE ModelInv'
  <1>1. /\ w.step = "find" /\ ~overlap
        /\ UNCHANGED <<stock, files, requested, scores, grade, lost, torn, unscored>>
    BY DEF Model!Predict
  <1>2. PICK doc : doc = Model!LatestModel OBVIOUS
  <1>3. PICK next : next = IF Model!IsValid(doc) THEN [w EXCEPT !.step = "predict", !.doc = doc]
                           ELSE [w EXCEPT !.step = "build", !.version = Model!NextVersion(doc)]
    OBVIOUS
  <1>4. Model!Goes(w, next) BY <1>2, <1>3 DEF Model!Predict
  <1>5. requested \in 0 .. MaxRequests /\ files \in [Model!Versions -> Int] /\ ModelDocsInv /\ ModelWorkInv /\ ModelGradeInv
    BY <1>1 DEF ModelInv
  <1>6. w \in ModelRequests /\ w.n = requested /\ ModelBuildsNew(w)
    BY <1>5 DEF ModelWorkInv
  <1>7. /\ stock = <<>> => doc = Model!NoDoc
        /\ stock # <<>> => Len(stock) \in DOMAIN stock /\ doc = stock[Len(stock)]
    BY <1>2, <1>5 DEF Model!LatestModel, ModelDocsInv
  <1>8. doc \in ModelDocs
    <2>1. Model!NoDoc \in ModelDocs
      <3>1. "none" \in ModelStatuses BY DEF ModelStatuses
      <3>2. QED BY <3>1 DEF Model!NoDoc, ModelDocs
    <2>2. stock \in Seq(ModelDocs) BY <1>5 DEF ModelDocsInv
    <2>3. stock # <<>> => stock[Len(stock)] \in ModelDocs BY <2>2
    <2>4. QED BY <1>7, <2>1, <2>3
  <1>9. \A i \in DOMAIN stock : stock[i].model < w.n BY <1>1, <1>6 DEF ModelBuildsNew
  <1>10. next \in ModelRequests /\ next.n = w.n /\ ModelBuildsNew(next)' /\ ModelGradesScores(next)'
    <2>1. CASE Model!IsValid(doc)
      <3>1. next = [w EXCEPT !.step = "predict", !.doc = doc] BY <1>3, <2>1
      <3>2. next \in ModelRequests /\ next.n = w.n /\ next.step = "predict" /\ next.doc = doc
        BY <3>1, <1>6, <1>8 DEF ModelRequests
      <3>3. doc.version \in 1 .. w.n
        <4>1. stock # <<>> BY <2>1, <1>7 DEF Model!IsValid
        <4>2. doc.version \in 1 .. doc.model /\ doc.model \in 1 .. requested
          BY <4>1, <1>5, <1>7 DEF ModelDocsInv
        <4>3. requested \in Nat /\ doc.version \in Nat /\ doc.model \in Nat
          BY <1>5, <1>8 DEF ModelDocs
        <4>4. QED BY <4>2, <4>3, <1>6
      <3>4. QED BY <3>2, <3>3 DEF ModelBuildsNew, ModelGradesScores
    <2>2. CASE ~Model!IsValid(doc)
      <3> DEFINE v == Model!NextVersion(doc)
      <3>1. next = [w EXCEPT !.step = "build", !.version = v] BY <1>3, <2>2
      <3>2. /\ v \in 1 .. w.n
            /\ \A i \in DOMAIN stock : stock[i].version < v
            /\ ~lost => stock = <<>>
        <4>1. CASE stock = <<>>
          <5>1. v = 1 BY <4>1, <1>7 DEF Model!NextVersion
          <5>2. w.n \in Nat \ {0} BY <1>6 DEF ModelRequests
          <5>3. QED BY <4>1, <5>1, <5>2
        <4>2. CASE stock # <<>>
          <5>1. /\ doc.version \in 1 .. doc.model /\ doc.model \in 1 .. requested
                /\ \A i \in DOMAIN stock : stock[i].version <= doc.version
                /\ ~lost => files[doc.version] = doc.model
                /\ doc.model < w.n
            BY <4>2, <1>5, <1>7, <1>9 DEF ModelDocsInv
          <5>2. doc # Model!NoDoc BY <5>1 DEF Model!NoDoc
          <5>3. v = doc.version + 1 BY <5>2 DEF Model!NextVersion
          <5>4. lost BY <5>1, <5>2, <2>2 DEF Model!IsValid, Model!NoFile
          <5>5. requested \in Nat /\ doc.version \in Nat /\ doc.model \in Nat
            BY <5>1, <1>5, <1>8 DEF ModelDocs
          <5>6. v \in 1 .. w.n BY <5>1, <5>3, <5>5, <1>6
          <5>7. \A i \in DOMAIN stock : stock[i].version \in Nat
            BY <1>5 DEF ModelDocsInv, ModelDocs
          <5>8. QED BY <5>1, <5>3, <5>4, <5>5, <5>6, <5>7
        <4>3. QED BY <4>1, <4>2
      <3> HIDE DEF v
      <3>3. next \in ModelRequests /\ next.n = w.n /\ next.step = "build" /\ next.version = v
        <4>1. w.n \in Nat BY <1>6 DEF ModelRequests
        <4>2. v \in Nat BY <3>2, <4>1
        <4>3. QED BY <3>1, <4>2, <1>6 DEF ModelRequests
      <3>4. QED BY <3>2, <3>3, <1>1, <1>9 DEF ModelBuildsNew, ModelGradesScores
    <2>3. QED BY <2>1, <2>2
  <1>11. ModelWorkInv' BY <1>1, <1>4, <1>10, ModelGoesKeeps
  <1>12. ModelGradeInv' BY <1>1, ModelScoresKept
  <1>13. ModelDocsInv' BY <1>1, <1>5 DEF ModelDocsInv
  <1>14. QED BY <1>1, <1>5, <1>11, <1>12, <1>13 DEF ModelInv

(* No model comes of it.                                                   *)
LEMMA ModelBuildFailsKeeps ==
    ASSUME Model!ModelsAssumption, ModelInv, NEW w \in work, Model!BuildFails(w), ~overlap'
      PROVE ModelInv'
  <1>1. /\ w.step = "build" /\ ~overlap
        /\ UNCHANGED <<stock, files, requested, scores, grade, lost, torn, unscored>>
    BY DEF Model!BuildFails
  <1>2. PICK res \in Model!Unbuilt : Model!Goes(w, [w EXCEPT !.step = "grade", !.status = Model!predictionStatus(res)])
    BY DEF Model!BuildFails
  <1>3. PICK next : next = [w EXCEPT !.step = "grade", !.status = Model!predictionStatus(res)] OBVIOUS
  <1>5. requested \in 0 .. MaxRequests /\ files \in [Model!Versions -> Int] /\ ModelDocsInv /\ ModelWorkInv /\ ModelGradeInv
    BY <1>1 DEF ModelInv
  <1>6. w \in ModelRequests BY <1>5 DEF ModelWorkInv
  <1>7. PICK s \in ModelStatuses : s = Model!predictionStatus(res) BY DEF ModelStatuses
  <1>8. next \in ModelRequests /\ next.n = w.n /\ next.step = "grade" /\ next.status = s
    BY <1>3, <1>6, <1>7 DEF ModelRequests
  <1>9. s # "Ok" BY <1>7, ModelStatusOfUnbuilt
  <1>10. ModelBuildsNew(next)' /\ ModelGradesScores(next)'
    BY <1>8, <1>9 DEF ModelBuildsNew, ModelGradesScores
  <1>11. ModelWorkInv' BY <1>1, <1>2, <1>3, <1>8, <1>10, ModelGoesKeeps
  <1>12. ModelGradeInv' BY <1>1, ModelScoresKept
  <1>13. ModelDocsInv' BY <1>1, <1>5 DEF ModelDocsInv
  <1>14. QED BY <1>1, <1>5, <1>11, <1>12, <1>13 DEF ModelInv

(* The model is written to the file of its version.                        *)
LEMMA ModelBuildKeeps ==
    ASSUME Model!ModelsAssumption, ModelInv, NEW w \in work, Model!Build(w), ~overlap'
      PROVE ModelInv'
  <1>1. /\ w.step = "build" /\ ~overlap
        /\ files' = [files EXCEPT ![w.version] = w.n]
        /\ UNCHANGED <<stock, requested, scores, grade, lost, torn, unscored>>
    BY DEF Model!Build
  <1>2. PICK res \in Model!Built : Model!Goes(w, [w EXCEPT !.step = "test", !.res = res])
    BY DEF Model!Build
  <1>3. PICK next : next = [w EXCEPT !.step = "test", !.res = res] OBVIOUS
  <1>5. requested \in 0 .. MaxRequests /\ files \in [Model!Versions -> Int] /\ ModelDocsInv /\ ModelWorkInv /\ ModelGradeInv
    BY <1>1 DEF ModelInv
  <1>6. w \in ModelRequests /\ w.n = requested /\ ModelBuildsNew(w)
    BY <1>5 DEF ModelWorkInv
  <1>7. /\ w.version \in 1 .. w.n
        /\ \A i \in DOMAIN stock : stock[i].version < w.version
        /\ ~lost => stock = <<>>
        /\ \A i \in DOMAIN stock : stock[i].model < w.n
    BY <1>1, <1>6 DEF ModelBuildsNew
  <1>8. next \in ModelRequests /\ next.n = w.n /\ next.step = "test" /\ next.version = w.version /\ next.res \in Model!Built
    BY <1>3, <1>6 DEF ModelRequests
  <1>9. w.n \in Int /\ w.version \in Model!Versions /\ files' \in [Model!Versions -> Int] /\ files'[w.version] = w.n
        /\ \A v \in Model!Versions : v # w.version => files'[v] = files[v]
    BY <1>1, <1>5, <1>6, <1>7 DEF Model!Versions, ModelRequests, Model!ModelsAssumption
  <1>10. ModelBuildsNew(next)' /\ ModelGradesScores(next)'
    BY <1>1, <1>7, <1>8, <1>9 DEF ModelBuildsNew, ModelGradesScores
  <1>11. ModelWorkInv' BY <1>1, <1>2, <1>3, <1>8, <1>10, ModelGoesKeeps
  <1>12. ModelGradeInv' BY <1>1, ModelScoresKept
  <1>13. ModelDocsInv'
    <2>1. \A i \in DOMAIN stock : files'[stock[i].version] = files[stock[i].version]
      <3> TAKE i \in DOMAIN stock
      <3>1. stock[i].version \in 1 .. stock[i].model /\ stock[i].model \in 1 .. requested
        BY <1>5 DEF ModelDocsInv
      <3>2. stock[i].version \in Model!Versions
        BY <3>1, <1>5 DEF Model!Versions, Model!ModelsAssumption
      <3>3. stock[i].version # w.version BY <1>7, <3>1
      <3>4. QED BY <3>2, <3>3, <1>9
    <2>2. QED BY <2>1, <1>1, <1>5 DEF ModelDocsInv
  <1>14. QED BY <1>1, <1>5, <1>9, <1>11, <1>12, <1>13 DEF ModelInv

(* The model is tested.                                                    *)
LEMMA ModelTestKeeps ==
    ASSUME Model!ModelsAssumption, ModelInv, NEW w \in work, Model!Test(w), ~overlap'
      PROVE ModelInv'
  <1>1. /\ w.step = "test" /\ ~overlap /\ files[w.version] \notin {Model!NoFile, Model!Broken}
        /\ UNCHANGED <<stock, files, requested, scores, grade, lost, torn, unscored>>
    BY DEF Model!Test
  <1>2. PICK t : t = files[w.version] OBVIOUS
  <1>3. PICK next : next = [w EXCEPT !.step = "insert", !.tested = t] OBVIOUS
  <1>4. Model!Goes(w, next) BY <1>2, <1>3 DEF Model!Test
  <1>5. requested \in 0 .. MaxRequests /\ files \in [Model!Versions -> Int] /\ ModelDocsInv /\ ModelWorkInv /\ ModelGradeInv
    BY <1>1 DEF ModelInv
  <1>6. w \in ModelRequests /\ w.n = requested /\ ModelBuildsNew(w)
    BY <1>5 DEF ModelWorkInv
  <1>7. /\ w.version \in 1 .. w.n
        /\ \A i \in DOMAIN stock : stock[i].version < w.version
        /\ ~lost => stock = <<>>
        /\ \A i \in DOMAIN stock : stock[i].model < w.n
        /\ files[w.version] \in {Model!NoFile, w.n} /\ (~lost => files[w.version] = w.n)
        /\ w.res \in Model!Built
    BY <1>1, <1>6 DEF ModelBuildsNew
  <1>8. t = w.n /\ w.n \in Int BY <1>1, <1>2, <1>6, <1>7 DEF ModelRequests
  <1>9. /\ next \in ModelRequests /\ next.n = w.n /\ next.step = "insert" /\ next.version = w.version
        /\ next.tested = w.n /\ next.res = w.res
    BY <1>3, <1>6, <1>8 DEF ModelRequests
  <1>10. ModelBuildsNew(next)' /\ ModelGradesScores(next)'
    BY <1>1, <1>7, <1>9 DEF ModelBuildsNew, ModelGradesScores
  <1>11. ModelWorkInv' BY <1>1, <1>4, <1>9, <1>10, ModelGoesKeeps
  <1>12. ModelGradeInv' BY <1>1, ModelScoresKept
  <1>13. ModelDocsInv' BY <1>1, <1>5 DEF ModelDocsInv
  <1>14. QED BY <1>1, <1>5, <1>11, <1>12, <1>13 DEF ModelInv

(* The document of the model is stored.                                    *)
LEMMA ModelInsertKeeps ==
    ASSUME Model!ModelsAssumption, ModelInv, NEW w \in work, Model!Insert(w), ~overlap'
      PROVE ModelInv'
  <1>1. /\ w.step = "insert" /\ ~overlap
        /\ UNCHANGED <<files, requested, scores, grade, lost, torn, unscored>>
    BY DEF Model!Insert
  <1>5. requested \in 0 .. MaxRequests /\ files \in [Model!Versions -> Int] /\ ModelDocsInv /\ ModelWorkInv /\ ModelGradeInv
    BY <1>1 DEF ModelInv
  <1>6. w \in ModelRequests /\ w.n = requested /\ ModelBuildsNew(w)
    BY <1>5 DEF ModelWorkInv
  <1>7. /\ w.version \in 1 .. w.n
        /\ \A i \in DOMAIN stock : stock[i].version < w.version
        /\ ~lost => stock = <<>>
        /\ \A i \in DOMAIN stock : stock[i].model < w.n
        /\ files[w.version] \in {Model!NoFile, w.n} /\ (~lost => files[w.version] = w.n)
        /\ w.res \in Model!Built /\ w.tested = w.n
    BY <1>1, <1>6 DEF ModelBuildsNew
  <1>8. PICK s \in ModelStatuses : s = Model!predictionStatus(w.res)
    BY <1>7 DEF ModelStatuses
  <1>9. PICK d : d = [version |-> w.version, model |-> w.n, tested |-> w.tested, status |-> s]
    OBVIOUS
  <1>10. PICK next : next = [w EXCEPT !.step = IF w.res.isPredicted THEN "scores" ELSE "grade",
                                      !.status = s, !.model = w.tested]
    OBVIOUS
  <1>11. stock' = Append(stock, d) /\ Model!Goes(w, next)
    BY <1>8, <1>9, <1>10 DEF Model!Insert
  <1>12. w.n \in Nat \ {0} /\ w.version \in Nat /\ w.tested \in Int
    BY <1>6 DEF ModelRequests
  <1>13. /\ next \in ModelRequests /\ next.n = w.n
         /\ next.step = IF w.res.isPredicted THEN "scores" ELSE "grade"
         /\ next.status = s
    BY <1>6, <1>8, <1>10, <1>12 DEF ModelRequests
  <1>14. ~w.res.isPredicted => s # "Ok" BY <1>7, <1>8, ModelStatusOfUnscored
  <1>15. ModelBuildsNew(next)' /\ ModelGradesScores(next)'
    BY <1>13, <1>14 DEF ModelBuildsNew, ModelGradesScores
  <1>16. ModelWorkInv' BY <1>1, <1>11, <1>13, <1>15, ModelGoesKeeps
  <1>17. ModelGradeInv' BY <1>1, ModelScoresKept
  <1>18. d \in ModelDocs /\ d.version = w.version /\ d.model = w.n /\ d.tested = w.n
    BY <1>7, <1>8, <1>9, <1>12 DEF ModelDocs
  <1>19. ModelDocsInv'
    <2>1. stock \in Seq(ModelDocs) BY <1>5 DEF ModelDocsInv
    <2>2. /\ stock' \in Seq(ModelDocs) /\ Len(stock') = Len(stock) + 1 /\ stock'[Len(stock) + 1] = d
          /\ DOMAIN stock' = 1 .. Len(stock) + 1 /\ DOMAIN stock = 1 .. Len(stock) /\ Len(stock) \in Nat
          /\ \A i \in DOMAIN stock : stock'[i] = stock[i]
      BY <2>1, <1>11, <1>18
    <2>3. ASSUME NEW i \in DOMAIN stock'
          PROVE  /\ stock'[i].version \in 1 .. stock'[i].model /\ stock'[i].model \in 1 .. requested
                 /\ stock'[i].version <= d.version
                 /\ stock'[i].tested = stock'[i].model
                 /\ files[stock'[i].version] \in {Model!NoFile, stock'[i].model}
                 /\ ~lost => files[stock'[i].version] = stock'[i].model
      <3>1. CASE i = Len(stock) + 1
        <4>1. stock'[i] = d BY <3>1, <2>2
        <4>2. QED BY <4>1, <1>6, <1>7, <1>12, <1>18
      <3>2. CASE i # Len(stock) + 1
        <4>1. i \in DOMAIN stock /\ stock'[i] = stock[i] BY <3>2, <2>2, <2>3
        <4>2. stock[i].version < w.version /\ stock[i] \in ModelDocs BY <4>1, <1>7, <2>1
        <4>3. stock[i].version <= d.version BY <4>2, <1>12, <1>18 DEF ModelDocs
        <4>4. QED BY <4>1, <4>3, <1>5 DEF ModelDocsInv
      <3>3. QED BY <3>1, <3>2
    <2>4. ~lost => Len(stock') <= 1 BY <1>7, <2>2
    <2>5. QED BY <1>1, <2>2, <2>3, <2>4 DEF ModelDocsInv
  <1>20. QED BY <1>1, <1>5, <1>16, <1>17, <1>19 DEF ModelInv

(* A stored model scores the commits.                                      *)
LEMMA ModelPredictUsingLastModelKeeps ==
    ASSUME Model!ModelsAssumption, ModelInv, NEW w \in work, Model!PredictUsingLastModel(w), ~overlap'
      PROVE ModelInv'
  <1>1. /\ w.step = "predict" /\ ~overlap /\ files[w.doc.version] \notin {Model!NoFile, Model!Broken}
        /\ UNCHANGED <<stock, files, requested, scores, grade, lost, torn>>
    BY DEF Model!PredictUsingLastModel
  <1>2. PICK predicted \in BOOLEAN :
          /\ Model!Goes(w, [w EXCEPT !.step = IF predicted THEN "scores" ELSE "grade",
                               !.status = w.doc.status, !.model = files[w.doc.version]])
          /\ unscored' = (unscored \/ ~predicted)
    BY DEF Model!PredictUsingLastModel
  <1>3. PICK m : m = files[w.doc.version] OBVIOUS
  <1>4. PICK next : next = [w EXCEPT !.step = IF predicted THEN "scores" ELSE "grade",
                                     !.status = w.doc.status, !.model = m]
    OBVIOUS
  <1>5. requested \in 0 .. MaxRequests /\ files \in [Model!Versions -> Int] /\ ModelDocsInv /\ ModelWorkInv /\ ModelGradeInv
    BY <1>1 DEF ModelInv
  <1>6. w \in ModelRequests BY <1>5 DEF ModelWorkInv
  <1>7. w.doc.status \in ModelStatuses BY <1>6 DEF ModelRequests, ModelDocs
  <1>8. m \in Int
    <2>1. w.doc.version \in 1 .. requested BY <1>1, <1>5 DEF ModelWorkInv, ModelBuildsNew
    <2>2. w.doc.version \in Model!Versions
      BY <2>1, <1>5 DEF Model!Versions, Model!ModelsAssumption
    <2>3. QED BY <2>2, <1>3, <1>5
  <1>9. /\ next \in ModelRequests /\ next.n = w.n
        /\ next.step = IF predicted THEN "scores" ELSE "grade"
    BY <1>4, <1>6, <1>7, <1>8 DEF ModelRequests
  <1>10. ModelBuildsNew(next)' /\ ModelGradesScores(next)'
    BY <1>2, <1>9 DEF ModelBuildsNew, ModelGradesScores
  <1>11. ModelWorkInv' BY <1>1, <1>2, <1>3, <1>4, <1>9, <1>10, ModelGoesKeeps
  <1>12. ModelGradeInv' BY <1>1, <1>2, ModelScoresKept
  <1>13. ModelDocsInv' BY <1>1, <1>5 DEF ModelDocsInv
  <1>14. QED BY <1>1, <1>5, <1>11, <1>12, <1>13 DEF ModelInv

(* The job stores the scores.                                              *)
LEMMA ModelSaveCommitAnalysisKeeps ==
    ASSUME Model!ModelsAssumption, ModelInv, NEW w \in work, Model!SaveCommitAnalysis(w), ~overlap'
      PROVE ModelInv'
  <1>1. /\ w.step = "scores" /\ ~overlap /\ scores' = w.model
        /\ UNCHANGED <<stock, files, requested, grade, lost, torn, unscored>>
    BY DEF Model!SaveCommitAnalysis
  <1>4. PICK next : next = [w EXCEPT !.step = "grade"] OBVIOUS
  <1>5. requested \in 0 .. MaxRequests /\ files \in [Model!Versions -> Int] /\ ModelDocsInv /\ ModelWorkInv /\ ModelGradeInv
    BY <1>1 DEF ModelInv
  <1>6. w \in ModelRequests /\ Model!Goes(w, next)
    BY <1>4, <1>5 DEF ModelWorkInv, Model!SaveCommitAnalysis
  <1>9. next \in ModelRequests /\ next.n = w.n /\ next.step = "grade" /\ next.model = w.model
    BY <1>4, <1>6 DEF ModelRequests
  <1>10. ModelBuildsNew(next)' /\ ModelGradesScores(next)'
    BY <1>1, <1>9 DEF ModelBuildsNew, ModelGradesScores
  <1>11. ModelWorkInv' /\ work' = {next} BY <1>1, <1>6, <1>9, <1>10, ModelGoesKeeps
  <1>12. ModelGradeInv' BY <1>1, <1>9, <1>11 DEF ModelGradeInv
  <1>13. ModelDocsInv' BY <1>1, <1>5 DEF ModelDocsInv
  <1>14. QED BY <1>1, <1>5, <1>11, <1>12, <1>13 DEF ModelInv

(* The job stores the confidence or the quality.                           *)
LEMMA ModelSaveGradeKeeps ==
    ASSUME Model!ModelsAssumption, ModelInv, NEW w \in work, Model!SaveGrade(w), ~overlap'
      PROVE ModelInv'
  <1>1. /\ w.step = "grade" /\ ~overlap
        /\ grade' = [status |-> w.status, model |-> w.model] /\ work' = work \ {w}
        /\ UNCHANGED <<stock, files, requested, scores, lost, torn, unscored>>
    BY DEF Model!SaveGrade
  <1>5. requested \in 0 .. MaxRequests /\ files \in [Model!Versions -> Int] /\ ModelDocsInv /\ ModelWorkInv /\ ModelGradeInv
    BY <1>1 DEF ModelInv
  <1>6. work' = {} /\ ModelGradesScores(w) BY <1>1, <1>5 DEF ModelWorkInv
  <1>7. ModelWorkInv' BY <1>6 DEF ModelWorkInv
  <1>8. grade'.status = w.status /\ grade'.model = w.model BY <1>1
  <1>9. ModelGradeInv' BY <1>1, <1>6, <1>8 DEF ModelGradeInv, ModelGradesScores
  <1>10. ModelDocsInv' BY <1>1, <1>5 DEF ModelDocsInv
  <1>11. QED BY <1>1, <1>5, <1>7, <1>9, <1>10 DEF ModelInv

(* The request ends early.                                                 *)
LEMMA ModelGiveUpKeeps ==
    ASSUME Model!ModelsAssumption, ModelInv, NEW w \in work, Model!GiveUp(w), ~overlap'
      PROVE ModelInv'
  <1>1. /\ ~overlap /\ work' = work \ {w}
        /\ torn' = (torn \/ (w.step = "grade" /\ scores = w.model))
        /\ UNCHANGED <<stock, requested, scores, grade, lost, unscored>>
        /\ files' = files \/ (w.step = "build" /\ files' = [files EXCEPT ![w.version] = Model!Broken])
    BY DEF Model!GiveUp
  <1>5. requested \in 0 .. MaxRequests /\ files \in [Model!Versions -> Int] /\ ModelDocsInv /\ ModelWorkInv /\ ModelGradeInv
    BY <1>1 DEF ModelInv
  <1>6. work' = {} /\ work = {w} /\ w \in ModelRequests /\ w.n = requested /\ ModelBuildsNew(w)
    BY <1>1, <1>5 DEF ModelWorkInv
  <1>7. ModelWorkInv' BY <1>6 DEF ModelWorkInv
  <1>9. ModelGradeInv' BY <1>1, <1>5, <1>6 DEF ModelGradeInv
  <1>10. files' \in [Model!Versions -> Int] BY <1>1, <1>5 DEF Model!Broken
  <1>11. ModelDocsInv'
    <2>1. \A i \in DOMAIN stock : files'[stock[i].version] = files[stock[i].version]
      <3> TAKE i \in DOMAIN stock
      <3>1. stock[i].version \in 1 .. stock[i].model /\ stock[i].model \in 1 .. requested
        BY <1>5 DEF ModelDocsInv
      <3>2. stock[i].version \in Model!Versions
        BY <3>1, <1>5 DEF Model!Versions, Model!ModelsAssumption
      <3>3. w.step = "build" => stock[i].version < w.version /\ w.version \in 1 .. w.n
        BY <1>6 DEF ModelBuildsNew
      <3>4. w.step = "build" => stock[i].version # w.version BY <3>1, <3>3
      <3>5. QED BY <3>2, <3>4, <1>1, <1>5
    <2>2. QED BY <2>1, <1>1, <1>5 DEF ModelDocsInv
  <1>12. QED BY <1>1, <1>5, <1>7, <1>9, <1>10, <1>11 DEF ModelInv

(* The files are lost.                                                     *)
LEMMA ModelLoseFilesKeeps ==
    ASSUME Model!ModelsAssumption, ModelInv, Model!LoseFiles, ~overlap' PROVE ModelInv'
  <1>1. /\ ~overlap /\ files' = [v \in Model!Versions |-> Model!NoFile] /\ lost' = TRUE
        /\ UNCHANGED <<stock, work, requested, scores, grade, torn, unscored>>
    BY DEF Model!LoseFiles
  <1>5. requested \in 0 .. MaxRequests /\ files \in [Model!Versions -> Int] /\ ModelDocsInv /\ ModelWorkInv /\ ModelGradeInv
    BY <1>1 DEF ModelInv
  <1>6. files' \in [Model!Versions -> Int] /\ \A v \in Model!Versions : files'[v] = Model!NoFile
    BY <1>1 DEF Model!NoFile
  <1>7. \A v \in 1 .. requested : v \in Model!Versions
    BY <1>5 DEF Model!Versions, Model!ModelsAssumption
  <1>8. ModelDocsInv'
    <2>1. \A i \in DOMAIN stock : files'[stock[i].version] = Model!NoFile
      <3> TAKE i \in DOMAIN stock
      <3>1. stock[i].version \in 1 .. stock[i].model /\ stock[i].model \in 1 .. requested
        BY <1>5 DEF ModelDocsInv
      <3>2. stock[i].version \in 1 .. requested BY <3>1, <1>5
      <3>3. QED BY <3>2, <1>6, <1>7
    <2>2. QED BY <2>1, <1>1, <1>5 DEF ModelDocsInv
  <1>9. ModelWorkInv'
    <2>1. ASSUME NEW w \in work PROVE ModelBuildsNew(w)' /\ ModelGradesScores(w)'
      <3>1. ModelBuildsNew(w) /\ ModelGradesScores(w) /\ w.n = requested
        BY <1>5 DEF ModelWorkInv
      <3>2. w.step \in {"test", "insert"} => w.version \in 1 .. w.n
        BY <3>1 DEF ModelBuildsNew
      <3>3. w.step \in {"test", "insert"} => files'[w.version] = Model!NoFile
        BY <3>1, <3>2, <1>6, <1>7
      <3>4. QED BY <3>1, <3>3, <1>1 DEF ModelBuildsNew, ModelGradesScores
    <2>2. QED BY <2>1, <1>1, <1>5 DEF ModelWorkInv
  <1>10. ModelGradeInv' BY <1>1, <1>5 DEF ModelGradeInv
  <1>11. QED BY <1>1, <1>5, <1>6, <1>8, <1>9, <1>10 DEF ModelInv

(* Every step keeps the invariant.                                         *)
LEMMA ModelNext ==
    ASSUME Model!ModelsAssumption, ModelInv, [Model!Next]_(Model!vars) PROVE ModelInv'
  <1>1. CASE overlap' BY <1>1 DEF ModelInv
  <1>2. CASE ~overlap'
    <2>1. CASE Model!Prediction BY <2>1, <1>2, ModelPredictionKeeps
    <2>2. CASE Model!LoseFiles BY <2>2, <1>2, ModelLoseFilesKeeps
    <2>3. ASSUME NEW w \in work,
                 \/ Model!Predict(w) \/ Model!BuildFails(w) \/ Model!Build(w) \/ Model!Test(w) \/ Model!Insert(w)
                 \/ Model!PredictUsingLastModel(w) \/ Model!SaveCommitAnalysis(w) \/ Model!SaveGrade(w) \/ Model!GiveUp(w)
          PROVE  ModelInv'
      BY <2>3, <1>2, ModelPredictKeeps, ModelBuildFailsKeeps, ModelBuildKeeps,
          ModelTestKeeps, ModelInsertKeeps,
         ModelPredictUsingLastModelKeeps, ModelSaveCommitAnalysisKeeps, ModelSaveGradeKeeps, ModelGiveUpKeeps
    <2>4. CASE UNCHANGED Model!vars
      BY <2>4
        DEF Model!vars, ModelInv, ModelDocsInv, ModelWorkInv, ModelBuildsNew,
            ModelGradesScores, ModelGradeInv
    <2>5. QED BY <2>1, <2>2, <2>3, <2>4 DEF Model!Next
  <1>3. QED BY <1>1, <1>2

(* The requests that have looked for the latest model: versions are no     *)
(* larger than their number, also when requests overlap.                   *)
ModelFinds == {w \in work : w.step = "find"}
ModelPassed == requested - Cardinality(ModelFinds)

(* What a request has by its step.                                         *)
ModelRequestFits(w) ==
    /\ w.step \in {"build", "test", "insert"} => w.version \in 1 .. ModelPassed
    /\ w.step \in {"test", "insert"} => w.res \in Model!Built
    /\ w.step = "insert" => w.tested \in 1 .. requested
    /\ w.step = "predict" => w.doc.version \in 1 .. ModelPassed

(* The requests at work, whether they overlap or not.                      *)
ModelWorkTyped ==
    /\ IsFiniteSet(work) /\ Cardinality(work) <= requested
    /\ \A w \in work : /\ w \in ModelRequests /\ w.n \in 1 .. requested /\ w.model \in 0 .. requested
                       /\ ModelRequestFits(w)

(* The documents, whether requests overlap or not.                         *)
ModelDocsTyped ==
    /\ stock \in Seq(ModelDocs)
    /\ \A i \in DOMAIN stock : stock[i].version \in 1 .. ModelPassed /\ stock[i].model \in 1 .. requested

(* The types of the variables, whether requests overlap or not.            *)
ModelTypeInv ==
    /\ requested \in 0 .. MaxRequests /\ ModelPassed >= 0 /\ ModelWorkTyped /\ ModelDocsTyped
    /\ files \in [Model!Versions -> {Model!Broken} \cup 0 .. requested]
    /\ {scores, grade.model} \subseteq 0 .. requested

(* The cardinality Models uses is that of the library.                     *)
LEMMA ModelCardinality == \A S : Model!Cardinality(S) = Cardinality(S)
  BY DEF Model!Cardinality, Cardinality

(* No more requests have passed than there are.                            *)
LEMMA ModelPassedBounds ==
    ASSUME Model!ModelsAssumption, requested \in 0 .. MaxRequests, IsFiniteSet(work)
    PROVE  ModelPassed \in Int /\ ModelPassed <= MaxRequests /\ requested \in Nat /\ IsFiniteSet(ModelFinds)
  <1>1. IsFiniteSet(ModelFinds) BY FS_Subset DEF ModelFinds
  <1>2. Cardinality(ModelFinds) \in Nat BY <1>1, FS_CardinalityType
  <1>3. QED BY <1>1, <1>2 DEF ModelPassed, Model!ModelsAssumption

(* The types hold in the beginning.                                        *)
LEMMA ModelInitTyped == ASSUME Model!ModelsAssumption, Model!Init PROVE ModelTypeInv
  <1> USE DEF Model!Init
  <1>1. ModelWorkTyped BY FS_EmptySet DEF ModelWorkTyped, Model!ModelsAssumption
  <1>2. ModelDocsTyped BY DEF ModelDocsTyped
  <1>3. ModelPassed = 0
    <2>1. ModelFinds = {} BY DEF ModelFinds
    <2>2. Cardinality(ModelFinds) = 0 BY <2>1, FS_EmptySet
    <2>3. QED BY <2>2 DEF ModelPassed
  <1>4. files \in [Model!Versions -> {Model!Broken} \cup 0 .. requested]
    BY DEF Model!NoFile
  <1>5. QED BY <1>1, <1>2, <1>3, <1>4 DEF ModelTypeInv, Model!ModelsAssumption

(* A request ends, or moves on with what it will need.                     *)
LEMMA ModelWorkGoesOn ==
    ASSUME Model!ModelsAssumption, ModelTypeInv, NEW w \in work, NEW R,
           work' = (work \ {w}) \cup R, requested' = requested,
           \A u, v \in R : u = v, \A v \in R : v.step # "find"
    PROVE  /\ IsFiniteSet(work') /\ Cardinality(work') <= Cardinality(work)
           /\ ModelPassed' = ModelPassed + (IF w.step = "find" THEN 1 ELSE 0)
           /\ ModelPassed \in Int
  <1>1. /\ IsFiniteSet(work) /\ IsFiniteSet(ModelFinds) /\ requested \in Nat /\ ModelPassed \in Int
    BY ModelPassedBounds DEF ModelTypeInv, ModelWorkTyped
  <1>2. Cardinality(ModelFinds) \in Nat /\ Cardinality(work) \in Nat
    BY <1>1, FS_CardinalityType
  <1>3. /\ IsFiniteSet(work \ {w}) /\ Cardinality(work \ {w}) = Cardinality(work) - 1
    BY <1>1, FS_RemoveElement
  <1>4. IsFiniteSet(work') /\ Cardinality(work') <= Cardinality(work)
    <2>1. CASE R = {}
      <3>1. work' = work \ {w} BY <2>1
      <3>2. QED BY <3>1, <1>2, <1>3
    <2>2. ASSUME NEW next \in R
          PROVE  IsFiniteSet(work') /\ Cardinality(work') <= Cardinality(work)
      <3>1. work' = (work \ {w}) \cup {next} BY <2>2
      <3>2. /\ IsFiniteSet(work')
            /\ \/ Cardinality(work') = Cardinality(work \ {w})
               \/ Cardinality(work') = Cardinality(work \ {w}) + 1
        BY <3>1, <1>3, FS_AddElement
      <3>3. QED BY <3>2, <1>2, <1>3
    <2>3. QED BY <2>1, <2>2
  <1>5. ModelFinds' = ModelFinds \ {w} BY DEF ModelFinds
  <1>6. Cardinality(ModelFinds') = Cardinality(ModelFinds) - (IF w.step = "find" THEN 1 ELSE 0)
    <2>1. CASE w.step = "find"
      <3>1. w \in ModelFinds BY <2>1 DEF ModelFinds
      <3>2. QED BY <2>1, <3>1, <1>1, <1>5, FS_RemoveElement
    <2>2. CASE w.step # "find"
      <3>1. ModelFinds' = ModelFinds BY <2>2, <1>5 DEF ModelFinds
      <3>2. QED BY <2>2, <3>1, <1>2
    <2>3. QED BY <2>1, <2>2
  <1>7. QED BY <1>1, <1>2, <1>4, <1>6 DEF ModelPassed

(* A request moves on.                                                     *)
LEMMA ModelMovesTyped ==
    ASSUME Model!ModelsAssumption, ModelTypeInv, NEW w \in work, NEW next, Model!Goes(w, next), requested' = requested,
           next \in ModelRequests, next.n = w.n, next.step # "find", next.model \in 0 .. requested,
           ModelRequestFits(next)'
    PROVE  ModelWorkTyped'
  <1>0. PICK R : R = {next} OBVIOUS
  <1>1. work' = (work \ {w}) \cup R /\ (\A u, v \in R : u = v) /\ \A v \in R : v.step # "find"
    BY <1>0 DEF Model!Goes
  <1>2. /\ IsFiniteSet(work') /\ Cardinality(work') <= Cardinality(work)
        /\ ModelPassed' >= ModelPassed /\ ModelPassed \in Int /\ ModelPassed' \in Int
    <2>1. /\ IsFiniteSet(work') /\ Cardinality(work') <= Cardinality(work)
          /\ ModelPassed' = ModelPassed + (IF w.step = "find" THEN 1 ELSE 0) /\ ModelPassed \in Int
      BY <1>1, ModelWorkGoesOn
    <2>2. QED BY <2>1
  <1>3. Cardinality(work) \in Nat /\ Cardinality(work') \in Nat
    BY <1>2, FS_CardinalityType DEF ModelTypeInv, ModelWorkTyped
  <1>4. Cardinality(work') <= requested
    BY <1>2, <1>3 DEF ModelTypeInv, ModelWorkTyped, Model!ModelsAssumption
  <1>5. \A v \in work : v # w => ModelRequestFits(v)'
    BY <1>2 DEF ModelTypeInv, ModelWorkTyped, ModelRequestFits
  <1>6. QED BY <1>0, <1>1, <1>2, <1>4, <1>5 DEF ModelTypeInv, ModelWorkTyped

(* A request ends.                                                         *)
LEMMA ModelEndsTyped ==
    ASSUME Model!ModelsAssumption, ModelTypeInv, NEW w \in work, work' = work \ {w}, requested' = requested
    PROVE  ModelWorkTyped' /\ ModelPassed' >= ModelPassed /\ ModelPassed \in Int /\ ModelPassed' \in Int
  <1>0. PICK R : R = {} OBVIOUS
  <1>1. work' = (work \ {w}) \cup R /\ (\A u, v \in R : u = v) /\ \A v \in R : v.step # "find"
    BY <1>0
  <1>2. /\ IsFiniteSet(work') /\ Cardinality(work') <= Cardinality(work)
        /\ ModelPassed' >= ModelPassed /\ ModelPassed \in Int /\ ModelPassed' \in Int
    <2>1. /\ IsFiniteSet(work') /\ Cardinality(work') <= Cardinality(work)
          /\ ModelPassed' = ModelPassed + (IF w.step = "find" THEN 1 ELSE 0) /\ ModelPassed \in Int
      BY <1>1, ModelWorkGoesOn
    <2>2. QED BY <2>1
  <1>3. Cardinality(work) \in Nat /\ Cardinality(work') \in Nat
    BY <1>2, FS_CardinalityType DEF ModelTypeInv, ModelWorkTyped
  <1>4. Cardinality(work') <= requested
    BY <1>2, <1>3 DEF ModelTypeInv, ModelWorkTyped, Model!ModelsAssumption
  <1>5. \A v \in work' : ModelRequestFits(v)'
    BY <1>2 DEF ModelTypeInv, ModelWorkTyped, ModelRequestFits
  <1>6. QED BY <1>2, <1>4, <1>5 DEF ModelTypeInv, ModelWorkTyped

(* The documents stay.                                                     *)
LEMMA ModelDocsStay ==
    ASSUME ModelTypeInv, stock' = stock, requested' = requested, ModelPassed' >= ModelPassed, ModelPassed \in Int, ModelPassed' \in Int
    PROVE  ModelDocsTyped'
  BY DEF ModelTypeInv, ModelDocsTyped

(* A job asks for a prediction.                                            *)
LEMMA ModelPredictionTyped ==
    ASSUME Model!ModelsAssumption, ModelTypeInv, Model!Prediction PROVE ModelTypeInv'
  <1>0. PICK new : new = [n |-> requested + 1, step |-> "find", version |-> 0, doc |-> Model!NoDoc,
                          tested |-> 0, res |-> Model!NoResult, status |-> "none", model |-> 0]
    OBVIOUS
  <1>1. /\ requested < MaxRequests /\ (work = {} \/ requested < MaxBeside)
        /\ requested' = requested + 1 /\ work' = work \cup {new}
        /\ UNCHANGED <<stock, files, scores, grade>>
    BY <1>0, ModelCardinality DEF Model!Prediction
  <1>2. requested \in Nat /\ requested' \in 0 .. MaxRequests /\ ModelPassed \in Int /\ IsFiniteSet(ModelFinds)
        /\ IsFiniteSet(work) /\ Cardinality(work) \in Nat /\ Cardinality(ModelFinds) \in Nat
    BY <1>1, ModelPassedBounds, FS_CardinalityType
      DEF ModelTypeInv, ModelWorkTyped, Model!ModelsAssumption
  <1>3. new \in ModelRequests
    <2>1. Model!NoDoc \in ModelDocs BY DEF Model!NoDoc, ModelDocs, ModelStatuses
    <2>2. requested + 1 \in Nat \ {0} /\ 0 \in Nat /\ 0 \in Int BY <1>2
    <2>3. Model!NoResult \in Model!Unbuilt \cup Model!Built \cup {Model!NoResult} OBVIOUS
    <2>4. "none" \in ModelStatuses BY DEF ModelStatuses
    <2>5. QED BY <1>0, <2>1, <2>2, <2>3, <2>4 DEF ModelRequests
  <1>4. new.n = requested + 1 /\ new.step = "find" /\ new.model = 0 BY <1>0
  <1>5. new \notin work BY <1>2, <1>4 DEF ModelTypeInv, ModelWorkTyped
  <1>6. IsFiniteSet(work') /\ Cardinality(work') = Cardinality(work) + 1
    BY <1>1, <1>2, <1>5, FS_AddElement
  <1>7. ModelPassed' = ModelPassed
    <2>1. ModelFinds' = ModelFinds \cup {new} /\ new \notin ModelFinds
      BY <1>1, <1>4, <1>5 DEF ModelFinds
    <2>2. Cardinality(ModelFinds') = Cardinality(ModelFinds) + 1
      BY <2>1, <1>2, FS_AddElement
    <2>3. QED BY <2>2, <1>1, <1>2 DEF ModelPassed
  <1>8. Cardinality(work') <= requested'
    BY <1>1, <1>2, <1>6 DEF ModelTypeInv, ModelWorkTyped
  <1>9. \A w \in work' : /\ w \in ModelRequests /\ w.n \in 1 .. requested' /\ w.model \in 0 .. requested'
                         /\ ModelRequestFits(w)'
    BY <1>1, <1>2, <1>3, <1>4, <1>7 DEF ModelTypeInv, ModelWorkTyped, ModelRequestFits
  <1>10. ModelDocsTyped' BY <1>1, <1>2, <1>7 DEF ModelTypeInv, ModelDocsTyped
  <1>11. files' \in [Model!Versions -> {Model!Broken} \cup 0 .. requested'] /\ {scores, grade.model}' \subseteq 0 .. requested'
    BY <1>1, <1>2 DEF ModelTypeInv
  <1>12. ModelPassed' >= 0 BY <1>7 DEF ModelTypeInv
  <1>13. ModelWorkTyped' BY <1>6, <1>8, <1>9 DEF ModelWorkTyped
  <1>14. QED BY <1>2, <1>10, <1>11, <1>12, <1>13 DEF ModelTypeInv

(* The request looks for the latest model; the next version is not too     *)
(* large.                                                                  *)
LEMMA ModelPredictTyped ==
    ASSUME Model!ModelsAssumption, ModelTypeInv, NEW w \in work, Model!Predict(w)
      PROVE ModelTypeInv'
  <1>1. w.step = "find" /\ UNCHANGED <<stock, files, requested, scores, grade>>
    BY DEF Model!Predict
  <1>2. PICK doc : doc = Model!LatestModel OBVIOUS
  <1>3. PICK next : next = IF Model!IsValid(doc) THEN [w EXCEPT !.step = "predict", !.doc = doc]
                           ELSE [w EXCEPT !.step = "build", !.version = Model!NextVersion(doc)]
    OBVIOUS
  <1>4. Model!Goes(w, next) BY <1>2, <1>3 DEF Model!Predict
  <1>5. w \in ModelRequests /\ w.model \in 0 .. requested /\ stock \in Seq(ModelDocs)
    BY DEF ModelTypeInv, ModelWorkTyped, ModelDocsTyped
  <1>6. doc = Model!NoDoc \/ (doc \in ModelDocs /\ doc.version \in 1 .. ModelPassed)
    <2>1. stock # <<>> => Len(stock) \in DOMAIN stock BY <1>5
    <2>2. QED BY <2>1, <1>2, <1>5 DEF Model!LatestModel, ModelTypeInv, ModelDocsTyped
  <1>7. next.step \in {"predict", "build"} BY <1>3, <1>5 DEF ModelRequests
  <1>8. ModelPassed' = ModelPassed + 1 /\ ModelPassed \in Int
    <2>0. PICK R : R = {next} OBVIOUS
    <2>1. work' = (work \ {w}) \cup R /\ (\A u, v \in R : u = v) /\ \A v \in R : v.step # "find"
      BY <2>0, <1>4, <1>7 DEF Model!Goes
    <2>2. QED BY <2>1, <1>1, ModelWorkGoesOn
  <1>9. ModelPassed >= 0 BY DEF ModelTypeInv
  <1>10. next \in ModelRequests /\ next.n = w.n /\ next.model = w.model /\ ModelRequestFits(next)'
    <2>1. CASE Model!IsValid(doc)
      <3>1. next = [w EXCEPT !.step = "predict", !.doc = doc] BY <1>3, <2>1
      <3>2. doc \in ModelDocs /\ doc.version \in 1 .. ModelPassed
        BY <2>1, <1>6 DEF Model!IsValid
      <3>3. /\ next \in ModelRequests /\ next.n = w.n /\ next.model = w.model
            /\ next.step = "predict" /\ next.doc = doc
        BY <3>1, <3>2, <1>5 DEF ModelRequests
      <3>4. QED BY <3>2, <3>3, <1>8 DEF ModelRequestFits
    <2>2. CASE ~Model!IsValid(doc)
      <3> DEFINE v == Model!NextVersion(doc)
      <3>1. next = [w EXCEPT !.step = "build", !.version = v] BY <1>3, <2>2
      <3>2. v \in 1 .. ModelPassed'
        <4>1. CASE doc = Model!NoDoc BY <4>1, <1>8, <1>9 DEF Model!NextVersion
        <4>2. CASE doc # Model!NoDoc
          <5>1. v = doc.version + 1 /\ doc.version \in 1 .. ModelPassed
            BY <4>2, <1>6 DEF Model!NextVersion
          <5>2. QED BY <5>1, <1>8
        <4>3. QED BY <4>1, <4>2
      <3> HIDE DEF v
      <3>3. v \in Nat BY <3>2
      <3>4. /\ next \in ModelRequests /\ next.n = w.n /\ next.model = w.model
            /\ next.step = "build" /\ next.version = v
        BY <3>1, <3>3, <1>5 DEF ModelRequests
      <3>5. QED BY <3>2, <3>4 DEF ModelRequestFits
    <2>3. QED BY <2>1, <2>2
  <1>11. ModelWorkTyped' BY <1>1, <1>4, <1>5, <1>7, <1>10, ModelMovesTyped
  <1>12. ModelDocsTyped' BY <1>1, <1>8, ModelDocsStay
  <1>13. QED BY <1>1, <1>8, <1>9, <1>11, <1>12 DEF ModelTypeInv

(* A request that has a version moves on, or writes the scores.            *)
LEMMA ModelLaterMoves ==
    ASSUME Model!ModelsAssumption, ModelTypeInv, NEW w \in work, NEW next, Model!Goes(w, next), requested' = requested,
           next \in ModelRequests, next.n = w.n, next.step # "find", next.model \in 0 .. requested,
           w.step # "find", ModelRequestFits(next)
    PROVE  ModelWorkTyped' /\ ModelPassed' = ModelPassed /\ ModelPassed \in Int
  <1>0. PICK R : R = {next} OBVIOUS
  <1>1. work' = (work \ {w}) \cup R /\ (\A u, v \in R : u = v) /\ \A v \in R : v.step # "find"
    BY <1>0 DEF Model!Goes
  <1>2. ModelPassed' = ModelPassed /\ ModelPassed \in Int BY <1>1, ModelWorkGoesOn
  <1>3. ModelRequestFits(next)' BY <1>2 DEF ModelRequestFits
  <1>4. QED BY <1>2, <1>3, ModelMovesTyped

(* A model is built, or not.                                               *)
LEMMA ModelBuildTyped ==
    ASSUME Model!ModelsAssumption, ModelTypeInv, NEW w \in work, Model!BuildFails(w) \/ Model!Build(w)
      PROVE ModelTypeInv'
  <1>1. /\ w.step = "build" /\ UNCHANGED <<stock, requested, scores, grade>>
        /\ files' = files \/ files' = [files EXCEPT ![w.version] = w.n]
    BY DEF Model!BuildFails, Model!Build
  <1>2. w \in ModelRequests /\ w.n \in 1 .. requested /\ w.model \in 0 .. requested /\ w.version \in 1 .. ModelPassed
    BY <1>1 DEF ModelTypeInv, ModelWorkTyped, ModelRequestFits
  <1>3. PICK next : /\ Model!Goes(w, next)
                    /\ \/ \E s \in ModelStatuses : next = [w EXCEPT !.step = "grade", !.status = s]
                       \/ \E res \in Model!Built : next = [w EXCEPT !.step = "test", !.res = res]
    <2>1. ASSUME NEW res \in Model!Unbuilt,
                 Model!Goes(w, [w EXCEPT !.step = "grade", !.status = Model!predictionStatus(res)])
          PROVE  \E s \in ModelStatuses : Model!Goes(w, [w EXCEPT !.step = "grade", !.status = s])
      BY <2>1 DEF ModelStatuses
    <2>2. \/ \E s \in ModelStatuses : Model!Goes(w, [w EXCEPT !.step = "grade", !.status = s])
          \/ \E res \in Model!Built : Model!Goes(w, [w EXCEPT !.step = "test", !.res = res])
      BY <2>1 DEF Model!BuildFails, Model!Build
    <2>3. QED BY <2>2
  <1>4. /\ next \in ModelRequests /\ next.n = w.n /\ next.model = w.model /\ next.version = w.version
        /\ next.step \in {"test", "grade"} /\ (next.step = "test" => next.res \in Model!Built)
    <2>1. ASSUME NEW s \in ModelStatuses, next = [w EXCEPT !.step = "grade", !.status = s]
          PROVE  /\ next \in ModelRequests /\ next.n = w.n /\ next.model = w.model
                 /\ next.version = w.version /\ next.step = "grade"
      BY <2>1, <1>2 DEF ModelRequests
    <2>2. ASSUME NEW res \in Model!Built, next = [w EXCEPT !.step = "test", !.res = res]
          PROVE  /\ next \in ModelRequests /\ next.n = w.n /\ next.model = w.model
                 /\ next.version = w.version /\ next.step = "test" /\ next.res \in Model!Built
      BY <2>2, <1>2 DEF ModelRequests
    <2>3. QED BY <1>3, <2>1, <2>2
  <1>5. ModelRequestFits(next) BY <1>2, <1>4 DEF ModelRequestFits
  <1>6. ModelWorkTyped' /\ ModelPassed' = ModelPassed /\ ModelPassed \in Int
    BY <1>1, <1>2, <1>3, <1>4, <1>5, ModelLaterMoves
  <1>7. ModelDocsTyped' BY <1>1, <1>6, ModelDocsStay
  <1>8. files' \in [Model!Versions -> {Model!Broken} \cup 0 .. requested]
    BY <1>1, <1>2 DEF ModelTypeInv
  <1>9. QED BY <1>1, <1>6, <1>7, <1>8 DEF ModelTypeInv

(* The model is tested.                                                    *)
LEMMA ModelTestTyped ==
    ASSUME Model!ModelsAssumption, ModelTypeInv, NEW w \in work, Model!Test(w)
      PROVE ModelTypeInv'
  <1>1. /\ w.step = "test" /\ UNCHANGED <<stock, files, requested, scores, grade>>
        /\ files[w.version] \notin {Model!NoFile, Model!Broken}
    BY DEF Model!Test
  <1>2. /\ w \in ModelRequests /\ w.n \in 1 .. requested /\ w.model \in 0 .. requested
        /\ w.version \in 1 .. ModelPassed /\ w.res \in Model!Built
    BY <1>1 DEF ModelTypeInv, ModelWorkTyped, ModelRequestFits
  <1>3. PICK t : t = files[w.version] OBVIOUS
  <1>4. PICK next : next = [w EXCEPT !.step = "insert", !.tested = t] OBVIOUS
  <1>5. Model!Goes(w, next) BY <1>3, <1>4 DEF Model!Test
  <1>6. t \in 1 .. requested
    <2>1. ModelPassed \in Int /\ ModelPassed <= MaxRequests /\ requested \in Nat
      BY ModelPassedBounds DEF ModelTypeInv, ModelWorkTyped
    <2>2. w.version \in Model!Versions
      BY <2>1, <1>2 DEF Model!Versions, Model!ModelsAssumption
    <2>3. t \in {Model!Broken} \cup 0 .. requested BY <2>2, <1>3 DEF ModelTypeInv
    <2>4. QED BY <2>1, <2>3, <1>1, <1>3 DEF Model!NoFile
  <1>7. t \in Int BY <1>6
  <1>8. /\ next \in ModelRequests /\ next.n = w.n /\ next.model = w.model /\ next.version = w.version
        /\ next.step = "insert" /\ next.tested = t /\ next.res = w.res
    BY <1>2, <1>4, <1>7 DEF ModelRequests
  <1>9. ModelRequestFits(next) BY <1>2, <1>6, <1>8 DEF ModelRequestFits
  <1>10. ModelWorkTyped' /\ ModelPassed' = ModelPassed /\ ModelPassed \in Int
    BY <1>1, <1>2, <1>5, <1>8, <1>9, ModelLaterMoves
  <1>11. ModelDocsTyped' BY <1>1, <1>10, ModelDocsStay
  <1>12. QED BY <1>1, <1>10, <1>11 DEF ModelTypeInv

(* The document of the model is stored.                                    *)
LEMMA ModelInsertTyped ==
    ASSUME Model!ModelsAssumption, ModelTypeInv, NEW w \in work, Model!Insert(w)
      PROVE ModelTypeInv'
  <1>1. w.step = "insert" /\ UNCHANGED <<files, requested, scores, grade>>
    BY DEF Model!Insert
  <1>2. /\ w \in ModelRequests /\ w.n \in 1 .. requested /\ w.version \in 1 .. ModelPassed
        /\ w.res \in Model!Built /\ w.tested \in 1 .. requested
    BY <1>1 DEF ModelTypeInv, ModelWorkTyped, ModelRequestFits
  <1>3. PICK s \in ModelStatuses : s = Model!predictionStatus(w.res)
    BY <1>2 DEF ModelStatuses
  <1>4. PICK d : d = [version |-> w.version, model |-> w.n, tested |-> w.tested, status |-> s]
    OBVIOUS
  <1>5. PICK next : next = [w EXCEPT !.step = IF w.res.isPredicted THEN "scores" ELSE "grade",
                                     !.status = s, !.model = w.tested]
    OBVIOUS
  <1>6. stock' = Append(stock, d) /\ Model!Goes(w, next)
    BY <1>3, <1>4, <1>5 DEF Model!Insert
  <1>7. w.n \in Nat /\ w.version \in Nat /\ w.tested \in Int BY <1>2 DEF ModelRequests
  <1>8. /\ next \in ModelRequests /\ next.n = w.n /\ next.model = w.tested
        /\ next.step \in {"scores", "grade"}
    BY <1>2, <1>3, <1>5, <1>7 DEF ModelRequests
  <1>9. ModelRequestFits(next) /\ next.model \in 0 .. requested
    BY <1>2, <1>8 DEF ModelRequestFits, ModelTypeInv
  <1>10. ModelWorkTyped' /\ ModelPassed' = ModelPassed /\ ModelPassed \in Int
    BY <1>1, <1>6, <1>8, <1>9, ModelLaterMoves
  <1>11. ModelDocsTyped'
    <2>1. d \in ModelDocs /\ d.version \in 1 .. ModelPassed /\ d.model \in 1 .. requested
      BY <1>2, <1>3, <1>4, <1>7 DEF ModelDocs
    <2>2. stock \in Seq(ModelDocs) BY DEF ModelTypeInv, ModelDocsTyped
    <2>3. stock' \in Seq(ModelDocs) BY <2>1, <2>2, <1>6
    <2>4. \A i \in DOMAIN stock' : (i \in DOMAIN stock /\ stock'[i] = stock[i]) \/ stock'[i] = d
      BY <2>1, <2>2, <1>6
    <2>5. QED BY <2>1, <2>3, <2>4, <1>1, <1>10 DEF ModelTypeInv, ModelDocsTyped
  <1>12. QED BY <1>1, <1>10, <1>11 DEF ModelTypeInv

(* A stored model scores the commits, or the job stores the scores.        *)
LEMMA ModelScoreTyped ==
    ASSUME Model!ModelsAssumption, ModelTypeInv, NEW w \in work,
           Model!PredictUsingLastModel(w) \/ Model!SaveCommitAnalysis(w)
    PROVE  ModelTypeInv'
  <1>1. /\ w.step \in {"predict", "scores"} /\ UNCHANGED <<stock, files, requested, grade>>
        /\ scores' \in {scores, w.model}
    BY DEF Model!PredictUsingLastModel, Model!SaveCommitAnalysis
  <1>2. w \in ModelRequests /\ w.n \in 1 .. requested /\ w.model \in 0 .. requested
    BY DEF ModelTypeInv, ModelWorkTyped
  <1>3. PICK next : /\ Model!Goes(w, next) /\ next \in ModelRequests /\ next.n = w.n
                    /\ next.step \in {"scores", "grade"} /\ next.model \in 0 .. requested
    <2>1. CASE Model!SaveCommitAnalysis(w)
      <3>1. PICK next : next = [w EXCEPT !.step = "grade"] OBVIOUS
      <3>2. Model!Goes(w, next) BY <2>1, <3>1 DEF Model!SaveCommitAnalysis
      <3>3. next \in ModelRequests /\ next.n = w.n /\ next.step = "grade" /\ next.model = w.model
        BY <3>1, <1>2 DEF ModelRequests
      <3>4. QED BY <3>2, <3>3, <1>2
    <2>2. CASE Model!PredictUsingLastModel(w)
      <3>1. /\ w.step = "predict" /\ files[w.doc.version] \notin {Model!NoFile, Model!Broken}
        BY <2>2 DEF Model!PredictUsingLastModel
      <3>2. PICK goal \in {"scores", "grade"} :
                Model!Goes(w, [w EXCEPT !.step = goal, !.status = w.doc.status,
                                  !.model = files[w.doc.version]])
        BY <2>2 DEF Model!PredictUsingLastModel
      <3>3. PICK next : next = [w EXCEPT !.step = goal, !.status = w.doc.status,
                                         !.model = files[w.doc.version]]
        OBVIOUS
      <3>4. w.doc.status \in ModelStatuses /\ w.doc.version \in 1 .. ModelPassed
        BY <3>1, <1>2
          DEF ModelRequests, ModelDocs, ModelTypeInv, ModelWorkTyped, ModelRequestFits
      <3>5. files[w.doc.version] \in 0 .. requested
        <4>1. ModelPassed \in Int /\ ModelPassed <= MaxRequests /\ requested \in Nat
          BY ModelPassedBounds DEF ModelTypeInv, ModelWorkTyped
        <4>2. w.doc.version \in Model!Versions
          BY <4>1, <3>4 DEF Model!Versions, Model!ModelsAssumption
        <4>3. QED BY <4>2, <3>1 DEF ModelTypeInv
      <3>6. files[w.doc.version] \in Int BY <3>5
      <3>7. /\ next \in ModelRequests /\ next.n = w.n /\ next.step = goal
            /\ next.model = files[w.doc.version]
        BY <3>3, <3>4, <3>6, <1>2 DEF ModelRequests
      <3>8. QED BY <3>2, <3>3, <3>5, <3>7
    <2>3. QED BY <2>1, <2>2
  <1>4. ModelRequestFits(next) BY <1>3 DEF ModelRequestFits
  <1>5. ModelWorkTyped' /\ ModelPassed' = ModelPassed /\ ModelPassed \in Int
    BY <1>1, <1>3, <1>4, ModelLaterMoves
  <1>6. ModelDocsTyped' BY <1>1, <1>5, ModelDocsStay
  <1>7. QED BY <1>1, <1>2, <1>5, <1>6 DEF ModelTypeInv

(* The request ends.                                                       *)
LEMMA ModelEndTyped ==
    ASSUME Model!ModelsAssumption, ModelTypeInv, NEW w \in work, Model!SaveGrade(w) \/ Model!GiveUp(w)
      PROVE ModelTypeInv'
  <1>1. /\ work' = work \ {w} /\ UNCHANGED <<stock, requested, scores>>
        /\ grade' = grade \/ grade' = [status |-> w.status, model |-> w.model]
        /\ files' = files \/ files' = [files EXCEPT ![w.version] = Model!Broken]
    BY DEF Model!SaveGrade, Model!GiveUp
  <1>2. w.model \in 0 .. requested BY DEF ModelTypeInv, ModelWorkTyped
  <1>3. ModelWorkTyped' /\ ModelPassed' >= ModelPassed /\ ModelPassed \in Int /\ ModelPassed' \in Int
    BY <1>1, ModelEndsTyped
  <1>4. ModelDocsTyped' BY <1>1, <1>3, ModelDocsStay
  <1>5. files' \in [Model!Versions -> {Model!Broken} \cup 0 .. requested]
    BY <1>1 DEF ModelTypeInv
  <1>6. grade'.model \in 0 .. requested BY <1>1, <1>2 DEF ModelTypeInv
  <1>7. ModelPassed' >= 0 BY <1>3 DEF ModelTypeInv
  <1>8. QED BY <1>1, <1>3, <1>4, <1>5, <1>6, <1>7 DEF ModelTypeInv

(* The files are lost.                                                     *)
LEMMA ModelRestTyped ==
    ASSUME Model!ModelsAssumption, ModelTypeInv, Model!LoseFiles \/ UNCHANGED Model!vars
      PROVE ModelTypeInv'
  <1>1. /\ UNCHANGED <<stock, work, requested, scores, grade>>
        /\ files' = files \/ files' = [v \in Model!Versions |-> Model!NoFile]
    BY DEF Model!LoseFiles, Model!vars
  <1>2. ModelPassed' = ModelPassed BY <1>1 DEF ModelPassed, ModelFinds
  <1>3. ModelWorkTyped' BY <1>1, <1>2 DEF ModelTypeInv, ModelWorkTyped, ModelRequestFits
  <1>4. ModelDocsTyped' BY <1>1, <1>2 DEF ModelTypeInv, ModelDocsTyped
  <1>5. files' \in [Model!Versions -> {Model!Broken} \cup 0 .. requested]
    BY <1>1, ModelPassedBounds DEF ModelTypeInv, ModelWorkTyped, Model!NoFile
  <1>6. QED BY <1>1, <1>2, <1>3, <1>4, <1>5 DEF ModelTypeInv

(* Every step keeps the types.                                             *)
LEMMA ModelNextTyped ==
    ASSUME Model!ModelsAssumption, ModelTypeInv, [Model!Next]_(Model!vars)
      PROVE ModelTypeInv'
  <1>1. CASE Model!Prediction BY <1>1, ModelPredictionTyped
  <1>2. CASE Model!LoseFiles \/ UNCHANGED Model!vars BY <1>2, ModelRestTyped
  <1>3. ASSUME NEW w \in work, Model!Predict(w)
    PROVE ModelTypeInv' BY <1>3, ModelPredictTyped
  <1>4. ASSUME NEW w \in work, Model!BuildFails(w) \/ Model!Build(w)
    PROVE ModelTypeInv' BY <1>4, ModelBuildTyped
  <1>5. ASSUME NEW w \in work, Model!Test(w) PROVE ModelTypeInv' BY <1>5, ModelTestTyped
  <1>6. ASSUME NEW w \in work, Model!Insert(w)
    PROVE ModelTypeInv' BY <1>6, ModelInsertTyped
  <1>7. ASSUME NEW w \in work, Model!PredictUsingLastModel(w) \/ Model!SaveCommitAnalysis(w)
    PROVE ModelTypeInv'
    BY <1>7, ModelScoreTyped
  <1>8. ASSUME NEW w \in work, Model!SaveGrade(w) \/ Model!GiveUp(w)
    PROVE ModelTypeInv' BY <1>8, ModelEndTyped
  <1>9. QED BY <1>1, <1>2, <1>3, <1>4, <1>5, <1>6, <1>7, <1>8 DEF Model!Next

(* The file of a stored model holds that model, a repository has one for   *)
(* good, and the confidence shown is that of the model that scored:        *)
(* Predict and predictionStatus, for any number of requests, one after the *)
(* other or side by side.                                                  *)
THEOREM ModelsAgreed == ServicesSpec => []ModelsAgree
  <1> USE ServicesAssumption
  <1> DEFINE Inv == part = "models" => ModelInv /\ ModelTypeInv
  <1>1. ServicesInit => Inv BY ModelInit, ModelInitTyped DEF ServicesInit, Starts
  <1>2. Inv /\ [ServicesNext]_services => Inv' BY ModelNext, ModelNextTyped, ModelRuns
  <1>3. ModelInv => Model!DocMatchesFile /\ Model!OneModel /\ Model!ConfidenceOfScores
    <2>1. ModelInv => Model!DocMatchesFile
      BY DEF ModelInv, ModelDocsInv, Model!DocMatchesFile
    <2>2. ModelInv => Model!OneModel BY DEF ModelInv, ModelDocsInv, Model!OneModel
    <2>3. ModelInv => Model!ConfidenceOfScores
      BY DEF ModelInv, ModelGradeInv, Model!ConfidenceOfScores
    <2>4. QED BY <2>1, <2>2, <2>3
  <1>4. ModelTypeInv => Model!TypeOK
    <2> SUFFICES ASSUME ModelTypeInv PROVE Model!TypeOK
      OBVIOUS
    <2>1. ModelPassed \in Int /\ ModelPassed <= MaxRequests /\ requested \in Nat /\ IsFiniteSet(work)
      BY ModelPassedBounds DEF ModelTypeInv, ModelWorkTyped
    <2>2. \A i \in 1 .. ModelPassed : i \in Model!Versions
      BY <2>1 DEF Model!Versions, Model!ModelsAssumption
    <2>3. QED
      BY <2>1, <2>2, ModelCardinality
        DEF ModelTypeInv, ModelWorkTyped, ModelDocsTyped, ModelRequestFits, Model!TypeOK
  <1>5. Inv => ModelsAgree BY <1>3, <1>4 DEF Model!ModelsAgree, ModelsAgree
  <1>6. QED BY <1>1, <1>2, <1>5, PTL DEF ServicesSpec
=============================================================================

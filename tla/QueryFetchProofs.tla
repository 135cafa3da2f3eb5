---------------------------- MODULE QueryFetchProofs ----------------------------
(***************************************************************************)
(* Proofs about QueryFetch, for any queries, keys and bounds.              *)
(***************************************************************************)
EXTENDS QueryFetch, TLAPS

Requests == [by : Queries \X Nat, key : Keys, since : 0..server, riders : SUBSET (Queries \X Nat)]

\* No request is known to a query under a fetchId that it has yet to reach.
Past == \A r \in flying : /\ r.by[2] <= fetchId[r.by[1]]
                          /\ \A i \in r.riders : i[2] <= fetchId[i[1]]

\* The query that sent the shared request of a key knows that it owns the key.
Owned == \A k \in Keys : \A q \in Queries : \A n \in Nat : inflight[k] = <<q, n>> => k \in owned[q]

Inv == TypeOK /\ Past /\ Owned /\ Awaited

LEMMA Initially == Init => Inv
<1> SUFFICES ASSUME Init PROVE Inv
  OBVIOUS
<1>1. TypeOK
  BY BoundsAssumption DEF Init, TypeOK
<1>2. Past /\ Awaited
  BY DEF Init, Past, Awaited, BusyWait, SharedIsFlying
<1>3. Owned
  <2> SUFFICES ASSUME NEW k \in Keys, NEW q \in Queries, NEW n \in Nat, inflight[k] = <<q, n>>
               PROVE  k \in owned[q]
    BY DEF Owned
  <2>1. inflight[k] = NoRequest
    BY DEF Init
  <2> QED
    BY <2>1, NoneAssumption
<1> QED
  BY <1>1, <1>2, <1>3 DEF Inv

(***************************************************************************)
(* Types                                                                   *)
(***************************************************************************)
FetchTypes ==
  /\ failed \subseteq Queries
  /\ fetchId \in [Queries -> Nat] /\ \A q \in Queries : fetchId[q] <= MaxFetch[q]
  /\ busy \in [Queries -> SUBSET {"loading", "revalidating"}]
  /\ shown \in [Queries -> [key : Keys, at : 0..server] \cup {Nothing}]
  /\ owned \in [Queries -> SUBSET Keys]
  /\ flying \subseteq Requests
  /\ inflight \in [Keys -> (Queries \X Nat) \cup {NoRequest}]

LEMMA RequestType ==
  ASSUME TypeOK, NEW q \in Queries, NEW k \in Keys
  PROVE  Request(q, k, server) \in Requests /\ NextId(q) \in Queries \X Nat
<1>1. NextId(q) \in Queries \X Nat
  BY DEF TypeOK, NextId
<1>2. server \in 0..server
  BY BoundsAssumption DEF TypeOK
<1> QED
  BY <1>1, <1>2 DEF Request, Requests

\* A rider more.
LEMMA JoinType ==
  ASSUME TypeOK, NEW q \in Queries, NEW r \in flying
  PROVE  [r EXCEPT !.riders = @ \cup {NextId(q)}] \in Requests
<1>1. NextId(q) \in Queries \X Nat
  BY DEF TypeOK, NextId
<1>2. r \in Requests
  BY DEF TypeOK, Requests
<1> QED
  BY <1>1, <1>2 DEF Requests

LEMMA EffectTypes ==
  ASSUME TypeOK, NEW q \in Queries, NEW k \in Keys \cup {NoKey},
         NEW flags \in SUBSET {"loading", "revalidating"}, RunEffect(q, k, flags), UNCHANGED world
  PROVE  FetchTypes'
<1> USE DEF world
<1>1. CASE k = NoKey
  BY <1>1, NoneAssumption DEF RunEffect, TypeOK, FetchTypes, Requests
<1>2. CASE k # NoKey /\ Serves(k)
  <2>1. shown' \in [Queries -> [key : Keys, at : 0..server] \cup {Nothing}]
    <3>1. cache[k].at \in 0..server
      BY <1>2, NoneAssumption DEF TypeOK, Serves
    <3>2. [key |-> k, at |-> cache[k].at] \in [key : Keys, at : 0..server]
      BY <1>2, <3>1
    <3> QED
      BY <1>2, <3>2 DEF RunEffect, TypeOK
  <2>2. busy' \in [Queries -> SUBSET {"loading", "revalidating"}]
    BY <1>2 DEF RunEffect, TypeOK
  <2>3. UNCHANGED <<fetchId, owned, flying, inflight>> /\ failed' \subseteq Queries
    BY <1>2 DEF RunEffect, TypeOK
  <2> QED
    BY <2>1, <2>2, <2>3 DEF TypeOK, FetchTypes, Requests
<1>3. CASE k # NoKey /\ ~Serves(k)
  <2>1. /\ fetchId[q] < MaxFetch[q] /\ fetchId' = [fetchId EXCEPT ![q] = @ + 1]
        /\ busy' = [busy EXCEPT ![q] = Marked(flags, shown[q])]
        /\ failed' = failed \ {q} /\ shown' = shown
    BY <1>3 DEF RunEffect
  <2>2. fetchId' \in [Queries -> Nat] /\ \A p \in Queries : fetchId'[p] <= MaxFetch[p]
    <3>1. fetchId[q] < MaxFetch[q] /\ fetchId' = [fetchId EXCEPT ![q] = @ + 1]
      BY <2>1
    <3>2. ASSUME NEW p \in Queries PROVE fetchId'[p] \in Nat /\ fetchId'[p] <= MaxFetch[p]
      <4>1. fetchId[p] \in Nat /\ MaxFetch[p] \in Nat /\ fetchId[p] <= MaxFetch[p]
        BY BoundsAssumption DEF TypeOK
      <4>2. fetchId'[p] = IF p = q THEN fetchId[p] + 1 ELSE fetchId[p]
        BY <3>1 DEF TypeOK
      <4> QED
        BY <3>1, <4>1, <4>2
    <3>3. fetchId' = [p \in Queries |-> fetchId'[p]]
      BY <3>1 DEF TypeOK
    <3> QED
      BY <3>2, <3>3
  <2>3. busy' \in [Queries -> SUBSET {"loading", "revalidating"}]
    <3>1. Marked(flags, shown[q]) \in SUBSET {"loading", "revalidating"}
      BY DEF Marked
    <3> QED
      BY <2>1, <3>1 DEF TypeOK
  <2>4. flying' \subseteq Requests /\ owned' \in [Queries -> SUBSET Keys]
        /\ inflight' \in [Keys -> (Queries \X Nat) \cup {NoRequest}]
    <3>1. CASE inflight[k] # NoRequest
      <4>1. /\ flying' = {IF r.by = inflight[k] THEN [r EXCEPT !.riders = @ \cup {NextId(q)}]
                          ELSE r : r \in flying}
            /\ UNCHANGED <<owned, inflight>>
        BY <1>3, <3>1 DEF RunEffect
      <4>2. flying \subseteq Requests
        BY DEF TypeOK, Requests
      <4> QED
        BY <4>1, <4>2, JoinType DEF TypeOK
    <3>2. CASE inflight[k] = NoRequest
      <4>1. /\ flying' = flying \cup {Request(q, k, server)}
            /\ inflight' = [inflight EXCEPT ![k] = NextId(q)]
            /\ owned' = [owned EXCEPT ![q] = @ \cup {k}]
        BY <1>3, <3>2 DEF RunEffect
      <4>2. Request(q, k, server) \in Requests /\ NextId(q) \in Queries \X Nat
        BY <1>3, RequestType
      <4> QED
        BY <1>3, <4>1, <4>2 DEF TypeOK, Requests
    <3> QED
      BY <3>1, <3>2
  <2> QED
    BY <2>1, <2>2, <2>3, <2>4 DEF TypeOK, FetchTypes, Requests
<1> QED
  BY <1>1, <1>2, <1>3

LEMMA RefetchTypes ==
  ASSUME TypeOK, NEW qs \in SUBSET Queries, NEW data, RefetchAll(qs, data)
  PROVE  /\ failed' \subseteq Queries
         /\ fetchId' \in [Queries -> Nat] /\ \A q \in Queries : fetchId'[q] <= MaxFetch[q]
         /\ busy' \in [Queries -> SUBSET {"loading", "revalidating"}]
         /\ owned' \in [Queries -> SUBSET Keys]
         /\ flying' \subseteq Requests
         /\ inflight' \in [Keys -> (Queries \X Nat) \cup {NoRequest}]
         /\ cache' \in [Keys -> [at : 0..server, version : 0..version] \cup {Nothing}]
<1>1. \A q \in Fetching(qs) : q \in Queries /\ key[q] \in Keys
  BY DEF Fetching, TypeOK
<1>2. failed' \subseteq Queries
  BY DEF RefetchAll, TypeOK
<1>3. fetchId' \in [Queries -> Nat] /\ \A q \in Queries : fetchId'[q] <= MaxFetch[q]
  <2>1. ASSUME NEW q \in Queries PROVE fetchId'[q] \in Nat /\ fetchId'[q] <= MaxFetch[q]
    BY BoundsAssumption DEF RefetchAll, TypeOK
  <2>2. fetchId' = [q \in Queries |-> fetchId'[q]]
    BY DEF RefetchAll
  <2> QED
    BY <2>1, <2>2
<1>4. busy' \in [Queries -> SUBSET {"loading", "revalidating"}]
  <2>1. ASSUME NEW q \in Queries PROVE busy'[q] \in SUBSET {"loading", "revalidating"}
    <3>1. busy[q] \in SUBSET {"loading", "revalidating"}
      BY DEF TypeOK
    <3> QED
      BY <3>1 DEF RefetchAll, Marked
  <2>2. busy' = [q \in Queries |-> busy'[q]]
    BY DEF RefetchAll
  <2> QED
    BY <2>1, <2>2
<1>5. owned' \in [Queries -> SUBSET Keys]
  BY <1>1 DEF RefetchAll, TypeOK
<1>6. flying' \subseteq Requests
  <2>1. \A q \in Fetching(qs) : Request(q, key[q], server) \in Requests
    BY <1>1, RequestType
  <2> QED
    BY <2>1 DEF RefetchAll, TypeOK, Requests
<1>7. inflight' \in [Keys -> (Queries \X Nat) \cup {NoRequest}]
  <2>1. PICK last \in [Refetched(qs) -> Fetching(qs)] :
          inflight' = [k \in Keys |-> IF k \in Refetched(qs) THEN NextId(last[k]) ELSE inflight[k]]
    BY DEF RefetchAll
  <2>2. \A k \in Refetched(qs) : NextId(last[k]) \in Queries \X Nat
    BY <1>1 DEF NextId, TypeOK
  <2> QED
    BY <2>1, <2>2 DEF TypeOK
<1>8. cache' \in [Keys -> [at : 0..server, version : 0..version] \cup {Nothing}]
  BY DEF RefetchAll, TypeOK
<1> QED
  BY <1>2, <1>3, <1>4, <1>5, <1>6, <1>7, <1>8

LEMMA AnswerTypes ==
  ASSUME TypeOK, NEW r \in flying, Answer(r) \/ Fail(r)
  PROVE  TypeOK'
<1>1. /\ Settled(r) /\ UNCHANGED <<world, live, key, fetchId>>
  BY DEF Answer, Fail, Settled
<1>2. /\ flying' \subseteq flying
      /\ owned' \in [Queries -> SUBSET Keys]
      /\ busy' \in [Queries -> SUBSET {"loading", "revalidating"}]
      /\ inflight' \in [Keys -> (Queries \X Nat) \cup {NoRequest}]
  BY <1>1 DEF Settled, Stopped, Unshared, TypeOK
<1>3. r.key \in Keys /\ r.since \in Nat
  BY DEF TypeOK
<1>4. failed' \subseteq Queries
  BY DEF Answer, Fail, Takers, TypeOK
<1>5. /\ shown' \in [Queries -> [key : Keys, at : 0..server] \cup {Nothing}]
      /\ cache' \in [Keys -> [at : 0..server, version : 0..version] \cup {Nothing}]
  <2>1. CASE Fail(r)
    BY <2>1 DEF Fail, TypeOK
  <2>2. CASE Answer(r)
    <3>1. PICK at \in r.since .. server :
            /\ shown' = [q \in Queries |-> IF q \in Takers(r) THEN [key |-> r.key, at |-> at] ELSE shown[q]]
            /\ cache' = IF Takers(r) = {} THEN cache
                        ELSE [cache EXCEPT ![r.key] = [at |-> at, version |-> version]]
      BY <2>2 DEF Answer
    <3>2. at \in 0..server /\ version \in 0..version
      BY <1>3, <3>1, BoundsAssumption DEF TypeOK
    <3> QED
      BY <1>3, <3>1, <3>2 DEF TypeOK
  <2> QED
    BY <2>1, <2>2
<1> QED
  BY <1>1, <1>2, <1>4, <1>5 DEF TypeOK, world

LEMMA TypesStep == TypeOK /\ [Next]_vars => TypeOK'
<1> SUFFICES ASSUME TypeOK, [Next]_vars PROVE TypeOK'
  OBVIOUS
<1> USE DEF world
<1>1. ASSUME NEW q \in Queries, NEW k \in Keys \cup {NoKey}, Mount(q, k) \/ ChangeKey(q, k)
      PROVE  TypeOK'
  <2>1. busy[q] \in SUBSET {"loading", "revalidating"} /\ {"loading"} \in SUBSET {"loading", "revalidating"}
    BY DEF TypeOK
  <2>2. /\ UNCHANGED world /\ cache' = cache /\ live' \subseteq Queries
        /\ key' = [key EXCEPT ![q] = k]
    BY <1>1 DEF Mount, ChangeKey, TypeOK
  <2>3. FetchTypes'
    BY <1>1, <2>1, <2>2, EffectTypes DEF Mount, ChangeKey
  <2>4. key' \in [Queries -> Keys \cup {NoKey}]
    BY <2>2 DEF TypeOK
  <2> QED
    BY <2>2, <2>3, <2>4 DEF TypeOK, FetchTypes, Requests
<1>2. ASSUME NEW q \in Queries, Refetch(q) PROVE TypeOK'
  <2>1. RefetchAll({q}, shown) /\ UNCHANGED <<world, live, key, shown>>
    BY <1>2 DEF Refetch
  <2> QED
    BY <2>1, RefetchTypes DEF TypeOK, Requests
<1>3. ASSUME NEW q \in Queries, Dispose(q) PROVE TypeOK'
  <2>1. /\ UNCHANGED <<world, cache>> /\ live' \subseteq Queries /\ failed' \subseteq Queries
        /\ key' \in [Queries -> Keys \cup {NoKey}]
        /\ busy' \in [Queries -> SUBSET {"loading", "revalidating"}]
        /\ shown' \in [Queries -> [key : Keys, at : 0..server] \cup {Nothing}]
        /\ owned' \in [Queries -> SUBSET Keys]
        /\ inflight' \in [Keys -> (Queries \X Nat) \cup {NoRequest}]
    BY <1>3 DEF Dispose, TypeOK
  <2>2. fetchId' \in [Queries -> Nat] /\ \A p \in Queries : fetchId'[p] <= MaxFetch[p]
    <3>1. fetchId[q] < MaxFetch[q] /\ fetchId' = [fetchId EXCEPT ![q] = @ + 1]
      BY <1>3 DEF Dispose
    <3>2. ASSUME NEW p \in Queries PROVE fetchId'[p] \in Nat /\ fetchId'[p] <= MaxFetch[p]
      <4>1. fetchId[p] \in Nat /\ MaxFetch[p] \in Nat /\ fetchId[p] <= MaxFetch[p]
        BY BoundsAssumption DEF TypeOK
      <4>2. fetchId'[p] = IF p = q THEN fetchId[p] + 1 ELSE fetchId[p]
        BY <3>1 DEF TypeOK
      <4> QED
        BY <3>1, <4>1, <4>2
    <3>3. fetchId' = [p \in Queries |-> fetchId'[p]]
      BY <3>1 DEF TypeOK
    <3> QED
      BY <3>2, <3>3
  <2>3. flying' \subseteq Requests
    <3>1. ASSUME NEW r \in flying PROVE [r EXCEPT !.riders = {i \in @ : i[1] # q}] \in Requests
      <4>1. r \in Requests
        BY DEF TypeOK, Requests
      <4> QED
        BY <4>1 DEF Requests
    <3> QED
      BY <1>3, <3>1 DEF Dispose
  <2> QED
    BY <2>1, <2>2, <2>3 DEF TypeOK, Requests
<1>4. CASE Change
  <2>1. server' \in 0..MaxChange /\ server' = server + 1 /\ 0..server \subseteq 0..server'
    BY <1>4, BoundsAssumption DEF Change, TypeOK
  <2>2. flying' \subseteq Requests'
    <3>1. flying \subseteq Requests /\ flying' = flying
      BY <1>4 DEF Change, TypeOK, Requests
    <3>2. Requests \subseteq Requests'
      BY <2>1 DEF Requests
    <3> QED
      BY <3>1, <3>2
  <2>3. shown' \in [Queries -> [key : Keys, at : 0..server'] \cup {Nothing}]
    BY <1>4, <2>1 DEF Change, TypeOK
  <2>4. cache' \in [Keys -> [at : 0..server', version : 0..version'] \cup {Nothing}]
    BY <1>4, <2>1 DEF Change, TypeOK
  <2>5. told' \in 0..server' /\ switched' \in 0..server'
    BY <1>4, <2>1 DEF Change, TypeOK
  <2> QED
    BY <1>4, <2>1, <2>2, <2>3, <2>4, <2>5 DEF Change, TypeOK, Requests
<1>5. ASSUME NEW n \in 1..server, Emit(n) PROVE TypeOK'
  <2>1. /\ RefetchAll(live, shown) /\ UNCHANGED <<server, switched, live, key, shown>>
        /\ told' \in 0..server /\ version' = version + 1
    BY <1>5 DEF Emit, TypeOK
  <2>2. 0..version \subseteq 0..version' /\ version' \in Nat
    BY <2>1 DEF TypeOK
  <2>3. /\ failed' \subseteq Queries
        /\ fetchId' \in [Queries -> Nat] /\ \A q \in Queries : fetchId'[q] <= MaxFetch[q]
        /\ busy' \in [Queries -> SUBSET {"loading", "revalidating"}]
        /\ owned' \in [Queries -> SUBSET Keys]
        /\ flying' \subseteq Requests
        /\ inflight' \in [Keys -> (Queries \X Nat) \cup {NoRequest}]
        /\ cache' \in [Keys -> [at : 0..server, version : 0..version] \cup {Nothing}]
    BY <2>1, RefetchTypes DEF TypeOK
  <2>4. cache' \in [Keys -> [at : 0..server', version : 0..version'] \cup {Nothing}]
    BY <2>1, <2>2, <2>3
  <2> QED
    BY <2>1, <2>2, <2>3, <2>4 DEF TypeOK, Requests
<1>6. ASSUME NEW n \in 1..server, SwitchTenant(n) PROVE TypeOK'
  <2>1. /\ RefetchAll(live, shown') /\ UNCHANGED <<server, told, version, live, key>>
        /\ switched' \in 0..server
        /\ shown' \in [Queries -> [key : Keys, at : 0..server] \cup {Nothing}]
    BY <1>6 DEF SwitchTenant, TypeOK
  <2>2. live \in SUBSET Queries
    BY DEF TypeOK
  <2> QED
    BY <2>1, <2>2, RefetchTypes DEF TypeOK, Requests
<1>7. ASSUME NEW r \in flying, Answer(r) \/ Fail(r) PROVE TypeOK'
  BY <1>7, AnswerTypes
<1>8. CASE UNCHANGED vars
  BY <1>8 DEF TypeOK, vars
<1> QED
  BY <1>1, <1>2, <1>3, <1>4, <1>5, <1>6, <1>7, <1>8 DEF Next

(***************************************************************************)
(* Requests that are waited for                                            *)
(***************************************************************************)
\* The effect of q: it hits, joins a request that is out, or sends one.
Hits(q, flags) ==
  /\ UNCHANGED <<fetchId, owned, flying, inflight>>
  /\ busy' = [busy EXCEPT ![q] = flags \ {"loading"}]
Moves(q) ==
  /\ fetchId' = [fetchId EXCEPT ![q] = @ + 1]
  /\ \E b \in SUBSET {"loading", "revalidating"} : b # {} /\ busy' = [busy EXCEPT ![q] = b]
Joined(q, k, o) == IF o.by = inflight[k] THEN [o EXCEPT !.riders = @ \cup {NextId(q)}] ELSE o
Joins(q, k) ==
  /\ Moves(q) /\ inflight[k] # NoRequest
  /\ flying' = {Joined(q, k, r) : r \in flying}
  /\ UNCHANGED <<owned, inflight>>
Sends(q, k) ==
  /\ Moves(q) /\ inflight[k] = NoRequest
  /\ flying' = flying \cup {Request(q, k, server)}
  /\ inflight' = [inflight EXCEPT ![k] = NextId(q)]
  /\ owned' = [owned EXCEPT ![q] = @ \cup {k}]

LEMMA EffectMoves ==
  ASSUME TypeOK, NEW q \in Queries, NEW k \in Keys \cup {NoKey},
         NEW flags \in SUBSET {"loading", "revalidating"}, RunEffect(q, k, flags)
  PROVE  Hits(q, flags) \/ (k \in Keys /\ (Joins(q, k) \/ Sends(q, k)))
<1>1. CASE k = NoKey \/ Serves(k)
  BY <1>1 DEF RunEffect, Hits
<1>2. CASE k # NoKey /\ ~Serves(k)
  <2>1. Moves(q)
    <3>1. Marked(flags, shown[q]) \in SUBSET {"loading", "revalidating"} /\ Marked(flags, shown[q]) # {}
      BY DEF Marked
    <3>2. /\ fetchId' = [fetchId EXCEPT ![q] = @ + 1]
          /\ busy' = [busy EXCEPT ![q] = Marked(flags, shown[q])]
      BY <1>2 DEF RunEffect
    <3> QED
      BY <3>1, <3>2 DEF Moves
  <2>2. CASE inflight[k] # NoRequest
    BY <1>2, <2>1, <2>2 DEF RunEffect, Joins, Joined
  <2>3. CASE inflight[k] = NoRequest
    BY <1>2, <2>1, <2>3 DEF RunEffect, Sends
  <2> QED
    BY <2>2, <2>3
<1> QED
  BY <1>1, <1>2

\* What a fetch leaves as it is, for the other queries too.
LEMMA MovedIds ==
  ASSUME TypeOK, NEW q \in Queries, Moves(q)
  PROVE  /\ Id(q)' = NextId(q) /\ busy'[q] # {} /\ fetchId'[q] = fetchId[q] + 1
         /\ \A p \in Queries \ {q} : Id(p)' = Id(p) /\ busy'[p] = busy[p] /\ fetchId'[p] = fetchId[p]
  BY DEF TypeOK, Moves, Id, NextId

LEMMA JoinedRequests ==
  ASSUME TypeOK, NEW q \in Queries, NEW k \in Keys, Joins(q, k)
  PROVE  /\ \A r \in flying' : \E o \in flying :
              /\ r = Joined(q, k, o) /\ r.by = o.by /\ r.key = o.key /\ r.since = o.since
              /\ \/ r.riders = o.riders
                 \/ o.by = inflight[k] /\ r.riders = o.riders \cup {NextId(q)}
         /\ \A o \in flying : \E r \in flying' :
              /\ r.by = o.by /\ r.key = o.key /\ o.riders \subseteq r.riders
              /\ o.by = inflight[k] => NextId(q) \in r.riders
<1> DEFINE grown(o) == [o EXCEPT !.riders = @ \cup {NextId(q)}]
<1>1. ASSUME NEW o \in flying
      PROVE  /\ grown(o).by = o.by /\ grown(o).key = o.key /\ grown(o).since = o.since
             /\ grown(o).riders = o.riders \cup {NextId(q)}
  <2>1. o \in Requests
    BY DEF TypeOK, Requests
  <2> QED
    BY <2>1 DEF Requests
<1>2. flying' = {Joined(q, k, o) : o \in flying}
  BY DEF Joins
<1>3. \A o : Joined(q, k, o) = IF o.by = inflight[k] THEN grown(o) ELSE o
  BY DEF Joined
<1> HIDE DEF grown
<1> QED
  BY <1>1, <1>2, <1>3

LEMMA StaysPast ==
  ASSUME \A p \in Queries : fetchId[p] \in Nat /\ fetchId'[p] \in Nat /\ fetchId[p] <= fetchId'[p],
         NEW i \in Queries \X Nat, i[2] <= fetchId[i[1]]
  PROVE  i[2] <= fetchId'[i[1]]
<1>1. i[1] \in Queries /\ i[2] \in Nat
  OBVIOUS
<1> QED
  BY <1>1

LEMMA EffectStep ==
  ASSUME Inv, NEW q \in Queries, NEW k \in Keys \cup {NoKey},
         NEW flags \in SUBSET {"loading", "revalidating"}, RunEffect(q, k, flags),
         flags \ {"loading"} # {} => q \in live /\ busy[q] # {},
         live' \subseteq live \cup {q}
  PROVE  Past' /\ Owned' /\ Awaited'
<1>1. CASE Hits(q, flags)
  <2>1. Past' /\ Owned' /\ SharedIsFlying'
    BY <1>1 DEF Hits, Inv, Past, Owned, Awaited, SharedIsFlying
  <2>2. BusyWait'
    <3> SUFFICES ASSUME NEW p \in live', busy'[p] # {} PROVE \E r \in flying' : Id(p)' \in r.riders
      BY DEF BusyWait
    <3>1. p \in live /\ busy[p] # {} /\ Id(p)' = Id(p)
      BY <1>1 DEF Hits, Inv, TypeOK, Id
    <3> QED
      BY <1>1, <3>1 DEF Hits, Inv, Awaited, BusyWait
  <2> QED
    BY <2>1, <2>2 DEF Awaited
<1>2. ASSUME k \in Keys, Joins(q, k)
      PROVE  Past' /\ Owned' /\ Awaited'
  <2>1. TypeOK /\ Moves(q) /\ UNCHANGED <<owned, inflight>> /\ inflight[k] # NoRequest
    BY <1>2 DEF Joins, Inv
  <2>2. Past'
    <3> SUFFICES ASSUME NEW r \in flying'
                 PROVE  /\ r.by[2] <= fetchId'[r.by[1]]
                        /\ \A i \in r.riders : i[2] <= fetchId'[i[1]]
      BY DEF Past
    <3>1. PICK o \in flying : /\ r.by = o.by
                              /\ r.riders = o.riders \/ r.riders = o.riders \cup {NextId(q)}
      BY <1>2, <2>1, JoinedRequests
    <3>2. o.by \in Queries \X Nat /\ o.riders \subseteq Queries \X Nat
      BY <2>1 DEF TypeOK
    <3>3. \A p \in Queries : fetchId[p] \in Nat /\ fetchId'[p] \in Nat /\ fetchId[p] <= fetchId'[p]
      BY <2>1, MovedIds DEF TypeOK
    <3>4. \A i \in o.riders : i[2] <= fetchId'[i[1]]
      <4>1. \A i \in o.riders : i \in Queries \X Nat /\ i[2] <= fetchId[i[1]]
        BY <3>2 DEF Inv, Past
      <4> QED
        BY <3>3, <4>1, StaysPast
    <3>5. r.by[2] <= fetchId'[r.by[1]]
      <4>1. o.by[2] <= fetchId[o.by[1]]
        BY DEF Inv, Past
      <4> QED
        BY <3>1, <3>2, <3>3, <4>1, StaysPast
    <3>6. NextId(q)[2] <= fetchId'[NextId(q)[1]]
      BY <2>1, <3>3, MovedIds DEF NextId
    <3> QED
      BY <3>1, <3>4, <3>5, <3>6
  <2>3. Owned' /\ SharedIsFlying'
    BY <1>2, <2>1, JoinedRequests DEF Inv, Owned, Awaited, SharedIsFlying
  <2>4. BusyWait'
    <3> SUFFICES ASSUME NEW p \in live', busy'[p] # {} PROVE \E r \in flying' : Id(p)' \in r.riders
      BY DEF BusyWait
    <3>1. CASE p = q
      <4>1. PICK o \in flying : o.by = inflight[k]
        BY <1>2, <2>1 DEF Inv, Awaited, SharedIsFlying
      <4> QED
        BY <1>2, <2>1, <3>1, <4>1, JoinedRequests, MovedIds
    <3>2. CASE p # q
      <4>1. p \in live /\ p \in Queries
        BY <2>1, <3>2 DEF TypeOK
      <4>2. busy[p] # {} /\ Id(p)' = Id(p)
        BY <2>1, <3>2, <4>1, MovedIds
      <4>3. PICK o \in flying : Id(p) \in o.riders
        BY <4>1, <4>2 DEF Inv, Awaited, BusyWait
      <4> QED
        BY <1>2, <2>1, <4>2, <4>3, JoinedRequests
    <3> QED
      BY <3>1, <3>2
  <2> QED
    BY <2>2, <2>3, <2>4 DEF Awaited
<1>3. ASSUME k \in Keys, Sends(q, k)
      PROVE  Past' /\ Owned' /\ Awaited'
  <2> DEFINE sent == Request(q, k, server)
  <2>1. /\ TypeOK /\ Moves(q) /\ flying' = flying \cup {sent}
        /\ inflight' = [inflight EXCEPT ![k] = NextId(q)]
        /\ owned' = [owned EXCEPT ![q] = @ \cup {k}]
    BY <1>3 DEF Sends, Inv
  <2>2. sent.by = NextId(q) /\ sent.key = k /\ sent.riders = {NextId(q)}
    BY DEF Request
  <2> HIDE DEF sent
  <2>3. Past'
    <3> SUFFICES ASSUME NEW r \in flying'
                 PROVE  /\ r.by[2] <= fetchId'[r.by[1]]
                        /\ \A i \in r.riders : i[2] <= fetchId'[i[1]]
      BY DEF Past
    <3>1. \A p \in Queries : fetchId[p] \in Nat /\ fetchId'[p] \in Nat /\ fetchId[p] <= fetchId'[p]
      BY <2>1, MovedIds DEF TypeOK
    <3>2. CASE r = sent
      <4>1. NextId(q)[2] <= fetchId'[NextId(q)[1]]
        BY <2>1, <3>1, MovedIds DEF NextId
      <4> QED
        BY <2>2, <3>2, <4>1
    <3>3. CASE r \in flying
      <4>1. r.by \in Queries \X Nat /\ r.riders \subseteq Queries \X Nat
        BY <2>1, <3>3 DEF TypeOK
      <4>2. r.by[2] <= fetchId[r.by[1]] /\ \A i \in r.riders : i[2] <= fetchId[i[1]]
        BY <3>3 DEF Inv, Past
      <4>3. \A i \in r.riders : i \in Queries \X Nat
        BY <4>1
      <4> QED
        BY <3>1, <4>1, <4>2, <4>3, StaysPast
    <3> QED
      BY <2>1, <3>2, <3>3
  <2>4. Owned'
    <3> SUFFICES ASSUME NEW j \in Keys, NEW p \in Queries, NEW n \in Nat, inflight'[j] = <<p, n>>
                 PROVE  j \in owned'[p]
      BY DEF Owned
    <3>1. CASE j = k
      <4>1. p = q
        BY <2>1, <3>1 DEF TypeOK, NextId
      <4> QED
        BY <2>1, <3>1, <4>1 DEF TypeOK
    <3>2. CASE j # k
      BY <2>1, <3>2 DEF TypeOK, Inv, Owned
    <3> QED
      BY <3>1, <3>2
  <2>5. SharedIsFlying'
    <3> SUFFICES ASSUME NEW j \in Keys, inflight'[j] # NoRequest
                 PROVE  \E r \in flying' : r.by = inflight'[j] /\ r.key = j
      BY DEF SharedIsFlying
    <3>1. CASE j = k
      BY <2>1, <2>2, <3>1 DEF TypeOK
    <3>2. CASE j # k
      BY <2>1, <3>2 DEF TypeOK, Inv, Awaited, SharedIsFlying
    <3> QED
      BY <3>1, <3>2
  <2>6. BusyWait'
    <3> SUFFICES ASSUME NEW p \in live', busy'[p] # {} PROVE \E r \in flying' : Id(p)' \in r.riders
      BY DEF BusyWait
    <3>1. CASE p = q
      BY <2>1, <2>2, <3>1, MovedIds
    <3>2. CASE p # q
      <4>1. p \in live /\ p \in Queries
        BY <2>1, <3>2 DEF TypeOK
      <4>2. busy[p] # {} /\ Id(p)' = Id(p)
        BY <2>1, <3>2, <4>1, MovedIds
      <4> QED
        BY <2>1, <4>1, <4>2 DEF Inv, Awaited, BusyWait
    <3> QED
      BY <3>1, <3>2
  <2> QED
    BY <2>3, <2>4, <2>5, <2>6 DEF Awaited
<1> QED
  BY <1>1, <1>2, <1>3, EffectMoves DEF Inv

\* What refetching leaves as it is, and what it sends.
LEMMA Refetching ==
  ASSUME TypeOK, NEW qs \in SUBSET Queries, NEW data, RefetchAll(qs, data)
  PROVE  /\ Fetching(qs) \subseteq Queries
         /\ \A q \in Fetching(qs) : /\ Id(q)' = NextId(q) /\ busy'[q] # {}
                                    /\ key[q] \in Keys /\ key[q] \in owned'[q]
         /\ \A q \in Queries \ Fetching(qs) : Id(q)' = Id(q) /\ busy'[q] \subseteq busy[q]
         /\ \A q \in Queries \ qs : busy'[q] = busy[q]
         /\ \A q \in Queries : /\ fetchId[q] \in Nat /\ fetchId'[q] \in Nat
                               /\ fetchId[q] <= fetchId'[q] /\ owned[q] \subseteq owned'[q]
         /\ flying \subseteq flying'
         /\ \A r \in flying' \ flying : \E q \in Fetching(qs) :
              /\ r = Request(q, key[q], server) /\ r.by = NextId(q) /\ r.key = key[q]
              /\ r.since = server /\ r.riders = {NextId(q)}
         /\ \A q \in Fetching(qs) : \E r \in flying' :
              r.by = NextId(q) /\ r.key = key[q] /\ r.riders = {NextId(q)}
         /\ \A k \in Keys : \/ inflight'[k] = inflight[k]
                             \/ \E q \in Fetching(qs) : key[q] = k /\ inflight'[k] = NextId(q)
         /\ \A q \in Fetching(qs) : \E p \in Fetching(qs) :
              key[p] = key[q] /\ inflight'[key[q]] = NextId(p)
<1>1. /\ Fetching(qs) \subseteq Queries /\ Fetching(qs) \subseteq qs
      /\ \A q \in Fetching(qs) : key[q] \in Keys
  BY DEF Fetching, TypeOK
<1>2. \A q \in Queries : fetchId[q] \in Nat
  BY DEF TypeOK
<1>3. \A q \in Queries : fetchId'[q] = IF q \in Fetching(qs) THEN fetchId[q] + 1 ELSE fetchId[q]
  BY DEF RefetchAll
<1>4. \A q \in Queries : busy'[q] = IF q \in Fetching(qs) THEN Marked(busy[q], data[q])
                                    ELSE IF q \in qs THEN busy[q] \ {"loading"} ELSE busy[q]
  BY DEF RefetchAll
<1>5. \A q \in Queries : Marked(busy[q], data[q]) # {}
  BY DEF Marked
<1>6. \A q \in Queries : owned'[q] = IF q \in Fetching(qs) THEN owned[q] \cup {key[q]} ELSE owned[q]
  BY DEF RefetchAll
<1>7. \A q \in Fetching(qs) : Id(q)' = NextId(q) /\ busy'[q] # {} /\ key[q] \in owned'[q]
  BY <1>1, <1>3, <1>4, <1>5, <1>6 DEF Id, NextId
<1>8. \A q \in Queries \ Fetching(qs) : Id(q)' = Id(q) /\ busy'[q] \subseteq busy[q]
  BY <1>3, <1>4 DEF Id
<1>8b. \A q \in Queries \ qs : busy'[q] = busy[q]
  BY <1>1, <1>4
<1>9. \A q \in Queries : /\ fetchId'[q] \in Nat /\ fetchId[q] <= fetchId'[q]
                         /\ owned[q] \subseteq owned'[q]
  <2> SUFFICES ASSUME NEW q \in Queries
               PROVE  /\ fetchId'[q] \in Nat /\ fetchId[q] <= fetchId'[q]
                      /\ owned[q] \subseteq owned'[q]
    OBVIOUS
  <2>1. fetchId'[q] \in Nat /\ fetchId[q] <= fetchId'[q]
    BY <1>2, <1>3
  <2>2. owned[q] \subseteq owned'[q]
    BY <1>6
  <2> QED
    BY <2>1, <2>2
<1>10. flying' = flying \cup {Request(q, key[q], server) : q \in Fetching(qs)}
  BY DEF RefetchAll
<1>11. \A q \in Fetching(qs) :
         /\ Request(q, key[q], server).by = NextId(q) /\ Request(q, key[q], server).key = key[q]
         /\ Request(q, key[q], server).since = server
         /\ Request(q, key[q], server).riders = {NextId(q)}
  BY DEF Request
<1>12. PICK last \in [Refetched(qs) -> Fetching(qs)] :
         /\ \A k \in Refetched(qs) : key[last[k]] = k
         /\ inflight' = [k \in Keys |-> IF k \in Refetched(qs) THEN NextId(last[k]) ELSE inflight[k]]
  BY DEF RefetchAll
<1>13. \A k \in Keys : \/ inflight'[k] = inflight[k]
                       \/ \E q \in Fetching(qs) : key[q] = k /\ inflight'[k] = NextId(q)
  BY <1>12
<1>14. \A q \in Fetching(qs) : \E p \in Fetching(qs) :
              key[p] = key[q] /\ inflight'[key[q]] = NextId(p)
  BY <1>1, <1>12 DEF Refetched
<1>15. /\ flying \subseteq flying'
       /\ \A r \in flying' \ flying : \E q \in Fetching(qs) :
            /\ r = Request(q, key[q], server) /\ r.by = NextId(q) /\ r.key = key[q]
            /\ r.since = server /\ r.riders = {NextId(q)}
       /\ \A q \in Fetching(qs) : \E r \in flying' :
            r.by = NextId(q) /\ r.key = key[q] /\ r.riders = {NextId(q)}
  <2> HIDE DEF Request
  <2> QED
    BY <1>10, <1>11, ZenonT(30)
<1> QED
  BY <1>1, <1>2, <1>7, <1>8, <1>9, <1>13, <1>14, <1>15, <1>8b

LEMMA RefetchStep ==
  ASSUME Inv, NEW qs \in SUBSET Queries, NEW data, RefetchAll(qs, data), live' = live
  PROVE  Past' /\ Owned' /\ Awaited'
<1>1. TypeOK
  BY DEF Inv
<1>2. Past'
  <2> SUFFICES ASSUME NEW r \in flying'
               PROVE  /\ r.by[2] <= fetchId'[r.by[1]]
                      /\ \A i \in r.riders : i[2] <= fetchId'[i[1]]
    BY DEF Past
  <2>1. CASE r \in flying
    <3>1. r.by \in Queries \X Nat /\ \A i \in r.riders : i \in Queries \X Nat
      BY <1>1, <2>1 DEF TypeOK
    <3>2. r.by[2] <= fetchId[r.by[1]] /\ \A i \in r.riders : i[2] <= fetchId[i[1]]
      BY <2>1 DEF Inv, Past
    <3>3. \A p \in Queries : fetchId[p] \in Nat /\ fetchId'[p] \in Nat /\ fetchId[p] <= fetchId'[p]
      BY <1>1, Refetching
    <3> QED
      BY <3>1, <3>2, <3>3, StaysPast
  <2>2. CASE r \notin flying
    <3>1. PICK q \in Fetching(qs) : q \in Queries /\ r.by = Id(q)' /\ r.riders = {Id(q)'}
      BY <1>1, <2>2, Refetching
    <3>2. fetchId'[q] \in Nat
      BY <1>1, <3>1, Refetching
    <3> QED
      BY <3>1, <3>2 DEF Id
  <2> QED
    BY <2>1, <2>2
<1>3. Owned'
  <2> SUFFICES ASSUME NEW k \in Keys, NEW p \in Queries, NEW n \in Nat, inflight'[k] = <<p, n>>
               PROVE  k \in owned'[p]
    BY DEF Owned
  <2>1. CASE inflight'[k] = inflight[k]
    <3>1. k \in owned[p]
      BY <2>1 DEF Inv, Owned
    <3> QED
      BY <1>1, <3>1, Refetching
  <2>2. CASE inflight'[k] # inflight[k]
    <3>1. PICK q \in Fetching(qs) : key[q] = k /\ inflight'[k] = NextId(q)
      BY <1>1, <2>2, Refetching
    <3>2. p = q
      BY <3>1 DEF NextId
    <3> QED
      BY <1>1, <3>1, <3>2, Refetching
  <2> QED
    BY <2>1, <2>2
<1>4. SharedIsFlying'
  <2> SUFFICES ASSUME NEW k \in Keys, inflight'[k] # NoRequest
               PROVE  \E r \in flying' : r.by = inflight'[k] /\ r.key = k
    BY DEF SharedIsFlying
  <2>1. CASE inflight'[k] = inflight[k]
    <3>1. PICK r \in flying : r.by = inflight[k] /\ r.key = k
      BY <2>1 DEF Inv, Awaited, SharedIsFlying
    <3> QED
      BY <1>1, <2>1, <3>1, Refetching
  <2>2. CASE inflight'[k] # inflight[k]
    <3>1. PICK q \in Fetching(qs) : key[q] = k /\ inflight'[k] = NextId(q)
      BY <1>1, <2>2, Refetching
    <3> QED
      BY <1>1, <3>1, Refetching
  <2> QED
    BY <2>1, <2>2
<1>5. BusyWait'
  <2> SUFFICES ASSUME NEW p \in live, busy'[p] # {} PROVE \E r \in flying' : Id(p)' \in r.riders
    BY DEF BusyWait
  <2>1. CASE p \in Fetching(qs)
    <3>1. PICK r \in flying' : r.riders = {NextId(p)}
      BY <1>1, <2>1, Refetching
    <3> QED
      BY <1>1, <2>1, <3>1, Refetching
  <2>2. CASE p \notin Fetching(qs)
    <3>1. p \in Queries
      BY <1>1 DEF TypeOK
    <3>2. Id(p)' = Id(p) /\ busy[p] # {} /\ flying \subseteq flying'
      BY <1>1, <2>2, <3>1, Refetching
    <3> QED
      BY <3>2 DEF Inv, Awaited, BusyWait
  <2> QED
    BY <2>1, <2>2
<1> QED
  BY <1>2, <1>3, <1>4, <1>5 DEF Awaited

LEMMA AnswerStep ==
  ASSUME Inv, NEW r \in flying, Settled(r)
  PROVE  Past' /\ Owned' /\ Awaited'
<1>1. /\ flying' = flying \ {r} /\ inflight' = [inflight EXCEPT ![r.key] = NoRequest]
      /\ live' = live /\ fetchId' = fetchId /\ \A q \in Queries : Id(q)' = Id(q)
  BY DEF Settled, Unshared, Id
<1>2. TypeOK /\ r.key \in Keys
  BY DEF Inv, TypeOK
<1>3. Past'
  BY <1>1 DEF Inv, Past
<1>4. Owned'
  <2> SUFFICES ASSUME NEW k \in Keys, NEW p \in Queries, NEW n \in Nat, inflight'[k] = <<p, n>>
               PROVE  k \in owned'[p]
    BY DEF Owned
  <2>1. k # r.key
    BY <1>1, <1>2, NoneAssumption DEF TypeOK
  <2>2. inflight[k] = <<p, n>>
    BY <1>1, <1>2, <2>1 DEF TypeOK
  <2>3. k \in owned[p]
    BY <2>2 DEF Inv, Owned
  <2> QED
    BY <2>1, <2>3 DEF Settled
<1>5. SharedIsFlying'
  <2> SUFFICES ASSUME NEW k \in Keys, inflight'[k] # NoRequest
               PROVE  \E o \in flying' : o.by = inflight'[k] /\ o.key = k
    BY DEF SharedIsFlying
  <2>1. k # r.key /\ inflight'[k] = inflight[k]
    BY <1>1, <1>2 DEF TypeOK
  <2>2. PICK o \in flying : o.by = inflight[k] /\ o.key = k
    BY <2>1 DEF Inv, Awaited, SharedIsFlying
  <2> QED
    BY <1>1, <2>1, <2>2
<1>6. BusyWait'
  <2> SUFFICES ASSUME NEW p \in live, busy'[p] # {} PROVE \E o \in flying' : Id(p)' \in o.riders
    BY <1>1 DEF BusyWait
  <2>1. p \in Queries
    BY <1>2 DEF TypeOK
  <2>2. p \notin Takers(r) /\ busy'[p] = busy[p]
    BY <2>1 DEF Settled, Stopped
  <2>3. PICK o \in flying : Id(p) \in o.riders
    BY <2>2 DEF Inv, Awaited, BusyWait
  <2>4. o # r
    BY <2>1, <2>2, <2>3 DEF Takers
  <2> QED
    BY <1>1, <2>1, <2>3, <2>4
<1> QED
  BY <1>3, <1>4, <1>5, <1>6 DEF Awaited

Cut(q, o) == [o EXCEPT !.riders = {i \in @ : i[1] # q}]

LEMMA DisposedRequests ==
  ASSUME TypeOK, NEW q \in Queries, Dispose(q)
  PROVE  /\ \A r \in flying' : \E o \in flying :
              /\ r = Cut(q, o) /\ r.by = o.by /\ r.key = o.key /\ r.since = o.since
              /\ r.riders = {i \in o.riders : i[1] # q}
         /\ \A o \in flying : \E r \in flying' :
              r.by = o.by /\ r.key = o.key /\ r.riders = {i \in o.riders : i[1] # q}
<1>1. ASSUME NEW o \in flying
      PROVE  /\ Cut(q, o).by = o.by /\ Cut(q, o).key = o.key /\ Cut(q, o).since = o.since
             /\ Cut(q, o).riders = {i \in o.riders : i[1] # q}
  <2>1. o \in Requests
    BY DEF TypeOK, Requests
  <2> QED
    BY <2>1 DEF Requests, Cut
<1>2. flying' = {Cut(q, o) : o \in flying}
  BY DEF Dispose, Cut
<1> QED
  BY <1>1, <1>2

LEMMA DisposedIds ==
  ASSUME TypeOK, NEW q \in Queries, Dispose(q)
  PROVE  /\ \A p \in Queries : fetchId[p] \in Nat /\ fetchId'[p] \in Nat /\ fetchId[p] <= fetchId'[p]
         /\ \A p \in Queries \ {q} : Id(p)' = Id(p) /\ busy'[p] = busy[p]
         /\ fetchId'[q] = fetchId[q] + 1 /\ busy'[q] = {}
  BY DEF TypeOK, Dispose, Id

LEMMA DisposeStep ==
  ASSUME Inv, NEW q \in Queries, Dispose(q)
  PROVE  Past' /\ Owned' /\ Awaited'
<1>1. TypeOK
  BY DEF Inv
<1>2. /\ live' = live \ {q} /\ owned' = [owned EXCEPT ![q] = {}]
      /\ inflight' = [k \in Keys |-> IF k \in owned[q] THEN NoRequest ELSE inflight[k]]
  BY DEF Dispose
<1>3. Past'
  <2> SUFFICES ASSUME NEW r \in flying'
               PROVE  /\ r.by[2] <= fetchId'[r.by[1]]
                      /\ \A i \in r.riders : i[2] <= fetchId'[i[1]]
    BY DEF Past
  <2>1. PICK o \in flying : r.by = o.by /\ r.riders \subseteq o.riders
    BY <1>1, DisposedRequests
  <2>2. o.by \in Queries \X Nat /\ \A i \in o.riders : i \in Queries \X Nat
    BY <1>1 DEF TypeOK
  <2>3. o.by[2] <= fetchId[o.by[1]] /\ \A i \in o.riders : i[2] <= fetchId[i[1]]
    BY DEF Inv, Past
  <2>4. \A p \in Queries : fetchId[p] \in Nat /\ fetchId'[p] \in Nat /\ fetchId[p] <= fetchId'[p]
    BY <1>1, DisposedIds
  <2> QED
    BY <2>1, <2>2, <2>3, <2>4, StaysPast
<1>4. Owned'
  <2> SUFFICES ASSUME NEW k \in Keys, NEW p \in Queries, NEW n \in Nat, inflight'[k] = <<p, n>>
               PROVE  k \in owned'[p]
    BY DEF Owned
  <2>1. k \notin owned[q] /\ inflight[k] = <<p, n>>
    BY <1>2, NoneAssumption
  <2>2. k \in owned[p]
    BY <2>1 DEF Inv, Owned
  <2> QED
    BY <1>1, <1>2, <2>1, <2>2 DEF TypeOK
<1>5. SharedIsFlying'
  <2> SUFFICES ASSUME NEW k \in Keys, inflight'[k] # NoRequest
               PROVE  \E o \in flying' : o.by = inflight'[k] /\ o.key = k
    BY DEF SharedIsFlying
  <2>1. inflight'[k] = inflight[k]
    BY <1>2
  <2>2. PICK o \in flying : o.by = inflight[k] /\ o.key = k
    BY <2>1 DEF Inv, Awaited, SharedIsFlying
  <2> QED
    BY <1>1, <2>1, <2>2, DisposedRequests
<1>6. BusyWait'
  <2> SUFFICES ASSUME NEW p \in live \ {q}, busy'[p] # {}
               PROVE  \E o \in flying' : Id(p)' \in o.riders
    BY <1>2 DEF BusyWait
  <2>1. p \in Queries /\ p # q /\ Id(p)' = Id(p) /\ busy'[p] = busy[p]
    BY <1>1, DisposedIds DEF TypeOK
  <2>2. PICK o \in flying : Id(p) \in o.riders
    BY <2>1 DEF Inv, Awaited, BusyWait
  <2>3. PICK r \in flying' : r.riders = {i \in o.riders : i[1] # q}
    BY <1>1, DisposedRequests
  <2>4. Id(p)[1] # q
    BY <2>1 DEF Id
  <2> QED
    BY <2>1, <2>2, <2>3, <2>4
<1> QED
  BY <1>3, <1>4, <1>5, <1>6 DEF Awaited

LEMMA InvStep == Inv /\ [Next]_vars => Inv'
<1> SUFFICES ASSUME Inv, [Next]_vars PROVE Inv'
  OBVIOUS
<1>1. TypeOK /\ TypeOK'
  BY TypesStep DEF Inv
<1>2. ASSUME NEW q \in Queries, NEW k \in Keys \cup {NoKey}, Mount(q, k) \/ ChangeKey(q, k)
      PROVE  Past' /\ Owned' /\ Awaited'
  <2>1. CASE Mount(q, k)
    <3>1. /\ RunEffect(q, k, {"loading"}) /\ live' = live \cup {q}
          /\ {"loading"} \in SUBSET {"loading", "revalidating"}
      BY <2>1 DEF Mount
    <3> QED
      BY <3>1, EffectStep
  <2>2. CASE ChangeKey(q, k)
    <3>1. /\ RunEffect(q, k, busy[q]) /\ live' = live /\ q \in live
          /\ busy[q] \in SUBSET {"loading", "revalidating"}
      BY <1>1, <2>2 DEF ChangeKey, TypeOK
    <3>2. busy[q] \ {"loading"} # {} => q \in live /\ busy[q] # {}
      BY <3>1
    <3> QED
      BY <3>1, <3>2, EffectStep
  <2> QED
    BY <1>2, <2>1, <2>2
<1>3. ASSUME NEW q \in Queries, Refetch(q) PROVE Past' /\ Owned' /\ Awaited'
  <2>1. RefetchAll({q}, shown) /\ live' = live
    BY <1>3 DEF Refetch
  <2> QED
    BY <2>1, RefetchStep
<1>4. ASSUME NEW q \in Queries, Dispose(q) PROVE Past' /\ Owned' /\ Awaited'
  BY <1>4, DisposeStep
<1>5. ASSUME UNCHANGED <<live, fetchId, busy, owned, flying, inflight>>
      PROVE  Past' /\ Owned' /\ Awaited'
  BY <1>5 DEF Inv, Past, Owned, Awaited, BusyWait, SharedIsFlying, Id
<1>6. ASSUME NEW n \in 1..server, Emit(n) \/ SwitchTenant(n) PROVE Past' /\ Owned' /\ Awaited'
  <2>1. live' = live /\ live \in SUBSET Queries /\ \E data : RefetchAll(live, data)
    BY <1>1, <1>6 DEF Emit, SwitchTenant, TypeOK
  <2> QED
    BY <2>1, RefetchStep
<1>7. ASSUME NEW r \in flying, Answer(r) \/ Fail(r) PROVE Past' /\ Owned' /\ Awaited'
  <2>1. Settled(r)
    BY <1>7 DEF Answer, Fail
  <2> QED
    BY <2>1, AnswerStep
<1>8. ASSUME Change \/ UNCHANGED vars PROVE Past' /\ Owned' /\ Awaited'
  <2>1. UNCHANGED <<live, fetchId, busy, owned, flying, inflight>>
    BY <1>8 DEF Change, vars
  <2> QED
    BY <1>5, <2>1
<1> QED
  BY <1>1, <1>2, <1>3, <1>4, <1>6, <1>7, <1>8 DEF Next, Inv

\* The inductive invariant holds in every state.
THEOREM Invariant == Spec => []Inv
  BY Initially, InvStep, PTL DEF Spec

(* Every variable keeps its type: what is shown and cached was read from   *)
(* the server, and no version of the cache is ahead of the bus.            *)
THEOREM TypeCorrect == Spec => []TypeOK
<1>1. Inv => TypeOK
  BY DEF Inv
<1> QED
  BY <1>1, Invariant, PTL

(* However many queries share, supersede and dispose of requests, and      *)
(* whatever their thunks return while they wait: a query that shows a      *)
(* spinner is waiting for a request that is out, and a request that is     *)
(* offered for sharing is out for that key.                                *)
THEOREM SpinnersAreAwaited == Spec => []Awaited
<1>1. Inv => Awaited
  BY DEF Inv
<1> QED
  BY <1>1, Invariant, PTL

(***************************************************************************)
(* Thunks that keep to a key while the query fetches                       *)
(***************************************************************************)
\* q takes the answer to r, or waits for a request that others may share.
Waits(q, r) == Id(q) \in r.riders \/ (r.by = Id(q) /\ busy[q] # {})

BusyOnKey == \A q \in Queries : busy[q] # {} => q \in live /\ key[q] \in Keys

\* A query waits for one request, for its key, sent after all that it must show.
WaitsForKey ==
  \A q \in Queries : \A r \in flying : Waits(q, r) =>
    /\ q \in live /\ busy[q] # {} /\ key[q] = r.key
    /\ told <= r.since /\ switched <= r.since
WaitsForOne == \A q \in Queries : \A o, r \in flying : Waits(q, o) /\ Waits(q, r) => o = r

\* The query that sent a shared request still waits for it.
SharedIsWaited ==
  \A k \in Keys : \A q \in Queries : \A n \in Nat :
    inflight[k] = <<q, n>> => n = fetchId[q] /\ busy[q] # {} /\ key[q] = k

\* What the cache would serve was read after the last announcement.
CacheIsFresh == \A k \in Keys : Serves(k) => told <= cache[k].at

Calm == BusyOnKey /\ WaitsForKey /\ WaitsForOne /\ SharedIsWaited /\ CacheIsFresh /\ Current /\ Fresh

LEMMA InitiallyCalm == Init => Calm
<1> SUFFICES ASSUME Init PROVE Calm
  OBVIOUS
<1>1. BusyOnKey /\ WaitsForKey /\ WaitsForOne /\ CacheIsFresh /\ Current /\ Fresh
  BY DEF Init, BusyOnKey, WaitsForKey, WaitsForOne, CacheIsFresh, Serves, Current, Fresh, AtRest
<1>2. SharedIsWaited
  <2> SUFFICES ASSUME NEW k \in Keys, NEW q \in Queries, NEW n \in Nat, inflight[k] = <<q, n>>
               PROVE  FALSE
    BY DEF SharedIsWaited
  <2>1. inflight[k] = NoRequest
    BY DEF Init
  <2> QED
    BY <2>1, NoneAssumption
<1> QED
  BY <1>1, <1>2 DEF Calm

\* No request is known under the fetchId that a query takes next.
LEMMA NextIsNew ==
  ASSUME Inv, NEW q \in Queries, NEW r \in flying
  PROVE  r.by # NextId(q) /\ NextId(q) \notin r.riders /\ NextId(q) # Id(q)
<1>1. fetchId[q] \in Nat /\ ~(fetchId[q] + 1 <= fetchId[q])
  BY DEF Inv, TypeOK
<1>2. r.by[2] <= fetchId[r.by[1]] /\ \A i \in r.riders : i[2] <= fetchId[i[1]]
  BY DEF Inv, Past
<1>3. NextId(q)[1] = q /\ NextId(q)[2] = fetchId[q] + 1
  BY DEF NextId
<1> QED
  BY <1>1, <1>2, <1>3 DEF Id, NextId

\* What the effect of a query does not change for the others.
LEMMA EffectCalm ==
  ASSUME Inv, Calm, NEW q \in Queries, NEW k \in Keys \cup {NoKey},
         NEW flags \in SUBSET {"loading"}, RunEffect(q, k, flags), busy[q] = {},
         live' = live \cup {q}, key' = [key EXCEPT ![q] = k], UNCHANGED <<world, cache>>
  PROVE  Calm'
<1>1. TypeOK /\ flags \in SUBSET {"loading", "revalidating"}
  BY DEF Inv
<1>2. key'[q] = k /\ \A p \in Queries \ {q} : key'[p] = key[p]
  BY <1>1 DEF TypeOK
<1>3. CacheIsFresh'
  BY DEF world, Calm, CacheIsFresh, Serves
<1>4. CASE Hits(q, flags)
  <2>1. UNCHANGED <<fetchId, flying, inflight>> /\ \A p \in Queries : Id(p)' = Id(p)
    BY <1>4 DEF Hits, Id
  <2>2. busy' = busy
    BY <1>1, <1>4 DEF Hits, TypeOK
  <2>3. BusyOnKey'
    BY <1>2, <2>2 DEF Calm, BusyOnKey
  <2>4. \A p \in Queries : \A r \in flying : Waits(p, r)' => Waits(p, r) /\ p # q
    <3>1. ASSUME NEW p \in Queries, NEW r \in flying, Waits(p, r)' PROVE Waits(p, r)
      BY <2>1, <2>2, <3>1 DEF Waits
    <3>2. ASSUME NEW r \in flying, Waits(q, r) PROVE FALSE
      BY <3>2 DEF Calm, WaitsForKey
    <3> QED
      BY <3>1, <3>2
  <2>5. WaitsForKey' /\ WaitsForOne'
    BY <1>2, <2>1, <2>2, <2>4 DEF world, Calm, WaitsForKey, WaitsForOne
  <2>6. SharedIsWaited'
    BY <1>2, <2>1, <2>2 DEF Calm, SharedIsWaited
  <2>7. Current' /\ Fresh'
    <3> SUFFICES ASSUME NEW p \in Queries, AtRest(p)'
                 PROVE  /\ shown'[p] # Nothing /\ shown'[p].key = key'[p]
                        /\ shown'[p] # Nothing => shown'[p].at >= told
      BY DEF Current, Fresh, world
    <3>1. CASE k = NoKey
      <4>1. p # q
        BY <1>2, <3>1 DEF AtRest
      <4>2. AtRest(p) /\ shown'[p] = shown[p] /\ key'[p] = key[p]
        BY <1>2, <2>2, <3>1, <4>1 DEF AtRest, RunEffect
      <4> QED
        BY <4>2 DEF Calm, Current, Fresh
    <3>2. CASE k # NoKey /\ Serves(k)
      <4>1. /\ shown' = [shown EXCEPT ![q] = [key |-> k, at |-> cache[k].at]]
            /\ failed' = failed \ {q}
        BY <3>2 DEF RunEffect
      <4>2. CASE p # q
        <5>1. AtRest(p) /\ shown'[p] = shown[p] /\ key'[p] = key[p]
          BY <1>1, <1>2, <2>2, <4>1, <4>2 DEF AtRest, TypeOK
        <5> QED
          BY <5>1 DEF Calm, Current, Fresh
      <4>3. CASE p = q
        <5>1. shown'[q] = [key |-> k, at |-> cache[k].at]
          BY <1>1, <4>1 DEF TypeOK
        <5>2. cache[k].at \in Nat /\ told <= cache[k].at /\ told \in Nat
          BY <1>1, <3>2, NoneAssumption DEF TypeOK, Serves, Calm, CacheIsFresh
        <5>3. shown'[q] # Nothing
          BY <3>2, <5>1, <5>2, NoneAssumption
        <5> QED
          BY <1>2, <4>3, <5>1, <5>2, <5>3
      <4> QED
        BY <4>2, <4>3
    <3>3. CASE k # NoKey /\ ~Serves(k)
      <4>1. fetchId'[q] = fetchId[q] + 1 /\ fetchId[q] \in Nat
        BY <1>1, <3>3 DEF RunEffect, TypeOK
      <4> QED
        BY <2>1, <4>1
    <3> QED
      BY <3>1, <3>2, <3>3
  <2> QED
    BY <1>3, <2>3, <2>5, <2>6, <2>7 DEF Calm
<1>5. ASSUME k \in Keys, Moves(q), shown' = shown, failed' = failed \ {q}
      PROVE  BusyOnKey' /\ Current' /\ Fresh'
  <2>1. /\ busy'[q] # {}
        /\ \A p \in Queries \ {q} : busy'[p] = busy[p]
    BY <1>1, <1>5, MovedIds
  <2>2. BusyOnKey'
    BY <1>2, <1>5, <2>1 DEF Calm, BusyOnKey
  <2>3. ASSUME NEW p \in Queries, AtRest(p)' PROVE AtRest(p) /\ key'[p] = key[p]
    BY <1>2, <1>5, <2>1, <2>3 DEF AtRest
  <2>4. Current' /\ Fresh'
    BY <1>5, <2>3 DEF Calm, Current, Fresh, world
  <2> QED
    BY <2>2, <2>4
<1>6. CASE k # NoKey /\ ~Serves(k)
  <2>1. Moves(q) /\ shown' = shown /\ failed' = failed \ {q} /\ k \in Keys
    <3>1. shown' = shown /\ failed' = failed \ {q} /\ fetchId' # fetchId
      BY <1>1, <1>6 DEF RunEffect, TypeOK
    <3>2. ~Hits(q, flags)
      BY <3>1 DEF Hits
    <3> QED
      BY <1>1, <3>1, <3>2, EffectMoves DEF Joins, Sends
  <2>2. /\ Id(q)' = NextId(q) /\ busy'[q] # {} /\ fetchId'[q] = fetchId[q] + 1
        /\ \A p \in Queries \ {q} : Id(p)' = Id(p) /\ busy'[p] = busy[p] /\ fetchId'[p] = fetchId[p]
    BY <1>1, <2>1, MovedIds
  <2>3. \A r \in flying : ~Waits(q, r)
    BY DEF Calm, WaitsForKey
  <2>4. CASE Joins(q, k)
    <3>1. PICK o \in Queries : inflight[k] = Id(o) /\ busy[o] # {} /\ key[o] = k
      <4>1. PICK o \in Queries, n \in Nat : inflight[k] = <<o, n>>
        BY <1>1, <2>1, <2>4 DEF Joins, TypeOK
      <4> QED
        BY <2>1, <4>1 DEF Calm, SharedIsWaited, Id
    <3>2. \A x \in flying : x.by = inflight[k] => Waits(o, x)
      BY <3>1 DEF Waits
    <3>3. ASSUME NEW p \in Queries \ {q}, NEW x \in flying, NEW r \in flying',
                 r = Joined(q, k, x), Waits(p, r)'
          PROVE  Waits(p, x)
      <4>1. r.by = x.by /\ (r.riders = x.riders \/ r.riders = x.riders \cup {NextId(q)})
        <5>1. x \in Requests
          BY <1>1 DEF TypeOK, Requests
        <5> QED
          BY <3>3, <5>1 DEF Joined, Requests
      <4>2. NextId(q) # Id(p)
        BY DEF NextId, Id
      <4> QED
        BY <2>2, <3>3, <4>1, <4>2 DEF Waits
    <3>4. ASSUME NEW x \in flying, NEW r \in flying', r = Joined(q, k, x), Waits(q, r)'
          PROVE  x.by = inflight[k]
      <4>1. CASE x.by # inflight[k]
        <5>1. r = x
          BY <3>4, <4>1 DEF Joined
        <5> QED
          BY <2>2, <3>4, <5>1, NextIsNew DEF Waits
      <4> QED
        BY <4>1
    <3>5. WaitsForKey'
      <4> SUFFICES ASSUME NEW p \in Queries, NEW r \in flying', Waits(p, r)'
                   PROVE  /\ p \in live' /\ busy'[p] # {} /\ key'[p] = r.key
                          /\ told <= r.since /\ switched <= r.since
        BY DEF WaitsForKey, world
      <4>1. PICK x \in flying : r = Joined(q, k, x) /\ r.key = x.key /\ r.since = x.since
        BY <1>1, <2>1, <2>4, JoinedRequests
      <4>2. CASE p # q
        BY <1>2, <2>2, <3>3, <4>1, <4>2 DEF Calm, WaitsForKey
      <4>3. CASE p = q
        <5>1. Waits(o, x)
          BY <3>2, <3>4, <4>1, <4>3
        <5> QED
          BY <1>2, <2>2, <3>1, <4>1, <4>3, <5>1 DEF Calm, WaitsForKey
      <4> QED
        BY <4>2, <4>3
    <3>6. WaitsForOne'
      <4> SUFFICES ASSUME NEW p \in Queries, NEW r \in flying', NEW s \in flying',
                          Waits(p, r)', Waits(p, s)'
                   PROVE  r = s
        BY DEF WaitsForOne
      <4>1. PICK x \in flying : r = Joined(q, k, x)
        BY <1>1, <2>1, <2>4, JoinedRequests
      <4>2. PICK y \in flying : s = Joined(q, k, y)
        BY <1>1, <2>1, <2>4, JoinedRequests
      <4>3. \E w \in Queries : Waits(w, x) /\ Waits(w, y)
        <5>1. CASE p # q
          BY <3>3, <4>1, <4>2, <5>1
        <5>2. CASE p = q
          BY <3>2, <3>4, <4>1, <4>2, <5>2
        <5> QED
          BY <5>1, <5>2
      <4> QED
        BY <4>1, <4>2, <4>3 DEF Calm, WaitsForOne
    <3>7. SharedIsWaited'
      BY <1>2, <2>2, <2>4 DEF Joins, Calm, SharedIsWaited
    <3> QED
      BY <1>3, <1>5, <2>1, <3>5, <3>6, <3>7 DEF Calm
  <2>5. CASE Sends(q, k)
    <3> DEFINE sent == Request(q, k, server)
    <3>1. /\ flying' = flying \cup {sent} /\ inflight' = [inflight EXCEPT ![k] = NextId(q)]
          /\ sent.by = NextId(q) /\ sent.key = k /\ sent.since = server /\ sent.riders = {NextId(q)}
      BY <2>5 DEF Sends, Request
    <3> HIDE DEF sent
    <3>2. ASSUME NEW p \in Queries \ {q}, NEW r \in flying', Waits(p, r)'
          PROVE  r \in flying /\ Waits(p, r)
      <4>1. NextId(q) # Id(p)
        BY DEF NextId, Id
      <4>2. r # sent
        BY <2>2, <3>1, <3>2, <4>1 DEF Waits
      <4> QED
        BY <2>2, <3>1, <3>2, <4>2 DEF Waits
    <3>3. ASSUME NEW r \in flying', Waits(q, r)' PROVE r = sent
      BY <2>2, <3>1, <3>3, NextIsNew DEF Waits
    <3>4. told <= server /\ switched <= server
      BY <1>1, BoundsAssumption DEF TypeOK
    <3>5. WaitsForKey'
      <4> SUFFICES ASSUME NEW p \in Queries, NEW r \in flying', Waits(p, r)'
                   PROVE  /\ p \in live' /\ busy'[p] # {} /\ key'[p] = r.key
                          /\ told <= r.since /\ switched <= r.since
        BY DEF WaitsForKey, world
      <4>1. CASE p # q
        BY <1>2, <2>2, <3>2, <4>1 DEF Calm, WaitsForKey
      <4>2. CASE p = q
        BY <1>2, <2>2, <3>1, <3>3, <3>4, <4>2
      <4> QED
        BY <4>1, <4>2
    <3>6. WaitsForOne'
      <4> SUFFICES ASSUME NEW p \in Queries, NEW r \in flying', NEW s \in flying',
                          Waits(p, r)', Waits(p, s)'
                   PROVE  r = s
        BY DEF WaitsForOne
      <4>1. CASE p # q
        BY <3>2, <4>1 DEF Calm, WaitsForOne
      <4>2. CASE p = q
        BY <3>3, <4>2
      <4> QED
        BY <4>1, <4>2
    <3>7. SharedIsWaited'
      <4> SUFFICES ASSUME NEW j \in Keys, NEW p \in Queries, NEW n \in Nat, inflight'[j] = <<p, n>>
                   PROVE  n = fetchId'[p] /\ busy'[p] # {} /\ key'[p] = j
        BY DEF SharedIsWaited
      <4>1. CASE j = k
        <5>1. p = q /\ n = fetchId[q] + 1
          BY <1>1, <3>1, <4>1 DEF TypeOK, NextId
        <5> QED
          BY <1>2, <2>2, <4>1, <5>1
      <4>2. CASE j # k
        <5>1. inflight[j] = <<p, n>>
          BY <1>1, <3>1, <4>2 DEF TypeOK
        <5> QED
          BY <1>2, <2>2, <5>1 DEF Calm, SharedIsWaited
      <4> QED
        BY <4>1, <4>2
    <3> QED
      BY <1>3, <1>5, <2>1, <3>5, <3>6, <3>7 DEF Calm
  <2>6. ~Hits(q, flags)
    <3>1. fetchId[q] \in Nat
      BY <1>1 DEF TypeOK
    <3> QED
      BY <2>2, <3>1 DEF Hits
  <2> QED
    BY <1>1, <2>4, <2>5, <2>6, EffectMoves
<1>7. CASE k = NoKey \/ Serves(k)
  BY <1>4, <1>7 DEF RunEffect, Hits
<1> QED
  BY <1>6, <1>7

\* Who refetches waits for a new request; who does not has missed nothing,
\* unless everybody refetches.
LEMMA RefetchCalm ==
  ASSUME Inv, Calm, NEW qs \in SUBSET live, NEW data, RefetchAll(qs, data),
         UNCHANGED <<server, live, key>>,
         qs = live \/ UNCHANGED <<told, switched>>, told' <= server, switched' <= server,
         \A k \in Keys : Serves(k)' => Serves(k) /\ told' = told,
         \A q \in Queries \ qs : shown'[q] = shown[q]
  PROVE  Calm'
<1>1. TypeOK /\ qs \in SUBSET Queries /\ live \subseteq Queries
  BY DEF Inv, TypeOK
<1>2. /\ \A q \in Fetching(qs) : /\ q \in live /\ q \in Queries /\ Id(q)' = NextId(q)
                                 /\ busy'[q] # {} /\ key[q] \in Keys
      /\ \A q \in Queries \ Fetching(qs) : Id(q)' = Id(q) /\ busy'[q] \subseteq busy[q]
  <2>1. \A q \in Fetching(qs) : q \in live
    BY DEF Fetching
  <2>2. \A q \in Fetching(qs) : q \in Queries /\ Id(q)' = NextId(q) /\ busy'[q] # {} /\ key[q] \in Keys
    BY <1>1, Refetching
  <2>3. \A q \in Queries \ Fetching(qs) : Id(q)' = Id(q) /\ busy'[q] \subseteq busy[q]
    BY <1>1, Refetching
  <2> QED
    BY <2>1, <2>2, <2>3
<1>3. \A q \in Queries : key[q] \in Keys /\ q \notin Fetching(qs) => q \notin qs /\ busy'[q] = busy[q]
  <2>1. ASSUME NEW q \in Queries, key[q] \in Keys, q \notin Fetching(qs) PROVE q \notin qs
    BY <2>1, NoneAssumption DEF Fetching
  <2> QED
    BY <1>1, <2>1, Refetching
<1>4. BusyOnKey'
  BY <1>2 DEF Calm, BusyOnKey
<1>5. ASSUME NEW q \in Queries, NEW r \in flying, Waits(q, r)'
      PROVE  /\ Waits(q, r) /\ q \notin Fetching(qs) /\ busy'[q] = busy[q]
             /\ UNCHANGED <<told, switched>>
  <2>1. q \notin Fetching(qs)
    BY <1>2, <1>5, NextIsNew DEF Waits
  <2>2. Waits(q, r)
    BY <1>2, <1>5, <2>1 DEF Waits
  <2>3. q \in live /\ key[q] \in Keys
    BY <2>2 DEF Calm, WaitsForKey, BusyOnKey
  <2> QED
    BY <1>3, <2>1, <2>2, <2>3
<1>6. ASSUME NEW q \in Queries, NEW r \in flying' \ flying, Waits(q, r)'
      PROVE  /\ q \in Fetching(qs) /\ r = Request(q, key[q], server) /\ r.key = key[q]
             /\ r.since = server
  <2>1. PICK p \in Fetching(qs) : /\ r = Request(p, key[p], server) /\ r.by = NextId(p)
                                  /\ r.key = key[p] /\ r.since = server /\ r.riders = {NextId(p)}
    BY <1>1, Refetching
  <2>2. Id(q)' = NextId(p)
    BY <1>6, <2>1 DEF Waits
  <2>3. p = q
    BY <2>2 DEF Id, NextId
  <2> QED
    BY <2>1, <2>3
<1>7. WaitsForKey'
  <2> SUFFICES ASSUME NEW q \in Queries, NEW r \in flying', Waits(q, r)'
               PROVE  /\ q \in live /\ busy'[q] # {} /\ key[q] = r.key
                      /\ told' <= r.since /\ switched' <= r.since
    BY DEF WaitsForKey
  <2>1. CASE r \in flying
    BY <1>5, <2>1 DEF Calm, WaitsForKey
  <2>2. CASE r \notin flying
    BY <1>2, <1>6, <2>2
  <2> QED
    BY <2>1, <2>2
<1>8. WaitsForOne'
  <2> SUFFICES ASSUME NEW q \in Queries, NEW o \in flying', NEW r \in flying',
                      Waits(q, o)', Waits(q, r)'
               PROVE  o = r
    BY DEF WaitsForOne
  <2>1. CASE q \in Fetching(qs)
    <3>1. o \notin flying /\ r \notin flying
      BY <1>5, <2>1
    <3> QED
      BY <1>6, <3>1
  <2>2. CASE q \notin Fetching(qs)
    <3>1. o \in flying /\ r \in flying
      BY <1>6, <2>2
    <3> QED
      BY <1>5, <3>1 DEF Calm, WaitsForOne
  <2> QED
    BY <2>1, <2>2
<1>9. SharedIsWaited'
  <2> SUFFICES ASSUME NEW k \in Keys, NEW q \in Queries, NEW n \in Nat, inflight'[k] = <<q, n>>
               PROVE  n = fetchId'[q] /\ busy'[q] # {} /\ key[q] = k
    BY DEF SharedIsWaited
  <2>1. CASE \E p \in Fetching(qs) : key[p] = k
    <3>1. PICK p \in Fetching(qs) : key[p] = k /\ inflight'[k] = NextId(p)
      <4>1. PICK x \in Fetching(qs) : key[x] = k
        BY <2>1
      <4>2. \E y \in Fetching(qs) : key[y] = key[x] /\ inflight'[key[x]] = NextId(y)
        BY <1>1, Refetching
      <4> QED
        BY <4>1, <4>2
    <3>2. p = q /\ Id(q)' = <<q, n>>
      BY <1>2, <3>1 DEF NextId
    <3> QED
      BY <1>2, <3>1, <3>2 DEF Id
  <2>2. CASE ~ \E p \in Fetching(qs) : key[p] = k
    <3>1. inflight[k] = <<q, n>>
      BY <1>1, <2>2, Refetching
    <3>2. n = fetchId[q] /\ busy[q] # {} /\ key[q] = k
      BY <3>1 DEF Calm, SharedIsWaited
    <3>3. Id(q)' = Id(q) /\ busy'[q] = busy[q]
      BY <1>2, <1>3, <2>2, <3>2
    <3> QED
      BY <3>2, <3>3 DEF Id
  <2> QED
    BY <2>1, <2>2
<1>10. CacheIsFresh'
  <2> SUFFICES ASSUME NEW k \in Keys, Serves(k)' PROVE told' <= cache'[k].at
    BY DEF CacheIsFresh
  <2>1. cache'[k] = cache[k]
    <3>1. cache'[k] # Nothing
      BY DEF Serves
    <3> QED
      BY <3>1 DEF RefetchAll
  <2> QED
    BY <2>1 DEF Calm, CacheIsFresh
<1>11. ASSUME NEW q \in Queries, AtRest(q)'
       PROVE  AtRest(q) /\ shown'[q] = shown[q] /\ UNCHANGED <<told, switched>>
  <2>1. q \in live /\ key[q] \in Keys /\ busy'[q] = {} /\ q \notin failed'
    BY <1>1, <1>11 DEF AtRest, TypeOK
  <2>2. q \notin Fetching(qs)
    BY <1>2, <2>1
  <2>3. q \notin qs /\ busy[q] = {}
    BY <1>3, <2>1, <2>2
  <2>4. q \notin failed
    BY <2>1, <2>2 DEF RefetchAll
  <2> QED
    BY <1>11, <2>1, <2>3, <2>4 DEF AtRest
<1>12. Current' /\ Fresh'
  BY <1>11 DEF Calm, Current, Fresh
<1> QED
  BY <1>4, <1>7, <1>8, <1>9, <1>10, <1>12 DEF Calm

\* Who takes an answer waited for it and shows its key.
LEMMA AnswerCalm ==
  ASSUME Inv, Calm, NEW r \in flying, Answer(r) \/ Fail(r)
  PROVE  Calm'
<1>1. /\ TypeOK /\ r.key \in Keys /\ r.since \in Nat
      /\ \A q \in Takers(r) : q \in Queries /\ Waits(q, r)
  BY DEF Inv, TypeOK, Takers, Waits
<1>2. /\ flying' = flying \ {r} /\ inflight' = [inflight EXCEPT ![r.key] = NoRequest]
      /\ UNCHANGED <<world, live, key, fetchId>> /\ \A q \in Queries : Id(q)' = Id(q)
      /\ \A q \in Queries : busy'[q] = IF q \in Takers(r) THEN {} ELSE busy[q]
  BY DEF Answer, Fail, Settled, Unshared, Stopped, Id
<1>3. BusyOnKey'
  BY <1>2 DEF Calm, BusyOnKey
<1>4. ASSUME NEW q \in Queries, NEW o \in flying', Waits(q, o)'
      PROVE  o \in flying /\ Waits(q, o) /\ busy'[q] = busy[q]
  <2>1. o \in flying /\ o # r /\ Waits(q, o)
    BY <1>2, <1>4 DEF Waits
  <2>2. q \notin Takers(r)
    BY <1>1, <2>1 DEF Calm, WaitsForOne
  <2> QED
    BY <1>2, <2>1, <2>2
<1>5. WaitsForKey'
  BY <1>2, <1>4 DEF Calm, WaitsForKey, world
<1>6. WaitsForOne'
  BY <1>4 DEF Calm, WaitsForOne
<1>7. SharedIsWaited'
  <2> SUFFICES ASSUME NEW k \in Keys, NEW q \in Queries, NEW n \in Nat, inflight'[k] = <<q, n>>
               PROVE  n = fetchId[q] /\ busy'[q] # {} /\ key[q] = k
    BY <1>2 DEF SharedIsWaited
  <2>1. k # r.key
    BY <1>1, <1>2, NoneAssumption DEF TypeOK
  <2>2. inflight[k] = <<q, n>>
    BY <1>1, <1>2, <2>1 DEF TypeOK
  <2>3. n = fetchId[q] /\ busy[q] # {} /\ key[q] = k
    BY <2>2 DEF Calm, SharedIsWaited
  <2>4. q \notin Takers(r)
    BY <1>1, <2>1, <2>3 DEF Calm, WaitsForKey
  <2> QED
    BY <1>2, <2>3, <2>4
<1>8. \A q \in Takers(r) : key[q] = r.key /\ told <= r.since
  BY <1>1 DEF Calm, WaitsForKey
<1>9. CASE Fail(r)
  <2>1. UNCHANGED <<shown, cache>> /\ failed' = failed \cup Takers(r)
    BY <1>9 DEF Fail
  <2>2. CacheIsFresh'
    BY <1>2, <2>1 DEF Calm, CacheIsFresh, Serves, world
  <2>3. \A q \in Queries : AtRest(q)' => AtRest(q)
    BY <1>2, <2>1 DEF AtRest
  <2>4. Current' /\ Fresh'
    BY <1>2, <2>1, <2>3 DEF Calm, Current, Fresh, world
  <2> QED
    BY <1>3, <1>5, <1>6, <1>7, <2>2, <2>4 DEF Calm
<1>10. CASE Answer(r)
  <2>1. PICK at \in r.since .. server :
          /\ shown' = [q \in Queries |-> IF q \in Takers(r) THEN [key |-> r.key, at |-> at] ELSE shown[q]]
          /\ cache' = IF Takers(r) = {} THEN cache
                      ELSE [cache EXCEPT ![r.key] = [at |-> at, version |-> version]]
    BY <1>10 DEF Answer
  <2>2. at \in Nat /\ r.since <= at /\ told \in Nat /\ failed' = failed
    BY <1>1, <1>10, <2>1, BoundsAssumption DEF TypeOK, Answer
  <2>3. CacheIsFresh'
    <3> SUFFICES ASSUME NEW k \in Keys, Serves(k)' PROVE told <= cache'[k].at
      BY <1>2 DEF CacheIsFresh, world
    <3>1. CASE k = r.key /\ Takers(r) # {}
      <4>1. cache'[k] = [at |-> at, version |-> version]
        BY <1>1, <2>1, <3>1 DEF TypeOK
      <4>2. told <= r.since
        BY <1>8, <3>1
      <4> QED
        BY <1>1, <2>2, <4>1, <4>2
    <3>2. CASE k # r.key \/ Takers(r) = {}
      <4>1. cache'[k] = cache[k]
        BY <1>1, <2>1, <3>2 DEF TypeOK
      <4> QED
        BY <1>2, <4>1 DEF Calm, CacheIsFresh, Serves, world
    <3> QED
      BY <3>1, <3>2
  <2>4. Current' /\ Fresh'
    <3> SUFFICES ASSUME NEW q \in Queries, AtRest(q)'
                 PROVE  /\ shown'[q] # Nothing /\ shown'[q].key = key[q]
                        /\ shown'[q] # Nothing => shown'[q].at >= told
      BY <1>2 DEF Current, Fresh, world
    <3>1. CASE q \in Takers(r)
      <4>1. shown'[q] = [key |-> r.key, at |-> at]
        BY <2>1, <3>1
      <4>2. shown'[q] # Nothing
        BY <1>1, <2>2, <4>1, NoneAssumption
      <4> QED
        BY <1>1, <1>8, <2>2, <3>1, <4>1, <4>2
    <3>2. CASE q \notin Takers(r)
      <4>1. shown'[q] = shown[q] /\ AtRest(q)
        BY <1>2, <2>1, <2>2, <3>2 DEF AtRest
      <4> QED
        BY <4>1 DEF Calm, Current, Fresh
    <3> QED
      BY <3>1, <3>2
  <2> QED
    BY <1>3, <1>5, <1>6, <1>7, <2>3, <2>4 DEF Calm
<1> QED
  BY <1>9, <1>10

LEMMA DisposeCalm ==
  ASSUME Inv, Calm, NEW q \in Queries, Dispose(q)
  PROVE  Calm'
<1>1. TypeOK
  BY DEF Inv
<1>2. /\ live' = live \ {q} /\ key' = [key EXCEPT ![q] = NoKey] /\ UNCHANGED <<world, cache>>
      /\ inflight' = [k \in Keys |-> IF k \in owned[q] THEN NoRequest ELSE inflight[k]]
      /\ failed' = failed \ {q} /\ shown' = [shown EXCEPT ![q] = Nothing]
      /\ fetchId' = [fetchId EXCEPT ![q] = @ + 1]
  BY DEF Dispose
<1>3. \A p \in Queries \ {q} : /\ Id(p)' = Id(p) /\ busy'[p] = busy[p] /\ key'[p] = key[p]
                               /\ shown'[p] = shown[p] /\ fetchId'[p] = fetchId[p]
  BY <1>1, <1>2, DisposedIds DEF TypeOK
<1>4. busy'[q] = {} /\ Id(q)' = NextId(q)
  BY <1>1, <1>2, DisposedIds DEF Id, NextId
<1>5. BusyOnKey'
  BY <1>2, <1>3, <1>4 DEF Calm, BusyOnKey
<1>6. ASSUME NEW p \in Queries, NEW o \in flying, NEW r \in flying', r = Cut(q, o), Waits(p, r)'
      PROVE  p # q /\ Waits(p, o)
  <2>1. r.by = o.by /\ r.riders = {i \in o.riders : i[1] # q}
    <3>1. o \in Requests
      BY <1>1 DEF TypeOK, Requests
    <3> QED
      BY <1>6, <3>1 DEF Cut, Requests
  <2>2. p # q
    BY <1>4, <1>6, <2>1, NextIsNew DEF Waits
  <2> QED
    BY <1>3, <1>6, <2>1, <2>2 DEF Waits
<1>7. WaitsForKey'
  <2> SUFFICES ASSUME NEW p \in Queries, NEW r \in flying', Waits(p, r)'
               PROVE  /\ p \in live' /\ busy'[p] # {} /\ key'[p] = r.key
                      /\ told <= r.since /\ switched <= r.since
    BY <1>2 DEF WaitsForKey, world
  <2>1. PICK o \in flying : r = Cut(q, o) /\ r.key = o.key /\ r.since = o.since
    BY <1>1, DisposedRequests
  <2>2. p # q /\ Waits(p, o)
    BY <1>6, <2>1
  <2> QED
    BY <1>2, <1>3, <2>1, <2>2 DEF Calm, WaitsForKey
<1>8. WaitsForOne'
  <2> SUFFICES ASSUME NEW p \in Queries, NEW r \in flying', NEW s \in flying',
                      Waits(p, r)', Waits(p, s)'
               PROVE  r = s
    BY DEF WaitsForOne
  <2>1. PICK o \in flying : r = Cut(q, o)
    BY <1>1, DisposedRequests
  <2>2. PICK x \in flying : s = Cut(q, x)
    BY <1>1, DisposedRequests
  <2>3. Waits(p, o) /\ Waits(p, x)
    BY <1>6, <2>1, <2>2
  <2> QED
    BY <2>1, <2>2, <2>3 DEF Calm, WaitsForOne
<1>9. SharedIsWaited'
  <2> SUFFICES ASSUME NEW k \in Keys, NEW p \in Queries, NEW n \in Nat, inflight'[k] = <<p, n>>
               PROVE  n = fetchId'[p] /\ busy'[p] # {} /\ key'[p] = k
    BY DEF SharedIsWaited
  <2>1. k \notin owned[q] /\ inflight[k] = <<p, n>>
    <3>1. inflight'[k] # NoRequest
      BY NoneAssumption
    <3>2. inflight'[k] = IF k \in owned[q] THEN NoRequest ELSE inflight[k]
      BY <1>2
    <3> QED
      BY <3>1, <3>2
  <2>2. p # q
    BY <2>1 DEF Inv, Owned
  <2> QED
    BY <1>3, <2>1, <2>2 DEF Calm, SharedIsWaited
<1>10. CacheIsFresh'
  BY <1>2 DEF Calm, CacheIsFresh, Serves, world
<1>11. \A p \in Queries : AtRest(p)' => AtRest(p) /\ p # q
  BY <1>2, <1>3 DEF AtRest
<1>12. Current' /\ Fresh'
  BY <1>2, <1>3, <1>11 DEF Calm, Current, Fresh, world
<1> QED
  BY <1>5, <1>7, <1>8, <1>9, <1>10, <1>12 DEF Calm

LEMMA CalmStep == Patient /\ Inv /\ Calm /\ [Next]_vars => Calm'
<1> SUFFICES ASSUME Patient, Inv, Calm, [Next]_vars PROVE Calm'
  OBVIOUS
<1>1. TypeOK
  BY DEF Inv
<1>2. ASSUME NEW q \in Queries, NEW k \in Keys \cup {NoKey}, Mount(q, k) \/ ChangeKey(q, k)
      PROVE  Calm'
  <2>1. /\ busy[q] = {} /\ live' = live \cup {q} /\ key' = [key EXCEPT ![q] = k]
        /\ UNCHANGED <<world, cache>>
    BY <1>2 DEF Mount, ChangeKey, Calm, BusyOnKey
  <2>2. PICK flags \in SUBSET {"loading"} : RunEffect(q, k, flags)
    BY <1>2, <2>1 DEF Mount, ChangeKey
  <2> QED
    BY <2>1, <2>2, EffectCalm
<1>3. ASSUME NEW q \in Queries, Refetch(q) PROVE Calm'
  <2>1. /\ q \in live /\ RefetchAll({q}, shown) /\ UNCHANGED <<world, live, key, shown>>
    BY <1>3 DEF Refetch
  <2>2. told' <= server /\ switched' <= server
    BY <1>1, <2>1, BoundsAssumption DEF world, TypeOK
  <2>3. \A k \in Keys : Serves(k)' => Serves(k) /\ told' = told
    BY <2>1 DEF RefetchAll, Serves, world
  <2> QED
    BY <2>1, <2>2, <2>3, RefetchCalm DEF world
<1>4. ASSUME NEW q \in Queries, Dispose(q) PROVE Calm'
  BY <1>4, DisposeCalm
<1>5. ASSUME NEW n \in 1..server, Emit(n) PROVE Calm'
  <2>1. /\ RefetchAll(live, shown) /\ UNCHANGED <<server, switched, live, key, shown>>
        /\ version' = version + 1 /\ told' <= server /\ switched' <= server
    BY <1>1, <1>5, BoundsAssumption DEF Emit, TypeOK
  <2>2. ASSUME NEW k \in Keys PROVE ~Serves(k)'
    <3>1. cache'[k] = Nothing \/ cache'[k] = cache[k]
      BY <2>1 DEF RefetchAll
    <3>2. cache[k] # Nothing => cache[k].version \in 0..version
      BY <1>1 DEF TypeOK
    <3>3. version \in Nat
      BY <1>1 DEF TypeOK
    <3> QED
      BY <2>1, <3>1, <3>2, <3>3 DEF Serves
  <2> QED
    BY <2>1, <2>2, RefetchCalm
<1>6. ASSUME NEW n \in 1..server, SwitchTenant(n) PROVE Calm'
  <2>1. /\ RefetchAll(live, shown') /\ UNCHANGED <<server, told, version, live, key>>
        /\ told' <= server /\ switched' <= server
        /\ \A q \in Queries \ live : shown'[q] = shown[q]
    BY <1>1, <1>6, BoundsAssumption DEF SwitchTenant, TypeOK
  <2>2. \A k \in Keys : Serves(k)' => Serves(k) /\ told' = told
    BY <2>1 DEF RefetchAll, Serves
  <2> QED
    BY <2>1, <2>2, RefetchCalm
<1>7. ASSUME NEW r \in flying, Answer(r) \/ Fail(r) PROVE Calm'
  BY <1>7, AnswerCalm
<1>8. ASSUME UNCHANGED <<told, version, switched, live, key, fetchId, busy, shown, failed, owned, flying,
                         inflight, cache>>
      PROVE  Calm'
  <2>1. BusyOnKey' /\ SharedIsWaited' /\ CacheIsFresh'
    BY <1>8 DEF Calm, BusyOnKey, SharedIsWaited, CacheIsFresh, Serves
  <2>2. WaitsForKey' /\ WaitsForOne'
    BY <1>8 DEF Calm, WaitsForKey, WaitsForOne, Waits, Id
  <2>3. Current' /\ Fresh'
    BY <1>8 DEF Calm, Current, Fresh, AtRest
  <2> QED
    BY <2>1, <2>2, <2>3 DEF Calm
<1>9. CASE Change \/ UNCHANGED vars
  <2>1. UNCHANGED <<told, version, switched, live, key, fetchId, busy, shown, failed, owned, flying,
                    inflight, cache>>
    BY <1>9 DEF Change, vars, world
  <2> QED
    BY <1>8, <2>1
<1> QED
  BY <1>2, <1>3, <1>4, <1>5, <1>6, <1>7, <1>9 DEF Next

(* While no thunk returns another key during a fetch, a query waits for one *)
(* request only, for its own key and new enough, and the cache serves       *)
(* nothing old.                                                             *)
THEOREM CalmAlways == Patient => (Spec => [](Inv /\ Calm))
<1> SUFFICES ASSUME Patient PROVE Spec => [](Inv /\ Calm)
  OBVIOUS
<1>1. Inv /\ Calm /\ [Next]_vars => Calm'
  BY CalmStep
<1> QED
  BY <1>1, Initially, InvStep, InitiallyCalm, PTL DEF Spec

(* While no thunk returns another key during a fetch, a query at rest shows *)
(* the data of its own key, for any queries that share, supersede and       *)
(* dispose of requests for any keys.                                        *)
THEOREM KeyIsCurrent == Patient => (Spec => []Current)
<1>1. Calm => Current
  BY DEF Calm
<1> QED
  BY <1>1, CalmAlways, PTL

(* Under the same condition nothing that is shown at rest is older than the *)
(* last mutation that was announced, whether fetched, shared or cached.     *)
THEOREM NothingStaleAtRest == Patient => (Spec => []Fresh)
<1>1. Calm => Fresh
  BY DEF Calm
<1> QED
  BY <1>1, CalmAlways, PTL

(* Under the same condition no answer that was read before a switch of the  *)
(* tenant is shown after it, whatever was out during the switch.            *)
THEOREM TenantIsNotMixed == Patient => (Spec => NoLateTenant)
<1> DEFINE Kept(q) == shown'[q] \in {shown[q], Nothing} \/ shown'[q].at >= switched
<1>1. ASSUME Inv, Calm, Next, flying' # flying, NEW q \in Queries PROVE Kept(q)
  <2>1. TypeOK /\ Inv
    BY <1>1 DEF Inv
  <2>2. ASSUME NEW p \in Queries, NEW k \in Keys \cup {NoKey}, Mount(p, k) \/ ChangeKey(p, k)
        PROVE  shown' = shown
    <3>1. PICK flags \in SUBSET {"loading", "revalidating"} : RunEffect(p, k, flags)
      <4>1. /\ busy[p] \in SUBSET {"loading", "revalidating"}
            /\ {"loading"} \in SUBSET {"loading", "revalidating"}
        BY <2>1 DEF TypeOK
      <4> QED
        BY <2>2, <4>1 DEF Mount, ChangeKey
    <3> QED
      BY <1>1, <3>1 DEF RunEffect
  <2>3. ASSUME NEW p \in Queries, Refetch(p) \/ Dispose(p) PROVE Kept(q)
    BY <2>1, <2>3 DEF Refetch, Dispose, TypeOK
  <2>4. ASSUME NEW n \in 1..server, Emit(n) \/ SwitchTenant(n) PROVE Kept(q)
    BY <2>4 DEF Emit, SwitchTenant
  <2>5. ASSUME NEW r \in flying, Answer(r) PROVE Kept(q)
    <3>1. PICK at \in r.since .. server :
            shown' = [p \in Queries |-> IF p \in Takers(r) THEN [key |-> r.key, at |-> at] ELSE shown[p]]
      BY <2>5 DEF Answer
    <3>2. r.since \in Nat /\ switched \in Nat
      BY <2>1, BoundsAssumption DEF TypeOK
    <3>3. CASE q \in Takers(r)
      <4>1. switched <= r.since
        BY <1>1, <3>3 DEF Calm, WaitsForKey, Waits, Takers
      <4>2. shown'[q].at = at
        BY <3>1, <3>3
      <4>3. at \in Nat /\ r.since <= at
        BY <2>1, <3>1, <3>2, BoundsAssumption DEF TypeOK
      <4>4. shown'[q].at >= switched
        BY <3>2, <4>1, <4>2, <4>3
      <4> QED
        BY <4>4
    <3>4. CASE q \notin Takers(r)
      BY <3>1, <3>4
    <3> QED
      BY <3>3, <3>4
  <2>6. ASSUME NEW r \in flying, Fail(r) PROVE Kept(q)
    BY <2>6 DEF Fail
  <2>7. CASE Change
    BY <2>7 DEF Change
  <2> HIDE DEF Kept
  <2>8. (\E p \in Queries, k \in Keys \cup {NoKey} : Mount(p, k) \/ ChangeKey(p, k)) => Kept(q)
    BY <2>2 DEF Kept
  <2> QED
    BY <1>1, <2>3, <2>4, <2>5, <2>6, <2>7, <2>8 DEF Next
<1>2. Inv /\ Calm /\ [Next]_vars => [flying' # flying => \A q \in Queries : Kept(q)]_vars
  BY <1>1 DEF vars
<1> QED
  BY <1>2, CalmAlways, PTL DEF Spec, NoLateTenant

(***************************************************************************)
(* One query that keeps to its key while it fetches, whatever others do    *)
(***************************************************************************)
KeepsKey(q) == q \in live /\ q \in live' /\ key'[q] # key[q] => busy[q] = {}
CurrentOf(q) == AtRest(q) => shown[q] # Nothing /\ shown[q].key = key[q]

\* Two requests that are out are never sent under one id.
ByUnique == \A o, r \in flying : o.by = r.by => o = r

\* While q fetches it waits for one request, and that is for its key.
OnKey(q) == busy[q] # {} => q \in live /\ key[q] \in Keys
WaitsOnKey(q) ==
  \A r \in flying : Id(q) \in r.riders => q \in live /\ busy[q] # {} /\ key[q] = r.key
WaitsOnce(q) == \A o, r \in flying : Id(q) \in o.riders /\ Id(q) \in r.riders => o = r

Own(q) == OnKey(q) /\ WaitsOnKey(q) /\ WaitsOnce(q) /\ CurrentOf(q)

LEMMA ByEffect ==
  ASSUME Inv, ByUnique, NEW p \in Queries, NEW k \in Keys \cup {NoKey},
         NEW flags \in SUBSET {"loading", "revalidating"}, RunEffect(p, k, flags)
  PROVE  ByUnique'
<1>1. TypeOK
  BY DEF Inv
<1>2. CASE Hits(p, flags)
  BY <1>2 DEF Hits, ByUnique
<1>3. CASE k \in Keys /\ Joins(p, k)
  <2> SUFFICES ASSUME NEW r \in flying', NEW s \in flying', r.by = s.by PROVE r = s
    BY DEF ByUnique
  <2>1. PICK x \in flying : r = Joined(p, k, x) /\ r.by = x.by
    BY <1>1, <1>3, JoinedRequests
  <2>2. PICK y \in flying : s = Joined(p, k, y) /\ s.by = y.by
    BY <1>1, <1>3, JoinedRequests
  <2> QED
    BY <2>1, <2>2 DEF ByUnique
<1>4. CASE k \in Keys /\ Sends(p, k)
  <2> DEFINE sent == Request(p, k, server)
  <2>1. flying' = flying \cup {sent} /\ sent.by = NextId(p)
    BY <1>4 DEF Sends, Request
  <2> HIDE DEF sent
  <2>2. \A r \in flying : r.by # NextId(p)
    BY NextIsNew
  <2> QED
    BY <2>1, <2>2 DEF ByUnique
<1> QED
  BY <1>1, <1>2, <1>3, <1>4, EffectMoves

LEMMA ByStep == Inv /\ ByUnique /\ [Next]_vars => ByUnique'
<1> SUFFICES ASSUME Inv, ByUnique, [Next]_vars PROVE ByUnique'
  OBVIOUS
<1>1. TypeOK
  BY DEF Inv
<1>2. ASSUME NEW p \in Queries, NEW k \in Keys \cup {NoKey}, Mount(p, k) \/ ChangeKey(p, k)
      PROVE  ByUnique'
  <2>1. PICK flags \in SUBSET {"loading", "revalidating"} : RunEffect(p, k, flags)
    <3>1. /\ busy[p] \in SUBSET {"loading", "revalidating"}
          /\ {"loading"} \in SUBSET {"loading", "revalidating"}
      BY <1>1 DEF TypeOK
    <3> QED
      BY <1>2, <3>1 DEF Mount, ChangeKey
  <2> QED
    BY <2>1, ByEffect
<1>3. ASSUME NEW qs \in SUBSET Queries, NEW data, RefetchAll(qs, data) PROVE ByUnique'
  <2> SUFFICES ASSUME NEW r \in flying', NEW s \in flying', r.by = s.by PROVE r = s
    BY DEF ByUnique
  <2>1. \A x \in flying' \ flying : \E p \in Fetching(qs) :
          p \in Queries /\ x = Request(p, key[p], server) /\ x.by = NextId(p)
    BY <1>1, <1>3, Refetching
  <2>2. \A p \in Queries : \A x \in flying : x.by # NextId(p)
    BY NextIsNew
  <2>3. \A p, o \in Queries : NextId(p) = NextId(o) => p = o
    BY DEF NextId
  <2>4. CASE r \in flying /\ s \in flying
    BY <2>4 DEF ByUnique
  <2>5. CASE r \notin flying /\ s \notin flying
    BY <2>1, <2>3, <2>5
  <2>6. CASE (r \in flying) # (s \in flying)
    BY <2>1, <2>2, <2>6
  <2> QED
    BY <2>4, <2>5, <2>6
<1>4. ASSUME NEW p \in Queries, Refetch(p) PROVE ByUnique'
  BY <1>3, <1>4 DEF Refetch
<1>5. ASSUME NEW n \in 1..server, Emit(n) \/ SwitchTenant(n) PROVE ByUnique'
  <2>1. live \in SUBSET Queries /\ \E data : RefetchAll(live, data)
    BY <1>1, <1>5 DEF Emit, SwitchTenant, TypeOK
  <2> QED
    BY <1>3, <2>1
<1>6. ASSUME NEW r \in flying, Answer(r) \/ Fail(r) PROVE ByUnique'
  BY <1>6 DEF Answer, Fail, Settled, ByUnique
<1>7. ASSUME NEW p \in Queries, Dispose(p) PROVE ByUnique'
  <2> SUFFICES ASSUME NEW r \in flying', NEW s \in flying', r.by = s.by PROVE r = s
    BY DEF ByUnique
  <2>1. PICK x \in flying : r = Cut(p, x) /\ r.by = x.by
    BY <1>1, <1>7, DisposedRequests
  <2>2. PICK y \in flying : s = Cut(p, y) /\ s.by = y.by
    BY <1>1, <1>7, DisposedRequests
  <2> QED
    BY <2>1, <2>2 DEF ByUnique
<1>8. CASE Change \/ UNCHANGED vars
  BY <1>8 DEF Change, vars, ByUnique
<1> QED
  BY <1>2, <1>4, <1>5, <1>6, <1>7, <1>8 DEF Next

\* The effect of another query leaves what q waits for and shows.
LEMMA OtherEffect ==
  ASSUME Inv, NEW q \in Queries, Own(q), NEW p \in Queries \ {q}, NEW k \in Keys \cup {NoKey},
         NEW flags \in SUBSET {"loading", "revalidating"}, RunEffect(p, k, flags),
         live' = live \cup {p}, key' = [key EXCEPT ![p] = k]
  PROVE  Own(q)'
<1>1. TypeOK /\ p \in Queries
  BY DEF Inv
<1>2. /\ Id(q)' = Id(q) /\ busy'[q] = busy[q] /\ key'[q] = key[q]
      /\ q \in live' <=> q \in live
  <2>1. key'[q] = key[q] /\ (q \in live' <=> q \in live)
    BY <1>1 DEF TypeOK
  <2>2. CASE Hits(p, flags)
    BY <1>1, <2>1, <2>2 DEF Hits, Id, TypeOK
  <2>3. CASE Moves(p)
    BY <1>1, <2>1, <2>3, MovedIds
  <2> QED
    BY <1>1, <2>2, <2>3, EffectMoves DEF Joins, Sends
<1>3. shown'[q] = shown[q] /\ (q \in failed' <=> q \in failed)
  BY <1>1 DEF RunEffect, TypeOK
<1>4. OnKey(q)' /\ CurrentOf(q)'
  BY <1>2, <1>3 DEF Own, OnKey, CurrentOf, AtRest
<1>5. NextId(p) # Id(q)
  BY DEF NextId, Id
<1>6. CASE Hits(p, flags)
  <2>1. WaitsOnKey(q)' /\ WaitsOnce(q)'
    BY <1>2, <1>6 DEF Hits, Own, WaitsOnKey, WaitsOnce
  <2> QED
    BY <1>4, <2>1 DEF Own
<1>7. CASE k \in Keys /\ Joins(p, k)
  <2>1. \A r \in flying' : Id(q)' \in r.riders =>
          \E o \in flying : r = Joined(p, k, o) /\ r.key = o.key /\ Id(q) \in o.riders
    BY <1>1, <1>2, <1>5, <1>7, JoinedRequests
  <2>2. WaitsOnKey(q)' /\ WaitsOnce(q)'
    BY <1>2, <2>1 DEF Own, WaitsOnKey, WaitsOnce
  <2> QED
    BY <1>4, <2>2 DEF Own
<1>8. CASE k \in Keys /\ Sends(p, k)
  <2>1. \A r \in flying' : Id(q)' \in r.riders => r \in flying /\ Id(q) \in r.riders
    <3> DEFINE sent == Request(p, k, server)
    <3>1. flying' = flying \cup {sent} /\ sent.riders = {NextId(p)}
      BY <1>8 DEF Sends, Request
    <3> HIDE DEF sent
    <3> QED
      BY <1>2, <1>5, <3>1
  <2>2. WaitsOnKey(q)' /\ WaitsOnce(q)'
    BY <1>2, <2>1 DEF Own, WaitsOnKey, WaitsOnce
  <2> QED
    BY <1>4, <2>2 DEF Own
<1> QED
  BY <1>1, <1>6, <1>7, <1>8, EffectMoves

\* The effect of q itself, when q does not fetch.
LEMMA OwnEffect ==
  ASSUME Inv, ByUnique, NEW q \in Queries, Own(q), NEW k \in Keys \cup {NoKey},
         NEW flags \in SUBSET {"loading"}, RunEffect(q, k, flags), busy[q] = {},
         live' = live \cup {q}, key' = [key EXCEPT ![q] = k]
  PROVE  Own(q)'
<1>1. TypeOK /\ flags \in SUBSET {"loading", "revalidating"} /\ key'[q] = k /\ q \in live'
  BY DEF Inv, TypeOK
<1>2. \A r \in flying : Id(q) \notin r.riders /\ NextId(q) \notin r.riders
  BY NextIsNew DEF Own, WaitsOnKey
<1>3. CASE Hits(q, flags)
  <2>1. UNCHANGED <<fetchId, flying>> /\ Id(q)' = Id(q) /\ busy'[q] = {}
    BY <1>1, <1>3 DEF Hits, Id, TypeOK
  <2>2. OnKey(q)' /\ WaitsOnKey(q)' /\ WaitsOnce(q)'
    BY <1>2, <2>1 DEF OnKey, WaitsOnKey, WaitsOnce
  <2>3. CASE k = NoKey
    BY <1>1, <2>2, <2>3 DEF Own, CurrentOf, AtRest
  <2>4. CASE k # NoKey /\ Serves(k)
    <3>1. shown'[q] = [key |-> k, at |-> cache[k].at] /\ k \in Keys
      BY <1>1, <2>4 DEF RunEffect, TypeOK
    <3>2. cache[k].at \in Nat
      BY <1>1, <2>4, <3>1, BoundsAssumption DEF TypeOK, Serves
    <3>3. shown'[q] # Nothing
      BY <3>1, <3>2, NoneAssumption
    <3> QED
      BY <1>1, <2>2, <3>1, <3>3 DEF Own, CurrentOf
  <2>5. CASE k # NoKey /\ ~Serves(k)
    <3>1. fetchId' = [fetchId EXCEPT ![q] = @ + 1] /\ fetchId[q] \in Nat
      BY <1>1, <2>5 DEF RunEffect, TypeOK
    <3>2. fetchId'[q] = fetchId[q] + 1
      BY <1>1, <3>1 DEF TypeOK
    <3> QED
      BY <2>1, <3>1, <3>2
  <2> QED
    BY <2>3, <2>4, <2>5
<1>4. ASSUME k \in Keys, Moves(q), WaitsOnce(q)',
             \A r \in flying' : Id(q)' \in r.riders => r.key = k
      PROVE  Own(q)'
  <2>1. busy'[q] # {}
    BY <1>1, <1>4, MovedIds
  <2> QED
    BY <1>1, <1>4, <2>1 DEF Own, OnKey, WaitsOnKey, CurrentOf, AtRest
<1>5. CASE k \in Keys /\ Joins(q, k)
  <2>1. Moves(q) /\ Id(q)' = NextId(q)
    BY <1>1, <1>5, MovedIds DEF Joins
  <2>2. PICK x \in flying : x.by = inflight[k] /\ x.key = k
    BY <1>5 DEF Joins, Inv, Awaited, SharedIsFlying
  <2>3. \A r \in flying' : Id(q)' \in r.riders => r = Joined(q, k, x) /\ r.key = k
    <3> SUFFICES ASSUME NEW r \in flying', NextId(q) \in r.riders
                 PROVE  r = Joined(q, k, x) /\ r.key = k
      BY <2>1
    <3>1. PICK o \in flying : /\ r = Joined(q, k, o) /\ r.key = o.key
                              /\ \/ r.riders = o.riders
                                 \/ o.by = inflight[k] /\ r.riders = o.riders \cup {NextId(q)}
      BY <1>1, <1>5, JoinedRequests
    <3>2. o = x
      BY <1>2, <2>2, <3>1 DEF ByUnique
    <3> QED
      BY <2>2, <3>1, <3>2
  <2>4. WaitsOnce(q)'
    BY <2>3 DEF WaitsOnce
  <2> QED
    BY <1>4, <1>5, <2>1, <2>3, <2>4
<1>6. CASE k \in Keys /\ Sends(q, k)
  <2> DEFINE sent == Request(q, k, server)
  <2>1. Moves(q) /\ Id(q)' = NextId(q)
    BY <1>1, <1>6, MovedIds DEF Sends
  <2>2. flying' = flying \cup {sent} /\ sent.key = k
    BY <1>6 DEF Sends, Request
  <2> HIDE DEF sent
  <2>3. \A r \in flying' : Id(q)' \in r.riders => r = sent
    BY <1>2, <2>1, <2>2
  <2>4. WaitsOnce(q)'
    BY <2>3 DEF WaitsOnce
  <2> QED
    BY <1>4, <1>6, <2>1, <2>2, <2>3, <2>4
<1> QED
  BY <1>1, <1>3, <1>5, <1>6, EffectMoves

LEMMA OwnRefetch ==
  ASSUME Inv, NEW q \in Queries, Own(q), NEW qs \in SUBSET live, NEW data, RefetchAll(qs, data),
         UNCHANGED <<live, key>>, q \notin qs => shown'[q] = shown[q]
  PROVE  Own(q)'
<1>1. TypeOK /\ qs \in SUBSET Queries /\ Fetching(qs) \subseteq qs
  BY DEF Inv, TypeOK, Fetching
<1>2. \A r \in flying' \ flying : \E p \in Fetching(qs) :
        p \in Queries /\ r = Request(p, key[p], server) /\ r.key = key[p] /\ r.riders = {NextId(p)}
  BY <1>1, Refetching
<1>3. CASE q \in Fetching(qs)
  <2>1. Id(q)' = NextId(q) /\ busy'[q] # {} /\ key[q] \in Keys /\ q \in live
    BY <1>1, <1>3, Refetching
  <2>2. \A r \in flying' : Id(q)' \in r.riders => r = Request(q, key[q], server) /\ r.key = key[q]
    <3> SUFFICES ASSUME NEW r \in flying', NextId(q) \in r.riders
                 PROVE  r = Request(q, key[q], server) /\ r.key = key[q]
      BY <2>1
    <3>1. r \notin flying
      BY NextIsNew
    <3>2. PICK p \in Fetching(qs) : /\ p \in Queries /\ r = Request(p, key[p], server)
                                    /\ r.key = key[p] /\ r.riders = {NextId(p)}
      BY <1>2, <3>1
    <3>3. p = q
      BY <3>2 DEF NextId
    <3> QED
      BY <3>2, <3>3
  <2> QED
    BY <2>1, <2>2 DEF Own, OnKey, WaitsOnKey, WaitsOnce, CurrentOf, AtRest
<1>4. CASE q \notin Fetching(qs)
  <2>1. Id(q)' = Id(q) /\ busy'[q] \subseteq busy[q]
    BY <1>1, <1>4, Refetching
  <2>2. \A r \in flying' : Id(q)' \in r.riders => r \in flying /\ Id(q) \in r.riders
    <3> SUFFICES ASSUME NEW r \in flying', Id(q) \in r.riders PROVE r \in flying
      BY <2>1
    <3>1. \A p \in Fetching(qs) : NextId(p) # Id(q)
      BY <1>4 DEF NextId, Id
    <3> QED
      BY <1>2, <3>1
  <2>3. key[q] # NoKey => q \notin qs /\ busy'[q] = busy[q]
    BY <1>1, <1>4, Refetching DEF Fetching
  <2>4. OnKey(q)' /\ WaitsOnce(q)'
    BY <2>1, <2>2 DEF Own, OnKey, WaitsOnce
  <2>5. WaitsOnKey(q)'
    BY <2>1, <2>2, <2>3, NoneAssumption DEF Own, OnKey, WaitsOnKey
  <2>6. CurrentOf(q)'
    <3> SUFFICES ASSUME AtRest(q)' PROVE shown'[q] # Nothing /\ shown'[q].key = key[q]
      BY DEF CurrentOf
    <3>1. q \in live /\ key[q] # NoKey /\ busy'[q] = {} /\ q \notin failed'
      BY DEF AtRest
    <3>2. q \notin failed
      BY <1>4, <3>1 DEF RefetchAll
    <3> QED
      BY <2>3, <3>1, <3>2 DEF Own, CurrentOf, AtRest
  <2> QED
    BY <2>4, <2>5, <2>6 DEF Own
<1> QED
  BY <1>3, <1>4

LEMMA OwnAnswer ==
  ASSUME Inv, NEW q \in Queries, Own(q), NEW r \in flying, Answer(r) \/ Fail(r)
  PROVE  Own(q)'
<1>1. TypeOK /\ r.key \in Keys /\ r.since \in Nat
  BY DEF Inv, TypeOK
<1>2. /\ flying' = flying \ {r} /\ UNCHANGED <<live, key, fetchId>> /\ Id(q)' = Id(q)
      /\ busy'[q] = IF q \in Takers(r) THEN {} ELSE busy[q]
  BY DEF Answer, Fail, Settled, Stopped, Id
<1>3. OnKey(q)' /\ WaitsOnce(q)'
  BY <1>2 DEF Own, OnKey, WaitsOnce
<1>4. WaitsOnKey(q)'
  <2> SUFFICES ASSUME NEW o \in flying', Id(q) \in o.riders
               PROVE  q \in live /\ busy'[q] # {} /\ key[q] = o.key
    BY <1>2 DEF WaitsOnKey
  <2>1. q \notin Takers(r)
    BY <1>2 DEF Takers, Own, WaitsOnce
  <2> QED
    BY <1>2, <2>1 DEF Own, WaitsOnKey
<1>5. CurrentOf(q)'
  <2> SUFFICES ASSUME AtRest(q)' PROVE shown'[q] # Nothing /\ shown'[q].key = key[q]
    BY <1>2 DEF CurrentOf
  <2>1. CASE q \in Takers(r)
    <3>1. key[q] = r.key
      BY <2>1 DEF Takers, Own, WaitsOnKey
    <3>2. ~Fail(r)
      BY <2>1 DEF AtRest, Fail
    <3>3. PICK at \in r.since .. server : shown'[q] = [key |-> r.key, at |-> at]
      BY <2>1, <3>2 DEF Answer
    <3>4. at \in Nat
      BY <1>1, <3>3, BoundsAssumption DEF TypeOK
    <3>5. shown'[q] # Nothing
      BY <1>1, <3>3, <3>4, NoneAssumption
    <3> QED
      BY <3>1, <3>3, <3>5
  <2>2. CASE q \notin Takers(r)
    <3>1. shown'[q] = shown[q] /\ (q \in failed' <=> q \in failed)
      BY <2>2 DEF Answer, Fail
    <3> QED
      BY <1>2, <2>2, <3>1 DEF Own, CurrentOf, AtRest
  <2> QED
    BY <2>1, <2>2
<1> QED
  BY <1>3, <1>4, <1>5 DEF Own

LEMMA OwnDispose ==
  ASSUME Inv, NEW q \in Queries, Own(q), NEW p \in Queries, Dispose(p)
  PROVE  Own(q)'
<1>1. TypeOK
  BY DEF Inv
<1>2. \A r \in flying' : \E o \in flying :
        r = Cut(p, o) /\ r.key = o.key /\ r.riders = {i \in o.riders : i[1] # p}
  BY <1>1, DisposedRequests
<1>3. CASE p = q
  <2>1. q \notin live' /\ busy'[q] = {}
    BY <1>1, <1>3, DisposedIds DEF Dispose
  <2>2. \A r \in flying' : Id(q)' \notin r.riders
    BY <1>2, <1>3 DEF Id
  <2> QED
    BY <2>1, <2>2 DEF Own, OnKey, WaitsOnKey, WaitsOnce, CurrentOf, AtRest
<1>4. CASE p # q
  <2>1. /\ Id(q)' = Id(q) /\ busy'[q] = busy[q] /\ key'[q] = key[q] /\ shown'[q] = shown[q]
        /\ q \in live' <=> q \in live
        /\ q \in failed' <=> q \in failed
    BY <1>1, <1>4, DisposedIds DEF Dispose, TypeOK
  <2>2. OnKey(q)' /\ CurrentOf(q)'
    BY <2>1 DEF Own, OnKey, CurrentOf, AtRest
  <2>3. WaitsOnKey(q)' /\ WaitsOnce(q)'
    BY <1>2, <2>1 DEF Own, WaitsOnKey, WaitsOnce
  <2> QED
    BY <2>2, <2>3 DEF Own
<1> QED
  BY <1>3, <1>4

LEMMA OwnStep ==
  ASSUME NEW q \in Queries
  PROVE  Inv /\ ByUnique /\ Own(q) /\ [Next]_vars /\ [KeepsKey(q)]_vars => Own(q)'
<1> SUFFICES ASSUME Inv, ByUnique, Own(q), [Next]_vars, [KeepsKey(q)]_vars PROVE Own(q)'
  OBVIOUS
<1>1. TypeOK /\ live \subseteq Queries
  BY DEF Inv, TypeOK
<1>2. ASSUME NEW p \in Queries, NEW k \in Keys \cup {NoKey}, Mount(p, k) \/ ChangeKey(p, k)
      PROVE  Own(q)'
  <2>1. live' = live \cup {p} /\ key' = [key EXCEPT ![p] = k]
    BY <1>2 DEF Mount, ChangeKey
  <2>2. CASE p # q
    <3>1. PICK flags \in SUBSET {"loading", "revalidating"} : RunEffect(p, k, flags)
      <4>1. /\ busy[p] \in SUBSET {"loading", "revalidating"}
            /\ {"loading"} \in SUBSET {"loading", "revalidating"}
        BY <1>1 DEF TypeOK
      <4> QED
        BY <1>2, <4>1 DEF Mount, ChangeKey
    <3> QED
      BY <2>1, <2>2, <3>1, OtherEffect
  <2>3. CASE p = q
    <3>1. busy[q] = {}
      <4>1. CASE Mount(q, k)
        BY <4>1 DEF Mount, Own, OnKey
      <4>2. CASE ChangeKey(q, k)
        <5>1. q \in live /\ q \in live' /\ key'[q] # key[q]
          BY <1>1, <2>1, <4>2 DEF ChangeKey, TypeOK
        <5>2. KeepsKey(q)
          BY <5>1 DEF vars
        <5> QED
          BY <5>1, <5>2 DEF KeepsKey
      <4> QED
        BY <1>2, <2>3, <4>1, <4>2
    <3>2. PICK flags \in SUBSET {"loading"} : RunEffect(q, k, flags)
      BY <1>2, <2>3, <3>1 DEF Mount, ChangeKey
    <3> QED
      BY <2>1, <2>3, <3>1, <3>2, OwnEffect
  <2> QED
    BY <2>2, <2>3
<1>3. ASSUME NEW p \in Queries, Refetch(p) PROVE Own(q)'
  <2>1. {p} \in SUBSET live /\ RefetchAll({p}, shown) /\ UNCHANGED <<live, key, shown>>
    BY <1>3 DEF Refetch
  <2> QED
    BY <2>1, OwnRefetch
<1>4. ASSUME NEW n \in 1..server, Emit(n) \/ SwitchTenant(n) PROVE Own(q)'
  <2>1. /\ UNCHANGED <<live, key>> /\ \E data : RefetchAll(live, data)
        /\ q \notin live => shown'[q] = shown[q]
    BY <1>4 DEF Emit, SwitchTenant
  <2> QED
    BY <2>1, OwnRefetch
<1>5. ASSUME NEW r \in flying, Answer(r) \/ Fail(r) PROVE Own(q)'
  BY <1>5, OwnAnswer
<1>6. ASSUME NEW p \in Queries, Dispose(p) PROVE Own(q)'
  BY <1>6, OwnDispose
<1>7. CASE Change \/ UNCHANGED vars
  <2>1. UNCHANGED <<live, key, fetchId, busy, shown, failed, flying>>
    BY <1>7 DEF Change, vars
  <2> QED
    BY <2>1 DEF Own, OnKey, WaitsOnKey, WaitsOnce, CurrentOf, AtRest, Id
<1> QED
  BY <1>2, <1>3, <1>4, <1>5, <1>6, <1>7 DEF Next

(* A query whose own thunk keeps to its key while it fetches shows, at     *)
(* rest, the data of that key, even where every other query changes keys   *)
(* in the middle of its fetches and leaves requests shared under a key     *)
(* that is no longer its own.                                              *)
THEOREM OwnKeyIsCurrent ==
  ASSUME NEW q \in Queries
  PROVE  Spec /\ [][KeepsKey(q)]_vars => []CurrentOf(q)
<1>1. Init => ByUnique /\ Own(q)
  BY DEF Init, ByUnique, Own, OnKey, WaitsOnKey, WaitsOnce, CurrentOf, AtRest
<1>2. Inv /\ ByUnique /\ Own(q) /\ [Next]_vars /\ [KeepsKey(q)]_vars => Own(q)'
  BY OwnStep
<1>3. Own(q) => CurrentOf(q)
  BY DEF Own
<1> QED
  BY <1>1, <1>2, <1>3, Initially, InvStep, ByStep, PTL DEF Spec
================================================================================

------------------------------- MODULE QueryFetch -------------------------------
(***************************************************************************)
(* query() of packages/ui/src/query/query.ts for thunks that return a      *)
(* descriptor: queries of one tenant-scoped entity type, the requests they *)
(* share, the cache they share and the events that make them refetch.      *)
(* JavaScript runs each callback to its end, so each is one action.  What  *)
(* the server holds is a number that every change raises; data is the      *)
(* number it was read at.                                                  *)
(***************************************************************************)
EXTENDS Naturals, FiniteSets

CONSTANTS
  Queries,    \* places of the page that mount a query
  Keys,       \* cache keys: pages, filters
  MaxFetch,   \* bound: MaxFetch[q] fetches and disposals of query q
  MaxChange,  \* bound: changes of the server's data
  Patient,    \* the thunk of a query that still fetches returns the same key
  NoKey,      \* what a thunk that returns null asks for
  Nothing, NoRequest

ASSUME BoundsAssumption == MaxFetch \in [Queries -> Nat] /\ MaxChange \in Nat
ASSUME PatientAssumption == Patient \in BOOLEAN
ASSUME NoneAssumption ==
  /\ NoKey \notin Keys /\ NoRequest \notin Queries \X Nat
  /\ Nothing \notin [key : Keys, at : Nat] \cup [at : Nat, version : Nat]

VARIABLES
  server,   \* changes so far: mutations and switches of the tenant
  told,     \* the last change that the mutation bus has announced
  version,  \* MutationEventBus: the version of the entity type
  switched, \* the change after which the data is the current tenant's
  live,     \* mounted and not disposed
  key,      \* key[q]: what the thunk returned last
  fetchId,  \* fetchId[q]
  busy,     \* busy[q]: which of loading and revalidating are set
  shown,    \* shown[q], rawData: [key, at], or Nothing
  failed,   \* failed[q]: error is set
  owned,    \* owned[q], inflightKeys
  flying,   \* requests not answered yet; riders are the <<query, fetchId>> that wait
  inflight, \* inflight[k]: the request that a new fetch of k would share
  cache     \* cache[k]: [at, version], or Nothing

world == <<server, told, version, switched>>
vars == <<world, live, key, fetchId, busy, shown, failed, owned, flying, inflight, cache>>

Init ==
  /\ server = 0 /\ told = 0 /\ version = 0 /\ switched = 0
  /\ live = {} /\ key = [q \in Queries |-> NoKey]
  /\ fetchId = [q \in Queries |-> 0] /\ busy = [q \in Queries |-> {}]
  /\ shown = [q \in Queries |-> Nothing] /\ failed = {}
  /\ owned = [q \in Queries |-> {}]
  /\ flying = {} /\ inflight = [k \in Keys |-> NoRequest]
  /\ cache = [k \in Keys |-> Nothing]

Id(q) == <<q, fetchId[q]>>
NextId(q) == <<q, fetchId[q] + 1>>

\* startFetch marks a first load or a revalidation, by what is shown.
Marked(flags, data) == flags \cup {IF data = Nothing THEN "loading" ELSE "revalidating"}

Request(q, k, now) == [by |-> NextId(q), key |-> k, since |-> now, riders |-> {NextId(q)}]

\* Whether the entry of k can be served: isCachedEntryStale.
ServesAny(k) == cache[k] # Nothing
Serves(k) == cache[k] # Nothing /\ version <= cache[k].version

\* The effect, run because the thunk of q now returns k; flags are loading and
\* revalidating as the run finds them.  A hit leaves fetchId and revalidating
\* as they are.
RunEffect(q, k, flags) ==
  \/ /\ k = NoKey
     /\ busy' = [busy EXCEPT ![q] = flags \ {"loading"}]
     /\ UNCHANGED <<fetchId, shown, failed, owned, flying, inflight>>
  \/ /\ k # NoKey /\ Serves(k)
     /\ shown' = [shown EXCEPT ![q] = [key |-> k, at |-> cache[k].at]]
     /\ busy' = [busy EXCEPT ![q] = flags \ {"loading"}]
     /\ failed' = failed \ {q}
     /\ UNCHANGED <<fetchId, owned, flying, inflight>>
  \/ /\ k # NoKey /\ ~Serves(k) /\ fetchId[q] < MaxFetch[q]
     /\ fetchId' = [fetchId EXCEPT ![q] = @ + 1]
     /\ busy' = [busy EXCEPT ![q] = Marked(flags, shown[q])]
     /\ failed' = failed \ {q}
     /\ IF inflight[k] # NoRequest
          THEN /\ flying' = {IF r.by = inflight[k] THEN [r EXCEPT !.riders = @ \cup {NextId(q)}]
                             ELSE r : r \in flying}
               /\ UNCHANGED <<owned, inflight>>
          ELSE /\ flying' = flying \cup {Request(q, k, server)}
               /\ inflight' = [inflight EXCEPT ![k] = NextId(q)]
               /\ owned' = [owned EXCEPT ![q] = @ \cup {k}]
     /\ UNCHANGED shown

Mount(q, k) ==
  /\ q \notin live
  /\ live' = live \cup {q} /\ key' = [key EXCEPT ![q] = k]
  /\ RunEffect(q, k, {"loading"})
  /\ UNCHANGED <<world, cache>>

\* A signal that the thunk reads changes; null is one of the values.
ChangeKey(q, k) ==
  /\ q \in live /\ k # key[q]
  /\ Patient => busy[q] = {}
  /\ key' = [key EXCEPT ![q] = k]
  /\ RunEffect(q, k, busy[q])
  /\ UNCHANGED <<world, live, cache>>

\* refetch() of the queries qs, one after the other: each forgets what is
\* cached and in flight for its key and runs its effect, where data is shown.
\* Of those that share a key the last one's request is shared from then on.  A
\* query whose thunk returns null looks up a key that nobody uses.
Fetching(qs) == {q \in qs : key[q] # NoKey}
Refetched(qs) == {key[q] : q \in Fetching(qs)}

RefetchAll(qs, data) ==
  /\ \A q \in Fetching(qs) : fetchId[q] < MaxFetch[q]
  /\ fetchId' = [q \in Queries |-> IF q \in Fetching(qs) THEN fetchId[q] + 1 ELSE fetchId[q]]
  /\ busy' = [q \in Queries |-> IF q \in Fetching(qs) THEN Marked(busy[q], data[q])
                                ELSE IF q \in qs THEN busy[q] \ {"loading"} ELSE busy[q]]
  /\ failed' = failed \ Fetching(qs)
  /\ owned' = [q \in Queries |-> IF q \in Fetching(qs) THEN owned[q] \cup {key[q]} ELSE owned[q]]
  /\ flying' = flying \cup {Request(q, key[q], server) : q \in Fetching(qs)}
  /\ \E last \in [Refetched(qs) -> Fetching(qs)] :
       /\ \A k \in Refetched(qs) : key[last[k]] = k
       /\ inflight' = [k \in Keys |-> IF k \in Refetched(qs) THEN NextId(last[k]) ELSE inflight[k]]
  /\ cache' = [k \in Keys |-> IF k \in Refetched(qs) THEN Nothing ELSE cache[k]]

\* refetch() called by the program, by invalidate() or by a poll.
Refetch(q) ==
  /\ q \in live
  /\ RefetchAll({q}, shown)
  /\ UNCHANGED <<world, live, key, shown>>

\* A mutation, or a switch of the tenant, reaches the server ...
Change == /\ server < MaxChange
          /\ server' = server + 1
          /\ UNCHANGED <<told, version, switched, live, key, fetchId, busy, shown, failed, owned,
                         flying, inflight, cache>>

\* ... and when the mutation's answer is back, emit() raises the version and
\* calls refetch of every query that has subscribed.
Emit(n) ==
  /\ n \in told + 1 .. server
  /\ told' = n /\ version' = version + 1
  /\ RefetchAll(live, shown)
  /\ UNCHANGED <<server, switched, live, key, shown>>

\* invalidateTenantQueries(): clearData, then refetch, of every live query.
SwitchTenant(n) ==
  /\ n \in switched + 1 .. server
  /\ switched' = n
  /\ shown' = [q \in Queries |-> IF q \in live THEN Nothing ELSE shown[q]]
  /\ RefetchAll(live, shown')
  /\ UNCHANGED <<server, told, version, live, key>>

\* The answer to a request, as the server's data was at some time since it was
\* sent.  Every rider forgets the shared request of that key, whichever it is;
\* only a rider that has not fetched since takes the answer.
TakersEver(r) == {q \in Queries : \E n \in 0..fetchId[q] : <<q, n>> \in r.riders}
Takers(r) == {q \in Queries : Id(q) \in r.riders}
StoppedLoading(r) ==
  [q \in Queries |-> IF q \in Takers(r) THEN busy[q] \ {"loading"} ELSE busy[q]]
Stopped(r) == [q \in Queries |-> IF q \in Takers(r) THEN {} ELSE busy[q]]
StillShared(r) == inflight
Unshared(r) == [inflight EXCEPT ![r.key] = NoRequest]
Settled(r) ==
  /\ flying' = flying \ {r}
  /\ inflight' = Unshared(r)
  /\ owned' = [q \in Queries |-> IF \E n \in 0..fetchId[q] : <<q, n>> \in r.riders
                                 THEN owned[q] \ {r.key} ELSE owned[q]]
  /\ busy' = Stopped(r)
  /\ UNCHANGED <<world, live, key, fetchId>>

Answer(r) ==
  /\ r \in flying
  /\ \E at \in r.since .. server :
       /\ shown' = [q \in Queries |-> IF q \in Takers(r) THEN [key |-> r.key, at |-> at] ELSE shown[q]]
       /\ cache' = IF Takers(r) = {} THEN cache
                   ELSE [cache EXCEPT ![r.key] = [at |-> at, version |-> version]]
  /\ Settled(r)
  /\ UNCHANGED failed

Fail(r) ==
  /\ r \in flying
  /\ failed' = failed \cup Takers(r)
  /\ Settled(r)
  /\ UNCHANGED <<shown, cache>>

\* The cache stays.  Handlers of the instance still run, and find that it has
\* fetched since.
Dispose(q) ==
  /\ q \in live /\ fetchId[q] < MaxFetch[q]
  /\ live' = live \ {q} /\ key' = [key EXCEPT ![q] = NoKey]
  /\ fetchId' = [fetchId EXCEPT ![q] = @ + 1]
  /\ busy' = [busy EXCEPT ![q] = {}]
  /\ shown' = [shown EXCEPT ![q] = Nothing] /\ failed' = failed \ {q}
  /\ inflight' = [k \in Keys |-> IF k \in owned[q] THEN NoRequest ELSE inflight[k]]
  /\ owned' = [owned EXCEPT ![q] = {}]
  /\ flying' = {[r EXCEPT !.riders = {i \in @ : i[1] # q}] : r \in flying}
  /\ UNCHANGED <<world, cache>>

Next == \/ \E q \in Queries : \/ \E k \in Keys \cup {NoKey} : Mount(q, k) \/ ChangeKey(q, k)
                              \/ Refetch(q) \/ Dispose(q)
        \/ Change \/ \E n \in 1..server : Emit(n) \/ SwitchTenant(n)
        \/ \E r \in flying : Answer(r) \/ Fail(r)

\* Every request is answered or fails.
AnswerTo(i) == \E r \in flying : r.by = i /\ (Answer(r) \/ Fail(r))
Fairness == \A q \in Queries : \A n \in 1..MaxFetch[q] : WF_vars(AnswerTo(<<q, n>>))

Spec == Init /\ [][Next]_vars /\ Fairness

(***************************************************************************)
(* Properties                                                              *)
(***************************************************************************)
TypeOK ==
  /\ server \in 0..MaxChange /\ told \in 0..server /\ switched \in 0..server /\ version \in Nat
  /\ live \subseteq Queries /\ failed \subseteq Queries
  /\ key \in [Queries -> Keys \cup {NoKey}]
  /\ fetchId \in [Queries -> Nat] /\ \A q \in Queries : fetchId[q] <= MaxFetch[q]
  /\ busy \in [Queries -> SUBSET {"loading", "revalidating"}]
  /\ shown \in [Queries -> [key : Keys, at : 0..server] \cup {Nothing}]
  /\ owned \in [Queries -> SUBSET Keys]
  /\ flying \subseteq [by : Queries \X Nat, key : Keys, since : 0..server,
                       riders : SUBSET (Queries \X Nat)]
  /\ inflight \in [Keys -> (Queries \X Nat) \cup {NoRequest}]
  /\ cache \in [Keys -> [at : 0..server, version : 0..version] \cup {Nothing}]

(* A query that shows a spinner waits for a request that is still out, under *)
(* the fetchId it will accept: whatever is shared, superseded, disposed of   *)
(* by another query or served from the cache in between, no query loads for  *)
(* ever.  And a request that is offered for sharing is out for that very     *)
(* key, so that a query that joins it waits for an answer that comes.        *)
BusyWait == \A q \in live : busy[q] # {} => \E r \in flying : Id(q) \in r.riders
SharedIsFlying == \A k \in Keys : inflight[k] # NoRequest =>
                    \E r \in flying : r.by = inflight[k] /\ r.key = k
Awaited == BusyWait /\ SharedIsFlying

(* A query that has stopped fetching, without an error, shows the data of    *)
(* the key that its thunk returned last, never an answer that came late.     *)
AtRest(q) == q \in live /\ busy[q] = {} /\ q \notin failed /\ key[q] # NoKey
Current == \A q \in Queries : AtRest(q) => shown[q] # Nothing /\ shown[q].key = key[q]

(* Once a mutation has been announced, no query that has stopped fetching    *)
(* shows data from before it: neither one that was mounted then, nor one     *)
(* that comes back to a key later and is served from the cache or shares a   *)
(* request.                                                                  *)
Fresh == \A q \in Queries : AtRest(q) /\ shown[q] # Nothing => shown[q].at >= told

(* An answer never shows a query data that the server read before the switch *)
(* of the tenant, although requests of the old tenant are out during it.     *)
NoLateTenant ==
  [][flying' # flying => \A q \in Queries :
       shown'[q] \in {shown[q], Nothing} \/ shown'[q].at >= switched]_vars

(* data-fetching.mdx, on the switch of a tenant: users never see data from   *)
(* the wrong tenant.  Pages of the old tenant that stay in the cache break   *)
(* it (MCQueryFetchTenant.cfg).                                              *)
NoOldTenant == \A q \in live : shown[q] # Nothing => shown[q].at >= switched

(* Every query stops fetching, once nobody makes it fetch again.             *)
Settles == \A q \in Queries : busy[q] # {} ~> busy[q] = {}
================================================================================

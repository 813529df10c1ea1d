------------------------------ MODULE TenantPool ------------------------------
(* Tenant connection routing: src/src/database/tenant_routing.ts.  A request is  *)
(* given a client of its tier's pool or of the shared one, or queues.  The queue *)
(* is an array that a drain walks across its awaits; when it ends it replaces    *)
(* the queue by what it could not serve.  Every enqueue and every release starts *)
(* a drain, whether or not others are walking the same or an older array: arrays *)
(* live in a heap here and the queue is a reference to one.  A walk awaits the   *)
(* outcome for every entry, one that no pool has capacity for too, so anything   *)
(* may come between two entries; it reads capacity and the array as it goes on.  *)
(* The counters are those of connection_pool.ts around a pg pool, which is       *)
(* external: it owns idle clients and clients in use, emits 'connect' and        *)
(* 'acquire' for a new client, 'acquire' for an idle one, 'release' before a     *)
(* client goes idle, and 'remove' for one it closes.                             *)
EXTENDS Integers, Sequences, FiniteSets
CONSTANTS Pools,
          PoolMax,         \* pool -> its max
          Requests,
          TierOf,          \* request -> the number of its tier
          Shared,          \* the shared pool; the others are the tiers' own
          Drains,          \* bound: drains at one time
          MaxTroubles      \* bound: failed connects and clients closed
VARIABLES pool,            \* pool -> acquired, max, idle, inUse
          request,         \* request -> pc and the pool its client is of
          arrays,          \* the arrays something refers to
          queue,           \* the reference this.queue
          arrivals,        \* requests in the order they queued: enqueuedAt
          drain,           \* drain -> pc, array, at, kept, entry, pool
          perTenant,       \* tier -> perTenantAcquired of its tenant
          unowned,         \* tier -> clients resolved into a settled promise
          overlapped,      \* whether two walks were ever under way at once
          troubles

ASSUME TenantAssumption == /\ Shared \in Pools /\ PoolMax \in [Pools -> Nat \ {0}]
                           /\ IsFiniteSet(Requests) /\ TierOf \in [Requests -> Pools \ {Shared}]

tenantVars == <<pool, request, arrays, queue, arrivals, drain, perTenant, unowned, overlapped, troubles>>
Tiers == Pools \ {Shared}
Resting == [pc |-> "rest", array |-> 0, at |-> 0, kept |-> <<>>, entry |-> 0, pool |-> Shared]
Walking == {d \in Drains : drain[d].pc # "rest"}

NewPool(p) == [acquired |-> 0, max |-> PoolMax[p], idle |-> 0, inUse |-> 0]
AtLeast(low, n) == IF n < low THEN low ELSE n

OnConnectOnce(r) == r                                           \* mutant
OnConnect(r) == [r EXCEPT !.acquired = @ + 1]
OnAcquire(r) == [r EXCEPT !.acquired = @ + 1]
OnRelease(r) == [r EXCEPT !.acquired = AtLeast(0, @ - 1)]
OnRemove(r)  == [r EXCEPT !.max = AtLeast(1, @ - 1), !.acquired = AtLeast(0, @ - 1)]

(* A client for a caller that asked: an idle one, or a new one.                  *)
CanGrant(r, size) == r.idle > 0 \/ r.idle + r.inUse < size
Granted(r) == IF r.idle > 0
              THEN OnAcquire([r EXCEPT !.idle = @ - 1, !.inUse = @ + 1])
              ELSE OnAcquire(OnConnect([r EXCEPT !.inUse = @ + 1]))
Returned(r) == [r EXCEPT !.idle = @ + 1, !.inUse = @ - 1]
Closed(r) == OnRemove([r EXCEPT !.idle = @ - 1])
HasCapacity(r) == r.acquired < r.max

TenantInit ==
    /\ pool = [p \in Pools |-> NewPool(p)]
    /\ request = [r \in Requests |-> [pc |-> "new", pool |-> Shared]]
    /\ arrays = [a \in {0} |-> <<>>] /\ queue = 0 /\ arrivals = <<>>
    /\ drain = [d \in Drains |-> Resting]
    /\ perTenant = [t \in Tiers |-> 0] /\ unowned = [t \in Tiers |-> 0]
    /\ overlapped = FALSE /\ troubles = 0

(* A pool with capacity for the tier: its own before the shared one.             *)
CanAllocate(tier, pools) == HasCapacity(pools[tier]) \/ HasCapacity(pools[Shared])
Allocate(tier, pools) == IF HasCapacity(pools[tier]) THEN tier ELSE Shared

RecordAcquire(tier) == perTenant' = [perTenant EXCEPT ![tier] = @ + 1]
RecordRelease(tier) == perTenant' = [perTenant EXCEPT ![tier] = AtLeast(0, @ - 1)]

(* What stays referred to after a step, with the queue at q and the drains ds.   *)
Keep(arrs, q, ds) ==
    /\ queue' = q /\ drain' = ds
    /\ arrays' = [a \in {q} \cup {ds[d].array : d \in {e \in Drains : ds[e].pc # "rest"}} |-> arrs[a]]
NewArray(arrs) == CHOOSE n \in 0 .. Cardinality(DOMAIN arrs) : n \notin DOMAIN arrs
Plus(arrs, s) == [a \in DOMAIN arrs \cup {NewArray(arrs)} |-> IF a \in DOMAIN arrs THEN arrs[a] ELSE s]

(* Drain d comes to position at of array a and asks for a client for its entry,  *)
(* in vain if no pool has capacity; past the end it replaces the queue by what   *)
(* it kept.                                                                      *)
Walk(d, a, at, kept, arrs, pools) ==
    LET s     == arrs[a]
        tier  == TierOf[s[at]]
        place == IF CanAllocate(tier, pools) THEN "ask" ELSE "failed"
    IN IF at > Len(s)
       THEN Keep(Plus(arrs, kept), NewArray(arrs), [drain EXCEPT ![d] = Resting])
       ELSE Keep(arrs, queue, [drain EXCEPT ![d] =
                   [pc |-> place, array |-> a, at |-> at, kept |-> kept, entry |-> s[at],
                    pool |-> Allocate(tier, pools)]])

(* The queue is sorted where it lies, by tier and then by age.                   *)
Before(r, t, order) ==
    LET age(q) == CHOOSE i \in DOMAIN order : order[i] = q
    IN TierOf[r] < TierOf[t] \/ (TierOf[r] = TierOf[t] /\ age(r) < age(t))
Sorted(s, order) ==
    {[i \in DOMAIN s |-> s[p[i]]] : p \in {q \in [DOMAIN s -> DOMAIN s] :
        /\ \A j \in DOMAIN s : \E i \in DOMAIN s : q[i] = j
        /\ \A i, j \in DOMAIN s : i < j => ~Before(s[q[j]], s[q[i]], order)}}
TryDrain(arrs, pools) ==
    IF arrs[queue] = <<>> THEN Keep(arrs, queue, drain) /\ UNCHANGED overlapped
    ELSE /\ Walking # Drains
         /\ \E sorted \in Sorted(arrs[queue], arrivals') :
              Walk(CHOOSE d \in Drains \ Walking : TRUE, queue, 1, <<>>, [arrs EXCEPT ![queue] = sorted], pools)
         /\ overlapped' = (overlapped \/ Walking # {})

(* A timer or a socket has its turn when every outcome that is known was taken.  *)
NoTurnDue == (\A d \in Drains : drain[d].pc # "failed") /\ (\A r \in Requests : request[r].pc # "refused")

Trouble == troubles < MaxTroubles /\ troubles' = troubles + 1
GetConnection(r) ==
    LET tier == TierOf[r] IN
    /\ request[r].pc = "new"
    /\ request' = [request EXCEPT ![r] = [pc |-> IF CanAllocate(tier, pool) THEN "ask" ELSE "refused",
                                         pool |-> Allocate(tier, pool)]]
    /\ UNCHANGED <<pool, arrays, queue, arrivals, drain, perTenant, unowned, overlapped, troubles>>
ConnectFails(r) ==
    /\ request[r].pc = "ask" /\ Trouble
    /\ request' = [request EXCEPT ![r].pc = "refused"]
    /\ UNCHANGED <<pool, arrays, queue, arrivals, drain, perTenant, unowned, overlapped>>

(* A request that was refused a client waits for one.                            *)
Enqueue(r) ==
    /\ request[r].pc = "refused"
    /\ request' = [request EXCEPT ![r].pc = "queued"]
    /\ arrivals' = Append(arrivals, r)
    /\ TryDrain([arrays EXCEPT ![queue] = Append(@, r)], pool)
    /\ UNCHANGED <<pool, perTenant, unowned, troubles>>

ConnectRequest(r) ==
    LET p == request[r].pool IN
    /\ request[r].pc = "ask" /\ CanGrant(pool[p], PoolMax[p])
    /\ pool' = [pool EXCEPT ![p] = Granted(@)]
    /\ request' = [request EXCEPT ![r].pc = "holding"]
    /\ RecordAcquire(TierOf[r])
    /\ UNCHANGED <<arrays, queue, arrivals, drain, unowned, overlapped, troubles>>

(* The client goes to the entry the walk asked for, and to nobody if that was    *)
(* served or rejected in the meantime.                                           *)
ConnectEntry(d) ==
    LET w == drain[d]
        tier == TierOf[w.entry]
        waits == request[w.entry].pc = "queued"
    IN /\ w.pc = "ask" /\ CanGrant(pool[w.pool], PoolMax[w.pool])
       /\ pool' = [pool EXCEPT ![w.pool] = Granted(@)]
       /\ request' = IF waits THEN [request EXCEPT ![w.entry] = [pc |-> "holding", pool |-> w.pool]] ELSE request
       /\ unowned' = IF waits THEN unowned ELSE [unowned EXCEPT ![tier] = @ + 1]
       /\ RecordAcquire(tier)
       /\ Walk(d, w.array, w.at + 1, w.kept, arrays, pool')
       /\ UNCHANGED <<arrivals, overlapped, troubles>>
EntryFails(d) ==
    /\ drain[d].pc = "ask" /\ Trouble
    /\ drain' = [drain EXCEPT ![d].pc = "failed"]
    /\ UNCHANGED <<pool, request, arrays, queue, arrivals, perTenant, unowned, overlapped>>

(* An entry that got no client is kept.                                          *)
KeepEntryNot(d) ==                                              \* mutant
    LET w == drain[d] IN
    /\ w.pc = "failed"
    /\ Walk(d, w.array, w.at + 1, w.kept, arrays, pool)
    /\ UNCHANGED <<pool, request, arrivals, perTenant, unowned, overlapped, troubles>>
KeepEntry(d) ==
    LET w == drain[d] IN
    /\ w.pc = "failed"
    /\ Walk(d, w.array, w.at + 1, Append(w.kept, w.entry), arrays, pool)
    /\ UNCHANGED <<pool, request, arrivals, perTenant, unowned, overlapped, troubles>>

(* The pool's release event comes first, and with it the drain.                  *)
ReleaseUncounted(r) ==                                          \* mutant
    LET p == request[r].pool IN
    /\ request[r].pc = "holding"
    /\ request' = [request EXCEPT ![r].pc = "done"]
    /\ pool' = [pool EXCEPT ![p] = Returned(OnRelease(@))]
    /\ UNCHANGED arrivals /\ TryDrain(arrays, pool')
    /\ UNCHANGED <<perTenant, unowned, troubles>>
Release(r) ==
    LET p == request[r].pool IN
    /\ request[r].pc = "holding"
    /\ request' = [request EXCEPT ![r].pc = "done"]
    /\ pool' = [pool EXCEPT ![p] = Returned(OnRelease(@))]
    /\ RecordRelease(TierOf[r])
    /\ UNCHANGED arrivals /\ TryDrain(arrays, pool')
    /\ UNCHANGED <<unowned, troubles>>

(* A pool closes an idle client.  The shared pool's removals start no drain.     *)
CloseIdle(p) ==
    /\ pool[p].idle > 0 /\ NoTurnDue /\ Trouble
    /\ pool' = [pool EXCEPT ![p] = Closed(@)]
    /\ UNCHANGED <<request, arrivals, perTenant, unowned>>
    /\ IF p = Shared THEN UNCHANGED <<arrays, queue, drain, overlapped>> ELSE TryDrain(arrays, pool')

(* What a loop over s that pushes the entries at these positions builds.         *)
Pushed(s, positions) ==
    {[i \in DOMAIN f |-> s[f[i]]] : f \in {g \in [1 .. Cardinality(positions) -> positions] :
        /\ \A i, j \in DOMAIN g : i < j => g[i] < g[j]
        /\ \A p \in positions : \E i \in DOMAIN g : g[i] = p}}

(* Entries of the queue no younger than the n-th arrival have waited 30 s.  The  *)
(* queue is another array afterwards, if nobody had too.                         *)
CleanupQueue(n) ==
    LET line == arrays[queue]
        late(r) == \E i \in 1 .. n : arrivals[i] = r
    IN /\ NoTurnDue
       /\ \E young \in Pushed(line, {i \in DOMAIN line : ~late(line[i])}) :
            /\ request' = [r \in Requests |->
                             IF request[r].pc = "queued" /\ late(r) /\ \E i \in DOMAIN line : line[i] = r
                             THEN [request[r] EXCEPT !.pc = "rejected"] ELSE request[r]]
            /\ Keep(Plus(arrays, young), NewArray(arrays), drain)
            /\ overlapped' = (overlapped \/ Walking # {})
            /\ UNCHANGED <<pool, arrivals, perTenant, unowned, troubles>>

TenantNext ==
    \/ \E r \in Requests : GetConnection(r) \/ ConnectFails(r) \/ ConnectRequest(r) \/ Enqueue(r) \/ Release(r)
    \/ \E d \in Drains : ConnectEntry(d) \/ EntryFails(d) \/ KeepEntry(d)
    \/ \E p \in Pools : CloseIdle(p)
    \/ \E n \in 0 .. Len(arrivals) : CleanupQueue(n)
TenantSpec == TenantInit /\ [][TenantNext]_tenantVars
-------------------------------------------------------------------------------
TenantTypeOK ==
    /\ \A p \in Pools : pool[p].idle + pool[p].inUse \in 0 .. PoolMax[p] /\ pool[p].max \in 1 .. PoolMax[p]
    /\ \A r \in Requests : request[r].pc \in {"new", "ask", "refused", "queued", "holding", "done", "rejected"}
    /\ queue \in DOMAIN arrays /\ \A d \in Walking : drain[d].array \in DOMAIN arrays

(* The counter that routing takes for clients in use counts a client once while  *)
(* it lives and once more while it is in use, through every event                *)
(* (connection_pool.ts:15-36, tenant_routing.ts:71-77).                          *)
AcquiredCountsTwice == \A p \in Pools : pool[p].acquired = pool[p].idle + 2 * pool[p].inUse

(* A tenant's count is the clients its requests hold and those resolved into a   *)
(* promise already settled, which nobody will release (tenant_routing.ts:55-98). *)
TenantCountsAgree ==
    \A t \in Tiers :
        perTenant[t] = unowned[t] + Cardinality({r \in Requests : TierOf[r] = t /\ request[r].pc = "holding"})

(* A request that waits is in the queue or ahead of or behind a drain's walk,    *)
(* and no client is resolved for nobody, unless two walks, or a walk and a       *)
(* cleanup, were under way at once (tenant_routing.ts:136-171).                  *)
WaitersAreKept ==
    overlapped \/
    /\ \A t \in Tiers : unowned[t] = 0
    /\ \A r \in Requests : request[r].pc = "queued" =>
         \/ \E i \in DOMAIN arrays[queue] : arrays[queue][i] = r
         \/ \E d \in Walking : \/ drain[d].entry = r
                              \/ \E i \in DOMAIN drain[d].kept : drain[d].kept[i] = r

(* Clients and waiters are accounted for through every interleaving of drains,   *)
(* grants, failures and clean-ups (tenant_routing.ts:55-171).                    *)
RoutingAccounts == AcquiredCountsTwice /\ TenantCountsAgree /\ WaitersAreKept
===============================================================================

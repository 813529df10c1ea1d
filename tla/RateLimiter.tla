----------------------------- MODULE RateLimiter -----------------------------
(* The device-aware token buckets of src/src/api/middleware/rate_limit.ts.  A   *)
(* request is handled in one turn of the event loop.  Tokens are counted in     *)
(* thousandths, so that every product of the multipliers is a whole rate.       *)
(* Profiles are those of devices/profile_store.ts: what the last frame said of  *)
(* the device's power, the intervals between its frames and when it was last    *)
(* seen.  isFirmwareOutdated is left out: nothing sets it (byte 32 of the frame *)
(* is never read).                                                              *)
EXTENDS Integers, Sequences, FiniteSets, SequencesExt
CONSTANTS Devices,
          MaxProfiles,     \* profiles the store holds
          Powers,          \* what a frame may say of battery and signal
          MaxIntervals,    \* intervals a profile keeps (1000)
          StaleTtl,        \* ticks after which a profile is purged
          Addresses,       \* fallback keys of frames that name no device
          Dotted,          \* those that are an IPv4 address and a port
          Burst,           \* tokens a bucket holds
          MinSamples,      \* intervals the anomaly test needs (10)
          AnomalySigma,    \* deviations below the mean it takes (3)
          Horizon,         \* bound: the last tick
          MaxRequests      \* bound: requests
VARIABLES profiles,        \* device -> profile, for the devices in the store
          clock,
          buckets,         \* key -> bucket, for the keys that have one
          history,         \* of each bucket: requests admitted, best rate, birth
          requests

ASSUME DottedAssumption == Dotted \subseteq Addresses
ASSUME BurstAssumption == Burst \in Nat \ {0}
ASSUME BoundsAssumption == MaxProfiles \in Nat /\ MaxIntervals \in Nat /\ Horizon \in Nat \ {0}
ASSUME PowersAssumption == Powers \subseteq [batteryLow : BOOLEAN, signalLow : BOOLEAN]

limiterVars == <<profiles, clock, buckets, history, requests>>
LimiterKeys == Devices \cup Addresses
Token       == 1000
FullRate    == 1000        \* thousandths a tick
MaxTokens   == Burst * Token

LimiterInit == /\ profiles = <<>> /\ clock = 1
               /\ buckets = <<>> /\ history = <<>> /\ requests = 0

Newest(s) == IF Len(s) > MaxIntervals THEN SubSeq(s, Len(s) - MaxIntervals + 1, Len(s)) ELSE s
With(store, d, profile) == [e \in DOMAIN store \cup {d} |-> IF e = d THEN profile ELSE store[e]]
Without(store, gone) == [e \in DOMAIN store \ gone |-> store[e]]

EvictionsNone(store) == {store}                                 \* mutant

(* The stores that evicting one of the longest unseen can leave: a tie goes to  *)
(* the profile the map has held longest, an order this model leaves open.       *)
Evictions(store) ==
    IF Cardinality(DOMAIN store) < MaxProfiles THEN {store}
    ELSE {Without(store, {d}) : d \in {e \in DOMAIN store :
                                         \A f \in DOMAIN store : store[e].lastSeen <= store[f].lastSeen}}

(* A known device's intervals are merged with the profile it is updated with,   *)
(* which holds the very same list: they double.  Then the new interval is added.*)
Recorded(old, power) ==
    LET doubled  == Newest(old.txIntervals \o old.txIntervals)
        interval == clock - old.lastSeen
    IN [power |-> power, lastSeen |-> clock,
        txIntervals |-> IF interval > 0 THEN Newest(Append(doubled, interval)) ELSE doubled]

UpsertProfile(d, power) ==
    IF d \in DOMAIN profiles
    THEN profiles' = With(profiles, d, Recorded(profiles[d], power))
    ELSE \E kept \in Evictions(profiles) :
            profiles' = With(kept, d, [power |-> power, txIntervals |-> <<>>, lastSeen |-> clock])

Stale == {d \in DOMAIN profiles : profiles[d].lastSeen < clock - StaleTtl}

(* The mean is sum / count, the variance squares / count - mean * mean.         *)
HistoricalStats(intervals) ==
    [count   |-> Len(intervals),
     sum     |-> FoldSeq(LAMBDA x, y : x + y, 0, intervals),
     squares |-> FoldSeq(LAMBDA x, y : x * x + y, 0, intervals)]

(* latest < mean - AnomalySigma * deviation, times count and then squared.      *)
TooFast(latest, stats) ==
    LET below == stats.sum - stats.count * latest
    IN /\ stats.count >= MinSamples /\ below > 0
       /\ below * below > AnomalySigma * AnomalySigma
                            * (stats.count * stats.squares - stats.sum * stats.sum)

ComputeRefillRate(p) ==
    FullRate \div ((IF p.power.batteryLow THEN 50 ELSE 1) * (IF p.power.signalLow THEN 10 ELSE 1)
                   * (IF p.txIntervals # <<>> /\ TooFast(Last(p.txIntervals), HistoricalStats(p.txIntervals)) THEN 2 ELSE 1))

NewBucket == [tokens |-> MaxTokens, lastRefill |-> clock, refillRate |-> FullRate]
Recompute(bucket, key, store) ==
    IF key \in DOMAIN store THEN [bucket EXCEPT !.refillRate = ComputeRefillRate(store[key])] ELSE bucket

MinOf(x, y) == IF x < y THEN x ELSE y
RefillForgetful(bucket) ==                                      \* mutant
    [bucket EXCEPT !.tokens = MinOf(MaxTokens, @ + (clock - bucket.lastRefill) * bucket.refillRate)]
Refill(bucket) ==
    [bucket EXCEPT !.tokens = MinOf(MaxTokens, @ + (clock - bucket.lastRefill) * bucket.refillRate),
                   !.lastRefill = clock]
Consumed(bucket) ==
    LET filled == Refill(bucket) IN
    IF filled.tokens >= Token THEN [filled EXCEPT !.tokens = @ - Token] ELSE filled
Admits(bucket) == Refill(bucket).tokens >= Token

(* The bucket of the key, made when it is missing, with the rate of the profile *)
(* as the frame left it, and the verdict.                                       *)
Serve(key) ==
    LET fresh  == key \notin DOMAIN buckets
        bucket == Recompute(IF fresh THEN NewBucket ELSE buckets[key], key, profiles')
        past   == IF fresh THEN [admitted |-> 0, best |-> 0, born |-> clock] ELSE history[key]
    IN /\ buckets' = With(buckets, key, Consumed(bucket))
       /\ history' = With(history, key, [past EXCEPT !.admitted = @ + (IF Admits(bucket) THEN 1 ELSE 0),
                                                     !.best = IF @ > bucket.refillRate THEN @ ELSE bucket.refillRate])
       /\ requests < MaxRequests /\ requests' = requests + 1
       /\ UNCHANGED clock

(* A frame that names its device and carries a battery level up to 100.         *)
AllowReport(d, power) == UpsertProfile(d, power) /\ Serve(d)

(* A frame that names its device but has no usable metrics, and one too short   *)
(* to name a device, which is limited by its address.                           *)
AllowBare(key) == UNCHANGED profiles /\ Serve(key)

(* Stale profiles go, then every bucket without a profile whose key does not    *)
(* look like a fallback key: the buckets of devices and of IPv6 addresses.      *)
CleanupCron ==
    /\ profiles' = Without(profiles, Stale)
    /\ LET gone == DOMAIN buckets \ (Dotted \cup DOMAIN profiles') IN
       /\ buckets' = Without(buckets, gone)
       /\ history' = Without(history, gone)
    /\ UNCHANGED <<clock, requests>>

TickClock == /\ clock < Horizon /\ clock' = clock + 1
             /\ UNCHANGED <<profiles, buckets, history, requests>>

LimiterNext ==
    \/ \E d \in Devices, power \in Powers : AllowReport(d, power)
    \/ \E key \in LimiterKeys : AllowBare(key)
    \/ CleanupCron
    \/ TickClock
LimiterSpec == LimiterInit /\ [][LimiterNext]_limiterVars
------------------------------------------------------------------------------
(* Tokens stay within the bucket, and the store within its bound although it    *)
(* evicts only when it inserts (profile_store.ts:31-47).                        *)
LimiterTypeOK ==
    /\ DOMAIN profiles \subseteq Devices /\ Cardinality(DOMAIN profiles) <= MaxProfiles
    /\ \A d \in DOMAIN profiles :
         /\ profiles[d].power \in Powers /\ profiles[d].lastSeen \in 1 .. clock
         /\ profiles[d].txIntervals \in Seq(1 .. Horizon) /\ Len(profiles[d].txIntervals) <= MaxIntervals
    /\ DOMAIN buckets \subseteq LimiterKeys /\ DOMAIN history = DOMAIN buckets
    /\ \A k \in DOMAIN buckets :
         buckets[k].tokens \in 0 .. MaxTokens /\ buckets[k].lastRefill <= clock

(* Whatever the frames report, in whatever order the rate falls and rises, the  *)
(* requests a bucket admits over its life are at most its burst and the time at *)
(* the best rate it ever had (rate_limit.ts:36-56, 132-159).                    *)
AdmittedAtBestRate ==
    \A k \in DOMAIN buckets :
        Token * history[k].admitted <= MaxTokens + history[k].best * (clock - history[k].born)
==============================================================================

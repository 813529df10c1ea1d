------------------------- MODULE JobScheduler_proofs ------------------------
(***************************************************************************)
(* What the job queue guarantees for any number of jobs, levels, rounds    *)
(* and callers that overlap, any limits and any number of failures: no job *)
(* is mislaid or run twice, the counters agree, and every limit is overrun *)
(* by the stated amount at most.                                           *)
(***************************************************************************)
EXTENDS JobScheduler, FiniteSetTheorems, WellFoundedInduction, TLAPS

(***************************************************************************)
(* Smallest and largest members.                                           *)
(***************************************************************************)
\* A set of natural numbers has a smallest member, as the intervals from zero
\* to its members are well-ordered.
LEMMA SmallestMember ==
  ASSUME NEW S, S \subseteq Nat, S # {}
  PROVE  /\ Min(S) \in S
         /\ \A n \in S : Min(S) <= n
<1> DEFINE R == StrictSubsetOrdering(Nat)
           T == {0..n : n \in S}
<1>1. T \subseteq FiniteSubsetsOf(Nat) /\ T # {}
  <2>1. \A n \in S : n \in Int /\ 0..n \in SUBSET Nat OBVIOUS
  <2>2. \A n \in S : IsFiniteSet(0..n) BY <2>1, FS_Interval
  <2> QED BY <2>1, <2>2 DEF FiniteSubsetsOf
<1>2. PICK x \in T : \A y \in T : <<y, x>> \notin R
  BY <1>1, FS_StrictSubsetOrderingWellFounded, WFMin
<1>3. PICK m \in S : x = 0..m
  OBVIOUS
<1>4. ASSUME NEW n \in S PROVE m <= n
  <2>1. CASE n < m
    <3>1. 0..n \in SUBSET Nat /\ x \in SUBSET Nat /\ 0..n \subseteq x BY <1>3, <2>1
    <3>2. m \in x /\ m \notin 0..n BY <1>3, <2>1
    <3>3. <<0..n, x>> \in R BY <3>1, <3>2 DEF StrictSubsetOrdering
    <3> QED BY <1>2, <3>3
  <2> QED BY <2>1
<1>5. \E k \in S : \A n \in S : k <= n BY <1>4
<1> QED BY <1>5 DEF Min

\* A finite one has a largest, as the sets of what is above its members are.
LEMMA LargestMember ==
  ASSUME NEW S, S \subseteq Nat, S # {}, IsFiniteSet(S)
  PROVE  /\ Max(S) \in S
         /\ \A n \in S : n <= Max(S)
<1> DEFINE R == StrictSubsetOrdering(S)
           Above(x) == {y \in S : y > x}
           T == {Above(x) : x \in S}
<1>1. T \subseteq FiniteSubsetsOf(S) /\ T # {}
  <2>1. FiniteSubsetsOf(S) = SUBSET S BY FS_FiniteSubsetsOfFinite
  <2>2. \A n \in S : Above(n) \in SUBSET S OBVIOUS
  <2>3. T \subseteq SUBSET S BY <2>2
  <2>4. T # {} OBVIOUS
  <2> QED BY <2>1, <2>3, <2>4
<1>2. PICK u \in T : \A y \in T : <<y, u>> \notin R
  BY <1>1, FS_StrictSubsetOrderingWellFounded, WFMin
<1>3. PICK m \in S : u = Above(m)
  OBVIOUS
<1>4. ASSUME NEW n \in S PROVE n <= m
  <2>1. CASE n > m
    <3>1. \A y \in Above(n) : y \in Above(m) BY <2>1
    <3>2. n \in Above(m) /\ n \notin Above(n) BY <2>1
    <3>3. Above(n) \in SUBSET S /\ Above(m) \in SUBSET S OBVIOUS
    <3>4. <<Above(n), Above(m)>> \in R BY <3>1, <3>2, <3>3 DEF StrictSubsetOrdering
    <3> QED BY <1>2, <1>3, <3>4
  <2> QED BY <2>1
<1>5. \E k \in S : \A n \in S : k >= n BY <1>4
<1> QED BY <1>5 DEF Max

(***************************************************************************)
(* The inductive invariant of the jobs' whereabouts.                       *)
(***************************************************************************)
Holding(r) == pc[r] \in {"get", "delete"}

\* A job is in one place: in its level with its body, in the hands of one
\* round, or in a slot, and it is in one of them as long as it is accepted.
OnePlace ==
  /\ \A r \in Rounds : Holding(r) =>
       /\ job[r] \in Jobs /\ fate[job[r]] = "accepted"
       /\ job[r] \notin queued \cup active
  /\ \A q, r \in Rounds : Holding(q) /\ Holding(r) /\ job[q] = job[r] => q = r
  /\ \A j \in queued : fate[j] = "accepted" /\ j \in body /\ j \notin active
  /\ \A j \in active : fate[j] = "accepted"
  /\ \A j \in Jobs : fate[j] = "accepted" =>
       j \in queued \/ j \in active \/ \E r \in Rounds : Holding(r) /\ job[r] = j

\* A handler runs for a job that has its slot, or had it until its timeout.
HandlersKnown ==
  \A j \in handlers : (fate[j] = "accepted" /\ j \in active) \/ fate[j] = "finished"

(***************************************************************************)
(* What a round does between two commands.                                 *)
(***************************************************************************)
\* A round that has run on waits at a level it can pay for, with room in the
\* pool, or is over; no level has lost credit, but for one that has plenty.
RanOn(r, d, a) ==
  /\ \E p \in {"idle", "pop"}, l \in Levels :
       /\ pc' = [pc EXCEPT ![r] = p] /\ level' = [level EXCEPT ![r] = l]
       /\ p = "pop" => HasCapacity(a) /\ deficits'[l] >= Unit
  /\ deficits' \in [Levels -> Int]
  /\ \A k \in Levels : deficits'[k] >= d[k] \/ deficits'[k] >= 0

\* Levels are numbered from one.
LEMMA FirstLevel == 1 \in Levels /\ Levels \subseteq Nat
<1>1. Cardinality(Levels) \in Nat /\ Cardinality(Levels) # 0
  BY JobsAssumption, FS_CardinalityType, FS_EmptySet
<1> QED BY <1>1, JobsAssumption

\* Credit never lowers a deficit, but for one that has plenty.
LEMMA CreditType ==
  ASSUME NEW d \in [Levels -> Int], NEW done, NEW l
  PROVE  /\ Credit(d, done, l) \in [Levels -> Int]
         /\ \A k \in Levels : Credit(d, done, l)[k] >= d[k] \/ Credit(d, done, l)[k] >= 0
<1>1. ASSUME NEW k \in Levels
      PROVE  /\ Min({d[k] + Quantum[k], Afford[k]}) \in Int
             /\ \/ Min({d[k] + Quantum[k], Afford[k]}) >= d[k]
                \/ Min({d[k] + Quantum[k], Afford[k]}) >= 0
  <2> DEFINE b == {j \in Jobs : LevelOf[j] = k}
             x == d[k] + Quantum[k]
             y == Unit * Cardinality(b)
  <2>1. IsFiniteSet(b) BY JobsAssumption, FS_Subset
  <2>2. Cardinality(b) \in Nat BY <2>1, FS_CardinalityType
  <2>3. Afford[k] = y /\ y \in Nat BY <2>2, SchedulerAssumption DEF Afford
  <2>4. x \in Int /\ x >= d[k] BY SchedulerAssumption
  <2> HIDE DEF x, y
  <2>5. \E m \in {x, y} : \A n \in {x, y} : m <= n BY <2>3, <2>4
  <2>6. Min({x, y}) \in {x, y} BY <2>5 DEF Min
  <2>7. Min({x, y}) \in Int /\ (Min({x, y}) >= d[k] \/ Min({x, y}) >= 0) BY <2>3, <2>4, <2>6
  <2> QED BY <2>3, <2>7 DEF x
<1> QED BY <1>1 DEF Credit

\* Wherever a round runs on from.
LEMMA RunsOn ==
  ASSUME TypeOK, NEW r \in Rounds, NEW d \in [Levels -> Int], NEW done, NEW l, NEW a,
         RunOn(r, done, l, d, a)
  PROVE  RanOn(r, d, a)
<1> DEFINE open == {m \in Levels : m >= l /\ Funded(Credit(d, done, m), m, a)}
<1>1. 1 \in Levels /\ Levels \subseteq Nat BY FirstLevel
<1>2. CASE open = {}
  <2>1. /\ pc' = [pc EXCEPT ![r] = "idle"] /\ level' = [level EXCEPT ![r] = 1]
        /\ deficits' = Credit(d, done, Cardinality(Levels))
    BY <1>2 DEF RunOn
  <2> QED BY <1>1, <2>1, CreditType DEF RanOn
<1>3. CASE open # {}
  <2> DEFINE m == Min(open)
  <2>1. /\ pc' = [pc EXCEPT ![r] = "pop"] /\ level' = [level EXCEPT ![r] = m]
        /\ deficits' = Credit(d, done, m)
    BY <1>3 DEF RunOn
  <2>2. m \in open BY <1>1, <1>3, SmallestMember
  <2>3. HasCapacity(a) /\ deficits'[m] >= Unit BY <2>1, <2>2 DEF Funded
  <2>4. m \in Levels BY <2>2
  <2> HIDE DEF m
  <2> QED BY <2>1, <2>3, <2>4, CreditType DEF RanOn
<1> QED BY <1>2, <1>3

(***************************************************************************)
(* Type correctness.                                                       *)
(***************************************************************************)
\* zpopmin returns a member of the level it is asked for.
LEMMA OldestInLevel ==
  ASSUME TypeOK, NEW l, Level(l) # {} PROVE Oldest(l) \in queued /\ Oldest(l) \in Jobs
<1>1. Level(l) \subseteq queued /\ Level(l) \subseteq Nat BY JobsAssumption DEF Level, TypeOK
<1> QED BY <1>1, SmallestMember DEF Oldest, TypeOK

\* A round's steps keep the types.
LEMMA RoundTypeOK ==
  ASSUME TypeOK, OnePlace, NEW r \in Rounds, Tick(r) \/ Round(r) \/ CommandFails(r)
  PROVE  TypeOK'
<1>1. 1 \in Levels BY FirstLevel
<1> USE DEF TypeOK, redisVars, poolVars, OnePlace, Holding
<1>2. CASE Tick(r)
  <2>1. RanOn(r, deficits, active) BY <1>2, RunsOn DEF Tick
  <2> QED BY <1>2, <2>1 DEF Tick, RanOn
<1>3. CASE PopEmpty(r)
  <2>1. RanOn(r, deficits, active) BY <1>3, RunsOn DEF PopEmpty, LeaveLevel
  <2> QED BY <1>3, <2>1 DEF PopEmpty, RanOn
<1>4. CASE PopJob(r)
  <2>1. Oldest(level[r]) \in Jobs BY <1>4, OldestInLevel DEF PopJob
  <2> QED BY <1>4, <2>1 DEF PopJob, Pop
<1>5. CASE GetBody(r) BY <1>5 DEF GetBody
<1>6. CASE GetNothing(r)
  <2>1. RanOn(r, deficits, active) BY <1>6, RunsOn DEF GetNothing, LeaveLevel
  <2>2. fate' \in [Jobs -> Fates] BY <1>6 DEF GetNothing, Fates
  <2> QED BY <1>6, <2>1, <2>2 DEF GetNothing, RanOn
<1>7. CASE DeleteAndDispatch(r)
  <2>1. [deficits EXCEPT ![level[r]] = @ - Unit] \in [Levels -> Int] BY SchedulerAssumption
  <2>2. RanOn(r, [deficits EXCEPT ![level[r]] = @ - Unit], active') BY <1>7, <2>1, RunsOn DEF DeleteAndDispatch
  <2>3. fate' \in [Jobs -> Fates] BY <1>7 DEF DeleteAndDispatch, Fates
  <2>4. queued' = queued /\ body' \subseteq Jobs BY <1>7 DEF DeleteAndDispatch, DeleteBody
  <2>5. job' \in [Rounds -> Jobs \cup {NoJob}] BY <1>7 DEF DeleteAndDispatch
  <2>6. active' \subseteq Jobs /\ handlers' \subseteq Jobs /\ activeCount' \in [Types -> Nat]
    <3>1. CASE Accepts(job[r])
      <4>1. job[r] \in Jobs BY <1>7 DEF DeleteAndDispatch
      <4> QED BY <1>7, <3>1, <4>1 DEF DeleteAndDispatch, Dispatch, Types
    <3> QED BY <1>7, <3>1 DEF DeleteAndDispatch, Dispatch
  <2> QED BY <1>7, <2>2, <2>3, <2>4, <2>5, <2>6 DEF DeleteAndDispatch, RanOn
<1>8. CASE CommandFails(r)
  <2>1. faults' \in 0..MaxFaults BY <1>8, SchedulerAssumption DEF CommandFails, Fault
  <2>2. fate' \in [Jobs -> Fates] BY <1>8 DEF CommandFails, Fates
  <2>3. queued' \subseteq Jobs /\ body' \subseteq Jobs BY <1>8 DEF CommandFails, Pop, DeleteBody
  <2> QED BY <1>1, <1>8, <2>1, <2>2, <2>3 DEF CommandFails
<1> QED BY <1>2, <1>3, <1>4, <1>5, <1>6, <1>7, <1>8 DEF Round

\* The other steps; a slot is given back by a job that has one, so the counter
\* behind it is not zero.
LEMMA PoolTypeOK ==
  ASSUME TypeOK, CountsAgree, NEW j \in Jobs, Pool(j)
  PROVE  TypeOK'
<1> USE DEF TypeOK, redisVars, poolVars, roundVars
<1>1. ASSUME j \in active PROVE activeCount[TypeOf[j]] > 0
  <2> DEFINE b == {i \in active : TypeOf[i] = TypeOf[j]}
  <2>1. IsFiniteSet(b) /\ b # {} BY <1>1, JobsAssumption, FS_Subset
  <2>2. Cardinality(b) \in Nat /\ Cardinality(b) # 0 BY <2>1, FS_CardinalityType, FS_EmptySet
  <2>3. TypeOf[j] \in Types BY DEF Types
  <2> QED BY <2>2, <2>3 DEF CountsAgree
<1>2. ASSUME FreeSlot(j), j \in active
      PROVE  active' \subseteq Jobs /\ activeCount' \in [Types -> Nat]
  <2>1. TypeOf[j] \in Types BY DEF Types
  <2>2. activeCount[TypeOf[j]] - 1 \in Nat BY <1>1, <1>2, <2>1
  <2> QED BY <1>2, <2>2 DEF FreeSlot
<1>3. CASE Settle(j)
  <2>1. active' \subseteq Jobs /\ activeCount' \in [Types -> Nat]
    BY <1>2, <1>3 DEF Settle, HandlerSettles
  <2>2. fate' \in [Jobs -> Fates] BY <1>3 DEF Settle, Fates
  <2> QED BY <1>3, <2>1, <2>2 DEF Settle, HandlerSettles
<1>4. CASE TimeOut(j)
  <2>1. active' \subseteq Jobs /\ activeCount' \in [Types -> Nat] BY <1>2, <1>4 DEF TimeOut, JobTimesOut
  <2>2. fate' \in [Jobs -> Fates] BY <1>4 DEF TimeOut, Fates
  <2> QED BY <1>4, <2>1, <2>2 DEF TimeOut, JobTimesOut
<1> QED BY <1>3, <1>4 DEF Pool

\* So do those of the callers of enqueue.
LEMMA ProducerTypeOK ==
  ASSUME TypeOK, NEW j \in Jobs, Producer(j)
  PROVE  TypeOK'
<1>1. fate' \in [Jobs -> Fates]
  BY DEF TypeOK, Producer, CheckLevel, CheckTotal, Accept, EnqueueFails, Fates
<1>2. faults' \in 0..MaxFaults
  <2>1. CASE EnqueueFails(j) BY <2>1, SchedulerAssumption DEF TypeOK, EnqueueFails, Fault
  <2>2. CASE ~EnqueueFails(j) BY <2>2 DEF TypeOK, Producer, CheckLevel, CheckTotal, Accept
  <2> QED BY <2>1, <2>2
<1>3. queued' \subseteq Jobs /\ body' \subseteq Jobs
  BY DEF TypeOK, Producer, CheckLevel, CheckTotal, Accept, EnqueueFails, Store, redisVars
<1>4. UNCHANGED <<poolVars, roundVars, on, victim>>
  BY DEF Producer, CheckLevel, CheckTotal, Accept, EnqueueFails
<1> QED BY <1>1, <1>2, <1>3, <1>4 DEF TypeOK, poolVars, roundVars

\* The pool has one worker at least.
LEMMA LargestPool ==
  /\ Max(PoolSizes) \in Nat \ {0} /\ DefaultSize \in 1..Max(PoolSizes)
  /\ \A n \in PoolSizes : Max({1, n}) \in 1..Max(PoolSizes)
<1>1. Max(PoolSizes) \in PoolSizes /\ \A n \in PoolSizes : n <= Max(PoolSizes)
  BY PoolAssumption, LargestMember
<1>2. ASSUME NEW n \in Nat PROVE Max({1, n}) = IF n > 1 THEN n ELSE 1
  <2> DEFINE m == Max({1, n})
  <2>1. \E x \in {1, n} : \A k \in {1, n} : x >= k OBVIOUS
  <2>2. m \in {1, n} /\ \A k \in {1, n} : m >= k BY <2>1 DEF Max
  <2> HIDE DEF m
  <2>3. m = IF n > 1 THEN n ELSE 1 BY <2>2
  <2> QED BY <2>3 DEF m
<1>3. Max(PoolSizes) \in Nat \ {0} /\ DefaultSize \in 1..Max(PoolSizes)
  <2> DEFINE M == Max(PoolSizes)
  <2>1. M \in PoolSizes /\ \A n \in PoolSizes : n <= M BY <1>1
  <2>2. PoolSizes \subseteq Nat /\ DefaultSize \in PoolSizes /\ DefaultSize > 0 BY PoolAssumption
  <2> HIDE DEF M
  <2>3. M \in Nat /\ DefaultSize \in Nat /\ DefaultSize <= M /\ DefaultSize > 0 BY <2>1, <2>2
  <2>4. M \in Nat \ {0} /\ DefaultSize \in 1..M BY <2>3
  <2> QED BY <2>4 DEF M
<1>4. ASSUME NEW n \in PoolSizes PROVE Max({1, n}) \in 1..Max(PoolSizes)
  <2>1. n \in Nat BY PoolAssumption
  <2>2. Max({1, n}) = IF n > 1 THEN n ELSE 1 BY <1>2, <2>1
  <2> QED BY <1>1, <1>3, <2>1, <2>2
<1> QED BY <1>3, <1>4

\* So do the administrator's.
LEMMA AdminTypeOK ==
  ASSUME TypeOK, Admin
  PROVE  TypeOK'
<1> USE DEF TypeOK, redisVars, poolVars, roundVars
<1>1. CASE \E j \in Jobs : Cancel(j) BY <1>1 DEF Cancel
<1>2. CASE RemoveVictim BY <1>2 DEF RemoveVictim, Remove, Fates
<1>3. CASE Resize
  <2>1. poolSize' \in 1..Max(PoolSizes) BY <1>3, LargestPool DEF Resize, ResizePool
  <2> QED BY <1>3, <2>1, SchedulerAssumption DEF Resize, Fault
<1>4. CASE Rebalance BY <1>4, SchedulerAssumption DEF Rebalance, Fault
<1>5. CASE Stop
  <2>1. on' \in BOOLEAN BY <1>5 DEF Stop
  <2>2. faults' \in 0..MaxFaults BY <1>5, SchedulerAssumption DEF Stop, Fault
  <2> QED BY <1>5, <2>1, <2>2 DEF Stop
<1>6. CASE Start BY <1>6 DEF Start
<1> QED BY <1>1, <1>2, <1>3, <1>4, <1>5, <1>6 DEF Admin

\* And a restart.
LEMMA CrashTypeOK ==
  ASSUME TypeOK, Crash
  PROVE  TypeOK'
<1>1. fate' \in [Jobs -> Fates] BY DEF Crash, Fates, TypeOK
<1> QED BY <1>1, FirstLevel, LargestPool, SchedulerAssumption DEF Crash, Fault, TypeOK, redisVars

(***************************************************************************)
(* The steps keep every job in one place.                                  *)
(***************************************************************************)
PlacesOK == OnePlace /\ HandlersKnown

\* A round that lets go of nothing and takes nothing up, and leaves queue,
\* slots and handlers alone.
LEMMA NothingMoves ==
  ASSUME TypeOK, PlacesOK, NEW r \in Rounds, ~Holding(r), NEW p \in {"idle", "pop"},
         pc' = [pc EXCEPT ![r] = p], UNCHANGED <<queued, body, active, handlers, job, fate>>
  PROVE  PlacesOK'
<1>1. \A q \in Rounds : Holding(q)' <=> Holding(q) BY DEF TypeOK, Holding
<1> QED BY <1>1 DEF PlacesOK, OnePlace, HandlersKnown

\* A round lets go of its job, which meets its fate.
LEMMA JobLeavesHand ==
  ASSUME TypeOK, PlacesOK, NEW r \in Rounds, Holding(r), NEW p \in {"idle", "pop"},
         pc' = [pc EXCEPT ![r] = p], job' = [job EXCEPT ![r] = NoJob],
         NEW f \in {"cancelled", "dropped", "lost"}, fate' = [fate EXCEPT ![job[r]] = f],
         body' = body \/ body' = body \ {job[r]}, UNCHANGED <<queued, active, handlers>>
  PROVE  PlacesOK'
<1>1. \A q \in Rounds : Holding(q)' <=> (Holding(q) /\ q # r) BY DEF TypeOK, Holding
<1>2. \A q \in Rounds \ {r} : job'[q] = job[q] BY DEF TypeOK
<1>3. fate'[job[r]] = f /\ \A j \in Jobs \ {job[r]} : fate'[j] = fate[j]
  BY DEF TypeOK, PlacesOK, OnePlace
<1>4. job[r] \notin queued \cup active \cup handlers BY DEF PlacesOK, OnePlace, HandlersKnown
<1>5. OnePlace'
  <2> USE DEF PlacesOK, OnePlace, TypeOK
  <2>1. \A q \in Rounds : Holding(q) /\ q # r => job[q] # job[r] OBVIOUS
  <2> QED BY <1>1, <1>2, <1>3, <1>4, <2>1
<1>6. HandlersKnown' BY <1>3, <1>4 DEF PlacesOK, HandlersKnown, TypeOK
<1> QED BY <1>5, <1>6 DEF PlacesOK

\* A round's steps.
LEMMA RoundPlaces ==
  ASSUME TypeOK, PlacesOK, NEW r \in Rounds, Tick(r) \/ Round(r) \/ CommandFails(r)
  PROVE  PlacesOK'
<1>1. CASE Tick(r)
  <2>1. RanOn(r, deficits, active) BY <1>1, RunsOn DEF Tick, TypeOK
  <2> QED BY <1>1, <2>1, NothingMoves DEF Tick, RanOn, Waiting, Holding, redisVars, poolVars
<1>2. CASE PopEmpty(r)
  <2>1. RanOn(r, deficits, active) BY <1>2, RunsOn DEF PopEmpty, LeaveLevel, TypeOK
  <2> QED BY <1>2, <2>1, NothingMoves DEF PopEmpty, RanOn, Holding, redisVars, poolVars
<1>3. CASE PopJob(r)
  <2> DEFINE j == Oldest(level[r])
  <2>1. j \in queued /\ j \in Jobs BY <1>3, OldestInLevel DEF PopJob
  <2>2. queued' = queued \ {j} /\ UNCHANGED <<body, active, handlers, fate>>
    BY <1>3 DEF PopJob, Pop, poolVars
  <2>3. pc[r] = "pop" /\ pc' = [pc EXCEPT ![r] = "get"] /\ job' = [job EXCEPT ![r] = j]
    BY <1>3 DEF PopJob
  <2> HIDE DEF j
  <2>4. Holding(r)' /\ job'[r] = j /\ ~Holding(r) BY <2>3 DEF Holding, TypeOK
  <2>5. \A q \in Rounds \ {r} : job'[q] = job[q] /\ (Holding(q)' <=> Holding(q)) BY <2>3 DEF Holding, TypeOK
  <2> USE DEF PlacesOK, OnePlace
  <2>6. fate[j] = "accepted" /\ j \notin active /\ \A q \in Rounds : Holding(q) => job[q] # j BY <2>1
  <2>7. OnePlace' BY <2>1, <2>2, <2>4, <2>5, <2>6 DEF TypeOK
  <2> QED BY <2>2, <2>7 DEF HandlersKnown
<1>4. CASE GetBody(r)
  <2>1. Holding(r) /\ Holding(r)' BY <1>4 DEF GetBody, Holding, TypeOK
  <2>2. \A q \in Rounds : Holding(q)' <=> Holding(q) BY <1>4, <2>1 DEF GetBody, Holding, TypeOK
  <2> QED BY <1>4, <2>2 DEF GetBody, PlacesOK, OnePlace, HandlersKnown, redisVars, poolVars
<1>5. CASE GetNothing(r)
  <2>1. RanOn(r, deficits, active) BY <1>5, RunsOn DEF GetNothing, LeaveLevel, TypeOK
  <2>2. Holding(r) BY <1>5 DEF GetNothing, Holding
  <2>3. PICK p \in {"idle", "pop"} : pc' = [pc EXCEPT ![r] = p] BY <2>1 DEF RanOn
  <2>4. fate' = [fate EXCEPT ![job[r]] = "cancelled"] /\ job' = [job EXCEPT ![r] = NoJob]
        /\ UNCHANGED <<queued, body, active, handlers>>
    BY <1>5 DEF GetNothing, redisVars, poolVars
  <2> QED BY <2>2, <2>3, <2>4, JobLeavesHand
<1>6. CASE DeleteAndDispatch(r)
  <2> DEFINE j == job[r]
  <2>1. Holding(r) /\ j \in Jobs BY <1>6 DEF DeleteAndDispatch, Holding, PlacesOK, OnePlace
  <2>2. [deficits EXCEPT ![level[r]] = @ - Unit] \in [Levels -> Int] BY SchedulerAssumption DEF TypeOK
  <2>3. RanOn(r, [deficits EXCEPT ![level[r]] = @ - Unit], active') BY <1>6, <2>2, RunsOn DEF DeleteAndDispatch
  <2>4. PICK p \in {"idle", "pop"} : pc' = [pc EXCEPT ![r] = p] BY <2>3 DEF RanOn
  <2>5. queued' = queued /\ body' = body \ {j} /\ job' = [job EXCEPT ![r] = NoJob]
    BY <1>6 DEF DeleteAndDispatch, DeleteBody
  <2>6. CASE ~Accepts(j)
    <3>1. fate' = [fate EXCEPT ![j] = "dropped"] /\ active' = active /\ handlers' = handlers
      BY <1>6, <2>6 DEF DeleteAndDispatch, Dispatch
    <3> QED BY <2>1, <2>4, <2>5, <3>1, JobLeavesHand
  <2>7. CASE Accepts(j)
    <3>1. fate' = fate /\ active' = active \cup {j} /\ handlers' = handlers \cup {j}
      BY <1>6, <2>7 DEF DeleteAndDispatch, Dispatch
    <3>2. \A q \in Rounds : Holding(q)' <=> (Holding(q) /\ q # r) BY <2>4 DEF TypeOK, Holding
    <3>3. \A q \in Rounds \ {r} : job'[q] = job[q] BY <2>5 DEF TypeOK
    <3> USE DEF PlacesOK, OnePlace, TypeOK
    <3>4. \A q \in Rounds : Holding(q) /\ q # r => job[q] # j BY <2>1
    <3>5. j \notin queued /\ fate[j] = "accepted" BY <2>1
    <3> HIDE DEF j
    <3>6. OnePlace'
      <4>1. ASSUME NEW i \in Jobs, fate'[i] = "accepted"
            PROVE  i \in queued' \/ i \in active' \/ \E q \in Rounds : Holding(q)' /\ job'[q] = i
        <5>1. CASE i = j BY <5>1, <3>1
        <5>2. CASE i # j BY <4>1, <5>2, <2>5, <3>1, <3>2, <3>3 DEF j
        <5> QED BY <5>1, <5>2
      <4>2. \A i \in queued' : fate'[i] = "accepted" /\ i \in body' /\ i \notin active'
        BY <2>5, <3>1, <3>5
      <4>3. \A i \in active' : fate'[i] = "accepted" BY <3>1, <3>5
      <4>4. \A q \in Rounds : Holding(q)' =>
              job'[q] \in Jobs /\ fate'[job'[q]] = "accepted" /\ job'[q] \notin queued' \cup active'
        BY <2>5, <3>1, <3>2, <3>3, <3>4
      <4>5. \A q, s \in Rounds : Holding(q)' /\ Holding(s)' /\ job'[q] = job'[s] => q = s
        BY <3>2, <3>3
      <4> QED BY <4>1, <4>2, <4>3, <4>4, <4>5
    <3>7. HandlersKnown' BY <3>1, <3>5 DEF HandlersKnown
    <3> QED BY <3>6, <3>7
  <2> QED BY <2>6, <2>7
<1>7. CASE CommandFails(r)
  <2>1. pc' = [pc EXCEPT ![r] = "idle"] /\ job' = [job EXCEPT ![r] = NoJob] /\ UNCHANGED <<active, handlers>>
    BY <1>7 DEF CommandFails, poolVars
  <2>2. CASE pc[r] # "pop"
    <3>1. Holding(r) BY <1>7, <2>2 DEF CommandFails, Waiting, Holding, TypeOK
    <3>2. fate' = [fate EXCEPT ![job[r]] = "lost"] /\ queued' = queued
          /\ (body' = body \/ body' = body \ {job[r]})
      BY <1>7, <2>2 DEF CommandFails, redisVars, DeleteBody
    <3> QED BY <2>1, <3>1, <3>2, JobLeavesHand
  <2>3. CASE pc[r] = "pop"
    <3>1. \A q \in Rounds : Holding(q)' <=> Holding(q) BY <2>1, <2>3 DEF Holding, TypeOK
    <3>2. \A q \in Rounds : Holding(q) => job'[q] = job[q] BY <2>1, <2>3 DEF Holding, TypeOK
    <3>3. CASE UNCHANGED <<redisVars, fate>>
      BY <2>1, <3>1, <3>2, <3>3 DEF PlacesOK, OnePlace, HandlersKnown, redisVars
    <3>4. CASE ~UNCHANGED <<redisVars, fate>>
      <4> DEFINE j == Oldest(level[r])
      <4>1. Level(level[r]) # {} /\ queued' = queued \ {j} /\ body' = body /\ fate' = [fate EXCEPT ![j] = "lost"]
        BY <1>7, <2>3, <3>4 DEF CommandFails, Pop
      <4>2. j \in queued /\ j \in Jobs BY <4>1, OldestInLevel
      <4> HIDE DEF j
      <4> USE DEF PlacesOK, OnePlace, TypeOK
      <4>3. fate'[j] = "lost" /\ \A i \in Jobs \ {j} : fate'[i] = fate[i] BY <4>1, <4>2
      <4>4. j \notin active /\ fate[j] = "accepted" /\ \A q \in Rounds : Holding(q) => job[q] # j BY <4>2
      <4>5. OnePlace' BY <2>1, <3>1, <3>2, <4>1, <4>2, <4>3, <4>4
      <4>6. HandlersKnown' BY <2>1, <4>2, <4>3, <4>4 DEF HandlersKnown
      <4> QED BY <4>5, <4>6
    <3> QED BY <3>3, <3>4
  <2> QED BY <2>2, <2>3
<1> QED BY <1>1, <1>2, <1>3, <1>4, <1>5, <1>6, <1>7 DEF Round

\* A job ends, in time or late.
LEMMA PoolPlaces ==
  ASSUME TypeOK, PlacesOK, NEW j \in Jobs, Pool(j)
  PROVE  PlacesOK'
<1> USE DEF PlacesOK, OnePlace, HandlersKnown, TypeOK, Holding
<1>1. UNCHANGED <<queued, body, pc, job>>
  BY DEF Pool, Settle, TimeOut, redisVars, roundVars
<1>2. \A r \in Rounds : Holding(r) => job[r] \notin active OBVIOUS
<1>3. CASE j \in active
  <2>1. active' = active \ {j} /\ handlers' \subseteq handlers /\ fate' = [fate EXCEPT ![j] = "finished"]
    BY <1>3 DEF Pool, Settle, TimeOut, HandlerSettles, JobTimesOut, FreeSlot
  <2>2. fate'[j] = "finished" /\ \A i \in Jobs \ {j} : fate'[i] = fate[i] BY <2>1
  <2>3. j \notin queued BY <1>3
  <2>4. OnePlace' BY <1>1, <1>2, <1>3, <2>1, <2>2, <2>3
  <2>5. HandlersKnown' BY <2>1, <2>2
  <2> QED BY <2>4, <2>5
<1>4. CASE j \notin active
  <2>1. active' = active /\ handlers' \subseteq handlers /\ fate' = fate
    BY <1>4 DEF Pool, Settle, TimeOut, HandlerSettles
  <2> QED BY <1>1, <2>1
<1> QED BY <1>3, <1>4

\* A caller's steps: a job comes in that is nowhere yet.
LEMMA ProducerPlaces ==
  ASSUME TypeOK, PlacesOK, NEW j \in Jobs, Producer(j)
  PROVE  PlacesOK'
<1>0. ASSUME NEW f, fate' = [fate EXCEPT ![j] = f]
      PROVE  fate'[j] = f /\ \A i \in Jobs \ {j} : fate'[i] = fate[i]
  BY <1>0 DEF TypeOK
<1> USE DEF PlacesOK, OnePlace, HandlersKnown, TypeOK
<1>1. UNCHANGED <<active, handlers, pc, job>>
  BY DEF Producer, CheckLevel, CheckTotal, Accept, EnqueueFails, poolVars, roundVars
<1>2. \A r \in Rounds : Holding(r)' <=> Holding(r) BY <1>1 DEF Holding
<1>3. fate[j] \notin {"accepted", "finished"}
  BY DEF Producer, CheckLevel, CheckTotal, Accept, EnqueueFails, Entering
<1>4. j \notin queued \cup active \cup handlers /\ \A r \in Rounds : Holding(r) => job[r] # j
  <2>1. j \notin queued \cup active BY <1>3
  <2>2. j \notin handlers BY <1>3
  <2>3. \A r \in Rounds : Holding(r) => job[r] # j BY <1>3
  <2> QED BY <2>1, <2>2, <2>3
<1>5. CASE Accept(j)
  <2>1. fate' = [fate EXCEPT ![j] = "accepted"] /\ queued' = queued \cup {j} /\ body' = body \cup {j}
    BY <1>5 DEF Accept, Store
  <2>2. fate'[j] = "accepted" /\ \A i \in Jobs \ {j} : fate'[i] = fate[i] BY <2>1
  <2>3. OnePlace' BY <1>1, <1>2, <1>4, <2>1, <2>2
  <2>4. HandlersKnown' BY <1>1, <1>4, <2>2
  <2> QED BY <2>3, <2>4
<1>6. CASE ~Accept(j)
  <2>1. queued' = queued /\ body' = body
    BY <1>6 DEF Producer, CheckLevel, CheckTotal, EnqueueFails, redisVars
  <2>2. PICK f \in {"admitted", "level checked", "refused"} : fate' = [fate EXCEPT ![j] = f]
    <3>1. CASE CheckLevel(j) BY <3>1 DEF CheckLevel
    <3>2. CASE CheckTotal(j) BY <3>2 DEF CheckTotal
    <3>3. CASE EnqueueFails(j) BY <3>3 DEF EnqueueFails
    <3> QED BY <1>6, <3>1, <3>2, <3>3 DEF Producer
  <2>3. fate'[j] = f /\ \A i \in Jobs \ {j} : fate'[i] = fate[i] BY <1>0, <2>2
  <2>4. OnePlace' BY <1>1, <1>2, <1>3, <1>4, <2>1, <2>3, ZenonT(60)
  <2>5. \A i \in handlers : fate'[i] = fate[i] BY <1>4, <2>3, ZenonT(60)
  <2>6. HandlersKnown' BY <1>1, <2>5
  <2> QED BY <2>4, <2>6
<1> QED BY <1>5, <1>6

\* A job is cancelled that may be on its way.
LEMMA AdminPlaces ==
  ASSUME TypeOK, PlacesOK, Admin
  PROVE  PlacesOK'
<1> USE DEF PlacesOK, OnePlace, HandlersKnown, TypeOK, Holding
<1>1. UNCHANGED <<active, handlers, pc, job>>
  BY DEF Admin, Cancel, RemoveVictim, Resize, Rebalance, Stop, Start, poolVars, roundVars
<1>2. CASE RemoveVictim
  <2>1. victim \in Jobs BY <1>2 DEF RemoveVictim
  <2>2. queued' = queued \ {victim} /\ body' = body \ {victim} BY <1>2 DEF RemoveVictim, Remove
  <2>3. CASE victim \in queued
    <3>1. fate' = [fate EXCEPT ![victim] = "cancelled"] BY <1>2, <2>3 DEF RemoveVictim
    <3>2. fate'[victim] = "cancelled" /\ \A i \in Jobs \ {victim} : fate'[i] = fate[i] BY <2>1, <3>1
    <3>3. victim \notin active /\ \A r \in Rounds : Holding(r) => job[r] # victim BY <2>3
    <3>4. fate[victim] = "accepted" BY <2>3
    <3>5. OnePlace' BY <1>1, <2>2, <3>2, <3>3
    <3>6. HandlersKnown' BY <1>1, <3>2, <3>3, <3>4
    <3> QED BY <3>5, <3>6
  <2>4. CASE victim \notin queued
    <3>1. fate' = fate BY <1>2, <2>4 DEF RemoveVictim
    <3> QED BY <1>1, <2>2, <2>4, <3>1
  <2> QED BY <2>3, <2>4
<1>3. CASE ~RemoveVictim
  <2>1. UNCHANGED <<queued, body, fate>>
    BY <1>3 DEF Admin, Cancel, Resize, Rebalance, Stop, Start, redisVars
  <2> QED BY <1>1, <2>1
<1> QED BY <1>2, <1>3

\* What is in Redis stays; the rest is lost.
LEMMA CrashPlaces ==
  ASSUME TypeOK, PlacesOK, Crash
  PROVE  PlacesOK'
<1> USE DEF PlacesOK, OnePlace, HandlersKnown, TypeOK
<1>1. active' = {} /\ handlers' = {} /\ queued' = queued /\ body' = body /\ \A r \in Rounds : ~Holding(r)'
  BY DEF Crash, redisVars, Holding
<1>2. \A j \in queued : fate'[j] = "accepted"
  <2> SUFFICES ASSUME NEW j \in queued PROVE fate'[j] = "accepted"
    OBVIOUS
  <2>1. j \in Jobs /\ j \notin Entering /\ j \notin active BY DEF Entering
  <2>2. InHand(j) = {} BY DEF InHand, Holding
  <2> QED BY <2>1, <2>2 DEF Crash
<1>3. \A j \in Jobs : fate'[j] = "accepted" => j \in queued
  <2> SUFFICES ASSUME NEW j \in Jobs, fate'[j] = "accepted" PROVE j \in queued
    OBVIOUS
  <2>1. fate[j] = "accepted" /\ j \notin active /\ InHand(j) = {} BY DEF Crash
  <2> QED BY <2>1 DEF InHand, Holding
<1> QED BY <1>1, <1>2, <1>3

(***************************************************************************)
(* The counters of the pool.                                               *)
(***************************************************************************)
\* Only types in the registry are ever counted.
OnlyRegistered == \A t \in Types : activeCount[t] > 0 => t \in DOMAIN MaxConcurrency

CountsOK == CountsAgree /\ OnlyRegistered

OfType(t) == {i \in active : TypeOf[i] = t}

\* They are finitely many.
LEMMA OfTypeFinite ==
  ASSUME TypeOK, NEW t PROVE IsFiniteSet(OfType(t)) /\ Cardinality(OfType(t)) \in Nat
BY JobsAssumption, FS_Subset, FS_CardinalityType DEF OfType, TypeOK

\* Past the gate of its type a job is counted in, and the limit stands.
LEMMA SlotTaken ==
  ASSUME TypeOK, CountsOK, NEW j \in Jobs, j \notin active, Accepts(j), Dispatch(j)
  PROVE  CountsOK'
<1>1. active' = active \cup {j} /\ activeCount' = [activeCount EXCEPT ![TypeOf[j]] = @ + 1]
  BY DEF Dispatch
<1>2. TypeOf[j] \in Types /\ TypeOf[j] \in DOMAIN MaxConcurrency /\ MaxConcurrency[TypeOf[j]] \in Nat
      /\ activeCount[TypeOf[j]] < MaxConcurrency[TypeOf[j]]
  BY PoolAssumption DEF Types, Accepts, Registered
<1> SUFFICES ASSUME NEW t \in Types
             PROVE  /\ activeCount'[t] = Cardinality(OfType(t)')
                    /\ activeCount'[t] > 0 => activeCount'[t] <= MaxConcurrency[t] /\ t \in DOMAIN MaxConcurrency
  BY DEF CountsOK, CountsAgree, OnlyRegistered, OfType
<1>3. activeCount[t] = Cardinality(OfType(t)) /\ activeCount[t] \in Nat
      /\ (activeCount[t] > 0 => activeCount[t] <= MaxConcurrency[t] /\ t \in DOMAIN MaxConcurrency)
  BY DEF CountsOK, CountsAgree, OnlyRegistered, OfType, TypeOK
<1>4. CASE t = TypeOf[j]
  <2>1. activeCount'[t] = activeCount[t] + 1 BY <1>1, <1>4 DEF TypeOK
  <2>2. OfType(t)' = OfType(t) \cup {j} /\ j \notin OfType(t) BY <1>1, <1>4 DEF OfType
  <2>3. Cardinality(OfType(t)') = Cardinality(OfType(t)) + 1 BY <2>2, OfTypeFinite, FS_AddElement
  <2> QED BY <1>2, <1>3, <1>4, <2>1, <2>3
<1>5. CASE t # TypeOf[j]
  <2>1. activeCount'[t] = activeCount[t] BY <1>1, <1>5 DEF TypeOK
  <2>2. OfType(t)' = OfType(t) BY <1>1, <1>5 DEF OfType
  <2> QED BY <1>3, <2>1, <2>2
<1> QED BY <1>4, <1>5

\* A job that had its slot is counted out.
LEMMA SlotFreed ==
  ASSUME TypeOK, CountsOK, NEW j \in active, FreeSlot(j)
  PROVE  CountsOK'
<1>1. active' = active \ {j} /\ activeCount' = [activeCount EXCEPT ![TypeOf[j]] = @ - 1]
  BY DEF FreeSlot
<1>2. j \in Jobs BY DEF TypeOK
<1> SUFFICES ASSUME NEW t \in Types
             PROVE  /\ activeCount'[t] = Cardinality(OfType(t)')
                    /\ activeCount'[t] > 0 => activeCount'[t] <= MaxConcurrency[t] /\ t \in DOMAIN MaxConcurrency
  BY DEF CountsOK, CountsAgree, OnlyRegistered, OfType
<1>3. activeCount[t] = Cardinality(OfType(t)) /\ activeCount[t] \in Nat
      /\ (activeCount[t] > 0 => activeCount[t] <= MaxConcurrency[t] /\ t \in DOMAIN MaxConcurrency)
  BY DEF CountsOK, CountsAgree, OnlyRegistered, OfType, TypeOK
<1>4. CASE t = TypeOf[j]
  <2>1. activeCount'[t] = activeCount[t] - 1 BY <1>1, <1>4 DEF TypeOK
  <2>2. OfType(t)' = OfType(t) \ {j} /\ j \in OfType(t) BY <1>1, <1>4 DEF OfType
  <2>3. Cardinality(OfType(t)') = Cardinality(OfType(t)) - 1 BY <2>2, OfTypeFinite, FS_RemoveElement
  <2>4. activeCount'[t] > 0 => t \in DOMAIN MaxConcurrency /\ activeCount[t] <= MaxConcurrency[t]
    BY <1>3, <2>1
  <2>5. t \in DOMAIN MaxConcurrency => MaxConcurrency[t] \in Nat BY <1>2, <1>4, PoolAssumption
  <2> QED BY <1>3, <2>1, <2>3, <2>4, <2>5
<1>5. CASE t # TypeOf[j]
  <2>1. activeCount'[t] = activeCount[t] BY <1>1, <1>5 DEF TypeOK
  <2>2. OfType(t)' = OfType(t) BY <1>1, <1>5 DEF OfType
  <2> QED BY <1>3, <2>1, <2>2
<1> QED BY <1>4, <1>5

\* No step miscounts.
LEMMA CountsStep ==
  ASSUME TypeOK, PlacesOK, CountsOK, [Next]_vars
  PROVE  CountsOK'
<1>0. ASSUME UNCHANGED <<active, activeCount>> PROVE CountsOK'
  BY <1>0 DEF CountsOK, CountsAgree, OnlyRegistered
<1>1. ASSUME NEW r \in Rounds, DeleteAndDispatch(r) PROVE CountsOK'
  <2>1. job[r] \in Jobs /\ job[r] \notin active BY <1>1 DEF DeleteAndDispatch, PlacesOK, OnePlace, Holding
  <2>2. Dispatch(job[r]) BY <1>1 DEF DeleteAndDispatch
  <2>3. CASE Accepts(job[r]) BY <2>1, <2>2, <2>3, SlotTaken
  <2>4. CASE ~Accepts(job[r]) BY <1>0, <2>2, <2>4 DEF Dispatch
  <2> QED BY <2>3, <2>4
<1>2. ASSUME NEW r \in Rounds, Tick(r) \/ Round(r) \/ CommandFails(r) PROVE CountsOK'
  BY <1>0, <1>1, <1>2 DEF Tick, Round, PopEmpty, PopJob, GetBody, GetNothing, CommandFails, poolVars
<1>3. ASSUME NEW j \in Jobs, Pool(j) PROVE CountsOK'
  <2>1. CASE j \in active
    <3>1. FreeSlot(j) BY <1>3, <2>1 DEF Pool, Settle, TimeOut, HandlerSettles, JobTimesOut
    <3> QED BY <2>1, <3>1, SlotFreed
  <2>2. CASE j \notin active BY <1>0, <1>3, <2>2 DEF Pool, Settle, TimeOut, HandlerSettles
  <2> QED BY <2>1, <2>2
<1>4. ASSUME NEW j \in Jobs, Producer(j) PROVE CountsOK'
  BY <1>0, <1>4 DEF Producer, CheckLevel, CheckTotal, Accept, EnqueueFails, poolVars
<1>5. CASE Admin
  BY <1>0, <1>5 DEF Admin, Cancel, RemoveVictim, Resize, Rebalance, Stop, Start, poolVars
<1>6. CASE Crash
  <2>1. \A t \in Types : activeCount'[t] = 0 /\ OfType(t)' = {} BY <1>6 DEF Crash, OfType
  <2> QED BY <2>1, FS_EmptySet DEF CountsOK, CountsAgree, OnlyRegistered, OfType
<1>7. CASE UNCHANGED vars BY <1>0, <1>7 DEF vars, poolVars
<1> QED BY <1>2, <1>3, <1>4, <1>5, <1>6, <1>7 DEF Next

(***************************************************************************)
(* The jobs' invariant holds of every behaviour.                           *)
(***************************************************************************)
JobsInv == TypeOK /\ PlacesOK /\ CountsOK

\* The first state satisfies it.
LEMMA JobsInit == Init => JobsInv
<1> SUFFICES ASSUME Init PROVE JobsInv
  OBVIOUS
<1> USE DEF Init, RedisInit, PoolInit
<1>1. TypeOK BY FirstLevel, LargestPool, SchedulerAssumption DEF TypeOK, Fates
<1>2. PlacesOK BY DEF PlacesOK, OnePlace, HandlersKnown, Holding
<1>3. \A t \in Types : OfType(t) = {} BY DEF OfType
<1>4. CountsOK BY <1>3, FS_EmptySet DEF CountsOK, CountsAgree, OnlyRegistered, OfType
<1> QED BY <1>1, <1>2, <1>4 DEF JobsInv

\* Every step keeps it.
LEMMA JobsStep == JobsInv /\ [Next]_vars => JobsInv'
<1> SUFFICES ASSUME TypeOK, PlacesOK, CountsOK, [Next]_vars PROVE JobsInv'
  BY DEF JobsInv
<1>1. CountsOK' BY CountsStep
<1>2. OnePlace /\ CountsAgree BY DEF PlacesOK, CountsOK
<1>3. CASE UNCHANGED vars
  BY <1>1, <1>3 DEF JobsInv, TypeOK, PlacesOK, OnePlace, HandlersKnown, Holding, vars, redisVars, poolVars, roundVars
<1>4. CASE Next
  <2>1. TypeOK' BY <1>2, <1>4, RoundTypeOK, PoolTypeOK, ProducerTypeOK, AdminTypeOK, CrashTypeOK DEF Next
  <2>2. PlacesOK' BY <1>4, RoundPlaces, PoolPlaces, ProducerPlaces, AdminPlaces, CrashPlaces DEF Next
  <2> QED BY <1>1, <2>1, <2>2 DEF JobsInv
<1> QED BY <1>3, <1>4

\* persistence.ts:36-93, scheduler.ts:63-93, worker-pool.ts:53-117: the invariant
\* behind the jobs' theorems holds in every state.
THEOREM JobsCorrect == Spec => []JobsInv
BY JobsInit, JobsStep, PTL DEF Spec

\* worker-pool.ts:53-100: however jobs end (finished, failed, timed out and then
\* finished all the same, lost with the process), activeCountByType is the number
\* of jobs of the type that hold a slot, and never beyond the type's limit.
THEOREM SlotsAreCounted == Spec => []CountsAgree
<1>1. JobsInv => CountsAgree BY DEF JobsInv, CountsOK
<1> QED BY <1>1, JobsCorrect, PTL

\* One place, counted.
LEMMA PlacesAccount == JobsInv => Accounted
<1> SUFFICES ASSUME JobsInv, NEW j \in Jobs
             PROVE  /\ Cardinality(InHand(j)) <= 1
                    /\ Cardinality({x \in DOMAIN Whereabouts : j \in Whereabouts[x]})
                         = IF fate[j] = "accepted" THEN 1 ELSE 0
                    /\ j \in queued => j \in body
  BY DEF Accounted
<1> DEFINE places == {x \in DOMAIN Whereabouts : j \in Whereabouts[x]}
<1>1. places = {x \in {"queue", "hand", "slot"} : \/ x = "queue" /\ j \in queued
                                                  \/ x = "hand" /\ InHand(j) # {}
                                                  \/ x = "slot" /\ j \in active}
  BY DEF Whereabouts
<1> HIDE DEF places
<1>2. OnePlace BY DEF JobsInv, PlacesOK
<1>3. \A r \in Rounds : r \in InHand(j) <=> Holding(r) /\ job[r] = j BY DEF InHand, Holding
<1>4. InHand(j) \subseteq Rounds BY DEF InHand
<1>5. Cardinality(InHand(j)) <= 1
  <2>1. CASE InHand(j) = {} BY <2>1, FS_EmptySet
  <2>2. CASE InHand(j) # {}
    <3>1. PICK r \in InHand(j) : TRUE BY <2>2
    <3>2. InHand(j) = {r} BY <1>2, <1>3, <1>4, <3>1 DEF OnePlace
    <3>3. Cardinality({r}) = 1 BY FS_Singleton
    <3> QED BY <3>2, <3>3
  <2> QED BY <2>1, <2>2
<1>6. j \in queued => j \in body BY <1>2 DEF OnePlace
<1>7. ASSUME fate[j] # "accepted" PROVE places = {}
  <2>1. j \notin queued /\ j \notin active /\ InHand(j) = {} BY <1>2, <1>3, <1>4, <1>7 DEF OnePlace
  <2> QED BY <1>1, <2>1
<1>8. ASSUME fate[j] = "accepted" PROVE \E x : places = {x}
  <2>1. j \in queued \/ j \in active \/ InHand(j) # {} BY <1>2, <1>3, <1>8 DEF OnePlace
  <2>2. CASE j \in queued
    <3>1. j \notin active /\ InHand(j) = {} BY <1>2, <1>3, <1>4, <2>2 DEF OnePlace
    <3> QED BY <1>1, <2>2, <3>1
  <2>3. CASE j \in active
    <3>1. j \notin queued /\ InHand(j) = {} BY <1>2, <1>3, <1>4, <2>3 DEF OnePlace
    <3> QED BY <1>1, <2>3, <3>1
  <2>4. CASE InHand(j) # {}
    <3>1. j \notin queued /\ j \notin active BY <1>2, <1>3, <1>4, <2>4 DEF OnePlace
    <3> QED BY <1>1, <2>4, <3>1
  <2> QED BY <2>1, <2>2, <2>3, <2>4
<1>9. Cardinality(places) = IF fate[j] = "accepted" THEN 1 ELSE 0
  <2>1. CASE fate[j] = "accepted" BY <1>8, <2>1, FS_Singleton
  <2>2. CASE fate[j] # "accepted" BY <1>7, <2>2, FS_EmptySet
  <2> QED BY <2>1, <2>2
<1> QED BY <1>5, <1>6, <1>9 DEF places

\* persistence.ts:36-93, scheduler.ts:63-93: a job that was accepted is in its level
\* with its body, in the hands of one round or in a slot, and in one of them only,
\* until it is finished, cancelled, dropped or lost with a command or the process.
THEOREM NoJobIsMislaid == Spec => []Accounted
BY PlacesAccount, JobsCorrect, PTL

\* scheduler.ts:75-91, worker-pool.ts:53-69: no number of overlapping rounds,
\* cancellations, timeouts and restarts gives a job a second slot, or one while a
\* handler of it still runs.
THEOREM NoJobRunsTwice == Spec => RunsOnce
<1> DEFINE Once == \A j \in Jobs : j \in active' \ active => fate[j] = "accepted" /\ j \notin handlers
<1>1. JobsInv /\ [Next]_vars => [Once]_vars
  <2> SUFFICES ASSUME JobsInv, Next, NEW j \in Jobs, j \in active' \ active
               PROVE  fate[j] = "accepted" /\ j \notin handlers
    OBVIOUS
  <2>1. PICK r \in Rounds : DeleteAndDispatch(r)
    <3>1. ~Admin
      BY DEF Admin, Cancel, RemoveVictim, Resize, Rebalance, Stop, Start, poolVars
    <3>2. ~Crash BY DEF Crash
    <3>3. ~\E i \in Jobs : Producer(i)
      BY DEF Producer, CheckLevel, CheckTotal, Accept, EnqueueFails, poolVars
    <3>4. ~\E i \in Jobs : Pool(i)
      BY DEF Pool, Settle, TimeOut, HandlerSettles, JobTimesOut, FreeSlot
    <3>5. ASSUME NEW r \in Rounds, Tick(r) \/ Round(r) \/ CommandFails(r) PROVE DeleteAndDispatch(r)
      BY <3>5 DEF Tick, Round, PopEmpty, PopJob, GetBody, GetNothing, CommandFails, poolVars
    <3> QED BY <3>1, <3>2, <3>3, <3>4, <3>5 DEF Next
  <2>2. j = job[r] BY <2>1 DEF DeleteAndDispatch, Dispatch
  <2>3. Holding(r) BY <2>1 DEF DeleteAndDispatch, Holding
  <2> QED BY <2>2, <2>3 DEF JobsInv, PlacesOK, OnePlace, HandlersKnown
<1> QED BY <1>1, JobsCorrect, PTL DEF Spec, RunsOnce

(***************************************************************************)
(* The limits: overlapping rounds fill the pool and take levels into debt. *)
(***************************************************************************)
\* Sets of rounds have their sizes.
LEMMA RoundsFinite ==
  /\ IsFiniteSet(Rounds) /\ Cardinality(Rounds) \in Nat \ {0}
  /\ \A s \in SUBSET Rounds : IsFiniteSet(s) /\ Cardinality(s) \in Nat /\ Cardinality(s) <= Cardinality(Rounds)
<1>1. IsFiniteSet(Rounds) /\ Rounds # {} BY SchedulerAssumption
<1> QED BY <1>1, FS_CardinalityType, FS_EmptySet, FS_Subset

\* So have sets of jobs.
LEMMA JobsFinite ==
  ASSUME NEW s \in SUBSET Jobs
  PROVE  /\ IsFiniteSet(s) /\ Cardinality(s) \in Nat
         /\ \A u \in SUBSET s : IsFiniteSet(u) /\ Cardinality(u) \in Nat /\ Cardinality(u) <= Cardinality(s)
         /\ \A j \in Jobs : Cardinality(s \cup {j}) <= Cardinality(s) + 1
<1>1. IsFiniteSet(s) BY JobsAssumption, FS_Subset
<1>2. Cardinality(s) \in Nat BY <1>1, FS_CardinalityType
<1>3. \A u \in SUBSET s : IsFiniteSet(u) /\ Cardinality(u) \in Nat /\ Cardinality(u) <= Cardinality(s)
  BY <1>1, FS_CardinalityType, FS_Subset
<1>4. ASSUME NEW j \in Jobs PROVE Cardinality(s \cup {j}) <= Cardinality(s) + 1
  <2> DEFINE n == Cardinality(s)
  <2>1. Cardinality(s \cup {j}) = IF j \in s THEN n ELSE n + 1 BY <1>1, FS_AddElement, Zenon
  <2>2. n \in Nat BY <1>2
  <2> HIDE DEF n
  <2>3. Cardinality(s \cup {j}) \in {n, n + 1} BY <2>1
  <2> QED BY <2>2, <2>3 DEF n
<1> QED BY <1>1, <1>2, <1>3, <1>4

\* A round that waits saw room in the pool when it went to wait; one that is over
\* makes up for the job it dispatched.
LEMMA RanOnOverfill ==
  ASSUME JobsInv, PoolOverfill, NEW r \in Rounds, NEW d, RanOn(r, d, active'), poolSize' = poolSize,
         active' \subseteq Jobs, active' \subseteq active \/ (r \in Waiting /\ \E j \in Jobs : active' = active \cup {j})
  PROVE  PoolOverfill'
<1>1. PICK p \in {"idle", "pop"} : /\ pc' = [pc EXCEPT ![r] = p]
                                   /\ p = "pop" => HasCapacity(active')
  BY DEF RanOn
<1>2. poolSize \in 1..Max(PoolSizes) /\ Max(PoolSizes) \in Nat BY LargestPool DEF JobsInv, TypeOK
<1>3. Waiting \subseteq Rounds /\ Waiting' \subseteq Rounds BY DEF Waiting
<1>4. active \subseteq Jobs BY DEF JobsInv, TypeOK
<1>5. pc \in [Rounds -> {"idle", "pop", "get", "delete"}] BY DEF JobsInv, TypeOK
<1>6. /\ Cardinality(active) \in Nat /\ Cardinality(active') \in Nat
      /\ Cardinality(Waiting) \in Nat /\ Cardinality(Waiting') \in Nat
      /\ Cardinality(Waiting') <= Cardinality(Rounds) /\ Cardinality(Rounds) \in Nat
  BY <1>3, <1>4, RoundsFinite, JobsFinite
<1>7. CASE p = "pop" BY <1>1, <1>2, <1>6, <1>7 DEF HasCapacity, PoolOverfill
<1>8. CASE p = "idle"
  <2>1. Waiting' = Waiting \ {r} BY <1>1, <1>5, <1>8 DEF Waiting
  <2>2. Cardinality(Waiting') <= Cardinality(Waiting)
        /\ (r \in Waiting => Cardinality(Waiting') = Cardinality(Waiting) - 1)
    BY <1>3, <2>1, RoundsFinite, FS_RemoveElement, FS_Subset
  <2>3. \/ Cardinality(active') <= Cardinality(active)
        \/ r \in Waiting /\ Cardinality(active') <= Cardinality(active) + 1
    BY <1>4, JobsFinite
  <2> QED BY <1>2, <1>6, <2>2, <2>3 DEF PoolOverfill
<1> QED BY <1>7, <1>8

\* No step fills the pool further than that.
LEMMA OverfillStep ==
  ASSUME JobsInv, JobsInv', PoolOverfill, [Next]_vars
  PROVE  PoolOverfill'
<1>1. ASSUME active' \subseteq active, Waiting' \subseteq Waiting PROVE PoolOverfill'
  <2>1. active \subseteq Jobs /\ Waiting \in SUBSET Rounds /\ Waiting' \in SUBSET Rounds BY DEF Waiting, JobsInv, TypeOK
  <2>2. Cardinality(active') <= Cardinality(active) /\ Cardinality(active) \in Nat /\ Cardinality(active') \in Nat
    BY <1>1, <2>1, JobsFinite
  <2>3. Cardinality(Waiting') <= Cardinality(Waiting) /\ Cardinality(Waiting) \in Nat /\ Cardinality(Waiting') \in Nat
    BY <1>1, <2>1, RoundsFinite, FS_Subset
  <2>4. Max(PoolSizes) \in Nat /\ Cardinality(Rounds) \in Nat BY LargestPool, RoundsFinite
  <2> QED BY <2>2, <2>3, <2>4 DEF PoolOverfill
<1>2. ASSUME NEW r \in Rounds, Tick(r) \/ PopEmpty(r) \/ GetNothing(r) PROVE PoolOverfill'
  <2>1. RanOn(r, deficits, active') /\ active' = active /\ poolSize' = poolSize
    BY <1>2, RunsOn DEF Tick, PopEmpty, GetNothing, LeaveLevel, JobsInv, TypeOK, poolVars
  <2> QED BY <2>1, RanOnOverfill DEF JobsInv, TypeOK
<1>3. ASSUME NEW r \in Rounds, PopJob(r) \/ GetBody(r) \/ CommandFails(r) PROVE PoolOverfill'
  <2>1. active' = active /\ Waiting' \subseteq Waiting
    BY <1>3 DEF PopJob, GetBody, CommandFails, Waiting, JobsInv, TypeOK, poolVars
  <2> QED BY <1>1, <2>1
<1>4. ASSUME NEW r \in Rounds, DeleteAndDispatch(r) PROVE PoolOverfill'
  <2>1. [deficits EXCEPT ![level[r]] = @ - Unit] \in [Levels -> Int] BY SchedulerAssumption DEF JobsInv, TypeOK
  <2>2. RanOn(r, [deficits EXCEPT ![level[r]] = @ - Unit], active') BY <1>4, <2>1, RunsOn DEF DeleteAndDispatch, JobsInv
  <2>3. r \in Waiting /\ job[r] \in Jobs BY <1>4 DEF DeleteAndDispatch, Waiting, Holding, JobsInv, PlacesOK, OnePlace
  <2>4. active' \subseteq active \/ active' = active \cup {job[r]} BY <1>4 DEF DeleteAndDispatch, Dispatch
  <2>5. active' \subseteq Jobs /\ poolSize' = poolSize BY <1>4 DEF DeleteAndDispatch, JobsInv, TypeOK
  <2> QED BY <2>2, <2>3, <2>4, <2>5, RanOnOverfill
<1>5. CASE (\E j \in Jobs : Pool(j) \/ Producer(j)) \/ Admin \/ UNCHANGED vars
  <2>1. active' \subseteq active /\ Waiting' = Waiting
    BY <1>5 DEF Pool, Settle, TimeOut, HandlerSettles, JobTimesOut, FreeSlot, Producer, CheckLevel, CheckTotal,
                Accept, EnqueueFails, Admin, Cancel, RemoveVictim, Resize, Rebalance, Stop, Start, vars,
                poolVars, roundVars, Waiting
  <2> QED BY <1>1, <2>1
<1>6. CASE Crash
  <2>1. active' \subseteq active /\ Waiting' \subseteq Waiting BY <1>6 DEF Crash, Waiting
  <2> QED BY <1>1, <2>1
<1> QED BY <1>2, <1>3, <1>4, <1>5, <1>6 DEF Next, Round

\* The rounds that wait at a level.
At(l) == {r \in Waiting : level[r] = l}

\* They are some of the rounds.
LEMMA AtFinite ==
  ASSUME NEW l
  PROVE  At(l) \in SUBSET Rounds /\ IsFiniteSet(At(l)) /\ Cardinality(At(l)) \in Nat
         /\ Cardinality(At(l)) <= Cardinality(Rounds)
<1>1. At(l) \in SUBSET Rounds BY DEF At, Waiting
<1> QED BY <1>1, RoundsFinite

\* What a level owes grows with the rounds that wait at it.
LEMMA Owed ==
  ASSUME NEW m \in Nat, NEW n \in Nat, m <= n
  PROVE  /\ Unit * m \in Nat /\ Unit * n \in Nat /\ Unit * m <= Unit * n
         /\ Unit * (m + 1) = Unit * m + Unit
<1>1. Unit \in Nat BY SchedulerAssumption
<1>2. Unit * m <= Unit * n
  <2>1. PICK k \in Nat : n = m + k
    <3>1. n - m \in Nat /\ n = m + (n - m) OBVIOUS
    <3> QED BY <3>1
  <2>2. Unit * n = Unit * m + Unit * k BY <1>1, <2>1
  <2> QED BY <1>1, <2>2
<1> QED BY <1>1, <1>2

\* A round that waits at a level could pay for a job when it went to wait; what a
\* round pays, it no longer waits for.
LEMMA RanOnDebt ==
  ASSUME TypeOK, DebtBounded, NEW r \in Rounds, NEW d \in [Levels -> Int], RanOn(r, d, active'),
         \A k \in Levels : \/ d[k] = deficits[k]
                           \/ d[k] = deficits[k] - Unit /\ r \in Waiting /\ level[r] = k
  PROVE  DebtBounded'
<1>1. PICK p \in {"idle", "pop"}, l \in Levels :
        /\ pc' = [pc EXCEPT ![r] = p] /\ level' = [level EXCEPT ![r] = l]
        /\ p = "pop" => deficits'[l] >= Unit
  BY DEF RanOn
<1>2. /\ pc \in [Rounds -> {"idle", "pop", "get", "delete"}] /\ level \in [Rounds -> Levels]
      /\ deficits \in [Levels -> Int] /\ deficits' \in [Levels -> Int]
      /\ \A k \in Levels : deficits'[k] >= d[k] \/ deficits'[k] >= 0
  BY DEF TypeOK, RanOn
<1>3. pc'[r] = p /\ level'[r] = l /\ \A q \in Rounds \ {r} : pc'[q] = pc[q] /\ level'[q] = level[q]
  BY <1>1, <1>2
<1> DEFINE N == Cardinality(Rounds)
<1>4. N \in Nat /\ Unit \in Nat BY RoundsFinite, SchedulerAssumption
<1> SUFFICES ASSUME NEW k \in Levels
             PROVE  deficits'[k] + Unit * N >= Unit * Cardinality(At(k)')
  BY DEF DebtBounded, At
<1>5. deficits[k] + Unit * N >= Unit * Cardinality(At(k)) BY DEF DebtBounded, At
<1> DEFINE n == Cardinality(At(k))
           m == Cardinality(At(k)')
<1>6. n \in Nat /\ n <= N /\ IsFiniteSet(At(k)) BY AtFinite
<1>7. m \in Nat /\ m <= N /\ IsFiniteSet(At(k)') /\ At(k)' \subseteq Rounds
  <2>1. At(k)' \in SUBSET Rounds BY DEF At, Waiting
  <2> QED BY <2>1, RoundsFinite
<1>8. CASE deficits'[k] >= 0
  <2>1. Unit * m <= Unit * N /\ Unit * m \in Nat /\ Unit * N \in Nat BY <1>4, <1>6, <1>7, Owed
  <2> QED BY <1>2, <1>8, <2>1
<1>9. CASE deficits'[k] < 0
  <2>1. deficits'[k] >= d[k] BY <1>2, <1>9
  <2>2. At(k)' \subseteq At(k) \ {r}
    <3>1. r \notin At(k)'
      <4>1. CASE p = "idle" BY <1>3, <4>1 DEF At, Waiting
      <4>2. CASE p = "pop" BY <1>1, <1>2, <1>3, <1>4, <1>9, <4>2 DEF At
      <4> QED BY <4>1, <4>2
    <3>2. \A q \in Rounds \ {r} : q \in At(k)' <=> q \in At(k) BY <1>3 DEF At, Waiting
    <3> QED BY <1>7, <3>1, <3>2
  <2>3. At(k) \ {r} \subseteq At(k) /\ IsFiniteSet(At(k) \ {r}) BY <1>6, FS_Subset
  <2>4. m <= Cardinality(At(k) \ {r}) /\ Cardinality(At(k) \ {r}) <= n /\ Cardinality(At(k) \ {r}) \in Nat
    BY <1>6, <2>2, <2>3, FS_Subset, FS_CardinalityType
  <2>5. CASE d[k] = deficits[k]
    <3>1. m <= n BY <1>6, <1>7, <2>4
    <3>2. Unit * m <= Unit * n /\ Unit * m \in Nat /\ Unit * n \in Nat BY <1>6, <1>7, <3>1, Owed
    <3>3. Unit * N \in Nat BY <1>4
    <3> HIDE DEF m, n, N
    <3> QED BY <1>2, <1>5, <2>1, <2>5, <3>2, <3>3 DEF m, n, N
  <2>6. CASE d[k] = deficits[k] - Unit /\ r \in Waiting /\ level[r] = k
    <3>1. r \in At(k) BY <2>6 DEF At
    <3>2. Cardinality(At(k) \ {r}) = n - 1 BY <1>6, <3>1, FS_RemoveElement
    <3>3. m + 1 <= n BY <1>6, <1>7, <2>4, <3>2
    <3>4. Unit * (m + 1) <= Unit * n /\ Unit * (m + 1) = Unit * m + Unit /\ Unit * m \in Nat /\ Unit * n \in Nat
      BY <1>6, <1>7, <3>3, Owed
    <3>5. Unit * N \in Nat BY <1>4
    <3> QED BY <1>2, <1>4, <1>5, <2>1, <2>6, <3>4, <3>5
  <2> QED BY <2>5, <2>6
<1> QED BY <1>2, <1>8, <1>9

\* No step takes a level deeper into debt than that.
LEMMA DebtStep ==
  ASSUME JobsInv, DebtBounded, [Next]_vars
  PROVE  DebtBounded'
<1> DEFINE N == Cardinality(Rounds)
<1>0. N \in Nat /\ Unit * N \in Nat /\ Unit \in Nat BY RoundsFinite, Owed, SchedulerAssumption
<1>T. TypeOK BY DEF JobsInv
<1>1. ASSUME deficits' = deficits, NEW k \in Levels, At(k)' \subseteq At(k)
      PROVE  deficits'[k] + Unit * N >= Unit * Cardinality(At(k)')
  <2> DEFINE n == Cardinality(At(k))
             m == Cardinality(At(k)')
  <2>1. m \in Nat /\ n \in Nat /\ m <= n BY <1>1, AtFinite, FS_Subset, FS_CardinalityType
  <2>2. Unit * m \in Nat /\ Unit * n \in Nat /\ Unit * m <= Unit * n BY <2>1, Owed
  <2>3. deficits[k] \in Int /\ deficits[k] + Unit * N >= Unit * n BY <1>T DEF TypeOK, DebtBounded, At
  <2> HIDE DEF m, n, N
  <2> QED BY <1>0, <1>1, <2>2, <2>3 DEF m
<1>2. ASSUME deficits' = deficits, \A k \in Levels : At(k)' \subseteq At(k) PROVE DebtBounded'
  BY <1>1, <1>2 DEF DebtBounded, At
<1>3. ASSUME deficits' = [l \in Levels |-> 0] PROVE DebtBounded'
  <2> SUFFICES ASSUME NEW k \in Levels PROVE 0 + Unit * N >= Unit * Cardinality(At(k)')
    BY <1>3 DEF DebtBounded, At
  <2> DEFINE m == Cardinality(At(k)')
  <2>1. At(k)' \in SUBSET Rounds BY DEF At, Waiting
  <2>2. m \in Nat /\ m <= N BY <2>1, RoundsFinite
  <2>3. Unit * m \in Nat /\ Unit * m <= Unit * N BY <1>0, <2>2, Owed
  <2> HIDE DEF m, N
  <2> QED BY <1>0, <2>3 DEF m
<1>4. ASSUME NEW r \in Rounds, Tick(r) \/ PopEmpty(r) \/ GetNothing(r) PROVE DebtBounded'
  <2>1. RanOn(r, deficits, active') /\ deficits \in [Levels -> Int]
    BY <1>T, <1>4, RunsOn DEF Tick, PopEmpty, GetNothing, LeaveLevel, TypeOK, poolVars
  <2> QED BY <1>T, <2>1, RanOnDebt
<1>5. ASSUME NEW r \in Rounds, PopJob(r) \/ GetBody(r) \/ CommandFails(r) PROVE DebtBounded'
  <2>1. deficits' = deficits BY <1>5 DEF PopJob, GetBody, CommandFails
  <2>2. \A q \in Rounds : q \in Waiting' => q \in Waiting /\ level'[q] = level[q]
    BY <1>T, <1>5 DEF PopJob, GetBody, CommandFails, Waiting, TypeOK
  <2>3. \A k \in Levels : At(k)' \subseteq At(k)
    <3>1. Waiting' \subseteq Rounds BY DEF Waiting
    <3> QED BY <2>2, <3>1 DEF At
  <2> QED BY <1>2, <2>1, <2>3
<1>6. ASSUME NEW r \in Rounds, DeleteAndDispatch(r) PROVE DebtBounded'
  <2> DEFINE d == [deficits EXCEPT ![level[r]] = @ - Unit]
  <2>1. d \in [Levels -> Int] BY <1>T, <1>0 DEF TypeOK
  <2>2. RanOn(r, d, active') BY <1>T, <1>6, <2>1, RunsOn DEF DeleteAndDispatch
  <2>3. r \in Waiting BY <1>6 DEF DeleteAndDispatch, Waiting
  <2>4. \A k \in Levels : d[k] = deficits[k] \/ (d[k] = deficits[k] - Unit /\ level[r] = k)
    BY <1>T DEF TypeOK
  <2> HIDE DEF d
  <2> QED BY <1>T, <2>1, <2>2, <2>3, <2>4, RanOnDebt
<1>7. CASE (\E j \in Jobs : Pool(j) \/ Producer(j)) \/ (Admin /\ ~Rebalance) \/ UNCHANGED vars
  <2>1. UNCHANGED <<deficits, pc, level>>
    BY <1>7 DEF Pool, Settle, TimeOut, Producer, CheckLevel, CheckTotal, Accept, EnqueueFails,
                Admin, Cancel, RemoveVictim, Resize, Stop, Start, vars, roundVars
  <2>2. \A k \in Levels : At(k)' \subseteq At(k) BY <2>1 DEF At, Waiting
  <2> QED BY <1>2, <2>1, <2>2
<1>8. CASE Rebalance \/ Crash BY <1>3, <1>8 DEF Rebalance, Crash
<1> QED BY <1>4, <1>5, <1>6, <1>7, <1>8 DEF Next, Round

(***************************************************************************)
(* The limits: callers that overlap overrun the cap of the queue.          *)
(***************************************************************************)
\* Who is in the queue or has been let in, by level.
Taken == queued \cup {j \in Jobs : fate[j] = "admitted"}
Held(k) == {j \in Taken : LevelOf[j] = k}
InLevels(K) == {j \in Taken : LevelOf[j] \in K}

\* The levels beyond their share were let grow by the look at the whole queue,
\* which bounds them together.
Share == LevelShare + Overlap
Crowded == {k \in Levels : Cardinality(Held(k)) > Share}
CapOK ==
  /\ Cardinality(Entering) <= Producers
  /\ Cardinality(InLevels(Crowded)) <= MaxQueued + Overlap

\* The limits are numbers.
LEMMA LimitsType ==
  /\ Producers \in Nat \ {0} /\ Overlap \in Nat /\ Share \in Nat /\ MaxQueued \in Nat
  /\ LevelShare \in Nat /\ LevelShare <= MaxQueued /\ Overlap + 1 = Producers
BY SchedulerAssumption, PersistenceAssumption DEF Overlap, Share

\* Levels that keep to their share hold no more than their shares together.
LEMMA SharesAddUp ==
  ASSUME TypeOK, NEW K \in SUBSET Levels, \A k \in K : Cardinality(Held(k)) <= Share
  PROVE  Cardinality(InLevels(K)) <= Cardinality(K) * Share
<1> DEFINE R == StrictSubsetOrdering(Levels)
           T == {L \in SUBSET K : ~(Cardinality(InLevels(L)) <= Cardinality(L) * Share)}
<1> SUFFICES ASSUME K \in T PROVE FALSE
  OBVIOUS
<1>1. T \subseteq FiniteSubsetsOf(Levels)
  <2>1. FiniteSubsetsOf(Levels) = SUBSET Levels BY JobsAssumption, FS_FiniteSubsetsOfFinite
  <2> QED BY <2>1
<1>2. PICK L \in T : \A M \in T : <<M, L>> \notin R
  BY <1>1, JobsAssumption, FS_StrictSubsetOrderingWellFounded, WFMin
<1>3. L \in SUBSET K /\ IsFiniteSet(L) /\ Cardinality(L) \in Nat
  BY JobsAssumption, FS_Subset, FS_CardinalityType
<1>4. CASE L = {}
  <2>1. InLevels(L) = {} BY <1>4 DEF InLevels
  <2> QED BY <1>4, <2>1, FS_EmptySet, LimitsType
<1>5. CASE L # {}
  <2>1. PICK k \in L : TRUE BY <1>5
  <2> DEFINE M == L \ {k}
  <2>2. M \in SUBSET K /\ M \subseteq L /\ M # L /\ Cardinality(M) = Cardinality(L) - 1
    BY <1>3, <2>1, FS_RemoveElement
  <2>3. <<M, L>> \in R BY <1>3, <2>2 DEF StrictSubsetOrdering
  <2>4. M \notin T BY <1>2, <2>3
  <2>5. Cardinality(InLevels(M)) <= Cardinality(M) * Share BY <2>2, <2>4
  <2>6. InLevels(L) = InLevels(M) \cup Held(k) BY <2>1 DEF InLevels, Held
  <2>7. InLevels(M) \in SUBSET Jobs /\ Held(k) \in SUBSET Jobs BY DEF InLevels, Held, Taken, TypeOK
  <2>8. IsFiniteSet(InLevels(M)) /\ IsFiniteSet(Held(k)) /\ Cardinality(InLevels(M)) \in Nat
        /\ Cardinality(Held(k)) \in Nat /\ Cardinality(InLevels(M) \cap Held(k)) \in Nat
    <3>1. InLevels(M) \cap Held(k) \in SUBSET Jobs BY <2>7
    <3> QED BY <2>7, <3>1, JobsFinite
  <2>9. Cardinality(InLevels(L)) <= Cardinality(InLevels(M)) + Cardinality(Held(k))
    <3>1. Cardinality(InLevels(L)) =
            Cardinality(InLevels(M)) + Cardinality(Held(k)) - Cardinality(InLevels(M) \cap Held(k))
      BY <2>6, <2>8, FS_Union
    <3> QED BY <2>8, <3>1
  <2>10. Cardinality(Held(k)) <= Share BY <1>3, <2>1
  <2> DEFINE a == Cardinality(InLevels(M))
             b == Cardinality(Held(k))
             c == Cardinality(L)
             e == Cardinality(InLevels(L))
  <2>11. e <= a + b /\ a <= (c - 1) * Share /\ b <= Share /\ a \in Nat /\ b \in Nat /\ c \in Nat /\ Share \in Nat
    BY <1>3, <2>2, <2>5, <2>8, <2>9, <2>10, LimitsType
  <2>12. e \in Nat
    <3>1. InLevels(L) \in SUBSET Jobs BY DEF InLevels, Taken, TypeOK
    <3> QED BY <3>1, JobsFinite
  <2>13. ~(e <= c * Share) OBVIOUS
  <2> HIDE DEF a, b, c, e
  <2>14. (c - 1) * Share = c * Share - Share BY <2>11
  <2>15. c * Share \in Int BY <2>11
  <2> QED BY <2>11, <2>12, <2>13, <2>14, <2>15
<1> QED BY <1>4, <1>5

\* The crowded levels keep to the cap and the others to their shares: the queue
\* keeps to the bound of QueueBounded.
LEMMA CapBounds == TypeOK /\ CapOK => QueueBounded
<1> SUFFICES ASSUME TypeOK, CapOK PROVE QueueBounded
  OBVIOUS
<1> DEFINE Calm == Levels \ Crowded
           L == Cardinality(Levels)
           n == Cardinality(queued)
           a == Cardinality(InLevels(Crowded))
           b == Cardinality(InLevels(Calm))
           c == Cardinality(Calm)
<1>1. Taken \subseteq Jobs /\ queued \subseteq Taken BY DEF Taken, TypeOK
<1>2. \A K \in SUBSET Levels : InLevels(K) \in SUBSET Jobs BY <1>1 DEF InLevels
<1>3. Crowded \in SUBSET Levels /\ Calm \in SUBSET Levels BY DEF Crowded
<1>4. L \in Nat /\ L # 0 /\ IsFiniteSet(Levels) BY JobsAssumption, FS_CardinalityType, FS_EmptySet
<1>5. c \in Nat /\ c <= L /\ (Crowded # {} => c <= L - 1)
  <2>1. IsFiniteSet(Calm) /\ c \in Nat /\ c <= L BY <1>3, <1>4, FS_Subset, FS_CardinalityType
  <2>2. ASSUME Crowded # {} PROVE c # L
    <3>1. Calm # Levels BY <1>3, <2>2
    <3> QED BY <1>3, <1>4, <3>1, FS_Subset
  <2> QED BY <1>4, <2>1, <2>2
<1>6. \A k \in Calm : Cardinality(Held(k)) <= Share
  <2> SUFFICES ASSUME NEW k \in Calm PROVE Cardinality(Held(k)) <= Share
    OBVIOUS
  <2>1. Held(k) \in SUBSET Jobs BY <1>1 DEF Held
  <2>2. Cardinality(Held(k)) \in Nat BY <2>1, JobsFinite
  <2>3. ~(Cardinality(Held(k)) > Share) BY DEF Crowded
  <2> QED BY <2>2, <2>3, LimitsType
<1>7. b <= c * Share BY <1>3, <1>6, SharesAddUp
<1>8. a \in Nat /\ b \in Nat /\ n \in Nat /\ n <= a + b
  <2>1. InLevels(Crowded) \in SUBSET Jobs /\ InLevels(Calm) \in SUBSET Jobs /\ queued \in SUBSET Jobs
    BY <1>1, <1>2, <1>3
  <2>2. IsFiniteSet(InLevels(Crowded)) /\ IsFiniteSet(InLevels(Calm)) /\ a \in Nat /\ b \in Nat /\ n \in Nat
    BY <2>1, JobsFinite
  <2>3. InLevels(Crowded) \cup InLevels(Calm) \in SUBSET Jobs
        /\ InLevels(Crowded) \cap InLevels(Calm) \in SUBSET Jobs
    BY <2>1
  <2>4. queued \subseteq InLevels(Crowded) \cup InLevels(Calm)
    <3>1. \A j \in queued : j \in Taken /\ LevelOf[j] \in Levels BY <1>1, JobsAssumption
    <3> QED BY <3>1 DEF InLevels
  <2>5. n <= Cardinality(InLevels(Crowded) \cup InLevels(Calm)) BY <2>3, <2>4, JobsFinite
  <2>6. Cardinality(InLevels(Crowded) \cup InLevels(Calm))
          = a + b - Cardinality(InLevels(Crowded) \cap InLevels(Calm))
    BY <2>2, FS_Union
  <2>7. Cardinality(InLevels(Crowded) \cap InLevels(Calm)) \in Nat BY <2>3, JobsFinite
  <2> HIDE DEF a, b, n
  <2> QED BY <2>2, <2>5, <2>6, <2>7
<1>9. a <= MaxQueued + Overlap BY DEF CapOK
<1>10. Crowded = {} => a = 0
  <2> SUFFICES ASSUME Crowded = {} PROVE InLevels(Crowded) = {}
    BY FS_EmptySet
  <2> QED BY DEF InLevels
<1>11. Share = LevelShare + Overlap BY DEF Share
<1> HIDE DEF a, b, c, n, L
<1>12. b <= c * Share /\ (Crowded = {} \/ c <= L - 1) /\ c <= L BY <1>5, <1>7
<1>13. (L - 1) * Share \in Int /\ L * Share = (L - 1) * Share + Share BY <1>4, LimitsType
<1>14. c <= L - 1 => c * Share <= (L - 1) * Share
  <2>1. \A x, y \in Nat : x <= y => x * Share <= y * Share BY LimitsType
  <2> QED BY <1>4, <1>5, <2>1
<1>15. c * Share <= L * Share /\ c * Share \in Int
  <2>1. \A x, y \in Nat : x <= y => x * Share <= y * Share BY LimitsType
  <2> QED BY <1>4, <1>5, <2>1, LimitsType
<1>16. n <= MaxQueued + Overlap + (L - 1) * Share
  <2>1. CASE Crowded = {}
    <3>1. n <= L * Share BY <1>8, <1>10, <1>12, <1>13, <1>15, <2>1, LimitsType
    <3> QED BY <1>8, <1>11, <1>13, <3>1, LimitsType
  <2>2. CASE Crowded # {} BY <1>8, <1>9, <1>12, <1>13, <1>14, <1>15, <2>2, LimitsType
  <2> QED BY <2>1, <2>2
<1> QED BY <1>11, <1>16 DEF QueueBounded, n, L

\* A step that lets nobody in.
LEMMA CapShrinks ==
  ASSUME TypeOK, CapOK, Taken' \subseteq Taken, Cardinality(Entering') <= Producers
  PROVE  CapOK'
<1>1. Taken \in SUBSET Jobs BY DEF Taken, TypeOK
<1>2. ASSUME NEW k \in Levels PROVE Cardinality(Held(k)') <= Cardinality(Held(k)) /\ Cardinality(Held(k)) \in Nat
                                    /\ Cardinality(Held(k)') \in Nat
  <2>1. Held(k) \in SUBSET Jobs /\ Held(k)' \subseteq Held(k) BY <1>1 DEF Held
  <2> QED BY <2>1, JobsFinite
<1>3. Crowded' \subseteq Crowded BY <1>2, LimitsType DEF Crowded, Share, Overlap
<1>4. InLevels(Crowded) \in SUBSET Jobs /\ InLevels(Crowded)' \subseteq InLevels(Crowded) BY <1>1, <1>3 DEF InLevels
<1>5. Cardinality(InLevels(Crowded)') <= Cardinality(InLevels(Crowded)) /\ Cardinality(InLevels(Crowded)) \in Nat
      /\ Cardinality(InLevels(Crowded)') \in Nat
  BY <1>4, JobsFinite
<1> QED BY <1>5, LimitsType DEF CapOK, Overlap

\* A caller finds room in its level: with all who overlap it, the level keeps
\* to its share.
LEMMA CheckLevelCap ==
  ASSUME TypeOK, OnePlace, CapOK, NEW j \in Jobs, CheckLevel(j)
  PROVE  CapOK'
<1>1. fate[j] = "new" /\ Cardinality(Entering) < Producers /\ queued' = queued
      /\ fate' = [fate EXCEPT ![j] = IF LevelHasRoom(j) THEN "admitted" ELSE "level checked"]
  BY DEF CheckLevel, redisVars
<1>2. fate'[j] = (IF LevelHasRoom(j) THEN "admitted" ELSE "level checked")
      /\ \A i \in Jobs \ {j} : fate'[i] = fate[i]
  BY <1>1 DEF TypeOK
<1>3. Entering \in SUBSET Jobs /\ Entering' = Entering \cup {j} BY <1>2 DEF Entering
<1>4. Cardinality(Entering') <= Producers
  <2>1. Cardinality(Entering') <= Cardinality(Entering) + 1 /\ Cardinality(Entering) \in Nat
    BY <1>3, JobsFinite
  <2>2. Entering' \in SUBSET Jobs BY <1>3
  <2>3. Cardinality(Entering') \in Nat BY <2>2, JobsFinite
  <2>4. Cardinality(Entering) < Producers /\ Producers \in Nat BY <1>1, LimitsType
  <2> HIDE <1>1, <1>3
  <2> QED BY <2>1, <2>3, <2>4
<1>5. CASE ~LevelHasRoom(j)
  <2>1. \A i \in Jobs : fate'[i] = "admitted" => fate[i] = "admitted" BY <1>2, <1>5
  <2>2. Taken' \subseteq Taken BY <1>1, <2>1 DEF Taken
  <2> QED BY <1>4, <2>2, CapShrinks
<1>6. CASE LevelHasRoom(j)
  <2> DEFINE l == LevelOf[j]
  <2>1. l \in Levels BY JobsAssumption
  <2>2. Taken' = Taken \cup {j} /\ Taken \in SUBSET Jobs BY <1>1, <1>2, <1>6 DEF Taken, TypeOK
  <2>3. Held(l)' \subseteq (Level(l) \cup Entering) \cup {j} BY <2>2 DEF Held, Taken, Level, Entering
  <2>4. Level(l) \in SUBSET Jobs /\ Level(l) \cup Entering \in SUBSET Jobs
        /\ (Level(l) \cup Entering) \cup {j} \in SUBSET Jobs /\ Level(l) \cap Entering \in SUBSET Jobs
    BY <1>3 DEF Level, TypeOK
  <2> DEFINE a == Cardinality(Level(l))
             b == Cardinality(Entering)
             c == Cardinality(Level(l) \cup Entering)
             e == Cardinality((Level(l) \cup Entering) \cup {j})
             h == Cardinality(Held(l)')
  <2>5. a \in Nat /\ b \in Nat /\ c \in Nat /\ e \in Nat /\ IsFiniteSet(Level(l)) /\ IsFiniteSet(Entering)
    BY <1>3, <2>4, JobsFinite
  <2>6. c <= a + b
    <3>1. c = a + b - Cardinality(Level(l) \cap Entering) BY <2>5, FS_Union
    <3>2. Cardinality(Level(l) \cap Entering) \in Nat BY <2>4, JobsFinite
    <3> HIDE DEF a, b, c
    <3> QED BY <2>5, <3>1, <3>2
  <2>7. e <= c + 1 BY <2>4, JobsFinite
  <2>8. h <= e /\ h \in Nat BY <2>3, <2>4, JobsFinite
  <2>9. a < LevelShare /\ b < Producers BY <1>1, <1>6 DEF LevelHasRoom
  <2>10. h <= Share
    <3> HIDE DEF a, b, c, e, h
    <3> QED BY <2>5, <2>6, <2>7, <2>8, <2>9, LimitsType DEF Share
  <2>11. l \notin Crowded' BY <2>8, <2>10, LimitsType DEF Crowded, Share, Overlap
  <2>12. \A k \in Levels \ {l} : Held(k)' = Held(k) BY <2>2 DEF Held
  <2>13. Crowded' \subseteq Crowded BY <2>11, <2>12 DEF Crowded, Share, Overlap
  <2>14. InLevels(Crowded)' \subseteq InLevels(Crowded) BY <2>2, <2>11, <2>13 DEF InLevels
  <2>15. InLevels(Crowded) \in SUBSET Jobs BY <2>2 DEF InLevels
  <2>16. Cardinality(InLevels(Crowded)') <= Cardinality(InLevels(Crowded)) /\ Cardinality(InLevels(Crowded)) \in Nat
         /\ Cardinality(InLevels(Crowded)') \in Nat
    BY <2>14, <2>15, JobsFinite
  <2> QED BY <1>4, <2>16, LimitsType DEF CapOK, Overlap
<1> QED BY <1>5, <1>6

\* A caller finds room in the whole queue: with all who overlap it, everything
\* keeps to the cap.
LEMMA CheckTotalCap ==
  ASSUME TypeOK, CapOK, NEW j \in Jobs, CheckTotal(j)
  PROVE  CapOK'
<1>1. fate[j] = "level checked" /\ queued' = queued
      /\ fate' = [fate EXCEPT ![j] = IF RoomFor THEN "admitted" ELSE "refused"]
  BY DEF CheckTotal, redisVars
<1>2. fate'[j] = (IF RoomFor THEN "admitted" ELSE "refused") /\ \A i \in Jobs \ {j} : fate'[i] = fate[i]
  BY <1>1 DEF TypeOK
<1>3. Entering \in SUBSET Jobs /\ Entering' \subseteq Entering BY <1>1, <1>2 DEF Entering
<1>4. Cardinality(Entering') <= Producers /\ Cardinality(Entering) <= Producers /\ Cardinality(Entering) \in Nat
  <2>1. Cardinality(Entering') <= Cardinality(Entering) /\ Cardinality(Entering') \in Nat
        /\ Cardinality(Entering) \in Nat
    BY <1>3, JobsFinite
  <2> QED BY <2>1, LimitsType DEF CapOK
<1>5. CASE ~RoomFor
  <2>1. \A i \in Jobs : fate'[i] = "admitted" => fate[i] = "admitted" BY <1>2, <1>5
  <2>2. Taken' \subseteq Taken BY <1>1, <2>1 DEF Taken
  <2> QED BY <1>4, <2>2, CapShrinks
<1>6. CASE RoomFor
  <2>1. Taken' \subseteq queued \cup Entering BY <1>1, <1>2 DEF Taken, Entering
  <2>2. queued \in SUBSET Jobs /\ queued \cup Entering \in SUBSET Jobs /\ queued \cap Entering \in SUBSET Jobs
    BY <1>3 DEF TypeOK
  <2> DEFINE a == Cardinality(queued)
             b == Cardinality(Entering)
             c == Cardinality(queued \cup Entering)
             h == Cardinality(InLevels(Crowded)')
  <2>3. a \in Nat /\ b \in Nat /\ c \in Nat /\ IsFiniteSet(queued) /\ IsFiniteSet(Entering)
    BY <1>3, <2>2, JobsFinite
  <2>4. c <= a + b
    <3>1. c = a + b - Cardinality(queued \cap Entering) BY <2>3, FS_Union
    <3>2. Cardinality(queued \cap Entering) \in Nat BY <2>2, JobsFinite
    <3> HIDE DEF a, b, c
    <3> QED BY <2>3, <3>1, <3>2
  <2>5. InLevels(Crowded)' \subseteq queued \cup Entering BY <2>1 DEF InLevels
  <2>6. h <= c /\ h \in Nat BY <2>2, <2>5, JobsFinite
  <2>7. a < MaxQueued BY <1>6 DEF RoomFor
  <2>8. h <= MaxQueued + Overlap
    <3>1. b <= Producers BY <1>4
    <3> HIDE DEF a, b, c, h
    <3> QED BY <2>3, <2>4, <2>6, <2>7, <3>1, LimitsType
  <2> QED BY <1>4, <2>8 DEF CapOK, Overlap
<1> QED BY <1>5, <1>6

\* No step lets in more than that.
LEMMA CapStep ==
  ASSUME JobsInv, CapOK, [Next]_vars
  PROVE  CapOK'
<1>1. TypeOK /\ OnePlace BY DEF JobsInv, PlacesOK
<1>2. ASSUME Taken' \subseteq Taken, Entering' \subseteq Entering PROVE CapOK'
  <2>1. Entering \in SUBSET Jobs BY DEF Entering
  <2>2. Cardinality(Entering') <= Cardinality(Entering) /\ Cardinality(Entering') \in Nat
        /\ Cardinality(Entering) \in Nat
    BY <1>2, <2>1, JobsFinite
  <2>3. Cardinality(Entering') <= Producers BY <2>2, LimitsType DEF CapOK
  <2> QED BY <1>1, <1>2, <2>3, CapShrinks
<1>3. ASSUME queued' \subseteq queued,
             \A i \in Jobs : fate'[i] = fate[i] \/ fate'[i] \notin {"level checked", "admitted"}
      PROVE  CapOK'
  <2>1. Taken' \subseteq Taken /\ Entering' \subseteq Entering BY <1>3 DEF Taken, Entering
  <2> QED BY <1>2, <2>1
<1>4. ASSUME queued' \subseteq queued, NEW i \in Jobs, NEW f \in Fates \ {"level checked", "admitted"},
             fate' = [fate EXCEPT ![i] = f]
      PROVE  CapOK'
  <2>1. fate'[i] = f /\ \A k \in Jobs \ {i} : fate'[k] = fate[k] BY <1>1, <1>4 DEF TypeOK
  <2> QED BY <1>3, <1>4, <2>1
<1>5. ASSUME NEW r \in Rounds, Tick(r) \/ PopEmpty(r) \/ PopJob(r) \/ GetBody(r) PROVE CapOK'
  <2>1. queued' \subseteq queued /\ fate' = fate
    BY <1>5 DEF Tick, PopEmpty, PopJob, GetBody, Pop, redisVars
  <2> QED BY <1>3, <2>1
<1>6. ASSUME NEW r \in Rounds, GetNothing(r) \/ DeleteAndDispatch(r) \/ CommandFails(r) PROVE CapOK'
  <2>1. queued' \subseteq queued BY <1>6 DEF GetNothing, DeleteAndDispatch, CommandFails, Pop, DeleteBody, redisVars
  <2>2. CASE fate' = fate BY <1>3, <2>1, <2>2
  <2>3. CASE fate' # fate
    <3>1. PICK i \in Jobs, f \in {"cancelled", "dropped", "lost"} : fate' = [fate EXCEPT ![i] = f]
      <4>1. CASE GetNothing(r)
        <5>1. job[r] \in Jobs BY <1>1, <4>1 DEF GetNothing, OnePlace, Holding
        <5> QED BY <4>1, <5>1 DEF GetNothing
      <4>2. CASE DeleteAndDispatch(r)
        <5>1. job[r] \in Jobs BY <1>1, <4>2 DEF DeleteAndDispatch, OnePlace, Holding
        <5> QED BY <2>3, <4>2, <5>1 DEF DeleteAndDispatch
      <4>3. CASE CommandFails(r)
        <5>1. pc[r] # "pop" => job[r] \in Jobs
          BY <1>1, <4>3 DEF CommandFails, Waiting, OnePlace, Holding, TypeOK
        <5>2. Level(level[r]) # {} => Oldest(level[r]) \in Jobs BY <1>1, OldestInLevel
        <5> QED BY <2>3, <4>3, <5>1, <5>2 DEF CommandFails
      <4> QED BY <1>6, <4>1, <4>2, <4>3
    <3>2. f \in Fates \ {"level checked", "admitted"} BY DEF Fates
    <3> QED BY <1>4, <2>1, <3>1, <3>2
  <2> QED BY <2>2, <2>3
<1>7. ASSUME NEW j \in Jobs, Pool(j) PROVE CapOK'
  <2>1. queued' = queued /\ (fate' = fate \/ fate' = [fate EXCEPT ![j] = "finished"])
    BY <1>7 DEF Pool, Settle, TimeOut, redisVars
  <2>2. "finished" \in Fates \ {"level checked", "admitted"} BY DEF Fates
  <2> QED BY <1>3, <1>4, <2>1, <2>2
<1>8. ASSUME NEW j \in Jobs, Accept(j) PROVE CapOK'
  <2>1. fate[j] = "admitted" /\ queued' = queued \cup {j} /\ fate' = [fate EXCEPT ![j] = "accepted"]
    BY <1>8 DEF Accept, Store
  <2>2. fate'[j] = "accepted" /\ \A i \in Jobs \ {j} : fate'[i] = fate[i] BY <1>1, <2>1 DEF TypeOK
  <2>3. Taken' \subseteq Taken /\ Entering' \subseteq Entering BY <2>1, <2>2 DEF Taken, Entering
  <2> QED BY <1>2, <2>3
<1>9. ASSUME NEW j \in Jobs, EnqueueFails(j) PROVE CapOK'
  <2>1. "refused" \in Fates \ {"level checked", "admitted"} BY DEF Fates
  <2> QED BY <1>4, <1>9, <2>1 DEF EnqueueFails, redisVars
<1>10. CASE Admin
  <2>1. CASE RemoveVictim
    <3>1. queued' \subseteq queued /\ victim \in Jobs
          /\ (fate' = fate \/ fate' = [fate EXCEPT ![victim] = "cancelled"])
      BY <1>1, <2>1 DEF RemoveVictim, Remove, TypeOK
    <3>2. "cancelled" \in Fates \ {"level checked", "admitted"} BY DEF Fates
    <3> QED BY <1>3, <1>4, <3>1, <3>2
  <2>2. CASE ~RemoveVictim
    <3>1. queued' = queued /\ fate' = fate
      BY <1>10, <2>2 DEF Admin, Cancel, Resize, Rebalance, Stop, Start, redisVars
    <3> QED BY <1>3, <3>1
  <2> QED BY <2>1, <2>2
<1>11. CASE Crash
  <2>1. queued' = queued BY <1>11 DEF Crash, redisVars
  <2>2. ASSUME NEW i \in Jobs PROVE fate'[i] = fate[i] \/ fate'[i] \notin {"level checked", "admitted"}
    BY <1>11 DEF Crash
  <2> QED BY <1>3, <2>1, <2>2
<1>12. CASE UNCHANGED vars
  <2>1. queued' = queued /\ fate' = fate BY <1>12 DEF vars, redisVars
  <2> QED BY <1>3, <2>1
<1> QED BY <1>1, <1>5, <1>6, <1>7, <1>8, <1>9, <1>10, <1>11, <1>12, CheckLevelCap, CheckTotalCap
    DEF Next, Round, Producer

(***************************************************************************)
(* All limits.                                                             *)
(***************************************************************************)
LimitsInv == JobsInv /\ PoolOverfill /\ DebtBounded /\ CapOK

\* They hold of an empty queue.
LEMMA LimitsInit == Init => PoolOverfill /\ DebtBounded /\ CapOK
<1> SUFFICES ASSUME Init PROVE PoolOverfill /\ DebtBounded /\ CapOK
  OBVIOUS
<1>1. Waiting = {} /\ active = {} /\ deficits = [l \in Levels |-> 0] /\ Entering = {} /\ Taken = {}
  BY DEF Init, PoolInit, RedisInit, Waiting, Entering, Taken
<1>2. Cardinality({}) = 0 BY FS_EmptySet
<1>3. PoolOverfill BY <1>1, <1>2, LargestPool, RoundsFinite DEF PoolOverfill
<1>4. DebtBounded
  <2> SUFFICES ASSUME NEW l \in Levels
               PROVE  deficits[l] + Unit * Cardinality(Rounds) >= Unit * Cardinality(At(l))
    BY DEF DebtBounded, At
  <2>1. At(l) = {} BY <1>1 DEF At
  <2>2. Unit * Cardinality(Rounds) \in Nat /\ Unit * 0 = 0 BY RoundsFinite, SchedulerAssumption
  <2> QED BY <1>1, <1>2, <2>1, <2>2
<1>5. InLevels(Crowded) = {} BY <1>1 DEF InLevels
<1>6. CapOK BY <1>1, <1>2, <1>5, LimitsType DEF CapOK
<1> QED BY <1>3, <1>4, <1>6

\* scheduler.ts:66-93, worker-pool.ts:31-33, persistence.ts:36-55: the invariant
\* behind the limits' theorem holds in every state.
THEOREM LimitsCorrect == Spec => []LimitsInv
<1>1. Init => LimitsInv BY LimitsInit, JobsInit DEF LimitsInv
<1>2. LimitsInv /\ [Next]_vars => LimitsInv'
  BY JobsStep, OverfillStep, DebtStep, CapStep DEF LimitsInv
<1> QED BY <1>1, <1>2, PTL DEF Spec

\* scheduler.ts:66-93, worker-pool.ts:31-33, persistence.ts:36-55: with any number of
\* rounds and callers between a look at a limit and the command that uses it, the
\* pool is overfilled by less than the rounds that overlap, a level owes a job for
\* each of them at most, and the queue is overrun by the callers that overlap and
\* the shares of the levels.
THEOREM OverrunsAreBounded == Spec => []OverrunsBounded
<1>1. LimitsInv => OverrunsBounded BY CapBounds DEF LimitsInv, JobsInv, OverrunsBounded
<1> QED BY <1>1, LimitsCorrect, PTL
=============================================================================

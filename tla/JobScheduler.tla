---------------------------- MODULE JobScheduler ----------------------------
(***************************************************************************)
(* job-queue/scheduler.ts with the queue and the pool it works on, the     *)
(* callers of enqueue and the administrator of api/routes/                 *)
(* adminJobsRoutes.ts.  setInterval starts a round every tick, whether or  *)
(* not the last one still waits for Redis: rounds overlap.  A round runs   *)
(* from one await to the next in one step.  Deficits are counted in        *)
(* fractions of a job, Unit to the job (the code's are twentieths).        *)
(***************************************************************************)
EXTENDS JobPersistence, WorkerPool

CONSTANTS Rounds,          \* 1..n: n rounds may overlap
          Unit, Quantum,   \* what each level is credited with in a round
          Producers,       \* calls of enqueue that may overlap
          NoJob,
          MaxFaults        \* bound on failures, crashes and interventions

ASSUME SchedulerAssumption ==
  /\ Unit \in Nat \ {0} /\ Quantum \in [Levels -> Nat \ {0}]
  /\ Rounds = 1..Cardinality(Rounds) /\ IsFiniteSet(Rounds) /\ Rounds # {}
  /\ NoJob \notin Jobs /\ Producers \in Nat \ {0} /\ MaxFaults \in Nat

VARIABLES deficits,        \* of each level
          pc, level,       \* of each round: the command it waits for, and where
          job,             \* the job a round has popped
          on,              \* the interval is set
          victim,          \* the job an administrator is cancelling
          fate,            \* of each job
          faults

roundVars == <<deficits, pc, level, job>>
vars == <<redisVars, poolVars, roundVars, on, victim, fate, faults>>

Fates == {"new", "level checked", "admitted", "refused", "accepted",
          "cancelled", "dropped", "finished", "lost"}

Waiting == {r \in Rounds : pc[r] # "idle"}
InHand(j) == {r \in Rounds : pc[r] \in {"get", "delete"} /\ job[r] = j}

TypeOK ==
  /\ queued \subseteq Jobs /\ body \subseteq Jobs
  /\ active \subseteq Jobs /\ handlers \subseteq Jobs
  /\ activeCount \in [Types -> Nat] /\ poolSize \in 1..Max(PoolSizes)
  /\ deficits \in [Levels -> Int]
  /\ pc \in [Rounds -> {"idle", "pop", "get", "delete"}]
  /\ level \in [Rounds -> Levels]
  /\ job \in [Rounds -> Jobs \cup {NoJob}]
  /\ on \in BOOLEAN /\ victim \in Jobs \cup {NoJob}
  /\ fate \in [Jobs -> Fates] /\ faults \in 0..MaxFaults

Init ==
  /\ RedisInit /\ PoolInit
  /\ deficits = [l \in Levels |-> 0]
  /\ pc = [r \in Rounds |-> "idle"]
  /\ level = [r \in Rounds |-> 1]
  /\ job = [r \in Rounds |-> NoJob]
  /\ on = TRUE
  /\ victim = NoJob
  /\ fate = [j \in Jobs |-> "new"]
  /\ faults = 0

Fault == faults < MaxFaults /\ faults' = faults + 1

(***************************************************************************)
(* A round.                                                                *)
(***************************************************************************)
Afford == [l \in Levels |-> Unit * Cardinality({j \in Jobs : LevelOf[j] = l})]

\* Mutant: what a level did not use in a round is gone.
CreditFresh(d, done, l) ==
  [k \in Levels |-> IF done < k /\ k <= l THEN Quantum[k] ELSE d[k]]

\* The deficits when a round that had credited the levels up to done reaches
\* level l.  (A deficit that pays for every job of its level need not grow.)
Credit(d, done, l) ==
  [k \in Levels |-> IF done < k /\ k <= l
                    THEN Min({d[k] + Quantum[k], Afford[k]})
                    ELSE d[k]]

\* Mutant: a level is served as long as the pool has room.
FundedAnyhow(d, l, a) == HasCapacity(a)

\* The condition of the while loop.
Funded(d, l, a) == d[l] >= Unit /\ HasCapacity(a)

\* Round r runs on from level l to the next level, l or later, that may pop a
\* job; or to its end.  The levels up to done have had their credit.
RunOn(r, done, l, d, a) ==
  LET open == {m \in Levels : m >= l /\ Funded(Credit(d, done, m), m, a)}
  IN  IF open = {}
      THEN /\ pc' = [pc EXCEPT ![r] = "idle"]
           /\ level' = [level EXCEPT ![r] = 1]
           /\ deficits' = Credit(d, done, Cardinality(Levels))
      ELSE /\ pc' = [pc EXCEPT ![r] = "pop"]
           /\ level' = [level EXCEPT ![r] = Min(open)]
           /\ deficits' = Credit(d, done, Min(open))

\* A new round; it is known by the first number that is free.
Tick(r) ==
  /\ on /\ r \notin Waiting /\ \A q \in 1..r - 1 : q \in Waiting
  /\ RunOn(r, 0, 1, deficits, active)
  /\ UNCHANGED <<redisVars, poolVars, job, on, victim, fate, faults>>

\* The level is empty (or its job's body is gone): on to the next.
LeaveLevel(r) == RunOn(r, level[r], level[r] + 1, deficits, active)

PopEmpty(r) ==
  /\ pc[r] = "pop" /\ Level(level[r]) = {}
  /\ LeaveLevel(r)
  /\ UNCHANGED <<redisVars, poolVars, job, on, victim, fate, faults>>

PopJob(r) ==
  /\ pc[r] = "pop" /\ Level(level[r]) # {}
  /\ Pop(level[r])
  /\ pc' = [pc EXCEPT ![r] = "get"]
  /\ job' = [job EXCEPT ![r] = Oldest(level[r])]
  /\ UNCHANGED <<poolVars, deficits, level, on, victim, fate, faults>>

GetBody(r) ==
  /\ pc[r] = "get" /\ job[r] \in body
  /\ pc' = [pc EXCEPT ![r] = "delete"]
  /\ UNCHANGED <<redisVars, poolVars, deficits, level, job, on, victim, fate, faults>>

GetNothing(r) ==
  /\ pc[r] = "get" /\ job[r] \notin body
  /\ fate' = [fate EXCEPT ![job[r]] = "cancelled"]
  /\ job' = [job EXCEPT ![r] = NoJob]
  /\ LeaveLevel(r)
  /\ UNCHANGED <<redisVars, poolVars, on, victim, faults>>

\* The job is in hand: it is paid for and dispatched, or dropped when its type
\* is unknown or at its limit.  The round does not wait for it.
DeleteAndDispatch(r) ==
  LET j == job[r]
  IN  /\ pc[r] = "delete"
      /\ DeleteBody(j)
      /\ Dispatch(j)
      /\ fate' = IF Accepts(j) THEN fate ELSE [fate EXCEPT ![j] = "dropped"]
      /\ job' = [job EXCEPT ![r] = NoJob]
      /\ RunOn(r, level[r], level[r], [deficits EXCEPT ![level[r]] = @ - Unit], active')
      /\ UNCHANGED <<poolSize, on, victim, faults>>

\* A command is rejected: the round ends there, and a job it held is gone.
\* Redis may have executed the command all the same.
CommandFails(r) ==
  /\ r \in Waiting /\ Fault
  /\ \/ pc[r] = "pop" /\ UNCHANGED <<redisVars, fate>>
     \/ /\ pc[r] = "pop" /\ Level(level[r]) # {}
        /\ Pop(level[r])
        /\ fate' = [fate EXCEPT ![Oldest(level[r])] = "lost"]
     \/ /\ pc[r] # "pop"
        /\ fate' = [fate EXCEPT ![job[r]] = "lost"]
        /\ UNCHANGED redisVars \/ (pc[r] = "delete" /\ DeleteBody(job[r]))
  /\ pc' = [pc EXCEPT ![r] = "idle"]
  /\ level' = [level EXCEPT ![r] = 1]
  /\ job' = [job EXCEPT ![r] = NoJob]
  /\ UNCHANGED <<poolVars, deficits, on, victim>>

Round(r) == PopEmpty(r) \/ PopJob(r) \/ GetBody(r) \/ GetNothing(r) \/ DeleteAndDispatch(r)

(***************************************************************************)
(* The pool.                                                               *)
(***************************************************************************)
Settle(j) ==
  /\ j \in handlers
  /\ HandlerSettles(j)
  /\ fate' = IF j \in active THEN [fate EXCEPT ![j] = "finished"] ELSE fate
  /\ UNCHANGED <<redisVars, poolSize, roundVars, on, victim, faults>>

TimeOut(j) ==
  /\ j \in active
  /\ JobTimesOut(j)
  /\ fate' = [fate EXCEPT ![j] = "finished"]
  /\ UNCHANGED <<redisVars, poolSize, roundVars, on, victim, faults>>

(***************************************************************************)
(* Callers of enqueue.                                                     *)
(***************************************************************************)
Entering == {j \in Jobs : fate[j] \in {"level checked", "admitted"}}

\* Jobs are submitted in the order of their numbers.
CheckLevel(j) ==
  /\ fate[j] = "new" /\ \A i \in Jobs : fate[i] = "new" => j <= i
  /\ Cardinality(Entering) < Producers
  /\ fate' = [fate EXCEPT ![j] = IF LevelHasRoom(j) THEN "admitted" ELSE "level checked"]
  /\ UNCHANGED <<redisVars, poolVars, roundVars, on, victim, faults>>

CheckTotal(j) ==
  /\ fate[j] = "level checked"
  /\ fate' = [fate EXCEPT ![j] = IF RoomFor THEN "admitted" ELSE "refused"]
  /\ UNCHANGED <<redisVars, poolVars, roundVars, on, victim, faults>>

Accept(j) ==
  /\ fate[j] = "admitted"
  /\ Store(j)
  /\ fate' = [fate EXCEPT ![j] = "accepted"]
  /\ UNCHANGED <<poolVars, roundVars, on, victim, faults>>

EnqueueFails(j) ==
  /\ j \in Entering /\ Fault
  /\ fate' = [fate EXCEPT ![j] = "refused"]
  /\ UNCHANGED <<redisVars, poolVars, roundVars, on, victim>>

(***************************************************************************)
(* The administrator, and the process.                                     *)
(***************************************************************************)
\* The hget of remove(); the job may be popped, even dispatched, before its
\* MULTI.
Cancel(j) ==
  /\ victim = NoJob /\ j \in body
  /\ victim' = j
  /\ UNCHANGED <<redisVars, poolVars, roundVars, on, fate, faults>>

RemoveVictim ==
  /\ victim # NoJob
  /\ Remove(victim)
  /\ fate' = IF victim \in queued THEN [fate EXCEPT ![victim] = "cancelled"] ELSE fate
  /\ victim' = NoJob
  /\ UNCHANGED <<poolVars, roundVars, on, faults>>

\* The route and resize() both refuse to go below one.
Resize ==
  /\ Fault
  /\ \E n \in PoolSizes \ {poolSize} : ResizePool(n)
  /\ UNCHANGED <<redisVars, active, activeCount, handlers, roundVars, on, victim, fate>>

Rebalance ==
  /\ Fault
  /\ deficits' = [l \in Levels |-> 0]
  /\ UNCHANGED <<redisVars, poolVars, pc, level, job, on, victim, fate>>

\* stop(): rounds that have begun go on.
Stop ==
  /\ on /\ Fault
  /\ on' = FALSE
  /\ UNCHANGED <<redisVars, poolVars, roundVars, victim, fate>>

Start ==
  /\ ~on
  /\ on' = TRUE
  /\ UNCHANGED <<redisVars, poolVars, roundVars, victim, fate, faults>>

\* The process dies and starts anew; Redis keeps what it has.
Crash ==
  /\ Fault
  /\ fate' = [j \in Jobs |-> CASE j \in Entering -> "refused"
                               [] j \in active \/ InHand(j) # {} -> "lost"
                               [] OTHER -> fate[j]]
  /\ active' = {} /\ handlers' = {}
  /\ activeCount' = [t \in Types |-> 0]
  /\ poolSize' = DefaultSize
  /\ deficits' = [l \in Levels |-> 0]
  /\ pc' = [r \in Rounds |-> "idle"]
  /\ level' = [r \in Rounds |-> 1]
  /\ job' = [r \in Rounds |-> NoJob]
  /\ on' = TRUE /\ victim' = NoJob
  /\ UNCHANGED <<redisVars>>

Pool(j) == Settle(j) \/ TimeOut(j)
Producer(j) == CheckLevel(j) \/ CheckTotal(j) \/ Accept(j) \/ EnqueueFails(j)
Admin == (\E j \in Jobs : Cancel(j)) \/ RemoveVictim \/ Resize \/ Rebalance \/ Stop \/ Start

Next ==
  \/ \E r \in Rounds : Tick(r) \/ Round(r) \/ CommandFails(r)
  \/ \E j \in Jobs : Pool(j) \/ Producer(j)
  \/ Admin \/ Crash

Spec == Init /\ [][Next]_vars

\* The interval ticks, Redis answers each round, and timeouts fire.
Fairness ==
  /\ WF_vars(\E r \in Rounds : Tick(r))
  /\ \A r \in Rounds : WF_vars(Round(r))
  /\ WF_vars(\E j \in Jobs : TimeOut(j))
FairSpec == Spec /\ Fairness

(***************************************************************************)
(* Properties.                                                             *)
(***************************************************************************)
\* The counter behind the gate is the number of jobs of the type that hold a
\* slot, and never beyond the limit of the type: no way out of a job counts it
\* out twice or forgets it.
CountsAgree ==
  \A t \in Types :
    /\ activeCount[t] = Cardinality({j \in active : TypeOf[j] = t})
    /\ activeCount[t] > 0 => activeCount[t] <= MaxConcurrency[t]

\* Overlapping rounds check the pool before they wait for Redis: they overfill
\* it, but by no more than one job each beyond the first.
PoolOverfill ==
  Cardinality(active) + Cardinality(Waiting) < Max(PoolSizes) + Cardinality(Rounds)

\* No overlap, cancellation or restart dispatches a job again that had its slot,
\* or met another fate.
RunsOnce ==
  [][\A j \in Jobs : j \in active' \ active => fate[j] = "accepted" /\ j \notin handlers]_vars

\* An accepted job is in its queue with its body, in the hands of one round, or
\* holds a slot; a job that is none of these has met its fate.
Whereabouts ==
  [queue |-> queued, hand |-> {j \in Jobs : InHand(j) # {}}, slot |-> active]
Accounted ==
  \A j \in Jobs :
    /\ Cardinality(InHand(j)) <= 1
    /\ Cardinality({x \in DOMAIN Whereabouts : j \in Whereabouts[x]})
         = IF fate[j] = "accepted" THEN 1 ELSE 0
    /\ j \in queued => j \in body

\* The cap is approximate: a level below its share lets jobs in whatever the
\* others hold, and callers overlap at every limit; but it is a cap.
Overlap == Producers - 1
QueueBounded ==
  Cardinality(queued)
    <= MaxQueued + Overlap + (Cardinality(Levels) - 1) * (LevelShare + Overlap)

\* Rounds that overlap (or a rebalance) take a level into debt, but by no more
\* than one job each.
DebtBounded ==
  \A l \in Levels :
    deficits[l] + Unit * Cardinality(Rounds)
      >= Unit * Cardinality({r \in Waiting : level[r] = l})

\* scheduler.ts:41-93, persistence.ts:34-47, worker-pool.ts:31-33: every limit
\* is overrun when rounds and callers overlap, by the stated amount at most.
OverrunsBounded == TypeOK /\ PoolOverfill /\ QueueBounded /\ DebtBounded

\* While the scheduler runs, a job of the level that is served first leaves its
\* queue, however many are submitted; one of any level does when callers stop,
\* since what a level may not spend in one round it keeps for the next.  A lower
\* level is owed no more: under a load that goes on, see NoStarvation
\* (scheduler.ts:63-93).
FirstLevelServed == \A j \in Jobs : LevelOf[j] = 1 => (j \in queued ~> j \notin queued \/ ~on)
BacklogClears == <>[](Entering = {}) => []<>(queued = {} \/ ~on)
LevelsServed == FirstLevelServed /\ BacklogClears

\* What scheduler.ts:14-16 says: whatever else is submitted, a job of any level
\* leaves its queue while the scheduler runs.
NoStarvation == \A j \in Jobs : j \in queued ~> j \notin queued \/ ~on
=============================================================================

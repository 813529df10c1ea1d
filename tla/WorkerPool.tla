----------------------------- MODULE WorkerPool -----------------------------
(***************************************************************************)
(* job-queue/worker-pool.ts: the jobs that hold a slot, the counter of     *)
(* each job type, and the handlers, which a timeout does not stop.         *)
(* A failed job is counted out like a finished one: fireOnComplete ignores *)
(* the retry it is handed.                                                 *)
(***************************************************************************)
EXTENDS QueuedJobs

CONSTANTS MaxConcurrency,  \* of each type in the registry
          DefaultSize,     \* DEFAULT_WORKER_POOL_SIZE
          PoolSizes        \* sizes the pool may have

ASSUME PoolAssumption ==
  /\ \A j \in Jobs : TypeOf[j] \in DOMAIN MaxConcurrency => MaxConcurrency[TypeOf[j]] \in Nat
  /\ PoolSizes \subseteq Nat /\ IsFiniteSet(PoolSizes) /\ DefaultSize \in PoolSizes /\ DefaultSize > 0

VARIABLES active,          \* jobs in the map
          activeCount,     \* activeCountByType; 0 for a type that has no entry
          handlers,        \* jobs whose handler has not settled
          poolSize

poolVars == <<active, activeCount, handlers, poolSize>>

PoolInit ==
  /\ active = {} /\ handlers = {}
  /\ activeCount = [t \in Types |-> 0]
  /\ poolSize = DefaultSize

\* Mutant: any size will do.
ResizeAnyhow(n) == poolSize' = n

\* At least one worker remains.
ResizePool(n) == poolSize' = Max({1, n})

\* Mutant: one slot too many.
HasCapacityInclusive(a) == Cardinality(a) <= poolSize

HasCapacity(a) == Cardinality(a) < poolSize

Registered(j) == TypeOf[j] \in DOMAIN MaxConcurrency
Accepts(j) == Registered(j) /\ activeCount[TypeOf[j]] < MaxConcurrency[TypeOf[j]]

\* Mutant: the counter goes up before the gate.
DispatchCountsFirst(j) ==
  /\ active' = IF Accepts(j) THEN active \cup {j} ELSE active
  /\ handlers' = IF Accepts(j) THEN handlers \cup {j} ELSE handlers
  /\ activeCount' = [activeCount EXCEPT ![TypeOf[j]] = @ + 1]

\* dispatch up to the call of the handler; a job it throws for takes no slot.
Dispatch(j) ==
  IF Accepts(j)
  THEN /\ active' = active \cup {j}
       /\ handlers' = handlers \cup {j}
       /\ activeCount' = [activeCount EXCEPT ![TypeOf[j]] = @ + 1]
  ELSE UNCHANGED <<active, handlers, activeCount>>

\* The finally block.
FreeSlot(j) ==
  /\ active' = active \ {j}
  /\ activeCount' = [activeCount EXCEPT ![TypeOf[j]] = @ - 1]

\* Mutant: a handler that outlived its timeout frees a slot again.
HandlerSettlesTwice(j) == handlers' = handlers \ {j} /\ FreeSlot(j)

\* The handler of j settles: in time, or after its timeout.
HandlerSettles(j) ==
  /\ handlers' = handlers \ {j}
  /\ IF j \in active THEN FreeSlot(j) ELSE UNCHANGED <<active, activeCount>>

\* setTimeout wins the race.
JobTimesOut(j) == FreeSlot(j) /\ UNCHANGED handlers
=============================================================================

--------------------------- MODULE JobPersistence ---------------------------
(***************************************************************************)
(* The Redis side of job-queue/persistence.ts: a sorted set of job ids for *)
(* each priority level and one hash of the jobs' bodies.  Each operator is *)
(* one command (or one MULTI); what happens between two commands of a      *)
(* method is up to the module that composes them.                          *)
(***************************************************************************)
EXTENDS QueuedJobs

CONSTANTS MaxQueued,       \* MAX_QUEUED_JOBS
          LevelShare       \* MAX_QUEUED_JOBS / 5

ASSUME PersistenceAssumption ==
  MaxQueued \in Nat /\ LevelShare \in Nat /\ LevelShare <= MaxQueued

VARIABLES queued,          \* members of the sorted sets
          body             \* fields of jobq:jobs

redisVars == <<queued, body>>

RedisInit == queued = {} /\ body = {}

Level(l) == {j \in queued : LevelOf[j] = l}

\* Mutant: lets one job too many in.
RoomForInclusive == Cardinality(queued) <= MaxQueued

\* enqueue's two looks at the queue: the job's own level; only when that holds
\* its share, everything.
LevelHasRoom(j) == Cardinality(Level(LevelOf[j])) < LevelShare
RoomFor == Cardinality(queued) < MaxQueued

\* MULTI hset zadd EXEC.
Store(j) == queued' = queued \cup {j} /\ body' = body \cup {j}

\* Mutant: zrange in place of zpopmin.
PopPeeks(l) == UNCHANGED redisVars

\* zpopmin of a level that is not empty.
Oldest(l) == Min(Level(l))
Pop(l) == queued' = queued \ {Oldest(l)} /\ UNCHANGED body

\* hdel of a job that was popped.
DeleteBody(j) == body' = body \ {j} /\ UNCHANGED queued

\* Mutant: the body only.
RemoveForgetsLevel(j) == DeleteBody(j)

\* remove: MULTI zrem hdel EXEC, of a job whose body was found.
Remove(j) == queued' = queued \ {j} /\ body' = body \ {j}
=============================================================================

--------------------------- MODULE MCJobScheduler ---------------------------
(***************************************************************************)
(* Instances of JobScheduler: two levels, the first of which is paid for a *)
(* job a round and the second for half of one; the last two jobs are of    *)
(* one type, which runs one job at a time.                                 *)
(***************************************************************************)
EXTENDS JobScheduler

CONSTANT Recurring         \* jobs that callers submit again and again

JobLevels == [j \in Jobs |-> IF j = Max(Jobs) THEN 2 ELSE 1]
JobTypes == [j \in Jobs |-> IF j = 1 THEN "minting" ELSE "deposit"]
Limits == [t \in {"minting", "deposit"} |-> 1]
Quanta == [l \in Levels |-> IF l = 1 THEN 2 ELSE 1]

\* Callers that do not stop: a job that has met its fate is followed by another
\* of its level and type, under the same number.
\* (A level of these instances lets one job in: the numbers need not grow.)
Resubmit(j) ==
  /\ fate[j] \in {"refused", "cancelled", "dropped", "finished", "lost"}
  /\ j \notin handlers \cup body /\ j # victim
  /\ fate' = [fate EXCEPT ![j] = "new"]
  /\ UNCHANGED <<redisVars, poolVars, roundVars, on, victim, faults>>
SustainedSpec == Init /\ [][Next \/ \E j \in Recurring : Resubmit(j)]_vars /\ Fairness
=============================================================================

----------------------------- MODULE QueuedJobs -----------------------------
(***************************************************************************)
(* What job-queue/types.ts says of a job: its id, priority and type.  A    *)
(* job is the number of its submission, which is its score in the queue.   *)
(***************************************************************************)
EXTENDS Integers, FiniteSetsExt

CONSTANTS Jobs,            \* bound on submissions in a behaviour
          Levels,          \* 1 is served first: the code's priority 5
          LevelOf, TypeOf  \* of each job

ASSUME JobsAssumption ==
  /\ Jobs \subseteq Nat /\ IsFiniteSet(Jobs)
  /\ Levels = 1..Cardinality(Levels) /\ IsFiniteSet(Levels) /\ Levels # {}
  /\ LevelOf \in [Jobs -> Levels]

Types == {TypeOf[j] : j \in Jobs}
=============================================================================

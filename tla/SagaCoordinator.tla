-------------------------- MODULE SagaCoordinator ---------------------------
(***************************************************************************)
(* The saga orchestrator (settlement/saga-coordinator.ts) with its         *)
(* compensation handler (settlement/compensation-handler.ts) and its log   *)
(* (database/saga_log.ts), in one server process that may restart.  A run  *)
(* is one execute() of a saga, first or retried; each await is a step.     *)
(* What the steps do is a matter of their definition; here a step's action *)
(* has an effect that its compensation takes back.                         *)
(***************************************************************************)
EXTENDS Naturals, FiniteSets

CONSTANTS Sagas,
          Tenants,
          TenantOf,        \* the tenant each saga is run for
          Depth,           \* number of steps of the definition
          Runs,            \* bound on executions and retries in a behaviour
          Cap,             \* maxConcurrentPerTenant
          Retries,         \* attempts of a compensation
          FaultKinds,      \* kinds of failure considered, of AllFaults
          MaxFaults,       \* bound on failures in a behaviour
          NoSaga

AllFaults == {"database", "crash", "orphan", "stepTimeout", "sagaTimeout"}

ASSUME SagaAssumption ==
  /\ TenantOf \in [Sagas -> Tenants]
  /\ Depth \in Nat \ {0} /\ Cap \in Nat /\ Retries \in Nat \ {0}
  /\ FaultKinds \subseteq AllFaults /\ MaxFaults \in Nat
  /\ NoSaga \notin Sagas /\ IsFiniteSet(Runs)

Steps == 1..Depth

VARIABLES status,          \* saga_executions.status
          saved,           \* saga_executions.context: the steps whose results it has
          last,            \* status of each step's latest saga_log record
          effect,          \* is the step's forward action in effect?
          late,            \* calls of timed-out or orphaned actions under way
          pc, saga,        \* where each run is, and its saga
          step,            \* the step it is at
          ctx,             \* the steps whose results its context has
          done,            \* its `completed` list
          attempt,         \* attempts made at the compensation of `step`
          clean,           \* every compensation so far succeeded
          active,          \* running sagas of each tenant
          faults

logVars == <<status, saved, last>>
runVars == <<pc, saga, step, ctx, done, attempt, clean>>
vars == <<logVars, effect, late, runVars, active, faults>>

SagaStatus == {"none", "pending", "executing", "completed", "compensating",
               "compensated", "failed"}
StepStatus == {"none", "started", "completed", "failed", "compensating",
               "compensated", "compensation_failed"}
Ended == {"returned", "threw"}
Running == {"create", "begin", "step", "start", "act", "acted", "refused",
            "fail", "next", "undo", "undone", "stuck"}

TypeOK ==
  /\ status \in [Sagas -> SagaStatus]
  /\ saved \in [Sagas -> SUBSET Steps]
  /\ last \in [Sagas -> [Steps -> StepStatus]]
  /\ effect \in [Sagas -> [Steps -> BOOLEAN]]
  /\ late \subseteq Sagas \X Steps \X BOOLEAN
  /\ pc \in [Runs -> {"new", "read"} \cup Running \cup Ended]
  /\ saga \in [Runs -> Sagas \cup {NoSaga}]
  /\ step \in [Runs -> 1..Depth + 1]
  /\ ctx \in [Runs -> SUBSET Steps]
  /\ done \in [Runs -> SUBSET Steps]
  /\ attempt \in [Runs -> 0..Retries]
  /\ clean \in [Runs -> BOOLEAN]
  /\ active \in [Tenants -> Nat]
  /\ faults \in 0..MaxFaults

Init ==
  /\ status = [s \in Sagas |-> "none"]
  /\ saved = [s \in Sagas |-> {}]
  /\ last = [s \in Sagas |-> [i \in Steps |-> "none"]]
  /\ effect = [s \in Sagas |-> [i \in Steps |-> FALSE]]
  /\ late = {}
  /\ pc = [r \in Runs |-> "new"]
  /\ saga = [r \in Runs |-> NoSaga]
  /\ step = [r \in Runs |-> 1]
  /\ ctx = [r \in Runs |-> {}]
  /\ done = [r \in Runs |-> {}]
  /\ attempt = [r \in Runs |-> 0]
  /\ clean = [r \in Runs |-> TRUE]
  /\ active = [t \in Tenants |-> 0]
  /\ faults = 0

Fault(kind) ==
  /\ kind \in FaultKinds /\ faults < MaxFaults
  /\ faults' = faults + 1

Goto(r, place) == pc' = [pc EXCEPT ![r] = place]

\* updateSagaStatus: the status, and the run's context with it.
SetStatus(r, s) ==
  /\ status' = [status EXCEPT ![saga[r]] = s]
  /\ saved' = [saved EXCEPT ![saga[r]] = ctx[r]]
Record(r, s) == last' = [last EXCEPT ![saga[r]][step[r]] = s]
SetEffect(s, i, b) == effect' = [effect EXCEPT ![s][i] = b]

\* releaseSlot, in the finally of execute().
ReleaseSlot(r) ==
  active' = [active EXCEPT ![TenantOf[saga[r]]] = IF @ = 0 THEN 0 ELSE @ - 1]

(***************************************************************************)
(* Plausible bugs: mutated forms of definitions below.                     *)
(***************************************************************************)
\* Any record at all of the step counts as its completion.
CheckStepAnyRecord(r) ==
  /\ pc[r] = "step" /\ step[r] \in Steps
  /\ IF last[saga[r]][step[r]] # "none"
     THEN /\ done' = [done EXCEPT ![r] = @ \cup {step[r]}]
          /\ step' = [step EXCEPT ![r] = @ + 1]
          /\ UNCHANGED pc
     ELSE /\ Goto(r, "start")
          /\ UNCHANGED <<done, step>>
  /\ UNCHANGED <<logVars, effect, late, saga, ctx, attempt, clean, active, faults>>

\* Compensation in forward order.
FirstDone(r, i) == i \in done[r] /\ \A j \in done[r] : i <= j

\* No break after a failed step.
RecordFailedGoesOn(r) ==
  /\ pc[r] = "refused"
  /\ Record(r, "failed")
  /\ step' = [step EXCEPT ![r] = @ + 1]
  /\ Goto(r, "step")
  /\ UNCHANGED <<status, saved, effect, late, saga, ctx, done, attempt, clean, active, faults>>

\* No bound on the attempts.
NextAttemptForever(r) ==
  /\ attempt' = [attempt EXCEPT ![r] = IF @ < Retries THEN @ + 1 ELSE 1]
  /\ Goto(r, "undo")

\* The slot is released by a return only, not in a finally.
DatabaseErrorKeepsSlot(r) ==
  /\ pc[r] \in Running \ {"act", "undo", "undone"}
  /\ Goto(r, "threw") /\ Fault("database")
  /\ UNCHANGED <<logVars, effect, late, saga, ctx, step, done, attempt, clean, active>>

(***************************************************************************)
(* execute() and retry().                                                  *)
(***************************************************************************)
AcquireSlot(s) ==
  /\ active[TenantOf[s]] < Cap
  /\ active' = [active EXCEPT ![TenantOf[s]] = @ + 1]

\* A first execution has an id of its own; at the cap it throws at once.
Execute(r, s) ==
  /\ pc[r] = "new"
  /\ status[s] = "none" /\ \A q \in Runs : saga[q] # s
  /\ AcquireSlot(s)
  /\ saga' = [saga EXCEPT ![r] = s]
  /\ Goto(r, "create")
  /\ UNCHANGED <<logVars, effect, late, step, ctx, done, attempt, clean, faults>>

\* retry() reads the row of any saga not completed, and does not ask whether
\* another run of it is under way.
RetryReads(r, s) ==
  /\ pc[r] = "new"
  /\ status[s] \notin {"none", "completed"}
  /\ saga' = [saga EXCEPT ![r] = s]
  /\ ctx' = [ctx EXCEPT ![r] = saved[s]]
  /\ Goto(r, "read")
  /\ UNCHANGED <<logVars, effect, late, step, done, attempt, clean, active, faults>>

\* The step log has been read too (and not used): execute() with the old row.
RetryStarts(r) ==
  /\ pc[r] = "read"
  /\ AcquireSlot(saga[r])
  /\ Goto(r, "create")
  /\ UNCHANGED <<logVars, effect, late, saga, step, ctx, done, attempt, clean, faults>>

RetryRefused(r) ==
  /\ pc[r] = "read"
  /\ active[TenantOf[saga[r]]] >= Cap
  /\ Goto(r, "threw")
  /\ UNCHANGED <<logVars, effect, late, saga, step, ctx, done, attempt, clean, active, faults>>

\* INSERT ... ON CONFLICT DO NOTHING.
CreateSaga(r) ==
  /\ pc[r] = "create"
  /\ status' = [status EXCEPT ![saga[r]] = IF @ = "none" THEN "pending" ELSE @]
  /\ Goto(r, "begin")
  /\ UNCHANGED <<saved, last, effect, late, saga, step, ctx, done, attempt, clean, active, faults>>

BeginRun(r) ==
  /\ pc[r] = "begin"
  /\ SetStatus(r, "executing")
  /\ Goto(r, "step")
  /\ UNCHANGED <<last, effect, late, saga, step, ctx, done, attempt, clean, active, faults>>

(***************************************************************************)
(* The loop of run().                                                      *)
(***************************************************************************)
\* The whole-saga deadline has passed: no log is read, no step recorded.
SagaTimesOut(r) ==
  /\ pc[r] = "step" /\ step[r] \in Steps
  /\ Goto(r, "fail") /\ Fault("sagaTimeout")
  /\ UNCHANGED <<logVars, effect, late, saga, ctx, step, done, attempt, clean, active>>

\* isStepCompleted: skip the step, or go on to do it.
CheckStep(r) ==
  /\ pc[r] = "step" /\ step[r] \in Steps
  /\ \/ /\ last[saga[r]][step[r]] = "completed"
        /\ done' = [done EXCEPT ![r] = @ \cup {step[r]}]
        /\ step' = [step EXCEPT ![r] = @ + 1]
        /\ UNCHANGED pc
     \/ /\ last[saga[r]][step[r]] # "completed"
        /\ Goto(r, "start")
        /\ UNCHANGED <<done, step>>
  /\ UNCHANGED <<logVars, effect, late, saga, ctx, attempt, clean, active, faults>>

RecordStarted(r) ==
  /\ pc[r] = "start"
  /\ Record(r, "started")
  /\ Goto(r, "act")
  /\ UNCHANGED <<status, saved, effect, late, saga, step, ctx, done, attempt, clean, active, faults>>

ActionOk(r) ==
  /\ pc[r] = "act"
  /\ SetEffect(saga[r], step[r], TRUE)
  /\ Goto(r, "acted")
  /\ UNCHANGED <<logVars, late, saga, ctx, step, done, attempt, clean, active, faults>>

ActionErr(r) ==
  /\ pc[r] = "act"
  /\ Goto(r, "refused")
  /\ UNCHANGED <<logVars, effect, late, saga, ctx, step, done, attempt, clean, active, faults>>

\* withTimeout gives up on the action, which goes on without it.
ActionTimesOut(r) ==
  /\ pc[r] = "act"
  /\ late' = late \cup {<<saga[r], step[r], TRUE>>}
  /\ Goto(r, "refused") /\ Fault("stepTimeout")
  /\ UNCHANGED <<logVars, effect, saga, ctx, step, done, attempt, clean, active>>

\* The result is in the context before it is in the log.
RecordCompleted(r) ==
  /\ pc[r] = "acted"
  /\ Record(r, "completed")
  /\ ctx' = [ctx EXCEPT ![r] = @ \cup {step[r]}]
  /\ done' = [done EXCEPT ![r] = @ \cup {step[r]}]
  /\ step' = [step EXCEPT ![r] = @ + 1]
  /\ Goto(r, "step")
  /\ UNCHANGED <<status, saved, effect, late, saga, attempt, clean, active, faults>>

RecordFailed(r) ==
  /\ pc[r] = "refused"
  /\ Record(r, "failed")
  /\ Goto(r, "fail")
  /\ UNCHANGED <<status, saved, effect, late, saga, step, ctx, done, attempt, clean, active, faults>>

Complete(r) ==
  /\ pc[r] = "step" /\ step[r] > Depth
  /\ SetStatus(r, "completed")
  /\ ReleaseSlot(r)
  /\ Goto(r, "returned")
  /\ UNCHANGED <<last, effect, late, saga, step, ctx, done, attempt, clean, faults>>

(***************************************************************************)
(* Compensation, last completed step first.                                *)
(***************************************************************************)
BeginCompensation(r) ==
  /\ pc[r] = "fail"
  /\ SetStatus(r, "compensating")
  /\ Goto(r, "next")
  /\ UNCHANGED <<last, effect, late, saga, step, ctx, done, attempt, clean, active, faults>>

LastDone(r, i) == i \in done[r] /\ \A j \in done[r] : j <= i

CompensateNext(r) == \E i \in Steps :
  /\ pc[r] = "next" /\ LastDone(r, i)
  /\ step' = [step EXCEPT ![r] = i]
  /\ last' = [last EXCEPT ![saga[r]][i] = "compensating"]
  /\ done' = [done EXCEPT ![r] = @ \ {i}]
  /\ attempt' = [attempt EXCEPT ![r] = 1]
  /\ Goto(r, "undo")
  /\ UNCHANGED <<status, saved, effect, late, saga, ctx, clean, active, faults>>

CompensateOk(r) ==
  /\ pc[r] = "undo"
  /\ SetEffect(saga[r], step[r], FALSE)
  /\ Goto(r, "undone")
  /\ UNCHANGED <<logVars, late, saga, ctx, step, done, attempt, clean, active, faults>>

\* An attempt has failed: another one, or the end of them.
NextAttempt(r) ==
  IF attempt[r] < Retries
  THEN /\ attempt' = [attempt EXCEPT ![r] = @ + 1]
       /\ Goto(r, "undo")
  ELSE /\ Goto(r, "stuck")
       /\ UNCHANGED attempt

CompensateErr(r) ==
  /\ pc[r] = "undo"
  /\ NextAttempt(r)
  /\ UNCHANGED <<logVars, effect, late, saga, ctx, step, done, clean, active, faults>>

CompensateTimesOut(r) ==
  /\ pc[r] = "undo"
  /\ late' = late \cup {<<saga[r], step[r], FALSE>>}
  /\ NextAttempt(r) /\ Fault("stepTimeout")
  /\ UNCHANGED <<logVars, effect, saga, ctx, step, done, clean, active>>

RecordCompensated(r) ==
  /\ pc[r] = "undone"
  /\ Record(r, "compensated")
  /\ Goto(r, "next")
  /\ UNCHANGED <<status, saved, effect, late, saga, step, ctx, done, attempt, clean, active, faults>>

\* The record is written inside the try: its failure is a failed attempt.
RecordCompensatedFails(r) ==
  /\ pc[r] = "undone"
  /\ NextAttempt(r) /\ Fault("database")
  /\ UNCHANGED <<logVars, effect, late, saga, ctx, step, done, clean, active>>

RecordCompensationFailed(r) ==
  /\ pc[r] = "stuck"
  /\ Record(r, "compensation_failed")
  /\ clean' = [clean EXCEPT ![r] = FALSE]
  /\ Goto(r, "next")
  /\ UNCHANGED <<status, saved, effect, late, saga, step, ctx, done, attempt, active, faults>>

Close(r) ==
  /\ pc[r] = "next" /\ done[r] = {}
  /\ SetStatus(r, IF clean[r] THEN "compensated" ELSE "failed")
  /\ ReleaseSlot(r)
  /\ Goto(r, "returned")
  /\ UNCHANGED <<last, effect, late, saga, step, ctx, done, attempt, clean, faults>>

(***************************************************************************)
(* Failures.                                                               *)
(***************************************************************************)
\* A statement outside every try fails: execute() throws through its finally.
DatabaseError(r) ==
  /\ pc[r] \in Running \ {"act", "undo", "undone"}
  /\ ReleaseSlot(r)
  /\ Goto(r, "threw") /\ Fault("database")
  /\ UNCHANGED <<logVars, effect, late, saga, ctx, step, done, attempt, clean>>

\* The process dies; a call its step made may still be carried out.
Crash ==
  /\ \E r \in Runs : pc[r] \in Running
  /\ \E calling \in SUBSET {r \in Runs : pc[r] \in {"act", "undo"}} :
       /\ calling # {} => "orphan" \in FaultKinds
       /\ late' = late \cup {<<saga[r], step[r], pc[r] = "act">> : r \in calling}
  /\ pc' = [r \in Runs |-> IF pc[r] \in Running \cup {"read"} THEN "threw" ELSE pc[r]]
  /\ active' = [t \in Tenants |-> 0]
  /\ Fault("crash")
  /\ UNCHANGED <<logVars, effect, saga, ctx, step, done, attempt, clean>>

\* A call nobody waits for any longer is carried out.
LateEffect(s, i, b) ==
  /\ <<s, i, b>> \in late
  /\ late' = late \ {<<s, i, b>>}
  /\ SetEffect(s, i, b)
  /\ UNCHANGED <<logVars, runVars, active, faults>>

Run(r) ==
  \/ RetryStarts(r) \/ RetryRefused(r) \/ CreateSaga(r) \/ BeginRun(r) \/ SagaTimesOut(r) \/ CheckStep(r)
  \/ RecordStarted(r) \/ ActionOk(r) \/ ActionErr(r) \/ ActionTimesOut(r)
  \/ RecordCompleted(r) \/ RecordFailed(r) \/ Complete(r)
  \/ BeginCompensation(r) \/ CompensateNext(r) \/ CompensateOk(r)
  \/ CompensateErr(r) \/ CompensateTimesOut(r) \/ RecordCompensated(r)
  \/ RecordCompensatedFails(r) \/ RecordCompensationFailed(r) \/ Close(r)
  \/ DatabaseError(r)

Next ==
  \/ \E r \in Runs : Run(r) \/ \E s \in Sagas : Execute(r, s) \/ RetryReads(r, s)
  \/ \E s \in Sagas, i \in Steps, b \in BOOLEAN : LateEffect(s, i, b)
  \/ Crash

Spec == Init /\ [][Next]_vars

\* The awaits of a run that has started come back.
FairSpec == Spec /\ \A r \in Runs : WF_vars(Run(r))

(***************************************************************************)
(* Properties.                                                             *)
(***************************************************************************)
\* What disturbs a saga: two runs of it at a time, a compensation that is given
\* up and carried out later, and a deadline that ends a run before it has looked
\* at every step that is recorded as completed.
OneRunPerSaga ==
  \A q, r \in Runs : pc[q] \in Running /\ pc[r] \in Running /\ saga[q] = saga[r] => q = r
NoLateUndo == \A s \in Sagas, i \in Steps : <<s, i, FALSE>> \notin late
Calm == OneRunPerSaga /\ NoLateUndo
NothingOverlooked ==
  \A r \in Runs : pc[r] = "fail" => \A i \in Steps : last[saga[r]][i] = "completed" => i \in done[r]

CompletedInEffect ==
  \A s \in Sagas : status[s] = "completed" =>
    \A i \in Steps : last[s][i] = "completed" /\ effect[s][i]

CompletedIsPrefix ==
  \A s \in Sagas, i \in Steps : last[s][i] = "completed" =>
    \A j \in 1..i : last[s][j] = "completed"

\* A step's action is called only when every step before it is recorded as
\* completed and in effect.
ActsInOrder ==
  \A r \in Runs : pc[r] = "act" =>
    \A j \in 1..step[r] - 1 : last[saga[r]][j] = "completed" /\ effect[saga[r]][j]

\* A completed saga has the effect of every one of its steps, whatever was
\* skipped on the word of the log, executed again or undone on the way, timed out
\* or was lost, and each action had those before it to build on; unless two runs
\* of the saga overlapped or a compensation came late
\* (saga-coordinator.ts:157-225, compensation-handler.ts:37-77).
EffectsKept == []Calm => [](CompletedInEffect /\ ActsInOrder)

\* The log never shows a step completed after one that is not: compensation
\* goes backwards, and a retry resumes where an earlier attempt stopped, even
\* one that stopped half-way through its compensation; unless, besides, a
\* deadline made a run overlook what earlier ones had completed
\* (saga-coordinator.ts:169-216, compensation-handler.ts:42-49).
OrderKept == []Calm /\ []NothingOverlooked => []CompletedIsPrefix

\* The counter behind the per-tenant cap is the number of the tenant's running
\* sagas, through every error path, and never above the cap.
SlotsMatchRuns ==
  \A t \in Tenants :
    /\ active[t] = Cardinality({r \in Runs : pc[r] \in Running /\ TenantOf[saga[r]] = t})
    /\ active[t] <= Cap

\* A run that took a slot comes to an end, by way of compensation if it must.
EveryRunEnds == \A r \in Runs : (pc[r] = "create") ~> (pc[r] \in Ended)
=============================================================================

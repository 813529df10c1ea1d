------------------------ MODULE SagaCoordinator_proofs ----------------------
(***************************************************************************)
(* What SagaCoordinator guarantees for any number of sagas, tenants, steps *)
(* and failures, and for any finite number of runs: the slots behind the   *)
(* per-tenant cap are neither leaked nor given back twice, and the log is  *)
(* true to the effects while the runs of a saga do not overlap.            *)
(***************************************************************************)
EXTENDS SagaCoordinator, FiniteSetTheorems, TLAPS

(***************************************************************************)
(* Type correctness.                                                       *)
(***************************************************************************)
\* A run that has begun has a saga; one that works on a step has a step.
SagaKnown == \A r \in Runs : pc[r] # "new" => saga[r] \in Sagas
AtStep == {"start", "act", "acted", "refused", "undo", "undone", "stuck"}
StepKnown == \A r \in Runs : pc[r] \in AtStep => step[r] \in Steps

TypeInv == TypeOK /\ SagaKnown /\ StepKnown

\* An attempt that failed is followed by another one, or by none.
LEMMA NextAttemptType ==
  ASSUME NEW r \in Runs, TypeOK, NextAttempt(r)
  PROVE  /\ attempt' \in [Runs -> 0..Retries]
         /\ \E p \in {"undo", "stuck"} : pc' = [pc EXCEPT ![r] = p]
<1>1. CASE attempt[r] < Retries
  <2>1. pc' = [pc EXCEPT ![r] = "undo"] BY <1>1 DEF NextAttempt, Goto
  <2>2. attempt[r] + 1 \in 0..Retries BY <1>1, SagaAssumption DEF TypeOK
  <2>3. attempt' \in [Runs -> 0..Retries] BY <1>1, <2>2 DEF NextAttempt, TypeOK
  <2> QED BY <2>1, <2>3
<1>2. CASE ~(attempt[r] < Retries)
  <2>1. pc' = [pc EXCEPT ![r] = "stuck"] BY <1>2 DEF NextAttempt, Goto
  <2>2. attempt' \in [Runs -> 0..Retries] BY <1>2 DEF NextAttempt, TypeOK
  <2> QED BY <2>1, <2>2
<1> QED BY <1>1, <1>2

\* The failures stay within their bound.
LEMMA FaultType ==
  ASSUME NEW kind, TypeOK, Fault(kind)
  PROVE  faults' \in 0..MaxFaults
BY SagaAssumption DEF TypeOK, Fault

\* The step of a run that has begun keeps the types.
LEMMA RunTypeInv ==
  ASSUME NEW r \in Runs, TypeInv, Run(r)
  PROVE  TypeInv'
<1> USE SagaAssumption
    DEF TypeInv, SagaKnown, StepKnown, AtStep, TypeOK, SagaStatus, StepStatus, Running, Ended,
        Steps, logVars, Goto
<1>1. CASE RetryStarts(r) BY <1>1 DEF RetryStarts, AcquireSlot
<1>2. CASE RetryRefused(r) BY <1>2 DEF RetryRefused
<1>3. CASE CreateSaga(r) BY <1>3 DEF CreateSaga
<1>4. CASE BeginRun(r) BY <1>4 DEF BeginRun, SetStatus
<1>5. CASE SagaTimesOut(r) BY <1>5, FaultType DEF SagaTimesOut
<1>6. CASE CheckStep(r)
  <2>1. CASE last[saga[r]][step[r]] = "completed"
    <3>1. step[r] + 1 \in 1..Depth + 1 BY <1>6 DEF CheckStep
    <3>2. /\ done' = [done EXCEPT ![r] = @ \cup {step[r]}]
          /\ step' = [step EXCEPT ![r] = @ + 1]
          /\ pc' = pc /\ pc[r] = "step"
      BY <1>6, <2>1 DEF CheckStep
    <3>3. TypeOK' BY <1>6, <3>1, <3>2 DEF CheckStep
    <3>4. SagaKnown' BY <1>6, <3>2 DEF CheckStep
    <3>5. StepKnown' BY <1>6, <3>2 DEF CheckStep
    <3> QED BY <3>3, <3>4, <3>5
  <2>2. CASE last[saga[r]][step[r]] # "completed" BY <1>6, <2>2 DEF CheckStep
  <2> QED BY <2>1, <2>2
<1>7. CASE RecordStarted(r)
  <2>7. TypeOK' BY <1>7, SMTT(60) DEF RecordStarted, Record
  <2>8. SagaKnown' BY <1>7, SMTT(60) DEF RecordStarted, Record
  <2>9. StepKnown' BY <1>7, SMTT(60) DEF RecordStarted, Record
  <2> QED BY <2>7, <2>8, <2>9
<1>8. CASE ActionOk(r) BY <1>8 DEF ActionOk, SetEffect
<1>9. CASE ActionErr(r) BY <1>9 DEF ActionErr
<1>10. CASE ActionTimesOut(r)
  <2>1. faults' \in 0..MaxFaults BY <1>10, FaultType DEF ActionTimesOut
  <2>2. <<saga[r], step[r], TRUE>> \in Sagas \X Steps \X BOOLEAN BY <1>10 DEF ActionTimesOut
  <2>3. late' \subseteq Sagas \X Steps \X BOOLEAN BY <1>10, <2>2 DEF ActionTimesOut
  <2> QED BY <1>10, <2>1, <2>3 DEF ActionTimesOut
<1>11. CASE RecordCompleted(r) BY <1>11 DEF RecordCompleted, Record
<1>12. CASE RecordFailed(r) BY <1>12 DEF RecordFailed, Record
<1>13. CASE Complete(r) BY <1>13 DEF Complete, SetStatus, ReleaseSlot
<1>14. CASE BeginCompensation(r) BY <1>14 DEF BeginCompensation, SetStatus
<1>15. CASE CompensateNext(r) BY <1>15 DEF CompensateNext, LastDone
<1>16. CASE CompensateOk(r) BY <1>16 DEF CompensateOk, SetEffect
<1>17. CASE CompensateErr(r) BY <1>17, NextAttemptType DEF CompensateErr
<1>18. CASE CompensateTimesOut(r)
  <2>1. faults' \in 0..MaxFaults BY <1>18, FaultType DEF CompensateTimesOut
  <2>2. <<saga[r], step[r], FALSE>> \in Sagas \X Steps \X BOOLEAN
    BY <1>18 DEF CompensateTimesOut
  <2>3. late' \subseteq Sagas \X Steps \X BOOLEAN BY <1>18, <2>2 DEF CompensateTimesOut
  <2>4. attempt' \in [Runs -> 0..Retries] BY <1>18, NextAttemptType DEF CompensateTimesOut
  <2>5. PICK p \in {"undo", "stuck"} : pc' = [pc EXCEPT ![r] = p]
    BY <1>18, NextAttemptType DEF CompensateTimesOut
  <2>6. UNCHANGED <<status, saved, last, effect, saga, ctx, step, done, clean, active>>
    BY <1>18 DEF CompensateTimesOut, logVars
  <2>7. TypeOK' BY <2>1, <2>3, <2>4, <2>5, <2>6
  <2>8. SagaKnown' BY <1>18, NextAttemptType, FaultType DEF CompensateTimesOut
  <2>9. StepKnown' BY <1>18, NextAttemptType, FaultType DEF CompensateTimesOut
  <2> QED BY <2>7, <2>8, <2>9
<1>19. CASE RecordCompensated(r) BY <1>19 DEF RecordCompensated, Record
<1>20. CASE RecordCompensatedFails(r)
  <2>7. TypeOK' BY <1>20, NextAttemptType, FaultType DEF RecordCompensatedFails
  <2>8. SagaKnown' BY <1>20, NextAttemptType, FaultType DEF RecordCompensatedFails
  <2>9. StepKnown' BY <1>20, NextAttemptType, FaultType DEF RecordCompensatedFails
  <2> QED BY <2>7, <2>8, <2>9
<1>21. CASE RecordCompensationFailed(r) BY <1>21 DEF RecordCompensationFailed, Record
<1>22. CASE Close(r) BY <1>22 DEF Close, SetStatus, ReleaseSlot
<1>23. CASE DatabaseError(r)
  <2>1. faults' \in 0..MaxFaults BY <1>23, FaultType DEF DatabaseError
  <2>5. active' \in [Tenants -> Nat] BY <1>23 DEF DatabaseError, ReleaseSlot
  <2>6. pc' \in [Runs -> {"new", "read"} \cup Running \cup Ended] BY <1>23 DEF DatabaseError
  <2>2. TypeOK' BY <1>23, <2>1, <2>5, <2>6 DEF DatabaseError
  <2>3. SagaKnown' BY <1>23 DEF DatabaseError
  <2>4. StepKnown' BY <1>23 DEF DatabaseError
  <2> QED BY <2>2, <2>3, <2>4
<1> QED
  BY <1>1, <1>2, <1>3, <1>4, <1>5, <1>6, <1>7, <1>8, <1>9, <1>10, <1>11, <1>12, <1>13, <1>14, <1>15, <1>16, <1>17, <1>18, <1>19, <1>20, <1>21, <1>22, <1>23
  DEF Run

\* Every step keeps the types.
LEMMA StepTypeInv ==
  ASSUME TypeInv, [Next]_vars
  PROVE  TypeInv'
<1> USE SagaAssumption
    DEF TypeInv, SagaKnown, StepKnown, AtStep, TypeOK, Running, Ended, Steps, logVars, runVars, Goto
<1>1. CASE UNCHANGED vars BY <1>1 DEF vars
<1>2. CASE \E r \in Runs : Run(r) BY <1>2, RunTypeInv
<1>3. ASSUME NEW r \in Runs, NEW s \in Sagas, Execute(r, s)
      PROVE  TypeInv'
  BY <1>3 DEF Execute, AcquireSlot
<1>4. ASSUME NEW r \in Runs, NEW s \in Sagas, RetryReads(r, s)
      PROVE  TypeInv'
  BY <1>4 DEF RetryReads
<1>5. ASSUME NEW s \in Sagas, NEW i \in Steps, NEW b \in BOOLEAN, LateEffect(s, i, b)
      PROVE  TypeInv'
  BY <1>5 DEF LateEffect, SetEffect
<1>6. CASE Crash
  <2>1. faults' \in 0..MaxFaults BY <1>6, FaultType DEF Crash
  <2>2. late' \subseteq Sagas \X Steps \X BOOLEAN
    <3>1. PICK calling \in SUBSET {r \in Runs : pc[r] \in {"act", "undo"}} :
            late' = late \cup {<<saga[r], step[r], pc[r] = "act">> : r \in calling}
      BY <1>6 DEF Crash
    <3>2. \A r \in calling : <<saga[r], step[r], pc[r] = "act">> \in Sagas \X Steps \X BOOLEAN
      OBVIOUS
    <3> QED BY <3>1, <3>2
  <2>3. pc' \in [Runs -> {"new", "read"} \cup Running \cup Ended] BY <1>6 DEF Crash
  <2>4. active' \in [Tenants -> Nat] BY <1>6 DEF Crash
  <2>5. SagaKnown' BY <1>6 DEF Crash
  <2>6. StepKnown' BY <1>6 DEF Crash
  <2> QED BY <1>6, <2>1, <2>2, <2>3, <2>4, <2>5, <2>6 DEF Crash
<1> HIDE DEF TypeInv, Steps
<1> QED BY <1>1, <1>2, <1>3, <1>4, <1>5, <1>6 DEF Next

\* The states are of their types: every record is of a known saga and step.
THEOREM TypeCorrect == Spec => []TypeOK
<1>1. Init => TypeInv
  BY SagaAssumption
  DEF Init, TypeInv, TypeOK, SagaKnown, StepKnown, AtStep, SagaStatus, StepStatus, Steps
<1>2. TypeInv /\ [Next]_vars => TypeInv' BY StepTypeInv
<1>3. TypeInv => TypeOK BY DEF TypeInv
<1> QED BY <1>1, <1>2, <1>3, PTL DEF Spec

(***************************************************************************)
(* The slots of a tenant.                                                  *)
(***************************************************************************)
Busy(t) == {r \in Runs : pc[r] \in Running /\ TenantOf[saga[r]] = t}

\* The runs of a saga type that count as busy are those that hold its slots.
LEMMA SlotsAreBusy ==
  SlotsMatchRuns <=> \A t \in Tenants : active[t] = Cardinality(Busy(t)) /\ active[t] <= Cap
BY DEF SlotsMatchRuns, Busy

\* They are finitely many.
LEMMA BusyFinite == ASSUME NEW t PROVE IsFiniteSet(Busy(t)) /\ Cardinality(Busy(t)) \in Nat
<1>1. Busy(t) \subseteq Runs BY DEF Busy
<1>2. IsFiniteSet(Busy(t)) BY <1>1, SagaAssumption, FS_Subset
<1> QED BY <1>2, FS_CardinalityType

\* A step that starts and ends no run leaves the slots as they are.
LEMMA SlotsKept ==
  ASSUME SlotsMatchRuns, active' = active,
         \A q \in Runs : pc'[q] \in Running <=> pc[q] \in Running,
         \A q \in Runs : pc[q] \in Running => saga'[q] = saga[q]
  PROVE  SlotsMatchRuns'
<1>1. \A t \in Tenants : Busy(t)' = Busy(t) BY DEF Busy
<1>2. \A t \in Tenants : Cardinality(Busy(t)') = Cardinality(Busy(t)) BY <1>1
<1> QED BY <1>1, <1>2, SlotsAreBusy DEF SlotsMatchRuns, Busy

\* A run that starts takes a slot of its tenant.
LEMMA SlotTaken ==
  ASSUME NEW r \in Runs, NEW s \in Sagas, TypeInv, SlotsMatchRuns,
         AcquireSlot(s), pc[r] \notin Running,
         pc' = [pc EXCEPT ![r] = "create"], saga' = [saga EXCEPT ![r] = s]
  PROVE  SlotsMatchRuns'
<1> DEFINE u == TenantOf[s]
<1>1. u \in Tenants BY SagaAssumption
<1>2. /\ Busy(u)' = Busy(u) \cup {r} /\ r \notin Busy(u)
      /\ \A t \in Tenants \ {u} : Busy(t)' = Busy(t)
  BY DEF Busy, Running, TypeInv, TypeOK
<1>3. Cardinality(Busy(u)') = Cardinality(Busy(u)) + 1
  BY <1>2, BusyFinite, FS_AddElement
<1>4. ASSUME NEW t \in Tenants PROVE active'[t] = Cardinality(Busy(t)') /\ active'[t] <= Cap
  <2>1. CASE t = u
    <3>1. active'[u] = active[u] + 1 /\ active[u] < Cap
      BY <1>1 DEF AcquireSlot, TypeInv, TypeOK
    <3>2. active[u] \in Nat BY <1>1 DEF TypeInv, TypeOK
    <3>3. active[u] = Cardinality(Busy(u)) BY <1>1, SlotsAreBusy
    <3> QED BY <2>1, <3>1, <3>2, <3>3, <1>3, SagaAssumption
  <2>2. CASE t # u
    <3>1. active'[t] = active[t] BY <2>2 DEF AcquireSlot, TypeInv, TypeOK
    <3>2. Cardinality(Busy(t)') = Cardinality(Busy(t)) BY <1>2, <2>2
    <3> QED BY <3>1, <3>2, SlotsAreBusy
  <2> QED BY <2>1, <2>2
<1> QED BY <1>4 DEF SlotsMatchRuns, Busy

\* A run that ends, on whatever path, gives its slot back.
LEMMA SlotGivenBack ==
  ASSUME NEW r \in Runs, NEW p \in Ended, TypeInv, SlotsMatchRuns,
         ReleaseSlot(r), pc[r] \in Running,
         pc' = [pc EXCEPT ![r] = p], saga' = saga
  PROVE  SlotsMatchRuns'
<1> DEFINE u == TenantOf[saga[r]]
<1>1. u \in Tenants
  <2>1. saga[r] \in Sagas BY DEF TypeInv, SagaKnown, Running
  <2> QED BY <2>1, SagaAssumption
<1>2. /\ Busy(u)' = Busy(u) \ {r} /\ r \in Busy(u)
      /\ \A t \in Tenants \ {u} : Busy(t)' = Busy(t)
  BY DEF Busy, Running, Ended, TypeInv, TypeOK
<1>3. Cardinality(Busy(u)') = Cardinality(Busy(u)) - 1
  <2>1. Cardinality(Busy(u) \ {r}) = Cardinality(Busy(u)) - 1
    BY <1>2, BusyFinite, FS_RemoveElement
  <2> QED BY <1>2, <2>1
<1>4. Cardinality(Busy(u)') \in Nat
  <2>1. Busy(u)' \subseteq Busy(u) BY <1>2
  <2> QED BY <2>1, BusyFinite, FS_Subset, FS_CardinalityType
<1>5. ASSUME NEW t \in Tenants PROVE active'[t] = Cardinality(Busy(t)') /\ active'[t] <= Cap
  <2>1. CASE t = u
    <3>1. active[u] = Cardinality(Busy(u)) /\ active[u] <= Cap BY <1>1, SlotsAreBusy
    <3>2. active[u] \in Nat BY <1>1 DEF TypeInv, TypeOK
    <3>3. active[u] # 0 BY <1>3, <1>4, <3>1, <3>2
    <3>4. active'[u] = active[u] - 1 BY <1>1, <3>3 DEF ReleaseSlot, TypeInv, TypeOK
    <3> QED BY <2>1, <1>3, <3>1, <3>2, <3>4, SagaAssumption
  <2>2. CASE t # u
    <3>1. active'[t] = active[t] BY <2>2 DEF ReleaseSlot, TypeInv, TypeOK
    <3>2. Cardinality(Busy(t)') = Cardinality(Busy(t)) BY <1>2, <2>2
    <3> QED BY <3>1, <3>2, SlotsAreBusy
  <2> QED BY <2>1, <2>2
<1> QED BY <1>5 DEF SlotsMatchRuns, Busy

\* The step of a run that has begun keeps the slots.
LEMMA RunSlots ==
  ASSUME NEW r \in Runs, TypeInv, SlotsMatchRuns, Run(r)
  PROVE  SlotsMatchRuns'
<1> DEFINE Within == /\ active' = active /\ saga' = saga /\ pc[r] \in Running
                     /\ \E p \in Running : pc' = [pc EXCEPT ![r] = p]
           Ends == /\ ReleaseSlot(r) /\ saga' = saga /\ pc[r] \in Running
                   /\ \E p \in Ended : pc' = [pc EXCEPT ![r] = p]
<1>1. Within => SlotsMatchRuns'
  <2> SUFFICES ASSUME Within PROVE SlotsMatchRuns'
    OBVIOUS
  <2>1. \A q \in Runs : pc'[q] \in Running <=> pc[q] \in Running BY DEF TypeInv, TypeOK
  <2> QED BY <2>1, SlotsKept
<1>2. Ends => SlotsMatchRuns' BY SlotGivenBack
<1>3. CASE RetryStarts(r)
  <2>1. pc[r] = "read" /\ saga[r] \in Sagas BY <1>3 DEF RetryStarts, TypeInv, SagaKnown
  <2>2. saga' = [saga EXCEPT ![r] = saga[r]] BY <1>3 DEF RetryStarts, TypeInv, TypeOK
  <2>3. pc[r] \notin Running BY <2>1 DEF Running
  <2> QED BY <1>3, <2>1, <2>2, <2>3, SlotTaken DEF RetryStarts, Goto
<1>4. CASE RetryRefused(r)
  <2>1. \A q \in Runs : pc'[q] \in Running <=> pc[q] \in Running
    BY <1>4 DEF RetryRefused, Goto, Running, TypeInv, TypeOK
  <2> QED BY <1>4, <2>1, SlotsKept DEF RetryRefused
<1>5. CASE Complete(r) \/ Close(r) \/ DatabaseError(r)
  <2>1. Ends BY <1>5 DEF Complete, Close, DatabaseError, Goto, Running, Ended
  <2> QED BY <2>1, <1>2
<1>6. CASE CheckStep(r)
  <2>1. Within \/ UNCHANGED <<active, saga, pc>> BY <1>6 DEF CheckStep, Goto, Running
  <2>2. UNCHANGED <<active, saga, pc>> => SlotsMatchRuns' BY SlotsKept
  <2> QED BY <2>1, <2>2, <1>1
<1>7. CASE \/ CreateSaga(r) \/ BeginRun(r) \/ SagaTimesOut(r) \/ RecordStarted(r)
           \/ ActionOk(r) \/ ActionErr(r) \/ ActionTimesOut(r)
           \/ RecordCompleted(r) \/ RecordFailed(r) \/ BeginCompensation(r)
  <2>1. Within
    BY <1>7 DEF CreateSaga, BeginRun, SagaTimesOut, RecordStarted, ActionOk, ActionErr, ActionTimesOut,
       RecordCompleted, RecordFailed, BeginCompensation, Goto, Running
  <2> QED BY <2>1, <1>1
<1>8. CASE \/ CompensateNext(r) \/ CompensateOk(r) \/ CompensateErr(r)
           \/ CompensateTimesOut(r) \/ RecordCompensated(r)
           \/ RecordCompensatedFails(r) \/ RecordCompensationFailed(r)
  <2>1. Within
    BY <1>8 DEF CompensateNext, CompensateOk, CompensateErr, CompensateTimesOut, RecordCompensated,
       RecordCompensatedFails, RecordCompensationFailed, NextAttempt, Goto, Running
  <2> QED BY <2>1, <1>1
<1> QED BY <1>3, <1>4, <1>5, <1>6, <1>7, <1>8 DEF Run

\* A tenant's counter is the number of its running sagas and never above the
\* cap: no path through execute() leaks a slot or gives one back twice.
THEOREM SlotsExact == Spec => []SlotsMatchRuns
<1>1. Init => TypeInv /\ SlotsMatchRuns
  <2> SUFFICES ASSUME Init PROVE TypeInv /\ SlotsMatchRuns
    OBVIOUS
  <2>1. TypeInv
    BY SagaAssumption
    DEF Init, TypeInv, TypeOK, SagaKnown, StepKnown, AtStep, SagaStatus, StepStatus, Steps
  <2>2. \A t \in Tenants : Busy(t) = {} BY DEF Init, Busy, Running
  <2>3. \A t \in Tenants : active[t] = 0 /\ 0 <= Cap BY SagaAssumption DEF Init
  <2> QED BY <2>1, <2>2, <2>3, SlotsAreBusy, FS_EmptySet
<1>2. TypeInv /\ SlotsMatchRuns /\ [Next]_vars => TypeInv' /\ SlotsMatchRuns'
  <2> SUFFICES ASSUME TypeInv, SlotsMatchRuns, [Next]_vars PROVE TypeInv' /\ SlotsMatchRuns'
    OBVIOUS
  <2>1. TypeInv' BY StepTypeInv
  <2>2. CASE UNCHANGED vars BY <2>1, <2>2, SlotsKept DEF vars, runVars
  <2>3. ASSUME NEW r \in Runs, NEW s \in Sagas, Execute(r, s)
        PROVE  SlotsMatchRuns'
    BY <2>3, SlotTaken DEF Execute, Goto, Running
  <2>4. ASSUME NEW r \in Runs, NEW s \in Sagas, RetryReads(r, s)
        PROVE  SlotsMatchRuns'
    <3>1. \A q \in Runs : pc'[q] \in Running <=> pc[q] \in Running
      BY <2>4 DEF RetryReads, Goto, Running, TypeInv, TypeOK
    <3>2. \A q \in Runs : pc[q] \in Running => saga'[q] = saga[q]
      BY <2>4 DEF RetryReads, Running, TypeInv, TypeOK
    <3> QED BY <2>4, <3>1, <3>2, SlotsKept DEF RetryReads
  <2>5. ASSUME NEW s \in Sagas, NEW i \in Steps, NEW b \in BOOLEAN, LateEffect(s, i, b)
        PROVE  SlotsMatchRuns'
    BY <2>5, SlotsKept DEF LateEffect, runVars
  <2>6. CASE Crash
    <3>1. \A t \in Tenants : Busy(t)' = {} BY <2>6 DEF Crash, Busy, Running
    <3>2. \A t \in Tenants : active'[t] = 0 /\ 0 <= Cap BY <2>6, SagaAssumption DEF Crash
    <3>3. \A t \in Tenants : Cardinality(Busy(t)') = 0 BY <3>1, FS_EmptySet
    <3> QED BY <2>1, <3>2, <3>3 DEF SlotsMatchRuns, Busy
  <2> QED BY <2>1, <2>2, <2>3, <2>4, <2>5, <2>6, RunSlots DEF Next
<1> QED BY <1>1, <1>2, PTL DEF Spec

(***************************************************************************)
(* The log and the effects, while no two runs of one saga overlap and no   *)
(* compensation is carried out after it was given up.                      *)
(***************************************************************************)
Recorded(s, i) == last[s][i] = "completed"

Forward == {"step", "start", "act", "acted", "refused"}
Backward == {"fail", "next", "undo", "undone", "stuck"}

\* The order of the log (k = 1) is shown with its agreement with the effects
\* (any k).  A run that goes forward has the recorded steps below its own in its
\* list; the step that is being undone is not recorded; and, for the order, a run
\* that goes backward has all the recorded steps there are.
RunInv(r, k) ==
  /\ pc[r] \in {"new", "read", "create", "begin"} => done[r] = {} /\ step[r] = 1
  /\ pc[r] \in Forward =>
       /\ status[saga[r]] = "executing" /\ done[r] = 1..step[r] - 1
       /\ \A j \in done[r] : Recorded(saga[r], j)
  /\ pc[r] \in Forward \ {"step"} => ~Recorded(saga[r], step[r])
  /\ pc[r] = "acted" => effect[saga[r]][step[r]]
  /\ pc[r] \in Backward => status[saga[r]] # "completed"
  /\ pc[r] \in {"undo", "undone", "stuck"} => ~Recorded(saga[r], step[r])
  /\ pc[r] \in Backward /\ k = 1 => \A j \in Steps : Recorded(saga[r], j) <=> j \in done[r]

LogInv(k) ==
  /\ k = 1 => CompletedIsPrefix
  /\ \A s \in Sagas, i \in Steps : /\ Recorded(s, i) => effect[s][i]
                                   /\ status[s] = "completed" => Recorded(s, i)

LogAndRuns(k) == LogInv(k) /\ \A r \in Runs : RunInv(r, k)

\* A step of one run that touches no other run and no other saga.
OnlyOf(r) ==
  /\ saga' = saga
  /\ \A q \in Runs \ {r} : pc'[q] = pc[q] /\ step'[q] = step[q] /\ done'[q] = done[q]
  /\ \A s \in Sagas \ {saga[r]} : status'[s] = status[s] /\ last'[s] = last[s] /\ effect'[s] = effect[s]

\* A step of one run leaves what holds of the others.
LEMMA OtherRuns ==
  ASSUME NEW k, NEW r \in Runs, TypeInv, OneRunPerSaga, LogAndRuns(k), OnlyOf(r),
         pc[r] \in Running \/ UNCHANGED <<status, last, effect>>
  PROVE  \A q \in Runs \ {r} : RunInv(q, k)'
<1> SUFFICES ASSUME NEW q \in Runs \ {r} PROVE RunInv(q, k)'
  OBVIOUS
<1>1. pc'[q] = pc[q] /\ step'[q] = step[q] /\ done'[q] = done[q] /\ saga'[q] = saga[q] /\ RunInv(q, k)
  BY DEF OnlyOf, LogAndRuns
<1>2. CASE pc[q] \in Running /\ pc[r] \in Running
  <2>1. saga[q] \in Sagas \ {saga[r]}
    BY <1>2 DEF OneRunPerSaga, TypeInv, SagaKnown, Running
  <2>2. status'[saga[q]] = status[saga[q]] /\ last'[saga[q]] = last[saga[q]] /\ effect'[saga[q]] = effect[saga[q]]
    BY <2>1 DEF OnlyOf
  <2> QED BY <1>1, <2>2 DEF RunInv, Recorded
<1>3. CASE pc[q] \notin Running
  BY <1>1, <1>3 DEF RunInv, Running, Forward, Backward
<1>4. CASE UNCHANGED <<status, last, effect>>
  BY <1>1, <1>4 DEF RunInv, Recorded
<1> QED BY <1>2, <1>3, <1>4

\* The log and the effects of the other sagas stay right.
LEMMA OtherSagas ==
  ASSUME NEW k, NEW r \in Runs, TypeInv, LogInv(k), OnlyOf(r), saga[r] \in Sagas,
         \A i \in Steps : /\ Recorded(saga[r], i)' => effect'[saga[r]][i] /\ (k = 1 => \A j \in 1..i : Recorded(saga[r], j)')
                          /\ status'[saga[r]] = "completed" => Recorded(saga[r], i)'
  PROVE  LogInv(k)'
<1> SUFFICES ASSUME NEW s \in Sagas, NEW i \in Steps
             PROVE  /\ Recorded(s, i)' => effect'[s][i] /\ (k = 1 => \A j \in 1..i : Recorded(s, j)')
                    /\ status'[s] = "completed" => Recorded(s, i)'
  BY Zenon DEF LogInv, CompletedIsPrefix, Recorded
<1>1. CASE s = saga[r]
  <2>1. saga'[r] = saga[r] BY DEF OnlyOf
  <2> QED BY <1>1, <2>1 DEF Recorded
<1>2. CASE s # saga[r]
  <2>1. status'[s] = status[s] /\ last'[s] = last[s] /\ effect'[s] = effect[s] BY <1>2 DEF OnlyOf
  <2> QED BY <2>1 DEF LogInv, CompletedIsPrefix, Recorded
<1> QED BY <1>1, <1>2

\* What a step of run r must show of itself and of its saga.
Own(r, k) ==
  /\ OnlyOf(r) /\ RunInv(r, k)'
  /\ \A i \in Steps : /\ Recorded(saga[r], i)' => effect'[saga[r]][i] /\ (k = 1 => \A j \in 1..i : Recorded(saga[r], j)')
                      /\ status'[saga[r]] = "completed" => Recorded(saga[r], i)'

\* What holds of the run that moved and of the others holds of all.
LEMMA OwnSuffices ==
  ASSUME NEW k, NEW r \in Runs, TypeInv, OneRunPerSaga, LogAndRuns(k), saga[r] \in Sagas, Own(r, k),
         pc[r] \in Running \/ UNCHANGED <<status, last, effect>>
  PROVE  LogAndRuns(k)'
<1>1. LogInv(k)' BY OtherSagas DEF Own, LogAndRuns
<1>2. \A q \in Runs \ {r} : RunInv(q, k)' BY OtherRuns DEF Own
<1>3. RunInv(r, k)' BY DEF Own
<1> QED BY <1>1, <1>2, <1>3, Zenon DEF LogAndRuns

\* A step that leaves log, effects and statuses alone.
LEMMA LogLeftAlone ==
  ASSUME NEW k, NEW r \in Runs, TypeInv, LogInv(k), saga[r] \in Sagas, OnlyOf(r),
         UNCHANGED <<status, last, effect>>, RunInv(r, k)'
  PROVE  Own(r, k)
BY DEF Own, LogInv, CompletedIsPrefix, Recorded, OnlyOf

\* The forward steps of a run keep effects and log in order.
LEMMA ForwardSteps ==
  ASSUME NEW k, NEW r \in Runs, TypeInv, Calm, LogAndRuns(k), k = 1 => NothingOverlooked',
         \/ CreateSaga(r) \/ BeginRun(r) \/ SagaTimesOut(r) \/ CheckStep(r)
         \/ RecordStarted(r) \/ ActionOk(r) \/ ActionErr(r) \/ ActionTimesOut(r)
         \/ RecordCompleted(r) \/ RecordFailed(r) \/ Complete(r)
  PROVE  Own(r, k)
<1> USE SagaAssumption DEF Goto
<1>1. saga[r] \in Sagas /\ r \in Runs /\ RunInv(r, k) /\ LogInv(k)
  BY DEF TypeInv, SagaKnown, LogAndRuns, CreateSaga, BeginRun, SagaTimesOut, CheckStep, RecordStarted,
         ActionOk, ActionErr, ActionTimesOut, RecordCompleted, RecordFailed, Complete
<1>2. pc[r] \in AtStep => step[r] \in Steps BY DEF TypeInv, StepKnown
<1>3. /\ pc \in [Runs -> {"new", "read"} \cup Running \cup Ended]
      /\ step \in [Runs -> 1..Depth + 1] /\ done \in [Runs -> SUBSET Steps]
      /\ status \in [Sagas -> SagaStatus] /\ last \in [Sagas -> [Steps -> StepStatus]]
      /\ effect \in [Sagas -> [Steps -> BOOLEAN]] /\ saga \in [Runs -> Sagas \cup {NoSaga}]
  BY DEF TypeInv, TypeOK
<1>4. CASE CreateSaga(r)
  <2>1. OnlyOf(r) BY <1>1, <1>3, <1>4 DEF CreateSaga, OnlyOf
  <2>2. RunInv(r, k)' BY <1>1, <1>3, <1>4 DEF CreateSaga, RunInv, Forward, Backward
  <2>3. status'[saga[r]] = "completed" => status[saga[r]] = "completed"
    BY <1>1, <1>3, <1>4 DEF CreateSaga
  <2> QED BY <1>1, <1>4, <2>1, <2>2, <2>3 DEF CreateSaga, Own, LogInv, CompletedIsPrefix, Recorded
<1>5. CASE BeginRun(r)
  <2>1. OnlyOf(r) BY <1>1, <1>3, <1>5 DEF BeginRun, SetStatus, OnlyOf
  <2>2. status'[saga[r]] = "executing" BY <1>1, <1>3, <1>5 DEF BeginRun, SetStatus
  <2>3. pc'[r] = "step" /\ done'[r] = {} /\ step'[r] = 1 /\ saga'[r] = saga[r]
    BY <1>1, <1>3, <1>5 DEF BeginRun, RunInv
  <2>4. RunInv(r, k)' BY <2>2, <2>3 DEF RunInv, Forward, Backward
  <2> QED BY <1>1, <1>5, <2>1, <2>2, <2>4 DEF BeginRun, Own, LogInv, CompletedIsPrefix, Recorded
<1>6. CASE SagaTimesOut(r)
  <2>1. UNCHANGED <<status, last, effect, step, done, saga>> /\ pc[r] = "step" /\ pc'[r] = "fail"
    BY <1>3, <1>6 DEF SagaTimesOut, logVars
  <2>2. OnlyOf(r) BY <1>1, <1>3, <1>6, <2>1 DEF SagaTimesOut, OnlyOf
  <2>3. status[saga[r]] = "executing" /\ \A j \in done[r] : Recorded(saga[r], j)
    BY <1>1, <2>1 DEF RunInv, Forward
  <2>4. k = 1 => \A j \in Steps : Recorded(saga[r], j) => j \in done[r]
    BY <2>1 DEF NothingOverlooked, Recorded
  <2>5. RunInv(r, k)' BY <2>1, <2>3, <2>4 DEF RunInv, Forward, Backward, Recorded
  <2> QED BY <1>1, <2>1, <2>2, <2>5, LogLeftAlone
<1>7. CASE CheckStep(r)
  <2>1. OnlyOf(r) /\ UNCHANGED <<status, last, effect>>
    BY <1>1, <1>3, <1>7 DEF CheckStep, OnlyOf, logVars
  <2>2. RunInv(r, k)'
    <3>1. pc[r] = "step" /\ step[r] \in Steps /\ saga' = saga /\ UNCHANGED logVars
      BY <1>7 DEF CheckStep
    <3>2. /\ status[saga[r]] = "executing" /\ done[r] = 1..step[r] - 1
          /\ \A j \in done[r] : Recorded(saga[r], j)
      BY <1>1, <3>1 DEF RunInv, Forward
    <3>3. CASE Recorded(saga[r], step[r])
      <4>1. done'[r] = done[r] \cup {step[r]} /\ step'[r] = step[r] + 1 /\ pc'[r] = "step"
        BY <1>3, <1>7, <3>1, <3>3 DEF CheckStep, Recorded
      <4>2. done'[r] = 1..step'[r] - 1 BY <3>1, <3>2, <4>1 DEF Steps
      <4> QED BY <3>1, <3>2, <3>3, <4>1, <4>2 DEF RunInv, Forward, Backward, Recorded, logVars
    <3>4. CASE ~Recorded(saga[r], step[r])
      <4>1. done'[r] = done[r] /\ step'[r] = step[r] /\ pc'[r] = "start"
        BY <1>3, <1>7, <3>1, <3>4 DEF CheckStep, Recorded
      <4> QED BY <3>1, <3>2, <3>4, <4>1 DEF RunInv, Forward, Backward, Recorded, logVars
    <3> QED BY <3>3, <3>4
  <2> QED BY <1>1, <2>1, <2>2, LogLeftAlone
<1>8. CASE RecordStarted(r) \/ RecordFailed(r)
  <2>1. OnlyOf(r) BY <1>1, <1>3, <1>8 DEF RecordStarted, RecordFailed, Record, OnlyOf
  <2>2. step[r] \in Steps BY <1>2, <1>8 DEF AtStep, RecordStarted, RecordFailed
  <2>3. PICK w \in {"started", "failed"} :
          /\ last'[saga[r]][step[r]] = w
          /\ \A j \in Steps \ {step[r]} : last'[saga[r]][j] = last[saga[r]][j]
          /\ pc'[r] = (IF w = "started" THEN "act" ELSE "fail")
    BY <1>1, <1>3, <1>8, <2>2 DEF RecordStarted, RecordFailed, Record
  <2>4. UNCHANGED <<status, effect, step, done, saga>> /\ pc[r] \in Forward \ {"step"}
    BY <1>8 DEF RecordStarted, RecordFailed, Forward
  <2>5. /\ status[saga[r]] = "executing" /\ done[r] = 1..step[r] - 1 /\ ~Recorded(saga[r], step[r])
        /\ \A j \in done[r] : Recorded(saga[r], j)
    BY <1>1, <2>4 DEF RunInv
  <2>6. \A j \in Steps : Recorded(saga[r], j)' <=> Recorded(saga[r], j)
    BY <2>3, <2>4, <2>5 DEF Recorded
  <2>7. k = 1 => \A j \in Steps : Recorded(saga[r], j) <=> j \in done[r]
    <3> SUFFICES ASSUME k = 1, NEW j \in Steps, Recorded(saga[r], j) PROVE j \in done[r]
      BY <2>5
    <3>1. ~(step[r] \in 1..j) BY <1>1, <2>5 DEF LogInv, CompletedIsPrefix, Recorded
    <3> QED BY <2>2, <2>5, <3>1 DEF Steps
  <2>8. \A j \in Steps : j \in done[r] => Recorded(saga[r], j)' BY <2>6, <2>5
  <2>9. done[r] \subseteq Steps BY <1>3
  <2>10. RunInv(r, k)'
    BY <2>3, <2>4, <2>5, <2>6, <2>7, <2>9 DEF RunInv, Forward, Backward, Recorded
  <2>11. \A i \in Steps : \A j \in 1..i : j \in Steps BY DEF Steps
  <2> QED BY <1>1, <2>1, <2>4, <2>5, <2>6, <2>10, <2>11 DEF Own, LogInv, CompletedIsPrefix, Recorded
<1>9. CASE ActionOk(r)
  <2>1. OnlyOf(r) BY <1>1, <1>3, <1>9 DEF ActionOk, SetEffect, logVars, OnlyOf
  <2>2. step[r] \in Steps BY <1>2, <1>9 DEF AtStep, ActionOk
  <2>3. \A i \in Steps : (effect[saga[r]][i] => effect'[saga[r]][i]) /\ effect'[saga[r]][step[r]]
    BY <1>1, <1>3, <1>9, <2>2 DEF ActionOk, SetEffect
  <2>4. UNCHANGED <<status, last, step, done, saga>> /\ pc[r] = "act" /\ pc'[r] = "acted"
    BY <1>3, <1>9 DEF ActionOk, logVars
  <2>5. RunInv(r, k)' BY <1>1, <2>2, <2>3, <2>4 DEF RunInv, Forward, Backward, Recorded
  <2> QED BY <1>1, <2>1, <2>3, <2>4, <2>5 DEF Own, LogInv, CompletedIsPrefix, Recorded
<1>10. CASE ActionErr(r) \/ ActionTimesOut(r)
  <2>1. UNCHANGED <<status, last, effect, step, done, saga>> /\ pc[r] = "act" /\ pc'[r] = "refused"
    BY <1>3, <1>10 DEF ActionErr, ActionTimesOut, logVars
  <2>2. OnlyOf(r) BY <1>1, <1>3, <1>10, <2>1 DEF ActionErr, ActionTimesOut, OnlyOf
  <2>3. RunInv(r, k)' BY <1>1, <2>1 DEF RunInv, Forward, Backward, Recorded
  <2> QED BY <1>1, <2>1, <2>2, <2>3, LogLeftAlone
<1>11. CASE RecordCompleted(r)
  <2>1. OnlyOf(r) BY <1>1, <1>3, <1>11 DEF RecordCompleted, Record, OnlyOf
  <2>2. step[r] \in Steps BY <1>2, <1>11 DEF AtStep, RecordCompleted
  <2>3. UNCHANGED <<status, effect, saga>> /\ pc[r] = "acted" /\ pc'[r] = "step"
        /\ step'[r] = step[r] + 1 /\ done'[r] = done[r] \cup {step[r]}
    BY <1>3, <1>11 DEF RecordCompleted
  <2>4. /\ last'[saga[r]][step[r]] = "completed"
        /\ \A j \in Steps \ {step[r]} : last'[saga[r]][j] = last[saga[r]][j]
    BY <1>1, <1>3, <1>11, <2>2 DEF RecordCompleted, Record
  <2>5. /\ status[saga[r]] = "executing" /\ done[r] = 1..step[r] - 1 /\ effect[saga[r]][step[r]]
        /\ \A j \in done[r] : Recorded(saga[r], j)
    BY <1>1, <2>3 DEF RunInv, Forward
  <2>6. done'[r] = 1..step'[r] - 1 BY <2>2, <2>3, <2>5 DEF Steps
  <2>7. \A j \in 1..step[r] : j \in Steps /\ Recorded(saga[r], j)'
    BY <2>2, <2>3, <2>4, <2>5 DEF Steps, Recorded
  <2>8. RunInv(r, k)' BY <2>2, <2>3, <2>5, <2>6, <2>7 DEF RunInv, Forward, Backward, Recorded, Steps
  <2>9. ASSUME NEW i \in Steps, Recorded(saga[r], i)'
        PROVE  effect'[saga[r]][i] /\ (k = 1 => \A j \in 1..i : Recorded(saga[r], j)')
    <3>1. CASE i = step[r] BY <2>3, <2>5, <2>7, <3>1
    <3>2. CASE i # step[r]
      <4>1. Recorded(saga[r], i) BY <2>3, <2>4, <2>9, <3>2 DEF Recorded
      <4>2. effect'[saga[r]][i] /\ (k = 1 => \A j \in 1..i : Recorded(saga[r], j))
        BY <1>1, <2>3, <4>1 DEF LogInv, CompletedIsPrefix, Recorded
      <4>3. \A j \in 1..i : j \in Steps BY DEF Steps
      <4> QED BY <2>3, <2>4, <4>2, <4>3 DEF Recorded
    <3> QED BY <3>1, <3>2
  <2> QED BY <2>1, <2>3, <2>5, <2>8, <2>9 DEF Own
<1>12. CASE Complete(r)
  <2>1. OnlyOf(r) BY <1>1, <1>3, <1>12 DEF Complete, SetStatus, OnlyOf
  <2>2. UNCHANGED <<last, effect, saga, done, step>> /\ pc[r] = "step" /\ step[r] > Depth /\ pc'[r] = "returned"
    BY <1>3, <1>12 DEF Complete
  <2>3. RunInv(r, k)' BY <2>2 DEF RunInv, Forward, Backward
  <2>4. \A i \in Steps : Recorded(saga[r], i)
    <3>1. done[r] = 1..step[r] - 1 /\ \A j \in done[r] : Recorded(saga[r], j)
      BY <1>1, <2>2 DEF RunInv, Forward
    <3>2. step[r] = Depth + 1 BY <1>3, <2>2
    <3> QED BY <3>1, <3>2 DEF Steps
  <2> QED BY <1>1, <2>1, <2>2, <2>3, <2>4 DEF Own, LogInv, CompletedIsPrefix, Recorded
<1> QED BY <1>4, <1>5, <1>6, <1>7, <1>8, <1>9, <1>10, <1>11, <1>12

\* So do its compensations.
LEMMA BackwardSteps ==
  ASSUME NEW k, NEW r \in Runs, TypeInv, Calm, LogAndRuns(k),
         \/ BeginCompensation(r) \/ CompensateNext(r) \/ CompensateOk(r)
         \/ CompensateErr(r) \/ CompensateTimesOut(r) \/ RecordCompensated(r)
         \/ RecordCompensatedFails(r) \/ RecordCompensationFailed(r) \/ Close(r)
         \/ DatabaseError(r)
  PROVE  Own(r, k)
<1> USE SagaAssumption DEF Goto
<1>1. saga[r] \in Sagas /\ RunInv(r, k) /\ LogInv(k)
  BY DEF TypeInv, SagaKnown, LogAndRuns, BeginCompensation, CompensateNext, CompensateOk, CompensateErr,
         CompensateTimesOut, RecordCompensated, RecordCompensatedFails, RecordCompensationFailed, Close,
         DatabaseError, Running
<1>2. pc[r] \in AtStep => step[r] \in Steps BY DEF TypeInv, StepKnown
<1>3. /\ pc \in [Runs -> {"new", "read"} \cup Running \cup Ended]
      /\ step \in [Runs -> 1..Depth + 1] /\ done \in [Runs -> SUBSET Steps]
      /\ status \in [Sagas -> SagaStatus] /\ last \in [Sagas -> [Steps -> StepStatus]]
      /\ effect \in [Sagas -> [Steps -> BOOLEAN]] /\ saga \in [Runs -> Sagas \cup {NoSaga}]
  BY DEF TypeInv, TypeOK
<1>4. pc[r] \in Backward =>
        /\ status[saga[r]] # "completed"
        /\ k = 1 => \A j \in Steps : Recorded(saga[r], j) <=> j \in done[r]
  BY <1>1 DEF RunInv
<1>5. CASE BeginCompensation(r) \/ Close(r)
  <2>1. OnlyOf(r) BY <1>1, <1>3, <1>5 DEF BeginCompensation, Close, SetStatus, OnlyOf
  <2>2. UNCHANGED <<last, effect, saga, done, step>> /\ pc[r] \in Backward
        /\ pc'[r] \in {"next", "returned"} /\ status'[saga[r]] # "completed"
    BY <1>1, <1>3, <1>5 DEF BeginCompensation, Close, SetStatus, Backward
  <2>3. RunInv(r, k)' BY <1>4, <2>2 DEF RunInv, Forward, Backward, Recorded
  <2> QED BY <1>1, <2>1, <2>2, <2>3 DEF Own, LogInv, CompletedIsPrefix, Recorded
<1>6. CASE CompensateNext(r)
  <2>1. PICK i \in Steps :
          /\ pc[r] = "next" /\ LastDone(r, i)
          /\ step' = [step EXCEPT ![r] = i]
          /\ last' = [last EXCEPT ![saga[r]][i] = "compensating"]
          /\ done' = [done EXCEPT ![r] = @ \ {i}]
          /\ pc' = [pc EXCEPT ![r] = "undo"]
          /\ UNCHANGED <<status, effect, saga>>
    BY <1>6 DEF CompensateNext
  <2>2. OnlyOf(r) BY <1>1, <1>3, <2>1 DEF OnlyOf
  <2>3. pc[r] \in Backward /\ pc'[r] = "undo" /\ step'[r] = i /\ done'[r] = done[r] \ {i} /\ saga'[r] = saga[r]
    BY <1>3, <2>1 DEF Backward
  <2>4. /\ last'[saga[r]][i] = "compensating"
        /\ \A j \in Steps \ {i} : last'[saga[r]][j] = last[saga[r]][j]
    BY <1>1, <1>3, <2>1
  <2>5. k = 1 => \A j \in Steps : Recorded(saga[r], j)' <=> j \in done'[r]
    BY <1>4, <2>3, <2>4 DEF Recorded
  <2>6. RunInv(r, k)'
    <3>1. ~Recorded(saga[r], i)' BY <2>3, <2>4 DEF Recorded
    <3> QED BY <1>4, <2>1, <2>3, <2>5, <3>1 DEF RunInv, Forward, Backward, Recorded
  <2>7. ASSUME NEW h \in Steps, Recorded(saga[r], h)'
        PROVE  effect'[saga[r]][h] /\ (k = 1 => \A j \in 1..h : Recorded(saga[r], j)')
    <3>1. h # i /\ Recorded(saga[r], h) BY <2>3, <2>4, <2>7 DEF Recorded
    <3>2. effect[saga[r]][h] BY <1>1, <3>1 DEF LogInv
    <3>3. ASSUME k = 1 PROVE \A j \in 1..h : Recorded(saga[r], j)'
      <4>1. h \in done[r] BY <1>4, <2>3, <3>1, <3>3
      <4>2. \A j \in 1..h : Recorded(saga[r], j)
        BY <1>1, <3>1, <3>3 DEF LogInv, CompletedIsPrefix, Recorded
      <4>3. h <= i BY <2>1, <4>1 DEF LastDone
      <4>4. \A j \in 1..h : j \in Steps \ {i} BY <3>1, <4>3 DEF Steps
      <4> QED BY <2>3, <2>4, <4>2, <4>4 DEF Recorded
    <3> QED BY <2>1, <3>2, <3>3
  <2>8. status'[saga[r]] # "completed" BY <1>4, <2>1, <2>3
  <2> QED BY <2>2, <2>6, <2>7, <2>8 DEF Own
<1>7. CASE CompensateOk(r)
  <2>1. OnlyOf(r) BY <1>1, <1>3, <1>7 DEF CompensateOk, SetEffect, logVars, OnlyOf
  <2>2. step[r] \in Steps /\ ~Recorded(saga[r], step[r])
    BY <1>1, <1>2, <1>7 DEF CompensateOk, AtStep, RunInv
  <2>3. UNCHANGED <<status, last, step, done, saga>> /\ pc[r] = "undo" /\ pc'[r] = "undone"
    BY <1>3, <1>7 DEF CompensateOk, logVars
  <2>4. \A i \in Steps \ {step[r]} : effect'[saga[r]][i] = effect[saga[r]][i]
    BY <1>1, <1>3, <1>7, <2>2 DEF CompensateOk, SetEffect
  <2>5. RunInv(r, k)' BY <1>4, <2>2, <2>3 DEF RunInv, Forward, Backward, Recorded
  <2> QED BY <1>1, <2>1, <2>2, <2>3, <2>4, <2>5 DEF Own, LogInv, CompletedIsPrefix, Recorded
<1>8. CASE CompensateErr(r) \/ CompensateTimesOut(r) \/ RecordCompensatedFails(r)
  <2>1. \E p \in {"undo", "stuck"} : pc' = [pc EXCEPT ![r] = p]
    BY <1>8, NextAttemptType DEF CompensateErr, CompensateTimesOut, RecordCompensatedFails, TypeInv
  <2>2. UNCHANGED <<status, last, effect, step, done, saga>> /\ pc[r] \in {"undo", "undone"}
        /\ pc'[r] \in {"undo", "stuck"}
    BY <1>3, <1>8, <2>1 DEF CompensateErr, CompensateTimesOut, RecordCompensatedFails, logVars
  <2>3. OnlyOf(r) BY <1>3, <2>1, <2>2 DEF OnlyOf
  <2>4. RunInv(r, k)' BY <1>1, <1>4, <2>2 DEF RunInv, Forward, Backward, Recorded
  <2> QED BY <1>1, <2>2, <2>3, <2>4, LogLeftAlone
<1>9. CASE RecordCompensated(r) \/ RecordCompensationFailed(r)
  <2>1. OnlyOf(r) BY <1>1, <1>3, <1>9 DEF RecordCompensated, RecordCompensationFailed, Record, OnlyOf
  <2>2. step[r] \in Steps /\ ~Recorded(saga[r], step[r]) /\ pc[r] \in Backward
    BY <1>1, <1>2, <1>9 DEF RecordCompensated, RecordCompensationFailed, AtStep, RunInv, Backward
  <2>3. UNCHANGED <<status, effect, step, done, saga>> /\ pc'[r] = "next"
    BY <1>3, <1>9 DEF RecordCompensated, RecordCompensationFailed
  <2>4. /\ last'[saga[r]][step[r]] # "completed"
        /\ \A j \in Steps \ {step[r]} : last'[saga[r]][j] = last[saga[r]][j]
    BY <1>1, <1>3, <1>9, <2>2 DEF RecordCompensated, RecordCompensationFailed, Record
  <2>5. \A j \in Steps : Recorded(saga[r], j)' <=> Recorded(saga[r], j)
    BY <1>4, <2>2, <2>3, <2>4 DEF Recorded
  <2>6. RunInv(r, k)' BY <1>4, <2>2, <2>3, <2>5 DEF RunInv, Forward, Backward
  <2>7. \A i \in Steps : \A j \in 1..i : j \in Steps BY DEF Steps
  <2> QED BY <1>1, <2>1, <2>3, <2>5, <2>6, <2>7 DEF Own, LogInv, CompletedIsPrefix, Recorded
<1>10. CASE DatabaseError(r)
  <2>1. UNCHANGED <<status, last, effect, step, done, saga>> /\ pc'[r] = "threw"
    BY <1>3, <1>10 DEF DatabaseError, logVars
  <2>2. OnlyOf(r) BY <1>3, <1>10, <2>1 DEF DatabaseError, OnlyOf
  <2>3. RunInv(r, k)' BY <2>1 DEF RunInv, Forward, Backward
  <2> QED BY <1>1, <2>1, <2>2, <2>3, LogLeftAlone
<1> QED BY <1>5, <1>6, <1>7, <1>8, <1>9, <1>10

\* Every step keeps log, effects and runs in agreement.
LEMMA StepLogAndRuns ==
  ASSUME NEW k, TypeInv, Calm, LogAndRuns(k), k = 1 => NothingOverlooked', [Next]_vars
  PROVE  LogAndRuns(k)'
<1> USE DEF Goto
<1>1. pc \in [Runs -> {"new", "read"} \cup Running \cup Ended] /\ saga \in [Runs -> Sagas \cup {NoSaga}]
  BY DEF TypeInv, TypeOK
<1>2. ASSUME UNCHANGED <<status, last, effect>>,
             \A q \in Runs : /\ step'[q] = step[q] /\ done'[q] = done[q]
                             /\ \/ pc'[q] = pc[q] /\ saga'[q] = saga[q]
                                \/ pc'[q] \in Ended
                                \/ pc'[q] \in {"read", "create"} /\ pc[q] \in {"new", "read"}
      PROVE  LogAndRuns(k)'
  <2>1. LogInv(k)' BY <1>2 DEF LogAndRuns, LogInv, CompletedIsPrefix, Recorded
  <2>2. ASSUME NEW q \in Runs PROVE RunInv(q, k)'
    <3>1. RunInv(q, k) /\ step'[q] = step[q] /\ done'[q] = done[q] BY <1>2 DEF LogAndRuns
    <3>2. CASE pc'[q] = pc[q] /\ saga'[q] = saga[q] BY <1>2, <3>1, <3>2 DEF RunInv, Recorded
    <3>3. CASE pc'[q] \in Ended BY <3>3 DEF RunInv, Ended, Forward, Backward
    <3>4. CASE pc'[q] \in {"read", "create"} /\ pc[q] \in {"new", "read"}
      BY <3>1, <3>4 DEF RunInv, Forward, Backward
    <3> QED BY <1>2, <3>2, <3>3, <3>4
  <2> QED BY <2>1, <2>2 DEF LogAndRuns
<1>3. CASE UNCHANGED vars BY <1>2, <1>3 DEF vars, logVars, runVars
<1>4. ASSUME NEW r \in Runs, NEW s \in Sagas, Execute(r, s) PROVE LogAndRuns(k)'
  BY <1>1, <1>2, <1>4 DEF Execute, logVars
<1>5. ASSUME NEW r \in Runs, NEW s \in Sagas, RetryReads(r, s) PROVE LogAndRuns(k)'
  BY <1>1, <1>2, <1>5 DEF RetryReads, logVars
<1>6. ASSUME NEW r \in Runs, RetryStarts(r) \/ RetryRefused(r) PROVE LogAndRuns(k)'
  BY <1>1, <1>2, <1>6 DEF RetryStarts, RetryRefused, logVars, Ended
<1>7. CASE Crash BY <1>1, <1>2, <1>7 DEF Crash, logVars, Ended
<1>8. ASSUME NEW s \in Sagas, NEW i \in Steps, NEW b \in BOOLEAN, LateEffect(s, i, b) PROVE LogAndRuns(k)'
  <2>1. b BY <1>8 DEF LateEffect, Calm, NoLateUndo
  <2>2. effect \in [Sagas -> [Steps -> BOOLEAN]] BY DEF TypeInv, TypeOK
  <2>3. \A t \in Sagas, j \in Steps : effect[t][j] => effect'[t][j]
    BY <1>8, <2>1, <2>2 DEF LateEffect, SetEffect
  <2>4. UNCHANGED <<status, last, pc, saga, step, done>> BY <1>8 DEF LateEffect, logVars, runVars
  <2>5. LogInv(k)' BY <2>3, <2>4 DEF LogAndRuns, LogInv, CompletedIsPrefix, Recorded
  <2>6. ASSUME NEW q \in Runs PROVE RunInv(q, k)'
    <3>1. pc[q] = "acted" => saga[q] \in Sagas /\ step[q] \in Steps
      BY DEF TypeInv, SagaKnown, StepKnown, AtStep
    <3> QED BY <2>3, <2>4, <3>1 DEF LogAndRuns, RunInv, Recorded
  <2> QED BY <2>5, <2>6 DEF LogAndRuns
<1>9. ASSUME NEW r \in Runs, Run(r), ~RetryStarts(r), ~RetryRefused(r) PROVE LogAndRuns(k)'
  <2>1. Own(r, k) BY <1>9, ForwardSteps, BackwardSteps DEF Run
  <2>2. pc[r] \in Running
    BY <1>9 DEF Run, CreateSaga, BeginRun, SagaTimesOut, CheckStep, RecordStarted, ActionOk, ActionErr,
       ActionTimesOut, RecordCompleted, RecordFailed, Complete, BeginCompensation, CompensateNext,
       CompensateOk, CompensateErr, CompensateTimesOut, RecordCompensated, RecordCompensatedFails,
       RecordCompensationFailed, Close, DatabaseError, Running
  <2>3. saga[r] \in Sagas BY <2>2 DEF TypeInv, SagaKnown, Running
  <2> QED BY <2>1, <2>2, <2>3, OwnSuffices DEF Calm
<1> QED BY <1>3, <1>4, <1>5, <1>6, <1>7, <1>8, <1>9 DEF Next

\* Log, effects and runs agree in every calm behaviour; with the order of the
\* log, if besides no run overlooks what earlier ones completed.
LEMMA CalmLog ==
  ASSUME NEW k
  PROVE  /\ Init => TypeInv /\ LogAndRuns(k)
         /\ TypeInv /\ Calm /\ LogAndRuns(k) /\ (k = 1 => NothingOverlooked') /\ [Next]_vars
              => TypeInv' /\ LogAndRuns(k)'
<1>1. Init => LogAndRuns(k)
  BY SagaAssumption DEF Init, LogAndRuns, LogInv, RunInv, CompletedIsPrefix, Recorded, Forward, Backward, Steps
<1>2. Init => TypeInv
  BY SagaAssumption DEF Init, TypeInv, TypeOK, SagaKnown, StepKnown, AtStep, SagaStatus, StepStatus, Steps
<1> QED BY <1>1, <1>2, StepLogAndRuns, StepTypeInv

\* saga-coordinator.ts:157-225, compensation-handler.ts:37-77: whatever is
\* skipped, executed again, undone, timed out or lost, with any number of runs,
\* sagas and slots, a completed saga has the effect of every step and each action
\* those before it to build on, while no two runs of one saga overlap and no
\* compensation comes late.
THEOREM CalmEffects == Spec => EffectsKept
<1>1. TypeInv /\ LogAndRuns(0) => CompletedInEffect /\ ActsInOrder
  <2> SUFFICES ASSUME TypeInv, LogAndRuns(0) PROVE CompletedInEffect /\ ActsInOrder
    OBVIOUS
  <2>1. CompletedInEffect BY DEF LogAndRuns, LogInv, CompletedInEffect, Recorded
  <2>2. ActsInOrder
    <3> SUFFICES ASSUME NEW r \in Runs, pc[r] = "act", NEW j \in 1..step[r] - 1
                 PROVE  last[saga[r]][j] = "completed" /\ effect[saga[r]][j]
      BY DEF ActsInOrder
    <3>1. saga[r] \in Sagas /\ step[r] \in Steps BY DEF TypeInv, SagaKnown, StepKnown, AtStep
    <3>2. Recorded(saga[r], j) BY DEF LogAndRuns, RunInv, Forward
    <3>3. j \in Steps BY <3>1, SagaAssumption DEF Steps
    <3> QED BY <3>1, <3>2, <3>3 DEF LogAndRuns, LogInv, Recorded
  <2> QED BY <2>1, <2>2
<1>2. Init => TypeInv /\ LogAndRuns(0) BY CalmLog
<1>3. TypeInv /\ Calm /\ LogAndRuns(0) /\ [Next]_vars => TypeInv' /\ LogAndRuns(0)'
  <2>1. 0 # 1 OBVIOUS
  <2> QED BY <2>1, CalmLog
<1> QED BY <1>1, <1>2, <1>3, PTL DEF Spec, EffectsKept

\* saga-coordinator.ts:169-216, compensation-handler.ts:42-49: and the log never
\* shows a step completed after one that is not, while, besides, no deadline makes
\* a run overlook what earlier ones had completed.
THEOREM CalmOrder == Spec => OrderKept
<1>1. LogAndRuns(1) => CompletedIsPrefix BY DEF LogAndRuns, LogInv
<1>2. Init => TypeInv /\ LogAndRuns(1) BY CalmLog
<1>3. TypeInv /\ Calm /\ LogAndRuns(1) /\ NothingOverlooked' /\ [Next]_vars => TypeInv' /\ LogAndRuns(1)'
  BY CalmLog
<1> QED BY <1>1, <1>2, <1>3, PTL DEF Spec, OrderKept
=============================================================================

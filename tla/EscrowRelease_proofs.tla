------------------------ MODULE EscrowRelease_proofs ------------------------
(***************************************************************************)
(* What EscrowRelease guarantees for any number of calls, escrows, workers *)
(* and failures.  Its rows are not exclusive (nothing locks an escrow      *)
(* around prepare()); what saves it is that release() runs in one step and *)
(* that no step makes a record `verified` again.                           *)
(***************************************************************************)
EXTENDS EscrowRelease, TLAPS

(***************************************************************************)
(* The recovery worker that runs beside the calls.                         *)
(***************************************************************************)
\* A sweep hands on rows of transactions only.
LEMMA FindTimedOutType ==
  ASSUME StoreTypeOK
  PROVE  FindTimedOut \in SUBSET [tx : Tx, hashed : BOOLEAN]
<1> SUFFICES ASSUME NEW r \in FindTimedOut PROVE r \in [tx : Tx, hashed : BOOLEAN]
  OBVIOUS
<1>1. PICK t \in Tx : r = [tx |-> t, hashed |-> t \in hash]
  BY DEF FindTimedOut, StoreTypeOK
<1>2. (t \in hash) \in BOOLEAN
  OBVIOUS
<1> QED BY <1>1, <1>2

\* The steps of a worker, whatever fails, keep the types of the rows and of
\* its own state.
LEMMA WorkerStepTypeOK ==
  ASSUME NEW w \in Workers, StoreTypeOK, WorkerTypeOK,
         \/ Tick(w) \/ Resolve(w) \/ CommitRow(w) \/ MarkRow(w) \/ Restore(w)
         \/ ResolveFails(w) \/ WorkerCrash(w)
  PROVE  StoreTypeOK' /\ WorkerTypeOK'
<1> USE WorkerAssumption DEF StoreTypeOK, WorkerTypeOK, RowStatus, storeVars, workerVars
<1>1. CASE Tick(w) BY <1>1, FindTimedOutType DEF Tick
<1>2. CASE Resolve(w) BY <1>2 DEF Resolve
<1>3. CASE CommitRow(w) BY <1>3 DEF CommitRow, MarkCommitted, Pending, NextRow
<1>4. CASE MarkRow(w) BY <1>4 DEF MarkRow, MarkRolledBack
<1>5. CASE Restore(w) BY <1>5 DEF Restore, NextRow
<1>6. CASE ResolveFails(w) BY <1>6 DEF ResolveFails, NextRow
<1>7. CASE WorkerCrash(w) BY <1>7 DEF WorkerCrash
<1> QED BY <1>1, <1>2, <1>3, <1>4, <1>5, <1>6, <1>7

(***************************************************************************)
(* Type correctness.                                                       *)
(***************************************************************************)
\* The step of a call keeps every variable within its type.
LEMMA CallTypeOK ==
  ASSUME NEW t \in Tx, TypeOK, Call(t)
  PROVE  TypeOK'
<1> USE CargoAssumption, ReleaseAssumption
    DEF TypeOK, StoreTypeOK, ChainTypeOK, WorkerTypeOK, EscrowTypeOK, RowStatus, ChainStatus,
        EscrowStatus, storeVars, workerVars, Escrow, Goto, ThenGoto, Fault, Places, Returned
<1>1. CASE Begin(t) BY <1>1 DEF Begin
<1>2. CASE CheckPending(t) BY <1>2 DEF CheckPending
<1>3. CASE InsertPending(t) BY <1>3 DEF InsertPending, InsertRow
<1>4. CASE ReleaseTentatively(t) BY <1>4 DEF ReleaseTentatively, EngineRelease, SetStatus
<1>5. CASE RollBackRefused(t) BY <1>5 DEF RollBackRefused, MarkRolledBack
<1>6. CASE Submit(t) BY <1>6 DEF Submit, Receive
<1>7. CASE SubmitRefused(t) BY <1>7 DEF SubmitRefused
<1>8. CASE Poll(t) BY <1>8 DEF Poll
<1>9. CASE PollDeadline(t) BY <1>9 DEF PollDeadline
<1>10. CASE Commit(t) BY <1>10 DEF Commit, MarkCommitted, Pending
<1>11. CASE CommitRefused(t) BY <1>11 DEF CommitRefused
<1>12. CASE ReverseEscrow(t) BY <1>12 DEF ReverseEscrow, ReverseRelease, Revert, SetStatus
<1>13. CASE RollBack(t) BY <1>13 DEF RollBack, MarkRolledBack
<1>14. CASE StatementFails(t) BY <1>14 DEF StatementFails
<1> QED BY <1>1, <1>2, <1>3, <1>4, <1>5, <1>6, <1>7, <1>8, <1>9, <1>10, <1>11, <1>12, <1>13, <1>14 DEF Call

\* So do the ledger, the clock, the worker and a restart of the process.
LEMMA OthersTypeOK ==
  ASSUME TypeOK,
         \/ \E t \in Tx : Environment(t)
         \/ \E w \in Workers : Worker(w) \/ WorkerFails(w)
         \/ Restart
  PROVE  TypeOK'
<1>1. ASSUME NEW t \in Tx, Environment(t) PROVE TypeOK'
  BY <1>1 DEF Environment, Expire, Conclude, TypeOK, StoreTypeOK, ChainTypeOK, WorkerTypeOK,
              EscrowTypeOK, ChainStatus, storeVars, workerVars
<1>2. ASSUME NEW w \in Workers, Worker(w) \/ WorkerFails(w) PROVE TypeOK'
  <2>1. StoreTypeOK' /\ WorkerTypeOK'
    BY <1>2, WorkerStepTypeOK DEF TypeOK, Worker, WorkerFails
  <2>2. chain' = chain /\ escrow' = escrow /\ pc' = pc /\ faults' \in 0..MaxFaults
    BY <1>2, ReleaseAssumption DEF Worker, WorkerFails, Fault, TypeOK
  <2> QED BY <2>1, <2>2 DEF TypeOK, ChainTypeOK, EscrowTypeOK
<1>3. CASE Restart
  BY <1>3, ReleaseAssumption
     DEF Restart, Fault, TypeOK, StoreTypeOK, ChainTypeOK, WorkerTypeOK, EscrowTypeOK,
         EscrowStatus, Places, Returned, storeVars, workerVars
<1> QED BY <1>1, <1>2, <1>3

\* Every variable keeps its type.
THEOREM TypeCorrect == Spec => []TypeOK
<1>1. Init => TypeOK
  BY ReleaseAssumption
     DEF Init, StoreInit, ChainInit, WorkerInit, TypeOK, StoreTypeOK, ChainTypeOK,
         WorkerTypeOK, EscrowTypeOK, RowStatus, ChainStatus, EscrowStatus, Places
<1>2. TypeOK /\ [Next]_vars => TypeOK'
  <2> SUFFICES ASSUME TypeOK, [Next]_vars PROVE TypeOK'
    OBVIOUS
  <2>1. CASE Next
    BY <2>1, CallTypeOK, OthersTypeOK DEF Next
  <2>2. CASE UNCHANGED vars
    BY <2>2 DEF vars, storeVars, workerVars, TypeOK, StoreTypeOK, ChainTypeOK,
                WorkerTypeOK, EscrowTypeOK
  <2> QED BY <2>1, <2>2
<1> QED BY <1>1, <1>2, PTL DEF Spec

(***************************************************************************)
(* The inductive invariant.                                                *)
(***************************************************************************)
\* Calls that release() let through, and those whose envelope went out.
Past == {"submit", "poll", "commit", "reverse", "rollback", "confirmed", "aborted"}
Claims(t) == pc[t] \in Past \/ chain[t] # "unsent"

\* A claimed escrow is out of reach of release() for good; one call claims it.
ClaimInv ==
  /\ \A t \in Tx : Claims(t) => escrow[Escrow(t)] # "verified"
  /\ \A t, u \in Tx : Claims(t) /\ Claims(u) /\ Escrow(t) = Escrow(u) => t = u

\* What the record of a claimed escrow says, where there still is one: the call
\* that claims it is the only one to move it.
RecordInv ==
  \A t \in Tx :
    /\ pc[t] \in {"submit", "poll", "commit", "reverse", "confirmed"}
         => escrow[Escrow(t)] \in {"released", "none"}
    /\ pc[t] \in {"rollback", "aborted"} => escrow[Escrow(t)] \in {"reversed", "none"}

PayoutInv == ClaimInv /\ RecordInv

\* The step of a call keeps it.
LEMMA CallPayoutInv ==
  ASSUME NEW t \in Tx, TypeOK, PayoutInv, Call(t)
  PROVE  PayoutInv'
<1> USE CargoAssumption, ReleaseAssumption
    DEF TypeOK, ChainTypeOK, EscrowTypeOK, EscrowStatus, storeVars, workerVars, Escrow, Goto,
        ThenGoto, Places, Returned, PayoutInv, ClaimInv, RecordInv, Claims, Past
<1>1. CASE Begin(t) BY <1>1 DEF Begin
<1>2. CASE CheckPending(t) BY <1>2 DEF CheckPending
<1>3. CASE InsertPending(t) BY <1>3 DEF InsertPending
<1>4. CASE ReleaseTentatively(t)
  BY <1>4 DEF ReleaseTentatively, EngineReleaseOk, EngineRelease, SetStatus
<1>5. CASE RollBackRefused(t) BY <1>5 DEF RollBackRefused
<1>6. CASE Submit(t) BY <1>6 DEF Submit, Receive
<1>7. CASE SubmitRefused(t) BY <1>7 DEF SubmitRefused
<1>8. CASE Poll(t) BY <1>8 DEF Poll
<1>9. CASE PollDeadline(t) BY <1>9 DEF PollDeadline
<1>10. CASE Commit(t) BY <1>10 DEF Commit
<1>11. CASE CommitRefused(t) BY <1>11 DEF CommitRefused
<1>12. CASE ReverseEscrow(t) BY <1>12 DEF ReverseEscrow, ReverseRelease, Revert, SetStatus
<1>13. CASE RollBack(t) BY <1>13 DEF RollBack
<1>14. CASE StatementFails(t) BY <1>14 DEF StatementFails
<1> QED BY <1>1, <1>2, <1>3, <1>4, <1>5, <1>6, <1>7, <1>8, <1>9, <1>10, <1>11, <1>12, <1>13, <1>14 DEF Call

\* The ledger decides no fewer envelopes; the worker touches no record; a
\* restart ends every call it takes a record from.
LEMMA OthersPayoutInv ==
  ASSUME TypeOK, PayoutInv,
         \/ \E t \in Tx : Environment(t)
         \/ \E w \in Workers : Worker(w) \/ WorkerFails(w)
         \/ Restart
  PROVE  PayoutInv'
<1> USE DEF TypeOK, ChainTypeOK, EscrowTypeOK, PayoutInv, ClaimInv, RecordInv, Claims, Past, Escrow
<1>1. ASSUME NEW t \in Tx, Environment(t) PROVE PayoutInv'
  BY <1>1 DEF Environment, Expire, Conclude
<1>2. ASSUME NEW w \in Workers, Worker(w) \/ WorkerFails(w) PROVE PayoutInv'
  BY <1>2 DEF Worker, WorkerFails
<1>3. CASE Restart
  BY <1>3, CargoAssumption, ReleaseAssumption DEF Restart, Returned
<1> QED BY <1>1, <1>2, <1>3

\* The invariant holds of every behaviour.
THEOREM PayoutsCorrect == Spec => []PayoutInv
<1>1. Init => PayoutInv
  BY DEF Init, ChainInit, PayoutInv, ClaimInv, RecordInv, Claims, Past
<1>2. TypeOK /\ PayoutInv /\ [Next]_vars => PayoutInv'
  <2> SUFFICES ASSUME TypeOK, PayoutInv, [Next]_vars PROVE PayoutInv'
    OBVIOUS
  <2>1. CASE Next
    BY <2>1, CallPayoutInv, OthersPayoutInv DEF Next
  <2>2. CASE UNCHANGED vars
    BY <2>2 DEF vars, PayoutInv, ClaimInv, RecordInv, Claims, Escrow
  <2> QED BY <2>1, <2>2
<1> QED BY <1>1, <1>2, TypeCorrect, PTL DEF Spec

\* Of all the calls there may ever be about an escrow, one sends an envelope:
\* it is paid out at most once, across races, recovery and restarts.
THEOREM PaidOnce == Spec => []NoDoublePayout
<1>1. PayoutInv => NoDoublePayout
  BY DEF PayoutInv, ClaimInv, Claims, NoDoublePayout
<1> QED BY <1>1, PayoutsCorrect, PTL

\* What a call returned stays true of the escrow's record, while there is one.
THEOREM RecordKept == Spec => []EscrowMatchesReturn
<1>1. PayoutInv => EscrowMatchesReturn
  BY DEF PayoutInv, RecordInv, EscrowMatchesReturn
<1> QED BY <1>1, PayoutsCorrect, PTL
=============================================================================

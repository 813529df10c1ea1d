--------------------------- MODULE Deposits_proofs ---------------------------
(***************************************************************************)
(* What TwoPhaseDeposit guarantees for any number of deposits, bins,       *)
(* weights, workers, locks and failures, and what SiloInventory guarantees *)
(* with deposits of either kind.  The theorems about Spec speak of the     *)
(* two-phase deposits alone, those about InventorySpec of both.            *)
(***************************************************************************)
EXTENDS SiloInventory, FiniteSetTheorems, TLAPS

(***************************************************************************)
(* The recovery worker that runs beside the calls.                         *)
(***************************************************************************)
\* A sweep hands on rows of transactions only.
LEMMA FindTimedOutType ==
  ASSUME StoreTypeOK
  PROVE  FindTimedOut \in SUBSET [tx : Tx, hashed : BOOLEAN]
<1> SUFFICES ASSUME NEW r \in FindTimedOut PROVE r \in [tx : Tx, hashed : BOOLEAN]
  OBVIOUS
<1>1. PICK t \in Tx : r = [tx |-> t, hashed |-> t \in hash]
  BY DEF FindTimedOut, StoreTypeOK
<1>2. (t \in hash) \in BOOLEAN
  OBVIOUS
<1> QED BY <1>1, <1>2

\* The steps of a worker, whatever fails, keep the types of the rows and of
\* its own state.
LEMMA WorkerStepTypeOK ==
  ASSUME NEW w \in Workers, StoreTypeOK, WorkerTypeOK,
         \/ Tick(w) \/ Resolve(w) \/ CommitRow(w) \/ MarkRow(w) \/ Restore(w)
         \/ ResolveFails(w) \/ WorkerCrash(w)
  PROVE  StoreTypeOK' /\ WorkerTypeOK'
<1> USE WorkerAssumption DEF StoreTypeOK, WorkerTypeOK, RowStatus, storeVars, workerVars
<1>1. CASE Tick(w) BY <1>1, FindTimedOutType DEF Tick
<1>2. CASE Resolve(w) BY <1>2 DEF Resolve
<1>3. CASE CommitRow(w) BY <1>3 DEF CommitRow, MarkCommitted, Pending, NextRow
<1>4. CASE MarkRow(w) BY <1>4 DEF MarkRow, MarkRolledBack
<1>5. CASE Restore(w) BY <1>5 DEF Restore, NextRow
<1>6. CASE ResolveFails(w) BY <1>6 DEF ResolveFails, NextRow
<1>7. CASE WorkerCrash(w) BY <1>7 DEF WorkerCrash
<1> QED BY <1>1, <1>2, <1>3, <1>4, <1>5, <1>6, <1>7

(***************************************************************************)
(* Type correctness.                                                       *)
(***************************************************************************)
\* The step of a call keeps every variable within its type.
LEMMA CallTypeOK ==
  ASSUME NEW t \in Tx, TypeOK, Call(t)
  PROVE  TypeOK'
<1> USE CargoAssumption, DepositAssumption, NoCallerAssumption
    DEF TypeOK, StoreTypeOK, ChainTypeOK, WorkerTypeOK, LockTypeOK, RowStatus, ChainStatus,
        storeVars, workerVars, depositVars, Bin, Goto, ThenGoto, Fault, Places, InLock, Returned
<1>1. CASE AcquireLock(t) BY <1>1 DEF AcquireLock, Acquire
<1>2. CASE LockTimesOut(t) BY <1>2 DEF LockTimesOut, AcquireTimesOut
<1>3. CASE ReadBalance(t) BY <1>3 DEF ReadBalance
<1>4. CASE CheckPending(t) BY <1>4 DEF CheckPending
<1>5. CASE InsertPending(t) BY <1>5 DEF InsertPending, InsertRow
<1>6. CASE ApplyTentative(t) BY <1>6 DEF ApplyTentative
<1>7. CASE LockedStepFails(t) BY <1>7 DEF LockedStepFails
<1>8. CASE Unlock(t) BY <1>8 DEF Unlock, Release
<1>9. CASE UnlockFails(t) BY <1>9 DEF UnlockFails, Release
<1>10. CASE Submit(t) BY <1>10 DEF Submit, Receive
<1>11. CASE SubmitRefused(t) BY <1>11 DEF SubmitRefused
<1>12. CASE Poll(t) BY <1>12 DEF Poll
<1>13. CASE PollDeadline(t) BY <1>13 DEF PollDeadline
<1>14. CASE Commit(t) BY <1>14 DEF Commit, MarkCommitted, Confirm, Pending
<1>15. CASE CommitRefused(t) BY <1>15 DEF CommitRefused
<1>16. CASE RestoreBalance(t) BY <1>16 DEF RestoreBalance
<1>17. CASE RollBack(t) BY <1>17 DEF RollBack, MarkRolledBack
<1>18. CASE DecisionFails(t) BY <1>18 DEF DecisionFails
<1> QED BY <1>1, <1>2, <1>3, <1>4, <1>5, <1>6, <1>7, <1>8, <1>9, <1>10, <1>11, <1>12, <1>13, <1>14, <1>15, <1>16, <1>17, <1>18 DEF Call

\* So does time, the ledger, a caller recording its hash and a crash.
LEMMA EnvironmentTypeOK ==
  ASSUME NEW t \in Tx, TypeOK, Environment(t)
  PROVE  TypeOK'
<1> USE CargoAssumption, DepositAssumption, NoCallerAssumption
    DEF TypeOK, StoreTypeOK, ChainTypeOK, WorkerTypeOK, LockTypeOK, RowStatus, ChainStatus,
        storeVars, workerVars, depositVars, Bin, Goto, Fault, Places, InLock, Returned
<1>1. CASE RowExpires(t) BY <1>1 DEF RowExpires, Expire
<1>2. CASE LedgerConcludes(t) BY <1>2 DEF LedgerConcludes, Conclude
<1>3. CASE RecordHash(t) BY <1>3 DEF RecordHash, SetSorobanHash
<1>4. CASE SessionEnds(t) BY <1>4 DEF SessionEnds, Release
<1>5. CASE Crash(t) BY <1>5 DEF Crash, Release
<1> QED BY <1>1, <1>2, <1>3, <1>4, <1>5 DEF Environment

\* And so does the worker, whatever fails.
LEMMA WorkerKeepsTypeOK ==
  ASSUME NEW w \in Workers, TypeOK, Worker(w) \/ WorkerFails(w)
  PROVE  TypeOK'
<1>1. StoreTypeOK' /\ WorkerTypeOK'
  BY WorkerStepTypeOK DEF TypeOK, Worker, WorkerSweep, WorkerCommit, WorkerRestore, WorkerFails
<1>2. chain' = chain /\ holder' = holder /\ pc' = pc /\ prev' = prev
  BY DEF Worker, WorkerSweep, WorkerCommit, WorkerRestore, WorkerFails, depositVars
<1>3. balance' \in [Bins -> Nat] /\ confirmed' \in [Bins -> Nat] /\ faults' \in 0..MaxFaults
  <2> USE CargoAssumption, DepositAssumption DEF TypeOK, WorkerTypeOK, depositVars, Bin
  <2>1. CASE WorkerSweep(w) BY <2>1 DEF WorkerSweep
  <2>2. CASE WorkerCommit(w) BY <2>2 DEF WorkerCommit, CommitRow, Confirm
  <2>3. CASE WorkerRestore(w) BY <2>3 DEF WorkerRestore, Restore
  <2>4. CASE WorkerFails(w) BY <2>4 DEF WorkerFails, Fault
  <2> QED BY <2>1, <2>2, <2>3, <2>4 DEF Worker
<1> QED BY <1>1, <1>2, <1>3 DEF TypeOK, ChainTypeOK, LockTypeOK

\* Every variable keeps its type, whatever the calls, the worker and the
\* failures do: balances in particular stay natural numbers, as restoring
\* writes back a value that was read.
THEOREM TypeCorrect == Spec => []TypeOK
<1>1. Init => TypeOK
  BY CargoAssumption, DepositAssumption, NoCallerAssumption
     DEF Init, StoreInit, ChainInit, WorkerInit, LockInit, TypeOK, StoreTypeOK,
         ChainTypeOK, WorkerTypeOK, LockTypeOK, RowStatus, ChainStatus, Places
<1>2. TypeOK /\ [Next]_vars => TypeOK'
  <2> SUFFICES ASSUME TypeOK, [Next]_vars PROVE TypeOK'
    OBVIOUS
  <2>1. CASE Next
    BY <2>1, CallTypeOK, EnvironmentTypeOK, WorkerKeepsTypeOK DEF Next
  <2>2. CASE UNCHANGED vars
    BY <2>2 DEF vars, storeVars, workerVars, depositVars, TypeOK, StoreTypeOK,
                ChainTypeOK, WorkerTypeOK, LockTypeOK
  <2> QED BY <2>1, <2>2
<1> QED BY <1>1, <1>2, PTL DEF Spec

(***************************************************************************)
(* The inductive invariant behind the safety of the rows.                  *)
(***************************************************************************)
\* A call between its acquire and its release holds the lock of its bin.
HoldsLock == \A t \in Tx : pc[t] \in InLock => holder[Bin(t)] = t

\* A call has a row exactly from its INSERT on, and the SELECT before that
\* has found the bin free, which it still is.
RowFollowsCall ==
  \A t \in Tx :
    /\ pc[t] \in {"idle", "read", "check", "insert"} => row[t] = "none"
    /\ pc[t] \in {"apply", "unlock", "submit"} => row[t] # "none"
    /\ pc[t] = "insert" => PendingOf(Bin(t)) = {}

\* Whoever is about to commit a row has seen its transaction succeed.
SuccessSeen ==
  /\ \A t \in Tx : pc[t] = "commit" => chain[t] = "success"
  /\ \A w \in Workers : at[w] = "commit" => chain[cur[w]] = "success"

RowInv ==
  /\ HoldsLock
  /\ RowFollowsCall
  /\ OnePendingPerBin
  /\ SuccessSeen
  /\ CommittedOnChain

\* What a call does keeps the rows sound.
LEMMA CallRowInv ==
  ASSUME NEW t \in Tx, TypeOK, RowInv, Call(t)
  PROVE  RowInv'
<1> USE CargoAssumption, DepositAssumption, NoCallerAssumption
    DEF TypeOK, StoreTypeOK, ChainTypeOK, WorkerTypeOK, LockTypeOK, RowStatus, ChainStatus,
        storeVars, workerVars, depositVars, Bin, Goto, ThenGoto, Fault, Places, InLock, Returned,
        RowInv, HoldsLock, RowFollowsCall, OnePendingPerBin, SuccessSeen, CommittedOnChain,
        Pending, PendingOf
<1>1. CASE AcquireLock(t) BY <1>1 DEF AcquireLock, Acquire
<1>2. CASE LockTimesOut(t) BY <1>2 DEF LockTimesOut, AcquireTimesOut
<1>3. CASE ReadBalance(t) BY <1>3 DEF ReadBalance
<1>4. CASE CheckPending(t) BY <1>4 DEF CheckPending
<1>5. CASE InsertPending(t) BY <1>5 DEF InsertPending, InsertRow
<1>6. CASE ApplyTentative(t) BY <1>6 DEF ApplyTentative
<1>7. CASE LockedStepFails(t) BY <1>7 DEF LockedStepFails
<1>8. CASE Unlock(t) BY <1>8 DEF Unlock, Release
<1>9. CASE UnlockFails(t) BY <1>9 DEF UnlockFails, Release
<1>10. CASE Submit(t) BY <1>10 DEF Submit, Receive
<1>11. CASE SubmitRefused(t) BY <1>11 DEF SubmitRefused
<1>12. CASE Poll(t) BY <1>12 DEF Poll, StatusReplies
<1>13. CASE PollDeadline(t) BY <1>13 DEF PollDeadline
<1>14. CASE Commit(t) BY <1>14 DEF Commit, MarkCommitted
<1>15. CASE CommitRefused(t) BY <1>15 DEF CommitRefused
<1>16. CASE RestoreBalance(t) BY <1>16 DEF RestoreBalance
<1>17. CASE RollBack(t) BY <1>17 DEF RollBack, MarkRolledBack
<1>18. CASE DecisionFails(t) BY <1>18 DEF DecisionFails
<1> QED BY <1>1, <1>2, <1>3, <1>4, <1>5, <1>6, <1>7, <1>8, <1>9, <1>10, <1>11, <1>12, <1>13, <1>14, <1>15, <1>16, <1>17, <1>18 DEF Call

\* What the ledger, crashes and the network do keeps the rows sound.
LEMMA EnvironmentRowInv ==
  ASSUME NEW t \in Tx, TypeOK, RowInv, Environment(t)
  PROVE  RowInv'
<1> USE CargoAssumption, DepositAssumption, NoCallerAssumption
    DEF TypeOK, StoreTypeOK, ChainTypeOK, WorkerTypeOK, LockTypeOK, RowStatus, ChainStatus,
        storeVars, workerVars, depositVars, Bin, Goto, Fault, Places, InLock, Returned,
        RowInv, HoldsLock, RowFollowsCall, OnePendingPerBin, SuccessSeen, CommittedOnChain,
        Pending, PendingOf
<1>1. CASE RowExpires(t) BY <1>1 DEF RowExpires, Expire
<1>2. CASE LedgerConcludes(t) BY <1>2 DEF LedgerConcludes, Conclude
<1>3. CASE RecordHash(t) BY <1>3 DEF RecordHash, SetSorobanHash
<1>4. CASE SessionEnds(t) BY <1>4 DEF SessionEnds, Release
<1>5. CASE Crash(t) BY <1>5 DEF Crash, Release
<1> QED BY <1>1, <1>2, <1>3, <1>4, <1>5 DEF Environment

\* What the recovery worker does keeps the rows sound.
LEMMA WorkerRowInv ==
  ASSUME NEW w \in Workers, TypeOK, RowInv, Worker(w) \/ WorkerFails(w)
  PROVE  RowInv'
<1> USE CargoAssumption, DepositAssumption, WorkerAssumption
    DEF TypeOK, StoreTypeOK, ChainTypeOK, WorkerTypeOK, LockTypeOK, RowStatus, ChainStatus,
        storeVars, workerVars, depositVars, Bin, Fault,
        RowInv, HoldsLock, RowFollowsCall, OnePendingPerBin, SuccessSeen, CommittedOnChain,
        Pending, PendingOf
<1>1. CASE Tick(w) /\ UNCHANGED <<chain, holder, depositVars>>
  BY <1>1 DEF Tick
<1>2. CASE Resolve(w) /\ UNCHANGED <<chain, holder, depositVars>>
  BY <1>2 DEF Resolve, StatusReplies
<1>3. CASE MarkRow(w) /\ UNCHANGED <<chain, holder, depositVars>>
  BY <1>3 DEF MarkRow, MarkRolledBack
<1>4. CASE WorkerCommit(w)
  BY <1>4 DEF WorkerCommit, CommitRow, MarkCommitted, Confirm, NextRow
<1>5. CASE WorkerRestore(w)
  BY <1>5 DEF WorkerRestore, Restore, NextRow
<1>6. CASE WorkerFails(w)
  BY <1>6 DEF WorkerFails, ResolveFails, WorkerCrash, NextRow
<1> QED BY <1>1, <1>2, <1>3, <1>4, <1>5, <1>6 DEF Worker, WorkerSweep

\* pending_store.ts:32-141, two_phase_deposit.ts: at every moment the rows, the locks and the
\* calls agree, whatever workers and failures do; the invariant the other theorems follow from.
THEOREM RowsCorrect == Spec => []RowInv
<1>1. Init => RowInv
  BY CargoAssumption, DepositAssumption, NoCallerAssumption
     DEF Init, StoreInit, ChainInit, WorkerInit, LockInit, RowInv, HoldsLock, RowFollowsCall,
         OnePendingPerBin, SuccessSeen, CommittedOnChain, Pending, PendingOf, InLock
<1>2. TypeOK /\ RowInv /\ [Next]_vars => RowInv'
  <2> SUFFICES ASSUME TypeOK, RowInv, [Next]_vars PROVE RowInv'
    OBVIOUS
  <2>1. CASE Next
    BY <2>1, CallRowInv, EnvironmentRowInv, WorkerRowInv DEF Next
  <2>2. CASE UNCHANGED vars
    BY <2>2 DEF vars, storeVars, workerVars, depositVars, RowInv, HoldsLock, RowFollowsCall,
                OnePendingPerBin, SuccessSeen, CommittedOnChain, Pending, PendingOf, Bin
  <2> QED BY <2>1, <2>2
<1> QED BY <1>1, <1>2, TypeCorrect, PTL DEF Spec

\* The lock of a bin keeps its deposits from overlapping, for any number of
\* calls, workers, crashes and lost replies: one pending row per bin.
THEOREM Exclusive == Spec => []OnePendingPerBin
BY RowsCorrect, PTL DEF RowInv

\* A committed row is backed by a successful transaction, whoever committed it.
THEOREM Backed == Spec => []CommittedOnChain
BY RowsCorrect, PTL DEF RowInv

(***************************************************************************)
(* Refinement.                                                             *)
(***************************************************************************)
\* The calls, the worker and the failures together follow the protocol: each
\* step begins, decides, sends or concludes one transaction as it may, or
\* leaves the rows and the ledger alone.
THEOREM Refinement == Spec => ImplementsProtocol
<1>1. Init => Protocol!Init
  BY DEF Init, StoreInit, ChainInit, Protocol!Init
<1>2. TypeOK /\ RowInv /\ [Next]_vars => [Protocol!Next]_Protocol!vars
  <2> SUFFICES ASSUME TypeOK, RowInv, Next
               PROVE  Protocol!Next \/ UNCHANGED <<row, chain>>
    BY DEF vars, storeVars, Protocol!vars
  <2> USE DEF TypeOK, StoreTypeOK, ChainTypeOK, WorkerTypeOK, RowStatus, ChainStatus, RowInv,
        storeVars, workerVars, depositVars, Bin, Pending, Protocol!Next, Protocol!Open
  <2>1. ASSUME NEW t \in Tx, Call(t)
        PROVE  Protocol!Next \/ UNCHANGED <<row, chain>>
    <3>1. CASE InsertPending(t)
      BY <3>1 DEF InsertPending, InsertRow, RowFollowsCall, PendingOf, Protocol!Begin
    <3>2. CASE Commit(t)
      BY <3>2 DEF Commit, MarkCommitted, SuccessSeen, Protocol!Commit
    <3>3. CASE RollBack(t)
      BY <3>3 DEF RollBack, MarkRolledBack, Protocol!RollBack
    <3>4. CASE Submit(t)
      BY <3>4 DEF Submit, Receive, RowFollowsCall, Protocol!Send
    <3>5. CASE ~(InsertPending(t) \/ Commit(t) \/ RollBack(t) \/ Submit(t))
      BY <2>1, <3>5 DEF Call, AcquireLock, LockTimesOut, ReadBalance, CheckPending,
         ApplyTentative, LockedStepFails, Unlock, UnlockFails, SubmitRefused, Poll,
         PollDeadline, CommitRefused, RestoreBalance, DecisionFails
    <3> QED BY <3>1, <3>2, <3>3, <3>4, <3>5
  <2>2. ASSUME NEW t \in Tx, Environment(t)
        PROVE  Protocol!Next \/ UNCHANGED <<row, chain>>
    BY <2>2 DEF Environment, RowExpires, Expire, LedgerConcludes, Conclude, RecordHash,
       SetSorobanHash, SessionEnds, Crash, Protocol!Conclude
  <2>3. ASSUME NEW w \in Workers, Worker(w) \/ WorkerFails(w)
        PROVE  Protocol!Next \/ UNCHANGED <<row, chain>>
    <3>1. CASE MarkRow(w) /\ UNCHANGED chain
      BY <3>1 DEF MarkRow, MarkRolledBack, Protocol!RollBack
    <3>2. CASE WorkerCommit(w)
      BY <3>2 DEF WorkerCommit, CommitRow, MarkCommitted, SuccessSeen, Protocol!Commit
    <3>3. CASE ~(MarkRow(w) /\ UNCHANGED chain) /\ ~WorkerCommit(w)
      BY <2>3, <3>3 DEF Worker, WorkerSweep, Tick, Resolve, WorkerRestore, Restore,
         WorkerFails, ResolveFails, WorkerCrash
    <3> QED BY <3>1, <3>2, <3>3
  <2> QED BY <2>1, <2>2, <2>3 DEF Next
<1> QED BY <1>1, <1>2, TypeCorrect, RowsCorrect, PTL DEF Spec, ImplementsProtocol, Protocol!Spec

(***************************************************************************)
(* What a call returned stays true of its row.                             *)
(***************************************************************************)
\* A row whose caller records no hash has one only when it is committed, so no
\* sweep finds it to commit: such a row is committed by its own call alone.
HashesExplained == \A t \in hash \ HashRecorders : row[t] = "committed"
SweptRows == [tx : HashRecorders, hashed : BOOLEAN] \cup [tx : Tx, hashed : {FALSE}]

ReturnInv ==
  /\ HashesExplained
  /\ \A w \in Workers : /\ at[w] = "commit" => cur[w] \in HashRecorders
                        /\ todo[w] \subseteq SweptRows
  /\ \A t \in Tx \ HashRecorders :
       row[t] = "committed" => pc[t] \in {"confirmed", "stopped"}
  /\ \A t \in Tx : pc[t] \in {"poll", "commit", "restore", "rollback"} => row[t] # "none"
  /\ ReturnMatchesRow

\* What a call does keeps what calls returned true of their rows.
LEMMA CallReturnInv ==
  ASSUME NEW t \in Tx, TypeOK, RowInv, ReturnInv, Call(t)
  PROVE  ReturnInv'
<1> USE DEF TypeOK, StoreTypeOK, ChainTypeOK, WorkerTypeOK, RowStatus,
        storeVars, workerVars, Goto, ThenGoto, Fault, Places, InLock, Returned,
        RowInv, RowFollowsCall, ReturnInv, HashesExplained, ReturnMatchesRow, Pending
<1>1. CASE AcquireLock(t) BY <1>1 DEF AcquireLock, Acquire
<1>2. CASE LockTimesOut(t) BY <1>2 DEF LockTimesOut, AcquireTimesOut
<1>3. CASE ReadBalance(t) BY <1>3 DEF ReadBalance
<1>4. CASE CheckPending(t) BY <1>4 DEF CheckPending
<1>5. CASE InsertPending(t) BY <1>5 DEF InsertPending, InsertRow
<1>6. CASE ApplyTentative(t) BY <1>6 DEF ApplyTentative
<1>7. CASE LockedStepFails(t) BY <1>7 DEF LockedStepFails
<1>8. CASE Unlock(t) BY <1>8 DEF Unlock, Release
<1>9. CASE UnlockFails(t) BY <1>9 DEF UnlockFails, Release
<1>10. CASE Submit(t) BY <1>10 DEF Submit, Receive
<1>11. CASE SubmitRefused(t) BY <1>11 DEF SubmitRefused
<1>12. CASE Poll(t) BY <1>12 DEF Poll, StatusReplies
<1>13. CASE PollDeadline(t) BY <1>13 DEF PollDeadline
<1>14. CASE Commit(t) BY <1>14 DEF Commit, MarkCommitted, Confirm
<1>15. CASE CommitRefused(t) BY <1>15 DEF CommitRefused
<1>16. CASE RestoreBalance(t) BY <1>16 DEF RestoreBalance
<1>17. CASE RollBack(t) BY <1>17 DEF RollBack, MarkRolledBack
<1>18. CASE DecisionFails(t) BY <1>18 DEF DecisionFails
<1> QED BY <1>1, <1>2, <1>3, <1>4, <1>5, <1>6, <1>7, <1>8, <1>9, <1>10, <1>11, <1>12, <1>13, <1>14, <1>15, <1>16, <1>17, <1>18 DEF Call

\* The ledger, crashes and the network keep it too.
LEMMA EnvironmentReturnInv ==
  ASSUME NEW t \in Tx, TypeOK, ReturnInv, Environment(t)
  PROVE  ReturnInv'
<1> USE DEF TypeOK, StoreTypeOK, WorkerTypeOK, RowStatus, storeVars, workerVars,
        depositVars, Goto, Returned, ReturnInv, HashesExplained, ReturnMatchesRow, Pending
<1>1. CASE RowExpires(t) BY <1>1 DEF RowExpires, Expire
<1>2. CASE LedgerConcludes(t) BY <1>2 DEF LedgerConcludes
<1>3. CASE RecordHash(t) BY <1>3 DEF RecordHash, SetSorobanHash
<1>4. CASE SessionEnds(t) BY <1>4 DEF SessionEnds
<1>5. CASE Crash(t) BY <1>5 DEF Crash
<1> QED BY <1>1, <1>2, <1>3, <1>4, <1>5 DEF Environment

\* A sweep hands on the hash a row had when it was pending.
LEMMA FindTimedOutSwept ==
  ASSUME StoreTypeOK, HashesExplained
  PROVE  FindTimedOut \subseteq SweptRows
<1> SUFFICES ASSUME NEW r \in FindTimedOut PROVE r \in SweptRows
  OBVIOUS
<1>1. PICK t \in expired : Pending(t) /\ r = [tx |-> t, hashed |-> t \in hash]
  BY DEF FindTimedOut
<1>2. CASE t \in hash
  <2>1. t \in HashRecorders
    BY <1>1, <1>2 DEF Pending, HashesExplained
  <2> QED BY <1>1, <1>2, <2>1 DEF SweptRows
<1>3. CASE t \notin hash
  <2>1. (t \in hash) = FALSE
    BY <1>3
  <2> QED BY <1>1, <2>1 DEF SweptRows, StoreTypeOK
<1> QED BY <1>2, <1>3

\* And so does the recovery worker.
LEMMA WorkerReturnInv ==
  ASSUME NEW w \in Workers, TypeOK, ReturnInv, Worker(w) \/ WorkerFails(w)
  PROVE  ReturnInv'
<1> USE DEF TypeOK, StoreTypeOK, WorkerTypeOK, RowStatus, storeVars, workerVars,
        depositVars, ReturnInv, HashesExplained, ReturnMatchesRow, Pending
<1>1. CASE Tick(w) /\ UNCHANGED <<chain, holder, depositVars>>
  <2>1. FindTimedOut \subseteq SweptRows
    BY FindTimedOutSwept
  <2> QED BY <1>1, <2>1 DEF Tick
<1>2. CASE Resolve(w) /\ UNCHANGED <<chain, holder, depositVars>>
  <2>1. PICK r \in todo[w] :
          /\ todo' = [todo EXCEPT ![w] = @ \ {r}]
          /\ \/ UNCHANGED <<cur, at>>
             \/ /\ cur' = [cur EXCEPT ![w] = r.tx]
                /\ \/ at' = [at EXCEPT ![w] = "mark"]
                   \/ r.hashed /\ at' = [at EXCEPT ![w] = "commit"]
    BY <1>2 DEF Resolve
  <2>2. r.hashed => r.tx \in HashRecorders
    BY DEF SweptRows
  <2>3. UNCHANGED storeVars
    BY <1>2 DEF Resolve
  <2> QED BY <1>2, <2>1, <2>2, <2>3
<1>3. CASE MarkRow(w) /\ UNCHANGED <<chain, holder, depositVars>>
  BY <1>3 DEF MarkRow, MarkRolledBack
<1>4. CASE WorkerCommit(w)
  BY <1>4 DEF WorkerCommit, CommitRow, MarkCommitted, NextRow
<1>5. CASE WorkerRestore(w)
  BY <1>5 DEF WorkerRestore, Restore, NextRow
<1>6. CASE WorkerFails(w)
  BY <1>6 DEF WorkerFails, ResolveFails, WorkerCrash, NextRow
<1> QED BY <1>1, <1>2, <1>3, <1>4, <1>5, <1>6 DEF Worker, WorkerSweep

\* A call that records no hash of its own returns the truth: a result that
\* says `committed`, or that it is not, is what the row says from then on,
\* whatever the workers and the other calls do.
THEOREM ReturnsTrue == Spec => []ReturnMatchesRow
<1>1. Init => ReturnInv
  BY DEF Init, StoreInit, WorkerInit, ReturnInv, HashesExplained, ReturnMatchesRow
<1>2. TypeOK /\ RowInv /\ ReturnInv /\ [Next]_vars => ReturnInv'
  <2> SUFFICES ASSUME TypeOK, RowInv, ReturnInv, [Next]_vars PROVE ReturnInv'
    OBVIOUS
  <2>1. CASE Next
    BY <2>1, CallReturnInv, EnvironmentReturnInv, WorkerReturnInv DEF Next
  <2>2. CASE UNCHANGED vars
    BY <2>2 DEF vars, storeVars, workerVars, depositVars, ReturnInv, HashesExplained, ReturnMatchesRow
  <2> QED BY <2>1, <2>2
<1>3. ReturnInv => ReturnMatchesRow
  BY DEF ReturnInv
<1> QED BY <1>1, <1>2, <1>3, TypeCorrect, RowsCorrect, PTL DEF Spec

(***************************************************************************)
(* Confirmed deposits.                                                     *)
(***************************************************************************)
\* Without a worker, a row stays pending until its own call decides it, and
\* keeps others out: the tentative balance is still there to be confirmed, and
\* the balance a rollback writes back has everything confirmed before it.  A
\* call at its SELECT may have read a tentative balance, never an older one.
BalanceInv ==
  /\ \A t \in Tx : pc[t] \in {"apply", "unlock", "submit", "poll", "commit", "restore",
                               "rollback"} => Pending(t)
  /\ \A t \in Tx : pc[t] \in {"check", "insert", "apply", "unlock", "submit", "poll",
                               "commit", "restore"} => confirmed[Bin(t)] <= prev[t]
  /\ \A t \in Tx : pc[t] \in {"unlock", "submit", "poll", "commit"} =>
       balance[Bin(t)] = prev[t] + Weight[t]
  /\ \A t, u \in Tx : /\ pc[t] = "check" /\ pc[u] \in {"submit", "poll", "commit"}
                       /\ Bin(t) = Bin(u)
                       => prev[u] + Weight[u] <= prev[t]
  /\ NoConfirmedDepositLost

\* Without recovery workers, what a call does loses no confirmed deposit.
LEMMA CallBalanceInv ==
  ASSUME NEW t \in Tx, TypeOK, RowInv, BalanceInv, Call(t)
  PROVE  BalanceInv'
<1> USE CargoAssumption, DepositAssumption, NoCallerAssumption
    DEF TypeOK, StoreTypeOK, LockTypeOK, RowStatus,
        storeVars, workerVars, Bin, Goto, ThenGoto, Fault, Places, InLock, Returned,
        RowInv, HoldsLock, RowFollowsCall, OnePendingPerBin, BalanceInv,
        NoConfirmedDepositLost, Pending, PendingOf
<1>1. CASE AcquireLock(t) BY <1>1 DEF AcquireLock, Acquire
<1>2. CASE LockTimesOut(t) BY <1>2 DEF LockTimesOut, AcquireTimesOut
<1>3. CASE ReadBalance(t) BY <1>3 DEF ReadBalance
<1>4. CASE CheckPending(t) BY <1>4 DEF CheckPending
<1>5. CASE InsertPending(t) BY <1>5 DEF InsertPending, InsertRow
<1>6. CASE ApplyTentative(t) BY <1>6 DEF ApplyTentative
<1>7. CASE LockedStepFails(t) BY <1>7 DEF LockedStepFails
<1>8. CASE Unlock(t) BY <1>8 DEF Unlock, Release
<1>9. CASE UnlockFails(t) BY <1>9 DEF UnlockFails, Release
<1>10. CASE Submit(t) BY <1>10 DEF Submit, Receive
<1>11. CASE SubmitRefused(t) BY <1>11 DEF SubmitRefused
<1>12. CASE Poll(t) BY <1>12 DEF Poll, StatusReplies
<1>13. CASE PollDeadline(t) BY <1>13 DEF PollDeadline
<1>14. CASE Commit(t) BY <1>14 DEF Commit, MarkCommitted, Confirm
<1>15. CASE CommitRefused(t) BY <1>15 DEF CommitRefused
<1>16. CASE RestoreBalance(t) BY <1>16 DEF RestoreBalance
<1>17. CASE RollBack(t) BY <1>17 DEF RollBack, MarkRolledBack
<1>18. CASE DecisionFails(t) BY <1>18 DEF DecisionFails
<1> QED BY <1>1, <1>2, <1>3, <1>4, <1>5, <1>6, <1>7, <1>8, <1>9, <1>10, <1>11, <1>12, <1>13, <1>14, <1>15, <1>16, <1>17, <1>18 DEF Call

\* Nor does what the ledger, crashes and the network do.
LEMMA EnvironmentBalanceInv ==
  ASSUME NEW t \in Tx, TypeOK, BalanceInv, Environment(t)
  PROVE  BalanceInv'
<1> USE DEF TypeOK, StoreTypeOK, RowStatus, storeVars, depositVars, Goto, Places, InLock,
        Returned, BalanceInv, NoConfirmedDepositLost, Pending, Bin
<1>1. CASE RowExpires(t) BY <1>1 DEF RowExpires, Expire
<1>2. CASE LedgerConcludes(t) BY <1>2 DEF LedgerConcludes
<1>3. CASE RecordHash(t) BY <1>3 DEF RecordHash, SetSorobanHash
<1>4. CASE SessionEnds(t) BY <1>4 DEF SessionEnds
<1>5. CASE Crash(t) BY <1>5 DEF Crash
<1> QED BY <1>1, <1>2, <1>3, <1>4, <1>5 DEF Environment

\* Where no recovery worker runs, no rollback, crash or lost reply takes a
\* confirmed deposit out of a bin, however many calls race for it.
THEOREM NothingLost ==
  ASSUME Workers = {}
  PROVE  Spec => []NoConfirmedDepositLost
<1>1. Init => BalanceInv
  BY CargoAssumption, DepositAssumption
     DEF Init, StoreInit, BalanceInv, NoConfirmedDepositLost, Pending
<1>2. TypeOK /\ RowInv /\ BalanceInv /\ [Next]_vars => BalanceInv'
  <2> SUFFICES ASSUME TypeOK, RowInv, BalanceInv, [Next]_vars PROVE BalanceInv'
    OBVIOUS
  <2>1. CASE Next
    BY <2>1, CallBalanceInv, EnvironmentBalanceInv DEF Next
  <2>2. CASE UNCHANGED vars
    BY <2>2 DEF vars, storeVars, depositVars, BalanceInv, NoConfirmedDepositLost, Pending, Bin
  <2> QED BY <2>1, <2>2
<1>3. BalanceInv => NoConfirmedDepositLost
  BY DEF BalanceInv
<1> QED BY <1>1, <1>2, <1>3, TypeCorrect, RowsCorrect, PTL DEF Spec

\* two_phase_deposit.ts:60-111, recovery_worker.ts:73-94: for any number of calls,
\* bins, workers and failures, a pending row is the only open transaction of its
\* bin, and a committed one stands for a success of the ledger.
THEOREM RowsBacked == Spec => []RowsAreBacked
<1>1. OnePendingPerBin /\ CommittedOnChain => RowsAreBacked BY DEF RowsAreBacked
<1> QED BY <1>1, Exclusive, Backed, PTL

(***************************************************************************)
(* Deposits of both kinds.                                                 *)
(***************************************************************************)
(***************************************************************************)
(* The inductive invariant.                                                *)
(***************************************************************************)
\* A plain call between its acquire and its release holds the lock of its bin.
PlainHoldsLock == \A d \in Plain : ppc[d] \in PlainInLock => holder[PlainBin[d]] = d

\* In a bin of its own kind, the holder's reading of the balance is current
\* until it writes, and what it wrote is there until it logs.
ReadingsAreCurrent ==
  \A d \in Plain : PlainOnly(PlainBin[d]) =>
    /\ ppc[d] = "write" => balance[PlainBin[d]] = pprev[d]
    /\ ppc[d] = "log" => balance[PlainBin[d]] = pprev[d] + Weight[d]

PlainInv ==
  /\ PlainHoldsLock
  /\ ReadingsAreCurrent
  /\ NoInventoryDrift
  /\ LogAddsUp

\* The inductive invariant of the two kinds of deposit together.
InventoryInv == InventoryTypeOK /\ RowInv /\ PlainInv

(***************************************************************************)
(* Steps of the two-phase calls, seen from the plain ones.                 *)
(***************************************************************************)
\* The steps of the two-phase calls and the worker, together.
LEMMA TwoPhaseStep ==
  ASSUME TypeOK, RowInv, [Next]_vars
  PROVE  TypeOK' /\ RowInv'
<1>1. CASE Next
  BY <1>1, CallTypeOK, EnvironmentTypeOK, WorkerKeepsTypeOK, CallRowInv, EnvironmentRowInv,
     WorkerRowInv DEF Next
<1>2. CASE UNCHANGED vars
  BY <1>2 DEF vars, storeVars, workerVars, depositVars, TypeOK, StoreTypeOK,
     ChainTypeOK, WorkerTypeOK, LockTypeOK, RowInv, HoldsLock, RowFollowsCall,
     OnePendingPerBin, SuccessSeen, CommittedOnChain, Pending, PendingOf, Bin
<1> QED BY <1>1, <1>2

\* They take no lock from a plain call ...
LEMMA LockNotTaken ==
  ASSUME TypeOK, [Next]_vars, NEW d \in Plain, holder[PlainBin[d]] = d
  PROVE  holder'[PlainBin[d]] = d
<1> USE PlainAssumption, NoCallerAssumption, DepositAssumption, CargoAssumption
    DEF TypeOK, LockTypeOK, Bin
<1>1. ASSUME NEW t \in Tx, Call(t) PROVE holder'[PlainBin[d]] = d
  BY <1>1 DEF Call, AcquireLock, Acquire, LockTimesOut, AcquireTimesOut, ReadBalance, CheckPending,
     InsertPending, ApplyTentative, LockedStepFails, Unlock, UnlockFails, Release, Submit,
     SubmitRefused, Poll, PollDeadline, Commit, CommitRefused, RestoreBalance, RollBack, DecisionFails
<1>2. ASSUME NEW t \in Tx, Environment(t) PROVE holder'[PlainBin[d]] = d
  BY <1>2 DEF Environment, RowExpires, LedgerConcludes, RecordHash, SessionEnds, Crash, Release
<1>3. ASSUME NEW w \in Workers, Worker(w) \/ WorkerFails(w) PROVE holder'[PlainBin[d]] = d
  BY <1>3 DEF Worker, WorkerSweep, WorkerCommit, WorkerRestore, WorkerFails
<1> QED BY <1>1, <1>2, <1>3 DEF Next, vars

\* ... and write to the bins of two-phase deposits only.
LEMMA PlainBinsLeftAlone ==
  ASSUME TypeOK, [Next]_vars, NEW b \in Bins, PlainOnly(b)
  PROVE  balance'[b] = balance[b] /\ confirmed'[b] = confirmed[b]
<1> USE DEF TypeOK, PlainOnly
<1>1. ASSUME NEW t \in Tx, Call(t) \/ Environment(t)
      PROVE  balance'[b] = balance[b] /\ confirmed'[b] = confirmed[b]
  BY <1>1 DEF Call, AcquireLock, LockTimesOut, ReadBalance, CheckPending,
     InsertPending, ApplyTentative, LockedStepFails, Unlock, UnlockFails, Submit,
     SubmitRefused, Poll, PollDeadline, Commit, Confirm, CommitRefused, RestoreBalance, RollBack,
     DecisionFails, Environment, RowExpires, LedgerConcludes, RecordHash, SessionEnds, Crash, depositVars
<1>2. ASSUME NEW w \in Workers, Worker(w) \/ WorkerFails(w)
      PROVE  balance'[b] = balance[b] /\ confirmed'[b] = confirmed[b]
  BY <1>2 DEF Worker, WorkerSweep, WorkerCommit, WorkerRestore, WorkerFails, CommitRow, Confirm,
     Restore, WorkerTypeOK, depositVars
<1> QED BY <1>1, <1>2 DEF Next, vars, depositVars

\* The steps of the two-phase calls keep what the plain ones rest on.
LEMMA TwoPhasePlainInv ==
  ASSUME InventoryInv, [Next]_vars, UNCHANGED plainVars
  PROVE  InventoryInv'
<1> USE DEF InventoryInv, InventoryTypeOK
<1>1. TypeOK' /\ RowInv' BY TwoPhaseStep
<1>2. InventoryTypeOK' BY <1>1 DEF plainVars
<1>3. PlainHoldsLock' BY LockNotTaken DEF PlainInv, PlainHoldsLock, plainVars
<1>4. \A b \in Bins : PlainOnly(b) => balance'[b] = balance[b] /\ confirmed'[b] = confirmed[b]
  BY PlainBinsLeftAlone
<1>5. (ReadingsAreCurrent /\ NoInventoryDrift /\ LogAddsUp)'
  BY <1>4, PlainAssumption
     DEF PlainInv, ReadingsAreCurrent, NoInventoryDrift, LogAddsUp, PlainOnly, Bin, plainVars
<1> QED BY <1>1, <1>2, <1>3, <1>5 DEF PlainInv

(***************************************************************************)
(* Steps of the plain calls.                                               *)
(***************************************************************************)
\* A plain call touches neither rows nor the ledger, the workers or the other
\* kind of call.
LEMMA PlainApart ==
  ASSUME NEW d \in Plain, PlainCall(d)
  PROVE  UNCHANGED <<storeVars, chain, workerVars, pc, prev>>
BY DEF PlainCall, PlainLock, PlainRead, PlainWrite, PlainLog, PlainFails, PlainUnlock,
   PlainUnlockFails, PlainSessionEnds, PlainCrash, Apart

\* The steps of the plain calls keep the types.
LEMMA PlainTypeOK ==
  ASSUME NEW d \in Plain, InventoryTypeOK, PlainCall(d)
  PROVE  InventoryTypeOK'
<1> USE PlainAssumption, DepositAssumption DEF InventoryTypeOK, PlainInLock, PlainReturned
<1>1. (StoreTypeOK /\ ChainTypeOK /\ WorkerTypeOK)' /\ UNCHANGED <<pc, prev>>
  BY PlainApart DEF TypeOK, StoreTypeOK, ChainTypeOK, WorkerTypeOK, storeVars, workerVars
<1>2. LockTypeOK'
  <2>1. \/ UNCHANGED holder
        \/ Acquire(d, PlainBin[d])
        \/ Release(d, PlainBin[d])
    BY DEF PlainCall, PlainLock, PlainRead, PlainWrite, PlainLog, PlainFails, PlainUnlock,
       PlainUnlockFails, PlainSessionEnds, PlainCrash, AcquireTimesOut
  <2>2. d \in Callers OBVIOUS
  <2> QED BY <2>1, <2>2 DEF TypeOK, LockTypeOK, Acquire, Release
<1>3. balance' \in [Bins -> Nat] /\ confirmed' \in [Bins -> Nat]
  <2>1. Weight[d] \in Nat /\ pprev[d] \in Nat OBVIOUS
  <2>2. CASE PlainWrite(d) BY <2>1, <2>2 DEF PlainWrite, TypeOK
  <2>3. CASE ~PlainWrite(d)
    BY <2>3 DEF PlainCall, PlainLock, PlainRead, PlainLog, PlainFails, PlainUnlock,
       PlainUnlockFails, PlainSessionEnds, PlainCrash, TypeOK
  <2> QED BY <2>2, <2>3
<1>4. faults' \in 0..MaxFaults
  BY DEF PlainCall, PlainLock, PlainRead, PlainWrite, PlainLog, PlainFails, PlainUnlock,
       PlainUnlockFails, PlainSessionEnds, PlainCrash, TypeOK, Fault
<1>5. ppc' \in [Plain -> {"idle"} \cup PlainInLock \cup PlainReturned]
  BY DEF PlainCall, PlainLock, PlainRead, PlainWrite, PlainLog, PlainFails, PlainUnlock,
       PlainUnlockFails, PlainSessionEnds, PlainCrash, PGoto, plainVars
<1>6. pprev' \in [Plain -> Nat] /\ log' \in [Plain -> {<<>>} \cup (Nat \X Nat)]
  <2>1. PlainBin[d] \in Bins OBVIOUS
  <2>2. balance[PlainBin[d]] \in Nat /\ pprev[d] \in Nat BY <2>1 DEF TypeOK
  <2>3. <<pprev[d], balance[PlainBin[d]]>> \in {<<>>} \cup (Nat \X Nat) BY <2>2
  <2>4. CASE PlainLog(d) BY <2>3, <2>4 DEF PlainLog
  <2>5. CASE ~PlainLog(d)
    BY <2>2, <2>5 DEF PlainCall, PlainLock, PlainRead, PlainWrite, PlainFails, PlainUnlock,
       PlainUnlockFails, PlainSessionEnds, PlainCrash, plainVars
  <2> QED BY <2>4, <2>5
<1> QED BY <1>1, <1>2, <1>3, <1>4, <1>5, <1>6 DEF TypeOK

\* A plain call knows nothing of rows, and takes no lock from another caller.
LEMMA PlainKeepsRows ==
  ASSUME NEW d \in Plain, InventoryInv, PlainCall(d)
  PROVE  RowInv'
<1>1. UNCHANGED <<storeVars, chain, workerVars, pc, prev>> BY PlainApart
<1>2. \A t \in Tx : holder[Bin(t)] = t => holder'[Bin(t)] = t
  BY PlainAssumption, NoCallerAssumption, DepositAssumption, CargoAssumption
     DEF PlainCall, PlainLock, PlainRead, PlainWrite, PlainLog, PlainFails, PlainUnlock,
     PlainUnlockFails, PlainSessionEnds, PlainCrash, Acquire, AcquireTimesOut, Release, Bin,
     InventoryInv, InventoryTypeOK, TypeOK, LockTypeOK
<1> QED BY <1>1, <1>2 DEF InventoryInv, RowInv, HoldsLock, RowFollowsCall, OnePendingPerBin,
     SuccessSeen, CommittedOnChain, Pending, PendingOf, Bin, storeVars, workerVars

\* Each plain call holds its bin's lock until it gives it up itself.
LEMMA PlainKeepsLock ==
  ASSUME NEW d \in Plain, InventoryInv, PlainCall(d)
  PROVE  PlainHoldsLock'
<1> USE PlainAssumption, NoCallerAssumption
    DEF InventoryInv, InventoryTypeOK, TypeOK, LockTypeOK, PGoto, PlainInLock, PlainInv, PlainHoldsLock
<1>1. CASE PlainLock(d)
  <2>1. d \in Callers /\ PlainBin[d] \in Bins OBVIOUS
  <2>2. CASE AcquireTimesOut(PlainBin[d]) /\ PGoto(d, "stopped") BY <2>2 DEF AcquireTimesOut
  <2>3. CASE Acquire(d, PlainBin[d]) BY <1>1, <2>1, <2>3 DEF PlainLock, Acquire, AcquireTimesOut
  <2> QED BY <1>1, <2>2, <2>3 DEF PlainLock
<1>2. CASE PlainRead(d) \/ PlainWrite(d) \/ PlainLog(d) \/ PlainFails(d)
  BY <1>2 DEF PlainRead, PlainWrite, PlainLog, PlainFails
<1>3. CASE PlainUnlock(d) BY <1>3 DEF PlainUnlock, Release
<1>4. CASE PlainUnlockFails(d) BY <1>4 DEF PlainUnlockFails, Release
<1>5. CASE PlainSessionEnds(d) BY <1>5 DEF PlainSessionEnds, Release, plainVars
<1>6. CASE PlainCrash(d) BY <1>6 DEF PlainCrash, Release
<1> QED BY <1>1, <1>2, <1>3, <1>4, <1>5, <1>6 DEF PlainCall

\* The balance and the log stay right: whoever writes holds the bin, so nobody
\* else is between its read and its log.
LEMMA PlainKeepsBalance ==
  ASSUME NEW d \in Plain, InventoryInv, PlainCall(d)
  PROVE  (ReadingsAreCurrent /\ NoInventoryDrift /\ LogAddsUp)'
<1> USE DEF InventoryInv, PlainInv, PGoto, PlainOnly, Bin, ReadingsAreCurrent, NoInventoryDrift, LogAddsUp
<1>1. PlainBin[d] \in Bins /\ Weight[d] \in Nat /\ pprev[d] \in Nat /\ balance[PlainBin[d]] \in Nat
  BY PlainAssumption, DepositAssumption DEF InventoryTypeOK, TypeOK
<1> USE <1>1 DEF InventoryTypeOK, TypeOK
<1>2. \A e \in Plain \ {d} : PlainBin[e] = PlainBin[d] /\ ppc[d] = "write" => ppc[e] \notin {"write", "log"}
  BY DEF PlainHoldsLock, PlainInLock
<1>3. CASE PlainWrite(d)
  <2>1. \A e \in Plain \ {d} : ppc'[e] = ppc[e] BY <1>3 DEF PlainWrite
  <2>2. PlainOnly(PlainBin[d]) => balance'[PlainBin[d]] = pprev[d] + Weight[d]
    BY <1>3 DEF PlainWrite
  <2>3. \A b \in Bins \ {PlainBin[d]} : balance'[b] = balance[b] /\ confirmed'[b] = confirmed[b]
    BY <1>3 DEF PlainWrite
  <2>4. ppc'[d] \in {"log", "bail"} /\ ppc[d] = "write" /\ pprev' = pprev /\ log' = log
    BY <1>3 DEF PlainWrite
  <2>5. ReadingsAreCurrent'
    <3> SUFFICES ASSUME NEW e \in Plain, PlainOnly(PlainBin[e])
                 PROVE  /\ ppc'[e] = "write" => balance'[PlainBin[e]] = pprev'[e]
                        /\ ppc'[e] = "log" => balance'[PlainBin[e]] = pprev'[e] + Weight[e]
      OBVIOUS
    <3>1. PlainBin[e] \in Bins BY PlainAssumption
    <3>2. CASE e = d BY <2>2, <2>4, <3>2
    <3>3. CASE e # d /\ PlainBin[e] = PlainBin[d]
      <4>1. ppc'[e] \notin {"write", "log"} BY <1>2, <2>1, <2>4, <3>3
      <4> QED BY <4>1
    <3>4. CASE e # d /\ PlainBin[e] # PlainBin[d]
      <4>1. ppc'[e] = ppc[e] /\ pprev'[e] = pprev[e] BY <2>1, <2>4, <3>4
      <4>2. balance'[PlainBin[e]] = balance[PlainBin[e]] BY <2>3, <3>1, <3>4
      <4> QED BY <4>1, <4>2
    <3> QED BY <3>2, <3>3, <3>4
  <2>6. PlainOnly(PlainBin[d]) => confirmed'[PlainBin[d]] = pprev[d] + Weight[d]
    BY <1>3 DEF PlainWrite
  <2>7. NoInventoryDrift' BY <2>2, <2>3, <2>6
  <2> QED BY <2>4, <2>5, <2>7
<1>4. CASE PlainRead(d) BY <1>4 DEF PlainRead
<1>5. CASE PlainLog(d)
  <2>1. \A e \in Plain \ {d} : ppc'[e] = ppc[e] /\ log'[e] = log[e] BY <1>5 DEF PlainLog
  <2>2. ppc'[d] \notin {"write", "log"} /\ UNCHANGED <<balance, confirmed, pprev>> BY <1>5 DEF PlainLog
  <2>3. log'[d] = <<pprev[d], balance[PlainBin[d]]>> BY <1>5 DEF PlainLog
  <2>4. PlainOnly(PlainBin[d]) => balance[PlainBin[d]] = pprev[d] + Weight[d] BY <1>5 DEF PlainLog
  <2>5. LogAddsUp'
    <3> SUFFICES ASSUME NEW e \in Plain, PlainOnly(PlainBin[e]), log'[e] # <<>>
                 PROVE  log'[e][2] = log'[e][1] + Weight[e]
      BY <2>2
    <3>1. CASE e = d BY <3>1, <2>3, <2>4
    <3>2. CASE e # d BY <3>2, <2>1
    <3> QED BY <3>1, <3>2
  <2> QED BY <2>1, <2>2, <2>5
<1>6. CASE ~(PlainRead(d) \/ PlainWrite(d) \/ PlainLog(d))
  <2>1. UNCHANGED <<balance, confirmed, pprev, log>>
    BY <1>6 DEF PlainCall, PlainLock, PlainFails, PlainUnlock, PlainUnlockFails, PlainSessionEnds,
       PlainCrash, plainVars
  <2>2. \A e \in Plain : ppc'[e] \in {"write", "log"} => ppc'[e] = ppc[e]
    BY <1>6 DEF PlainCall, PlainLock, PlainFails, PlainUnlock, PlainUnlockFails, PlainSessionEnds,
       PlainCrash, plainVars
  <2> QED BY <2>1, <2>2
<1> QED BY <1>3, <1>4, <1>5, <1>6

\* deposit_handler.ts:24-77, two_phase_deposit.ts:60-111, silo_lock.ts: the invariant
\* behind the theorems below holds in every state of both kinds of deposit.
THEOREM InventoryCorrect == InventorySpec => []InventoryInv
<1>1. InventoryInit => InventoryInv
  BY CargoAssumption, DepositAssumption, NoCallerAssumption, PlainAssumption
     DEF InventoryInit, Init, StoreInit, ChainInit, WorkerInit, LockInit, InventoryInv,
         InventoryTypeOK, TypeOK, StoreTypeOK, ChainTypeOK, WorkerTypeOK, LockTypeOK, RowStatus,
         ChainStatus, Places, RowInv, HoldsLock, RowFollowsCall, OnePendingPerBin, SuccessSeen,
         CommittedOnChain, Pending, PendingOf, InLock, PlainInv, PlainHoldsLock, PlainInLock,
         ReadingsAreCurrent, NoInventoryDrift, LogAddsUp
<1>2. InventoryInv /\ [InventoryNext]_inventoryVars => InventoryInv'
  <2> SUFFICES ASSUME InventoryInv, [InventoryNext]_inventoryVars PROVE InventoryInv'
    OBVIOUS
  <2>1. CASE [Next]_vars /\ UNCHANGED plainVars BY <2>1, TwoPhasePlainInv
  <2>2. ASSUME NEW d \in Plain, PlainCall(d) PROVE InventoryInv'
    BY <2>2, PlainTypeOK, PlainKeepsRows, PlainKeepsLock, PlainKeepsBalance DEF InventoryInv, PlainInv
  <2> QED BY <2>1, <2>2 DEF InventoryNext, inventoryVars
<1> QED BY <1>1, <1>2, PTL DEF InventorySpec

\* silo_lock.ts, deposit_handler.ts:24-77, two_phase_deposit.ts:60-111: for any
\* callers of either kind, no two are between lock and unlock of the same bin,
\* through timeouts, leaked sessions and crashes.
THEOREM OneInTheBin == InventorySpec => []LockGuardsBin
<1>1. InventoryInv => LockGuardsBin
  <2> SUFFICES ASSUME InventoryInv, NEW b \in Bins
               PROVE  Cardinality({t \in Tx : Bin(t) = b /\ pc[t] \in InLock}
                        \cup {d \in Plain : PlainBin[d] = b /\ ppc[d] \in PlainInLock}) <= 1
    BY DEF LockGuardsBin
  <2> DEFINE S == {t \in Tx : Bin(t) = b /\ pc[t] \in InLock}
                    \cup {d \in Plain : PlainBin[d] = b /\ ppc[d] \in PlainInLock}
  <2>1. S \subseteq {holder[b]}
    BY DEF InventoryInv, RowInv, HoldsLock, PlainInv, PlainHoldsLock
  <2>2. IsFiniteSet({holder[b]}) /\ Cardinality({holder[b]}) = 1 BY FS_Singleton
  <2>3. Cardinality(S) <= 1 BY <2>1, <2>2, FS_Subset
  <2> QED BY <2>3
<1> QED BY <1>1, InventoryCorrect, PTL

\* deposit_handler.ts:31-72: for any number of plain deposits, the balance of a
\* bin of theirs is the weight deposited and each log row adds up, whatever
\* fails; deposits of the other kind into other bins change nothing of it.
THEOREM PlainBinsAddUp == InventorySpec => []BinsAddUp
<1>1. InventoryInv => BinsAddUp BY DEF InventoryInv, PlainInv, BinsAddUp
<1> QED BY <1>1, InventoryCorrect, PTL

\* two_phase_deposit.ts:60-111: a plain deposit, which knows nothing of pending
\* rows, takes nothing away from what the rows stand for.
THEOREM RowsBackedBesidePlain == InventorySpec => []RowsAreBacked
<1>1. InventoryInv => RowsAreBacked BY DEF InventoryInv, RowInv, RowsAreBacked
<1> QED BY <1>1, InventoryCorrect, PTL
==============================================================================

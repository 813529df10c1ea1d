-------------------------- MODULE TwoPhaseDeposit ---------------------------
(***************************************************************************)
(* Inventory deposits under the two-phase commit protocol                  *)
(* (inventory/two_phase_deposit.ts), on one database, one Soroban ledger   *)
(* and any number of server processes, some of which run the recovery      *)
(* worker.  A transaction of Tx is one call of processTwoPhaseDeposit;     *)
(* each await of the call is a step.                                       *)
(***************************************************************************)
EXTENDS RecoveryWorker, SiloLock, Naturals

CONSTANTS Weight,          \* weightKg of each caller's ticket
          HashRecorders,   \* transactions whose caller uses setSorobanHash;
                           \* no flow of the code does
          MaxFaults        \* bound on errors and crashes in a behaviour

ASSUME DepositAssumption ==
  /\ Cargo = Bins          \* the cargo id is the name of the silo bin
  /\ Tx \subseteq Callers
  /\ Weight \in [Callers -> Nat]
  /\ HashRecorders \subseteq Tx
  /\ MaxFaults \in Nat

VARIABLES pc,              \* where each call is
          prev,            \* its previousBalance, kept in before_state too
          balance,         \* silo_bins.balance, 0 when there is no row
          confirmed,       \* weight of the deposits that count as made
          faults

depositVars == <<pc, prev, balance, confirmed, faults>>
vars == <<storeVars, chain, workerVars, holder, depositVars>>

Bin(t) == CargoOf[t]

InLock == {"read", "check", "insert", "apply", "unlock", "bail"}
Returned == {"confirmed", "aborted", "stopped"}
Places == {"idle", "submit", "poll", "commit", "restore", "rollback"}
            \cup InLock \cup Returned

TypeOK ==
  /\ StoreTypeOK /\ ChainTypeOK /\ WorkerTypeOK /\ LockTypeOK
  /\ pc \in [Tx -> Places]
  /\ prev \in [Tx -> Nat]
  /\ balance \in [Bins -> Nat]
  /\ confirmed \in [Bins -> Nat]
  /\ faults \in 0..MaxFaults

Init ==
  /\ StoreInit /\ ChainInit /\ WorkerInit /\ LockInit
  /\ pc = [t \in Tx |-> "idle"]
  /\ prev = [t \in Tx |-> 0]
  /\ balance = [b \in Bins |-> 0]
  /\ confirmed = [b \in Bins |-> 0]
  /\ faults = 0

Goto(t, place) == pc' = [pc EXCEPT ![t] = place]

\* A statement, a request or a process fails.
Fault == faults < MaxFaults /\ faults' = faults + 1

\* The step is done; its reply arrives, or is lost and the await throws.
ThenGoto(t, next, onError) ==
  \/ /\ Goto(t, next)
     /\ UNCHANGED faults
  \/ /\ Goto(t, onError)
     /\ Fault

(***************************************************************************)
(* Phase 1, under the lock of the bin.                                     *)
(***************************************************************************)
AcquireLock(t) ==
  /\ pc[t] = "idle"
  /\ Acquire(t, Bin(t))
  /\ Goto(t, "read")
  /\ UNCHANGED <<storeVars, chain, workerVars, prev, balance, confirmed, faults>>

LockTimesOut(t) ==
  /\ pc[t] = "idle"
  /\ AcquireTimesOut(Bin(t))
  /\ Goto(t, "stopped")
  /\ UNCHANGED <<storeVars, chain, workerVars, prev, balance, confirmed, faults>>

ReadBalance(t) ==
  /\ pc[t] = "read"
  /\ prev' = [prev EXCEPT ![t] = balance[Bin(t)]]
  /\ Goto(t, "check")
  /\ UNCHANGED <<storeVars, chain, workerVars, holder, balance, confirmed, faults>>

\* prepare(): insert() looks for a pending row of the cargo, ...
CheckPending(t) ==
  /\ pc[t] = "check"
  /\ Goto(t, IF PendingOf(Bin(t)) = {} THEN "insert" ELSE "bail")
  /\ UNCHANGED <<storeVars, chain, workerVars, holder, prev, balance, confirmed, faults>>

\* ... and writes its own: the SELECT locked nothing another insert() needs.
InsertPending(t) ==
  /\ pc[t] = "insert"
  /\ InsertRow(t)
  /\ ThenGoto(t, "apply", "bail")
  /\ UNCHANGED <<chain, workerVars, holder, prev, balance, confirmed>>

\* Mutant: the weight is deducted.
ApplyDeduction(t) ==
  /\ pc[t] = "apply"
  /\ balance' = [balance EXCEPT ![Bin(t)] = prev[t] - Weight[t]]
  /\ ThenGoto(t, "unlock", "bail")
  /\ UNCHANGED <<storeVars, chain, workerVars, holder, prev, confirmed>>

ApplyTentative(t) ==
  /\ pc[t] = "apply"
  /\ balance' = [balance EXCEPT ![Bin(t)] = prev[t] + Weight[t]]
  /\ ThenGoto(t, "unlock", "bail")
  /\ UNCHANGED <<storeVars, chain, workerVars, holder, prev, confirmed>>

\* A statement of phase 1 fails without effect; finally gives the lock up.
LockedStepFails(t) ==
  /\ pc[t] \in {"read", "check", "insert", "apply"}
  /\ Goto(t, "bail") /\ Fault
  /\ UNCHANGED <<storeVars, chain, workerVars, holder, prev, balance, confirmed>>

Unlock(t) ==
  /\ pc[t] \in {"unlock", "bail"}
  /\ Release(t, Bin(t))
  /\ Goto(t, IF pc[t] = "unlock" THEN "submit" ELSE "stopped")
  /\ UNCHANGED <<storeVars, chain, workerVars, prev, balance, confirmed, faults>>

\* releaseSiloBinLock throws: the call ends, whether or not the lock is free.
UnlockFails(t) ==
  /\ pc[t] \in {"unlock", "bail"}
  /\ Release(t, Bin(t)) \/ UNCHANGED holder
  /\ Goto(t, "stopped") /\ Fault
  /\ UNCHANGED <<storeVars, chain, workerVars, prev, balance, confirmed>>

\* The pooled session that still holds the lock is closed.  One that breaks while
\* its call is running takes the process with it, which is Crash: nothing listens
\* to the errors of a client that is checked out.
SessionEnds(t) ==
  /\ pc[t] = "stopped" /\ holder[Bin(t)] = t
  /\ Release(t, Bin(t))
  /\ UNCHANGED <<storeVars, chain, workerVars, depositVars>>

(***************************************************************************)
(* Phase 2, outside the lock: submitAndConfirm, then commit or rollback.   *)
(***************************************************************************)
\* The network answers PENDING, or takes the envelope and the answer is lost.
Submit(t) ==
  /\ pc[t] = "submit"
  /\ Receive(t)
  /\ ThenGoto(t, "poll", "restore")
  /\ UNCHANGED <<storeVars, workerVars, holder, prev, balance, confirmed>>

\* Any other answer, an error, or no connection.
SubmitRefused(t) ==
  /\ pc[t] = "submit"
  /\ Goto(t, "restore")
  /\ UNCHANGED <<storeVars, chain, workerVars, holder, prev, balance, confirmed, faults>>

\* Mutant: a transaction in flight is taken for a confirmed one.
PollOptimistic(t) ==
  /\ pc[t] = "poll"
  /\ \/ {"SUCCESS", "PENDING"} \cap StatusReplies(t) # {} /\ Goto(t, "commit")
     \/ "FAILED" \in StatusReplies(t) /\ Goto(t, "restore")
  /\ UNCHANGED <<storeVars, chain, workerVars, holder, prev, balance, confirmed, faults>>

Poll(t) ==
  /\ pc[t] = "poll"
  /\ \/ "SUCCESS" \in StatusReplies(t) /\ Goto(t, "commit")
     \/ "FAILED" \in StatusReplies(t) /\ Goto(t, "restore")
  /\ UNCHANGED <<storeVars, chain, workerVars, holder, prev, balance, confirmed, faults>>

\* Mutant: the deadline ends the polling of a submission that failed only.
PollDeadlineFailed(t) ==
  /\ pc[t] = "poll" /\ t \in expired /\ chain[t] = "failed"
  /\ Goto(t, "restore")
  /\ UNCHANGED <<storeVars, chain, workerVars, holder, prev, balance, confirmed, faults>>

\* 30 s after the submission, which is after the row's timeout_at.
PollDeadline(t) ==
  /\ pc[t] = "poll" /\ t \in expired
  /\ Goto(t, "restore")
  /\ UNCHANGED <<storeVars, chain, workerVars, holder, prev, balance, confirmed, faults>>

Confirm(t) == confirmed' = [confirmed EXCEPT ![Bin(t)] = @ + Weight[t]]

Commit(t) ==
  /\ pc[t] = "commit"
  /\ MarkCommitted(t) /\ Confirm(t)
  /\ ThenGoto(t, "confirmed", "stopped")
  /\ UNCHANGED <<chain, workerVars, holder, prev, balance>>

\* markCommitted finds no pending row and throws.
CommitRefused(t) ==
  /\ pc[t] = "commit" /\ ~Pending(t)
  /\ Goto(t, "stopped")
  /\ UNCHANGED <<storeVars, chain, workerVars, holder, prev, balance, confirmed, faults>>

\* rollbackBalance: no lock, and whatever the balance is by now.
RestoreBalance(t) ==
  /\ pc[t] = "restore"
  /\ balance' = [balance EXCEPT ![Bin(t)] = prev[t]]
  /\ ThenGoto(t, "rollback", "stopped")
  /\ UNCHANGED <<storeVars, chain, workerVars, holder, prev, confirmed>>

RollBack(t) ==
  /\ pc[t] = "rollback"
  /\ MarkRolledBack(t)
  /\ ThenGoto(t, "aborted", "stopped")
  /\ UNCHANGED <<chain, workerVars, holder, prev, balance, confirmed>>

\* A statement of phase 2 fails without effect and the call throws.
DecisionFails(t) ==
  /\ pc[t] \in {"commit", "restore", "rollback"}
  /\ Goto(t, "stopped") /\ Fault
  /\ UNCHANGED <<storeVars, chain, workerVars, holder, prev, balance, confirmed>>

\* The process of the call dies, and its database sessions with it.
Crash(t) ==
  /\ pc[t] \notin Returned \cup {"idle"}
  /\ Release(t, Bin(t))
  /\ Goto(t, "stopped") /\ Fault
  /\ UNCHANGED <<storeVars, chain, workerVars, prev, balance, confirmed>>

Call(t) ==
  \/ AcquireLock(t) \/ LockTimesOut(t) \/ ReadBalance(t) \/ CheckPending(t)
  \/ InsertPending(t) \/ ApplyTentative(t) \/ LockedStepFails(t)
  \/ Unlock(t) \/ UnlockFails(t)
  \/ Submit(t) \/ SubmitRefused(t) \/ Poll(t) \/ PollDeadline(t)
  \/ Commit(t) \/ CommitRefused(t) \/ RestoreBalance(t) \/ RollBack(t)
  \/ DecisionFails(t)

(***************************************************************************)
(* Time, the network, and callers that record the hash.                    *)
(***************************************************************************)
RowExpires(t) ==
  /\ Expire(t)
  /\ UNCHANGED <<chain, workerVars, holder, depositVars>>

LedgerConcludes(t) ==
  /\ Conclude(t)
  /\ UNCHANGED <<storeVars, workerVars, holder, depositVars>>

RecordHash(t) ==
  /\ t \in HashRecorders /\ pc[t] = "poll"
  /\ SetSorobanHash(t)
  /\ UNCHANGED <<chain, workerVars, holder, depositVars>>

Environment(t) ==
  RowExpires(t) \/ LedgerConcludes(t) \/ RecordHash(t) \/ SessionEnds(t) \/ Crash(t)

(***************************************************************************)
(* The recovery worker, its callback writing before_state back.            *)
(***************************************************************************)
WorkerSweep(w) ==
  /\ Tick(w) \/ Resolve(w) \/ MarkRow(w)
  /\ UNCHANGED <<chain, holder, depositVars>>

WorkerCommit(w) ==
  /\ CommitRow(w)
  /\ IF Pending(cur[w]) THEN Confirm(cur[w]) ELSE UNCHANGED confirmed
  /\ UNCHANGED <<chain, holder, pc, prev, balance, faults>>

WorkerRestore(w) ==
  /\ Restore(w)
  /\ balance' = [balance EXCEPT ![Bin(cur[w])] = prev[cur[w]]]
  /\ UNCHANGED <<chain, holder, pc, prev, confirmed, faults>>

WorkerFails(w) ==
  /\ ResolveFails(w) \/ WorkerCrash(w)
  /\ Fault
  /\ UNCHANGED <<chain, holder, pc, prev, balance, confirmed>>

Worker(w) == WorkerSweep(w) \/ WorkerCommit(w) \/ WorkerRestore(w)

Next ==
  \/ \E t \in Tx : Call(t) \/ Environment(t)
  \/ \E w \in Workers : Worker(w) \/ WorkerFails(w)

Spec == Init /\ [][Next]_vars

\* A call that has its lock keeps running until it returns or its process
\* dies; setInterval keeps ticking; the clock goes on.  Neither the network
\* nor the database owes anybody an outcome.
Fairness ==
  /\ \A t \in Tx : /\ WF_vars(pc[t] # "idle" /\ Call(t))
                   /\ WF_vars(RowExpires(t))
  /\ \A w \in Workers : WF_vars(Worker(w))

FairSpec == Spec /\ Fairness

(***************************************************************************)
(* Properties.                                                             *)
(***************************************************************************)
\* No two pending rows are about the same bin, although insert() checks in
\* one statement and writes in another: the lock of the bin is what keeps
\* another call from writing in between.
OnePendingPerBin ==
  \A t, u \in Tx : Pending(t) /\ Pending(u) /\ CargoOf[t] = CargoOf[u] => t = u

\* A committed row is backed by a Soroban transaction that succeeded, whether
\* the call or the worker committed it, however late.
CommittedOnChain ==
  \A t \in Tx : row[t] = "committed" => chain[t] = "success"

\* two_phase_deposit.ts:60-111, recovery_worker.ts:73-94: a row stands for one
\* open transaction of its bin, and for a success of the ledger once committed.
RowsAreBacked == OnePendingPerBin /\ CommittedOnChain

\* What the call returned is what the row says from then on: nothing the
\* worker does afterwards contradicts `committed` in the result.  (A caller
\* that records its hash lets the worker commit under its feet.)
ReturnMatchesRow ==
  \A t \in Tx \ HashRecorders :
    /\ pc[t] = "confirmed" => row[t] = "committed"
    /\ pc[t] = "aborted" => row[t] = "rolled_back"

\* A bin never holds less than the deposits confirmed for it: no rollback
\* takes a confirmed deposit away.  (It needs Workers = {}: the worker's
\* restore takes no lock and does not look at the row.)
NoConfirmedDepositLost ==
  \A b \in Bins : confirmed[b] <= balance[b]

\* Every transaction is decided once, one at a time for each bin, and sent
\* only after its row is there: the calls, the worker and the crashes
\* together implement the protocol of the TransactionCoordinator.
Protocol == INSTANCE CargoTransactions WITH state <- row
ImplementsProtocol == Protocol!Spec

\* With the worker running, a pending row is decided: a bin is never blocked
\* for ever by a call that died or failed.  (With a recorded hash it is, until
\* the ledger knows the transaction.)
EveryRowDecided == \A t \in Tx \ HashRecorders : Pending(t) ~> ~Pending(t)

\* A call that got its lock returns or throws, whatever fails and however
\* long the network keeps it waiting.
EveryCallReturns == \A t \in Tx : pc[t] = "read" ~> pc[t] \in Returned
=============================================================================

--------------------------- MODULE EscrowRelease ----------------------------
(***************************************************************************)
(* Escrow releases under the two-phase commit protocol                     *)
(* (settlement/two_phase_escrow.ts).  The escrow records are the memory of *)
(* one server process; rows and ledger outlive it.  A transaction of Tx is *)
(* one call of processTwoPhaseEscrowRelease; its cargo is the escrow.      *)
(***************************************************************************)
EXTENDS RecoveryWorker, EscrowEngine, Naturals

CONSTANT MaxFaults         \* bound on errors and crashes in a behaviour

ASSUME ReleaseAssumption == Cargo = Escrows /\ MaxFaults \in Nat

VARIABLES pc,              \* where each call is
          faults

vars == <<storeVars, chain, workerVars, escrow, pc, faults>>

Escrow(t) == CargoOf[t]

Returned == {"confirmed", "aborted", "stopped"}
Places == {"idle", "check", "insert", "release", "refused", "submit", "poll",
           "commit", "reverse", "rollback"} \cup Returned

TypeOK ==
  /\ StoreTypeOK /\ ChainTypeOK /\ WorkerTypeOK /\ EscrowTypeOK
  /\ pc \in [Tx -> Places]
  /\ faults \in 0..MaxFaults

\* The settlement saga has held and verified every escrow.
Init ==
  /\ StoreInit /\ ChainInit /\ WorkerInit
  /\ escrow = [e \in Escrows |-> "verified"]
  /\ pc = [t \in Tx |-> "idle"]
  /\ faults = 0

Goto(t, place) == pc' = [pc EXCEPT ![t] = place]

Fault == faults < MaxFaults /\ faults' = faults + 1

\* The step is done; its reply arrives, or is lost and the await throws.
ThenGoto(t, next, onError) ==
  \/ /\ Goto(t, next)
     /\ UNCHANGED faults
  \/ /\ Goto(t, onError)
     /\ Fault

\* The status is looked at before prepare() is awaited.
Begin(t) ==
  /\ pc[t] = "idle"
  /\ Goto(t, IF escrow[Escrow(t)] = "verified" THEN "check" ELSE "stopped")
  /\ UNCHANGED <<storeVars, chain, workerVars, escrow, faults>>

\* prepare(): the SELECT of insert() ...
CheckPending(t) ==
  /\ pc[t] = "check"
  /\ Goto(t, IF PendingOf(Escrow(t)) = {} THEN "insert" ELSE "stopped")
  /\ UNCHANGED <<storeVars, chain, workerVars, escrow, faults>>

\* ... and its INSERT; nothing keeps another call from doing the same.
InsertPending(t) ==
  /\ pc[t] = "insert"
  /\ InsertRow(t)
  /\ ThenGoto(t, "release", "stopped")
  /\ UNCHANGED <<chain, workerVars, escrow>>

ReleaseTentatively(t) ==
  /\ pc[t] = "release"
  /\ \/ /\ EngineReleaseOk(Escrow(t))
        /\ EngineRelease(Escrow(t))
        /\ Goto(t, "submit")
     \/ /\ ~EngineReleaseOk(Escrow(t))
        /\ Goto(t, "refused")
        /\ UNCHANGED escrow
  /\ UNCHANGED <<storeVars, chain, workerVars, faults>>

\* Mutant: every failure of the release reverses it.
RollBackRefusedReverses(t) ==
  /\ pc[t] = "refused"
  /\ MarkRolledBack(t) /\ ReverseRelease(Escrow(t))
  /\ Goto(t, "stopped")
  /\ UNCHANGED <<chain, workerVars, faults>>

\* release() returned err: the row is rolled back, the record left alone.
RollBackRefused(t) ==
  /\ pc[t] = "refused"
  /\ MarkRolledBack(t)
  /\ Goto(t, "stopped")
  /\ UNCHANGED <<chain, workerVars, escrow, faults>>

Submit(t) ==
  /\ pc[t] = "submit"
  /\ Receive(t)
  /\ ThenGoto(t, "poll", "reverse")
  /\ UNCHANGED <<storeVars, workerVars, escrow>>

SubmitRefused(t) ==
  /\ pc[t] = "submit"
  /\ Goto(t, "reverse")
  /\ UNCHANGED <<storeVars, chain, workerVars, escrow, faults>>

Poll(t) ==
  /\ pc[t] = "poll"
  /\ \/ "SUCCESS" \in StatusReplies(t) /\ Goto(t, "commit")
     \/ "FAILED" \in StatusReplies(t) /\ Goto(t, "reverse")
  /\ UNCHANGED <<storeVars, chain, workerVars, escrow, faults>>

PollDeadline(t) ==
  /\ pc[t] = "poll" /\ t \in expired
  /\ Goto(t, "reverse")
  /\ UNCHANGED <<storeVars, chain, workerVars, escrow, faults>>

Commit(t) ==
  /\ pc[t] = "commit"
  /\ MarkCommitted(t)
  /\ ThenGoto(t, "confirmed", "stopped")
  /\ UNCHANGED <<chain, workerVars, escrow>>

CommitRefused(t) ==
  /\ pc[t] = "commit" /\ ~Pending(t)
  /\ Goto(t, "stopped")
  /\ UNCHANGED <<storeVars, chain, workerVars, escrow, faults>>

ReverseEscrow(t) ==
  /\ pc[t] = "reverse"
  /\ ReverseRelease(Escrow(t))
  /\ Goto(t, "rollback")
  /\ UNCHANGED <<storeVars, chain, workerVars, faults>>

RollBack(t) ==
  /\ pc[t] = "rollback"
  /\ MarkRolledBack(t)
  /\ ThenGoto(t, "aborted", "stopped")
  /\ UNCHANGED <<chain, workerVars, escrow>>

\* A statement fails without effect and the call throws.
StatementFails(t) ==
  /\ pc[t] \in {"check", "insert", "refused", "commit", "rollback"}
  /\ Goto(t, "stopped") /\ Fault
  /\ UNCHANGED <<storeVars, chain, workerVars, escrow>>

Call(t) ==
  \/ Begin(t) \/ CheckPending(t) \/ InsertPending(t) \/ ReleaseTentatively(t)
  \/ RollBackRefused(t) \/ Submit(t) \/ SubmitRefused(t) \/ Poll(t)
  \/ PollDeadline(t) \/ Commit(t) \/ CommitRefused(t) \/ ReverseEscrow(t)
  \/ RollBack(t) \/ StatementFails(t)

\* The process dies: every call that runs and every record goes with it.
Restart ==
  /\ pc' = [t \in Tx |-> IF pc[t] \in Returned \cup {"idle"} THEN pc[t]
                                                             ELSE "stopped"]
  /\ escrow' = [e \in Escrows |-> "none"]
  /\ Fault
  /\ UNCHANGED <<storeVars, chain, workerVars>>

\* The callback restores a database, and escrow records are not in one.
Worker(w) ==
  /\ Tick(w) \/ Resolve(w) \/ CommitRow(w) \/ MarkRow(w) \/ Restore(w)
  /\ UNCHANGED <<chain, escrow, pc, faults>>

WorkerFails(w) ==
  /\ ResolveFails(w) \/ WorkerCrash(w)
  /\ Fault
  /\ UNCHANGED <<chain, escrow, pc>>

Environment(t) ==
  /\ \/ Expire(t) /\ UNCHANGED chain
     \/ Conclude(t) /\ UNCHANGED storeVars
  /\ UNCHANGED <<workerVars, escrow, pc, faults>>

Next ==
  \/ \E t \in Tx : Call(t) \/ Environment(t)
  \/ \E w \in Workers : Worker(w) \/ WorkerFails(w)
  \/ Restart

Spec == Init /\ [][Next]_vars

(***************************************************************************)
(* Properties.                                                             *)
(***************************************************************************)
\* An escrow is paid out at most once: of the calls that race for it, one
\* sends its envelope, however the rows, the worker and restarts interleave.
NoDoublePayout ==
  \A t, u \in Tx :
    chain[t] # "unsent" /\ chain[u] # "unsent" /\ Escrow(t) = Escrow(u) => t = u

\* What a call returned is what became of the escrow, unless a restart has
\* lost the record since: a losing call never undoes the winner's release.
EscrowMatchesReturn ==
  \A t \in Tx : escrow[Escrow(t)] # "none" =>
    /\ pc[t] = "confirmed" => escrow[Escrow(t)] = "released"
    /\ pc[t] = "aborted" => escrow[Escrow(t)] = "reversed"
=============================================================================

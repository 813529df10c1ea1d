--------------------------- MODULE SiloInventory ----------------------------
(***************************************************************************)
(* The two ways into a silo bin together: processTwoPhaseDeposit and the   *)
(* plain processDeposit (inventory/deposit_handler.ts), which shares the   *)
(* lock and the silo_bins table with it and knows nothing of pending rows. *)
(***************************************************************************)
EXTENDS TwoPhaseDeposit, FiniteSets

CONSTANTS Plain,           \* calls of processDeposit
          PlainBin         \* the bin each of them deposits into

ASSUME PlainAssumption ==
  /\ Plain \subseteq Callers \ Tx
  /\ PlainBin \in [Plain -> Bins]

VARIABLES ppc,             \* where each plain call is
          pprev,           \* the balance it read
          log              \* its deposit_log row: <<>>, or previous and new balance

plainVars == <<ppc, pprev, log>>
inventoryVars == <<vars, plainVars>>

PlainInLock == {"read", "write", "log", "unlock", "bail"}
PlainReturned == {"done", "stopped"}

InventoryTypeOK ==
  /\ TypeOK
  /\ ppc \in [Plain -> {"idle"} \cup PlainInLock \cup PlainReturned]
  /\ pprev \in [Plain -> Nat]
  /\ log \in [Plain -> {<<>>} \cup (Nat \X Nat)]

InventoryInit ==
  /\ Init
  /\ ppc = [d \in Plain |-> "idle"]
  /\ pprev = [d \in Plain |-> 0]
  /\ log = [d \in Plain |-> <<>>]

\* What no step of a plain call touches.
Apart == <<storeVars, chain, workerVars, pc, prev>>

PGoto(d, place) == ppc' = [ppc EXCEPT ![d] = place]

\* Mutant: the false of acquireSiloBinLock is ignored.
PlainLockUnchecked(d) ==
  /\ ppc[d] = "idle"
  /\ Acquire(d, PlainBin[d]) \/ AcquireTimesOut(PlainBin[d])
  /\ PGoto(d, "read")
  /\ UNCHANGED <<Apart, balance, confirmed, faults, pprev, log>>

PlainLock(d) ==
  /\ ppc[d] = "idle"
  /\ \/ Acquire(d, PlainBin[d]) /\ PGoto(d, "read")
     \/ AcquireTimesOut(PlainBin[d]) /\ PGoto(d, "stopped")
  /\ UNCHANGED <<Apart, balance, confirmed, faults, pprev, log>>

PlainRead(d) ==
  /\ ppc[d] = "read"
  /\ pprev' = [pprev EXCEPT ![d] = balance[PlainBin[d]]]
  /\ PGoto(d, "write")
  /\ UNCHANGED <<Apart, holder, balance, confirmed, faults, log>>

\* Mutant: the weight is deducted.
PlainWriteDeducts(d) ==
  /\ ppc[d] = "write"
  /\ balance' = [balance EXCEPT ![PlainBin[d]] = pprev[d] - Weight[d]]
  /\ confirmed' = [confirmed EXCEPT ![PlainBin[d]] = @ + Weight[d]]
  /\ \/ PGoto(d, "log") /\ UNCHANGED faults
     \/ PGoto(d, "bail") /\ Fault
  /\ UNCHANGED <<Apart, holder, pprev, log>>

\* The UPDATE commits on its own: the deposit is made, even when the rest of
\* the call fails.
PlainWrite(d) ==
  /\ ppc[d] = "write"
  /\ balance' = [balance EXCEPT ![PlainBin[d]] = pprev[d] + Weight[d]]
  /\ confirmed' = [confirmed EXCEPT ![PlainBin[d]] = @ + Weight[d]]
  /\ \/ PGoto(d, "log") /\ UNCHANGED faults
     \/ PGoto(d, "bail") /\ Fault
  /\ UNCHANGED <<Apart, holder, pprev, log>>

\* The balance is read again for the log; the two statements are one step,
\* nothing being done with the value in between.
PlainLog(d) ==
  /\ ppc[d] = "log"
  /\ log' = [log EXCEPT ![d] = <<pprev[d], balance[PlainBin[d]]>>]
  /\ \/ PGoto(d, "unlock") /\ UNCHANGED faults
     \/ PGoto(d, "bail") /\ Fault
  /\ UNCHANGED <<Apart, holder, balance, confirmed, pprev>>

PlainFails(d) ==
  /\ ppc[d] \in {"read", "write", "log"}
  /\ PGoto(d, "bail") /\ Fault
  /\ UNCHANGED <<Apart, holder, balance, confirmed, pprev, log>>

PlainUnlock(d) ==
  /\ ppc[d] \in {"unlock", "bail"}
  /\ Release(d, PlainBin[d])
  /\ PGoto(d, IF ppc[d] = "unlock" THEN "done" ELSE "stopped")
  /\ UNCHANGED <<Apart, balance, confirmed, faults, pprev, log>>

\* releaseSiloBinLock throws; the lock may stay with the pooled session ...
PlainUnlockFails(d) ==
  /\ ppc[d] \in {"unlock", "bail"}
  /\ Release(d, PlainBin[d]) \/ UNCHANGED holder
  /\ PGoto(d, "stopped") /\ Fault
  /\ UNCHANGED <<Apart, balance, confirmed, pprev, log>>

\* ... until that session is closed.
PlainSessionEnds(d) ==
  /\ ppc[d] = "stopped" /\ holder[PlainBin[d]] = d
  /\ Release(d, PlainBin[d])
  /\ UNCHANGED <<Apart, balance, confirmed, faults, plainVars>>

PlainCrash(d) ==
  /\ ppc[d] \in PlainInLock
  /\ Release(d, PlainBin[d])
  /\ PGoto(d, "stopped") /\ Fault
  /\ UNCHANGED <<Apart, balance, confirmed, pprev, log>>

PlainCall(d) ==
  \/ PlainLock(d) \/ PlainRead(d) \/ PlainWrite(d) \/ PlainLog(d)
  \/ PlainFails(d) \/ PlainUnlock(d) \/ PlainUnlockFails(d)
  \/ PlainSessionEnds(d) \/ PlainCrash(d)

InventoryNext ==
  \/ Next /\ UNCHANGED plainVars
  \/ \E d \in Plain : PlainCall(d)

InventorySpec == InventoryInit /\ [][InventoryNext]_inventoryVars

(***************************************************************************)
(* Properties.                                                             *)
(***************************************************************************)
\* One caller at a time between lock and unlock of a bin, of either kind,
\* through timeouts, leaked sessions and crashes.
LockGuardsBin ==
  \A b \in Bins : Cardinality(
    {t \in Tx : Bin(t) = b /\ pc[t] \in InLock}
      \cup {d \in Plain : PlainBin[d] = b /\ ppc[d] \in PlainInLock}) <= 1

PlainOnly(b) == \A t \in Tx : Bin(t) # b

\* Plain deposits alone never drift, whatever fails: the balance of a bin
\* without two-phase deposits is the weight of the deposits made into it.
NoInventoryDrift ==
  \A b \in Bins : PlainOnly(b) => balance[b] = confirmed[b]

\* The deposit log of such a bin explains its balance: the two balances of a
\* row, read by different statements, differ by the ticket's weight.
LogAddsUp ==
  \A d \in Plain : PlainOnly(PlainBin[d]) /\ log[d] # <<>> => log[d][2] = log[d][1] + Weight[d]

\* deposit_handler.ts:31-72: through failed statements, crashes and leaked
\* sessions, balance, log and tickets of a bin with plain deposits add up.
BinsAddUp == InventoryTypeOK /\ NoInventoryDrift /\ LogAddsUp
=============================================================================

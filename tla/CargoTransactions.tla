------------------------- MODULE CargoTransactions --------------------------
(***************************************************************************)
(* What the two-phase commit protocol promises about its rows, whoever     *)
(* runs it (core/state/transaction_controller.ts): the transactions of one *)
(* cargo are open one at a time, each is decided at most once, and it is   *)
(* committed only if its Soroban transaction succeeded.                    *)
(***************************************************************************)
EXTENDS Transactions

VARIABLES state, chain

vars == <<state, chain>>

Open(t) == state[t] = "pending"

Init ==
  /\ state = [t \in Tx |-> "none"]
  /\ chain = [t \in Tx |-> "unsent"]

Begin(t) ==
  /\ state[t] = "none"
  /\ \A u \in Tx : CargoOf[u] = CargoOf[t] => ~Open(u)
  /\ state' = [state EXCEPT ![t] = "pending"]
  /\ UNCHANGED chain

Commit(t) ==
  /\ Open(t)
  /\ chain[t] = "success"
  /\ state' = [state EXCEPT ![t] = "committed"]
  /\ UNCHANGED chain

RollBack(t) ==
  /\ Open(t)
  /\ state' = [state EXCEPT ![t] = "rolled_back"]
  /\ UNCHANGED chain

\* The network handles an envelope only after its transaction was opened.
Send(t) ==
  /\ chain[t] = "unsent"
  /\ state[t] # "none"
  /\ chain' = [chain EXCEPT ![t] = "inflight"]
  /\ UNCHANGED state

Conclude(t) ==
  /\ chain[t] = "inflight"
  /\ \E s \in {"success", "failed"} : chain' = [chain EXCEPT ![t] = s]
  /\ UNCHANGED state

Next ==
  \E t \in Tx : Begin(t) \/ Commit(t) \/ RollBack(t) \/ Send(t) \/ Conclude(t)

Spec == Init /\ [][Next]_vars
=============================================================================

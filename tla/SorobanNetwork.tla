--------------------------- MODULE SorobanNetwork ---------------------------
(***************************************************************************)
(* The Soroban ledger as SorobanSubmitter (blockchain/soroban_bridge.ts)   *)
(* sees it.  The ledger itself is external; what the client makes of its   *)
(* answers is the code's.                                                  *)
(***************************************************************************)
EXTENDS Transactions

VARIABLE chain         \* what has become of each transaction's envelope

ChainStatus == {"unsent", "inflight", "success", "failed"}

ChainTypeOK == chain \in [Tx -> ChainStatus]

ChainInit == chain = [t \in Tx |-> "unsent"]

\* The network takes the envelope of sendTransaction.
Receive(t) ==
  /\ chain[t] = "unsent"
  /\ chain' = [chain EXCEPT ![t] = "inflight"]

\* A ledger closes with the transaction in it.
Conclude(t) ==
  /\ chain[t] = "inflight"
  /\ \E s \in {"success", "failed"} : chain' = [chain EXCEPT ![t] = s]

\* What getTransactionStatus may return: the ledger's answer, or NOT_FOUND
\* for every HTTP, RPC or network error and for an unknown hash.
StatusReplies(t) ==
  {"NOT_FOUND"} \cup CASE chain[t] = "success"  -> {"SUCCESS"}
                       [] chain[t] = "failed"   -> {"FAILED"}
                       [] chain[t] = "inflight" -> {"PENDING"}
                       [] OTHER                 -> {}
=============================================================================

-------------------------- MODULE MCSiloInventory ---------------------------
(***************************************************************************)
(* Instances of SiloInventory: one bin with a deposit of each kind, one    *)
(* with plain deposits only.  Weights as in MCTwoPhaseDeposit.             *)
(***************************************************************************)
EXTENDS SiloInventory

CONSTANTS p1, p2, p3, t1, b1, b2

TxBin == [t \in Tx |-> b1]
PlainBins == [d \in Plain |-> IF d = p1 THEN b1 ELSE b2]
Weights == [c \in Callers |-> CASE c = p1 -> 1 [] c = p2 -> 2 [] OTHER -> 4]
=============================================================================

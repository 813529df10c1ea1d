-------------------------- MODULE MCEscrowRelease ---------------------------
(***************************************************************************)
(* An instance of EscrowRelease: every call is about the one escrow.       *)
(***************************************************************************)
EXTENDS EscrowRelease, TLC

CONSTANT e1

OneEscrow == [t \in Tx |-> e1]
Calls == Permutations(Tx)
=============================================================================

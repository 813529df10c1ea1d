---------------------------- MODULE Transactions ----------------------------
(***************************************************************************)
(* What the two-phase commit modules are parameterised by.                 *)
(***************************************************************************)
CONSTANTS Tx,          \* two-phase transactions, one per call of a flow
          Cargo,       \* values of the cargo_id column
          CargoOf      \* the cargo each transaction is about

ASSUME CargoAssumption == CargoOf \in [Tx -> Cargo]
=============================================================================

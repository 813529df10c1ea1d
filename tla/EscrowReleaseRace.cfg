\* Three calls race for one escrow; a worker without a submitter.
SPECIFICATION Spec
CONSTANTS
  e1 = e1
  Tx = {t1, t2, t3}
  Cargo = {e1}
  Escrows = {e1}
  NoTx = NoTx
  Workers = {w1}
  HasSubmitter = FALSE
  MaxFaults = 1
  CargoOf <- OneEscrow
SYMMETRY Calls
INVARIANTS NoDoublePayout EscrowMatchesReturn
CHECK_DEADLOCK FALSE

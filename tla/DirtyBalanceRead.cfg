\* Two calls on one bin, no failures, no worker.
SPECIFICATION Spec
CONSTANTS
  t1 = t1
  t2 = t2
  t3 = t3
  b1 = b1
  Tx = {t1, t2}
  Callers = {t1, t2}
  Cargo = {b1}
  Bins = {b1}
  NoCaller = NoCaller
  NoTx = NoTx
  Workers = {}
  HasSubmitter = TRUE
  HashRecorders = {}
  MaxFaults = 0
  CargoOf <- OneBin
  Weight <- Weights
INVARIANT RollbackRestoresBalance
CHECK_DEADLOCK FALSE

\* Two calls on one bin, one of which records its hash, and the recovery worker.
SPECIFICATION FairSpec
CONSTANTS
  t1 = t1
  t2 = t2
  t3 = t3
  b1 = b1
  Tx = {t1, t2}
  Callers = {t1, t2}
  Cargo = {b1}
  Bins = {b1}
  NoCaller = NoCaller
  NoTx = NoTx
  Workers = {w1}
  HasSubmitter = TRUE
  HashRecorders = {t1}
  MaxFaults = 1
  CargoOf <- OneBin
  Weight <- Weights
INVARIANTS RowsAreBacked ReturnMatchesRow
PROPERTIES ImplementsProtocol EveryRowDecided
CHECK_DEADLOCK FALSE

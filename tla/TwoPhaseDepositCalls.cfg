\* Calls alone, as the server runs them: no recovery worker is ever started.
SPECIFICATION FairSpec
CONSTANTS
  t1 = t1
  t2 = t2
  t3 = t3
  b1 = b1
  Tx = {t1, t2, t3}
  Callers = {t1, t2, t3}
  Cargo = {b1}
  Bins = {b1}
  NoCaller = NoCaller
  NoTx = NoTx
  Workers = {}
  HasSubmitter = TRUE
  HashRecorders = {}
  MaxFaults = 1
  CargoOf <- OneBin
  Weight <- Weights
INVARIANTS NoConfirmedDepositLost
PROPERTIES EveryCallReturns
CHECK_DEADLOCK FALSE

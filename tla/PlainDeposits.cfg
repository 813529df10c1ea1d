\* A two-phase and a plain deposit into one bin, two plain ones into another.
SPECIFICATION InventorySpec
CONSTANTS
  p1 = p1
  p2 = p2
  p3 = p3
  t1 = t1
  b1 = b1
  b2 = b2
  Tx = {t1}
  Plain = {p1, p2, p3}
  Callers = {p1, p2, p3, t1}
  Cargo = {b1, b2}
  Bins = {b1, b2}
  NoCaller = NoCaller
  NoTx = NoTx
  Workers = {}
  HasSubmitter = TRUE
  HashRecorders = {}
  MaxFaults = 2
  CargoOf <- TxBin
  PlainBin <- PlainBins
  Weight <- Weights
INVARIANTS LockGuardsBin BinsAddUp
CHECK_DEADLOCK FALSE

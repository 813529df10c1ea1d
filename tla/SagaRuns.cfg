SPECIFICATION OrderedSpec
CONSTANTS
  Sagas = {s1}
  s1 = s1
  tenant = tenant
  Tenants = {tenant}
  TenantOf <- OneTenant
  Depth = 3
  Runs = {1, 2}
  Cap = 2
  Retries = 2
  FaultKinds = {"database", "crash", "orphan", "stepTimeout", "sagaTimeout"}
  MaxFaults = 1
  NoSaga = NoSaga
INVARIANT SlotsMatchRuns
PROPERTIES EveryRunEnds EffectsKept OrderKept
CHECK_DEADLOCK FALSE

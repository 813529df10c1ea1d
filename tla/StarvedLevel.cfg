\* The first level is submitted to again and again.
SPECIFICATION SustainedSpec
CONSTANTS
  Jobs = {1, 2, 3}
  Levels = {1, 2}
  LevelOf <- JobLevels
  TypeOf <- JobTypes
  MaxConcurrency <- Limits
  MaxQueued = 1
  LevelShare = 1
  DefaultSize = 1
  PoolSizes = {0, 1, 2}
  Rounds = {1, 2}
  Unit = 2
  Quantum <- Quanta
  Producers = 1
  NoJob = NoJob
  MaxFaults = 0
  Recurring = {1, 2}
PROPERTY NoStarvation
CHECK_DEADLOCK FALSE

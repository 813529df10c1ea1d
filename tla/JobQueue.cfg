\* Three jobs of two levels, one submitted again and again, two overlapping rounds,
\* and one failure, crash or intervention.
SPECIFICATION SustainedSpec
CONSTANTS
  Jobs = {1, 2, 3}
  Levels = {1, 2}
  LevelOf <- JobLevels
  TypeOf <- JobTypes
  MaxConcurrency <- Limits
  MaxQueued = 1
  LevelShare = 1
  DefaultSize = 1
  PoolSizes = {0, 1, 2}
  Rounds = {1, 2}
  Unit = 2
  Quantum <- Quanta
  Producers = 1
  NoJob = NoJob
  MaxFaults = 1
  Recurring = {3}
INVARIANTS CountsAgree Accounted OverrunsBounded
PROPERTIES RunsOnce LevelsServed
CHECK_DEADLOCK FALSE

\* Two producers over a buffer for one record, two flush loops.
SPECIFICATION FairSpec
CONSTANTS
  Producers = {p1, p2}
  MaxRecords = 1
  MaxId = 3
  Loops = {l1, l2}
  BatchSize = 2
  FalsePositives = {2}
  Effort = 4
INVARIANTS NothingIsLost PartitionsAreSound
PROPERTIES EveryFlushEnds
CHECK_DEADLOCK FALSE

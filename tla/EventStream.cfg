\* Two callers, two overlapping archival passes, one fault.
SPECIFICATION Spec
CONSTANTS
  Callers = {c1, c2}
  MaxBatch = 2
  Passes = {a1, a2}
  Threshold = 2
  MaxRehydrate = 2
  ArchiveBatch = 3
  MonthOf <- MonthPairs
  MaxVersion = 3
  MaxFaults = 1
SYMMETRY Symmetry
INVARIANTS LogIsDense FoldsAreFaithful ArchivalIsSound
PROPERTIES ImplementsLog

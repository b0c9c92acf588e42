\* Four turns on two branches, two batches of writes, one crash.
SPECIFICATION Spec
CONSTANTS
  Main = main
  NoFloor = NoFloor
  Floors = {f1, f2, f3}
  Branches = {main, fork}
  Slots = {scene}
  Ticks = {1}
  MaxBatches = 2
  MaxTurns = 4
  MaxCrashes = 1
SYMMETRY Symmetry
\* Nothing is left to do once the bounds are reached.
CHECK_DEADLOCK FALSE
INVARIANTS
  TypeOK
  OnlyCommittedTurnsWrite
  SnapshotsKeepHistory
PROPERTIES
  CommitShowsWrites
  SnapshotIsCurrent

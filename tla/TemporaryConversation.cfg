\* Two requests at a time, three turns, two floors, one call, one crash.
SPECIFICATION Spec
CONSTANTS
  Requests = {r1, r2}
  Endings = {finalized, discarded}
  MaxFloors = 2
  MaxSeq = 1
  MaxCalls = 1
  MaxTurns = 3
  MaxCrashes = 1
SYMMETRY Symmetry
\* A conversation that has ended takes no more requests.
CHECK_DEADLOCK FALSE
INVARIANTS
  TypeOK
  OneOpenFloor
  OneTurnPerFloor
  DecisionStands
  RunsOnce
  CleanedStaysClean
PROPERTIES
  QuietAfterEnd

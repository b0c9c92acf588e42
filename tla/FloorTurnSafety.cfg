\* All requests, with polls and without crashes; no swipe falls into a retry.
SPECIFICATION Spec
CONSTANTS
  f1 = f1
  f2 = f2
  f3 = f3
  f4 = f4
  None = None
  Floors = {f1, f2, f3, f4}
  Kinds = {"respond", "regenerate", "retry"}
  MaxAttempts = 1
  MaxTurns = 5
  MaxCrashes = 0
  MaxPages = 2
  SlowTurns = FALSE
SYMMETRY Symmetry
\* Nothing is left to do once all turns have ended.
CHECK_DEADLOCK FALSE
INVARIANTS
  TypeOK
  AnswersSurvive
  OneLiveFloorPerNumber
  AcceptedIsCommitted

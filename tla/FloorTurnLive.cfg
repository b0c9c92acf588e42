\* Crashes, silent turns, verifier rounds and page swipes.
SPECIFICATION FairSpec
CONSTANTS
  f1 = f1
  f2 = f2
  f3 = f3
  f4 = f4
  None = None
  Floors = {f1, f2}
  Kinds = {"respond", "regenerate", "retry"}
  MaxAttempts = 2
  MaxTurns = 3
  MaxCrashes = 1
  MaxPages = 3
  SlowTurns = TRUE
\* Nothing is left to do once all turns have ended.
CHECK_DEADLOCK FALSE
INVARIANTS
  CurrentMeansCommittable
PROPERTIES
  SwipeSurvivesRetry
  StaleRunsEnd
  GeneratingEnds

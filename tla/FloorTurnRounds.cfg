\* The second round of the verifier is accepted and refused.
SPECIFICATION Spec
CONSTANTS
  f1 = f1
  f2 = f2
  f3 = f3
  f4 = f4
  None = None
  Floors = {f1, f2}
  Kinds = {"respond"}
  MaxAttempts = 2
  MaxTurns = 2
  MaxCrashes = 0
  MaxPages = 1
  SlowTurns = FALSE
SYMMETRY Symmetry
\* Nothing is left to do once all turns have ended.
CHECK_DEADLOCK FALSE
INVARIANTS
  AcceptedIsCommitted

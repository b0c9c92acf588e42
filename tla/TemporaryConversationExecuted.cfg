\* Shortest instance on which a call is called executed and was never run.
SPECIFICATION Spec
CONSTANTS
  Requests = {r1}
  Endings = {discarded}
  MaxFloors = 2
  MaxSeq = 2
  MaxCalls = 1
  MaxTurns = 2
  MaxCrashes = 0
\* A conversation that has ended takes no more requests.
CHECK_DEADLOCK FALSE
INVARIANT
  ExecutedMeansRan

\* Shortest instance on which conservative recovery is lost.
SPECIFICATION Spec
CONSTANTS
  j1 = j1
  j2 = j2
  s1 = s1
  w1 = w1
  w2 = w2
  x1 = x1
  x2 = x2
  x3 = x3
  NoWorker = NoWorker
  NoJob = NoJob
  Jobs = {j1}
  Scopes = {s1}
  Workers = {w1, w2}
  Slots = {x1}
  ScopeOf <- MCScopeOf
  MarkUncertain <- MCUncertain
  MaxConcurrentJobs = 1
  MaxAttempts = 2
  LeaseTtl = 1
  RetryDelays = {0}
  Ranks = {1}
  AttemptCap = 2
  ManualRetries = 1
  TimelyHeartbeats = FALSE
  MaxLate = 0
\* Once every job is terminal nothing is left to do.
CHECK_DEADLOCK FALSE
PROPERTY
  NeverReplayed

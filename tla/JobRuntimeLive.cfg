\* Two jobs, two workers of one slot; one lease runs out on a live worker, one worker may crash.
SPECIFICATION FairSpec
CONSTANTS
  j1 = j1
  j2 = j2
  s1 = s1
  w1 = w1
  w2 = w2
  x1 = x1
  x2 = x2
  x3 = x3
  NoWorker = NoWorker
  NoJob = NoJob
  Jobs = {j1, j2}
  Scopes = {s1}
  Workers = {w1, w2}
  Slots = {x1}
  ScopeOf <- MCScopeOf
  MarkUncertain <- MCUncertain
  MaxConcurrentJobs = 1
  MaxAttempts = 2
  LeaseTtl = 2
  RetryDelays = {1}
  Ranks = {1, 2}
  AttemptCap = 4
  ManualRetries = 0
  TimelyHeartbeats = TRUE
  MaxLate = 1
\* Once every job is terminal nothing is left to do.
CHECK_DEADLOCK FALSE
INVARIANTS
  CommitOnce
  SerialScope
PROPERTY
  EveryJobEnds

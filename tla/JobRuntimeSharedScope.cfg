\* Two jobs of one scope on one worker that runs both at a time.
SPECIFICATION Spec
CONSTANTS
  j1 = j1
  j2 = j2
  s1 = s1
  w1 = w1
  w2 = w2
  x1 = x1
  x2 = x2
  x3 = x3
  NoWorker = NoWorker
  NoJob = NoJob
  Jobs = {j1, j2}
  Scopes = {s1}
  Workers = {w1}
  Slots = {x1, x2}
  ScopeOf <- MCScopeOf
  MarkUncertain <- MCUncertain
  MaxConcurrentJobs = 2
  MaxAttempts = 2
  LeaseTtl = 1
  RetryDelays = {1}
  Ranks = {1, 2}
  AttemptCap = 2
  ManualRetries = 1
  TimelyHeartbeats = FALSE
  MaxLate = 0
SYMMETRY Symmetry
\* Once every job is terminal nothing is left to do.
CHECK_DEADLOCK FALSE
INVARIANT
  TypeOK
PROPERTIES
  CommitSeesLatest
  LedgerSpec
  AttemptsNeverLost

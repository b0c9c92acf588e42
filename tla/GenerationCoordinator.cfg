\* Three queueing callers, one that rejects, and one on another branch.
SPECIFICATION FairSpec
CONSTANTS
  q1 = q1
  q2 = q2
  q3 = q3
  n1 = n1
  o1 = o1
  main = main
  alt = alt
  Requests = {q1, q2, q3, n1, o1}
  Keys = {main, alt}
  KeyOf <- MCKeyOf
  ModeOf <- MCModeOf
\* Every call is made once: the system goes quiet.
CHECK_DEADLOCK FALSE
INVARIANTS
  TypeOK
  OneTaskPerKey
  NobodyWaitsForNothing
  ToldNoMeansNo
  NothingLeaks
PROPERTIES
  NoOvertaking
  EveryCallAnswered

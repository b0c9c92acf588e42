\* Two runs of one floor in a log with room for one, three connections, two
\* handlers.
SPECIFICATION Spec
CONSTANTS
  r1 = r1
  r2 = r2
  f1 = f1
  f2 = f2
  s1 = s1
  s2 = s2
  c1 = c1
  c2 = c2
  c3 = c3
  h1 = h1
  h2 = h2
  NoRun = NoRun
  NoConn = NoConn
  AdminContext = AdminContext
  Runs = {r1, r2}
  Floors = {f1, f2}
  Conns = {c1, c2, c3}
  Handlers = {h1, h2}
  FloorOf <- FloorOfRuns
  SessionOf <- SessionOfFloors
  ContextOf <- ContextOfConns
  MaxEventsPerRun = 2
  MaxRuns = 1
  MaxEvents = 3
  ClientSeqs = {0, 2}
  MaxFrames = 3
SYMMETRY Symmetry
CHECK_DEADLOCK FALSE
INVARIANTS
  TypeOK
  NothingLeaks
  CaughtUp
  ReconnectCovered
  NobodyForgotten
PROPERTIES
  FeedSpec

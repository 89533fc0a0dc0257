CONSTANTS
  MaxPhases = 2
  a = a
  b = b
  read = read
  Edges <- MCEdges
  Capabilities = {read}
  Intended <- MCIntended
  Granted <- MCIntended
  Scoped = {}
  StaleRoles = {}
  Lifetime = 15
  Delays = {0, 5}
  FlipCounts = {0, 3}
  Plans <- MCPlans
  Pacings = {"virtual", "real"}
  Deadline = 12
  RoundTrips = {1}
  MaxFaults = 2
SPECIFICATION Spec
CHECK_DEADLOCK FALSE
INVARIANTS
  TypeOK
  WindowIsTrue
  FlipFlopDisclosed
  NoTransitionWithoutCause
  StableStopsAreStreaks

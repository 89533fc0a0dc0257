CONSTANTS
  MaxPhases = 4
  a = a
  b = b
  whoami = whoami
  read = read
  Edges <- MCEdges
  Capabilities <- MCCapabilities
  Intended <- MCIntended
  Granted <- MCIntended
  Scoped <- MCScoped
  StaleRoles <- MCScoped
  Lifetime = 5
  Delays <- MCDelays
  FlipCounts = {0}
  Plans <- MCPlans
  Controls <- MCControls
  PerRow = 1
  MaxFaults = 1
SPECIFICATION Spec
CHECK_DEADLOCK FALSE
INVARIANT
  DeferredUsesPinned

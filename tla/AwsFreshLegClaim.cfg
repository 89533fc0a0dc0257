\* A delegation, a probe, a second delegation and a probe of the same role.
SPECIFICATION Spec
CONSTANTS
    Agents = {"a", "c"}
    Protected = {"principal"}
    StaleControl = {"c"}
    Declared <- MCDeclared
    Mutations <- MCMutations
    Roots = {"principal"}
    AgentChain <- MCChain
    Caps = {"read", "write", "identity.delegate", "whoami"}
    TwoCalls = {"write"}
    Verified = {"read"}
    PollTimeout = 1
    Requested = 3
    ChainCap = 2
    BootLifetime = 3
    Skew = 2
    MaxAttempts = 3
    MaxClock = 4
    MaxOperations = 4
INVARIANT ProbeUsesNewestSession
CHECK_DEADLOCK FALSE

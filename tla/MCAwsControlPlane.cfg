\* Three operations are enough for a mutation, a second one of the same role and
\* a restore, or for a delegation, a re-delegation and a probe; the clock lets a
\* session and the bootstrap session run out.
SPECIFICATION Spec
CONSTANTS
    Agents = {"a", "c"}
    Protected = {"principal"}
    StaleControl = {"c"}
    Declared <- MCDeclared
    Mutations <- MCMutations
    Roots = {"principal"}
    AgentChain <- MCChain
    Caps = {"read", "write", "identity.delegate", "whoami"}
    TwoCalls = {"write"}
    Verified = {"read"}
    PollTimeout = 1
    Requested = 3
    ChainCap = 2
    BootLifetime = 3
    Skew = 2
    MaxAttempts = 3
    MaxClock = 4
    MaxOperations = 3
INVARIANTS
    TypeOK
    RemovedIsRemoved
    StrictReceiptSawItsWrite
    IamClientsOutliveCalls
    DenialsAreFinal
CHECK_DEADLOCK FALSE

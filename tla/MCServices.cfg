\* Two handlers share the nonce cache; seconds are two steps of the clock long, so that the
\* whole seconds of a timestamp and the exact time of its nonce differ.  Requests are signed
\* in the first second, in either half of it, and stamped up to the window ahead or more.
CONSTANTS
    Agents = {a1}
    nonce2 = nonce2
    Nonces = {nonce1, nonce2}
    Handlers = {h1, h2}
    Second = 2
    Window = 1
    MaxStep = 1
    SignTime = 1
    AuthTime = 5
\* Two goroutines, and a second connection after the first was closed.
CONSTANTS
    Callers = {g1, g2}
    Items = {x, y}
    MaxConnections = 2
    MaxSubmits = 1
\* Three nodes, as many as the threshold, and two epochs in which to file a signature.
CONSTANTS
    n1 = n1
    n2 = n2
    Nodes = {n1, n2, n3}
    MaxEpoch = 2
    MaxSigns = 3
    MaxStops = 1
CONSTANTS
    Reports <- MCReports
    AssignmentTimes <- MCAssignmentTimes
    Policies <- MCPolicies
    MaxExecutionTime = 1
    MaxTimeDrift = 1
    MaxBatch = 2
    MaxTime = 4
\* A cache with room for one of two addresses.
CONSTANTS
    Addresses = {x1, x2}
    Lookups = {l1, l2}
    CacheTTL = 1
    CacheSize = 1
    MaxCall = 1
    CacheTime = 4
CONSTANTS
    SigningAgents = {1, 2}
    Chains = {c1, c2}
    Assignee = 1
    AssignedAt = 1
    ExecutionTime = 1
    TimeDrift = 1
    MessageTime = 3
    MaxMessages = 2
\* A report whose group can be built and one whose group cannot, submitted twice over.
CONSTANTS
    BundleReports = {"r1", "r2"}
    IntentOf <- MCIntentOf
    Complete = {"i1"}
    Self = v1
    Peers = {v2, v3}
    Required = 1
    MaxCheckpoints = 2
    MaxSignatures = 1
    MaxRetries = 2
    Submissions = {1, 2}
SPECIFICATION Spec
CONSTRAINT MCBounds
CHECK_DEADLOCK FALSE
INVARIANTS
    AuthenticatedOnce
    VerifierInv
    MessagesInv
    RulesInv
    ClientInv
    GossipInv
    BundlesInv
    ChainInv

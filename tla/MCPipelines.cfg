\* A batch of two reports; two nodes, one of which may hang, and one change of leadership.
CONSTANTS
    Nodes = {n1, n2}
    NoNode = NoNode
    Reports = {r1, r2}
    AgentOf <- MCAgentOf
    MaxRequests = 1
    MaxCalls = 3
    MaxElections = 1
\* Channels and pages of one intent, so that two intents fill them.  The agents, of whom
\* nothing here has to happen, are in MCLibrary.
CONSTANTS
    Intents = {i1, i2}
    Agents = {}
    PageSize = 1
    FeedSize = 1
    StreamSize = 2
    MaxBreaks = 1
\* Two calls, and a block to replay.
CONSTANTS
    Handlers = {h1, h2}
    MaxReplay = 1
    MaxEngineTasks = 2
SPECIFICATION Spec
CHECK_DEADLOCK FALSE
INVARIANTS
    ReceiptsInv
    StoreOutlivesRaft
PROPERTIES
    CallsAnswered
    IntentsGoOn
    StartAndStopEnd

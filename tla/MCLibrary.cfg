\* Three bidders: a winner and two runner-ups.
CONSTANTS
    AuctionAgents = {"a1", "a2", "a3"}
    Prices = {1, 2}
    MaxRounds = 1
    MaxReads = 1
    MaxAssignments = 3
\* The winner of a task and one other bidder.
CONSTANTS
    Bidders = {"a1", "a2"}
    Price <- MCPrice
    MaxTasks = 3
\* Deadlines that are unknown, shorter than the reserve, in a minute, and far away (ms).
CONSTANTS
    Kinds = {"real_time", "normal", "batch", "long_running", "urgent", "other"}
    Remaining = {0, 3000, 100000, 2000000}
    MaxDepth = 1
    MaxResponses = 2
\* Two overlapping pulls of one intent that is forgotten once.
CONSTANTS
    Subscribers = {"a1"}
    FeedIntents = {"i1"}
    Pullers = {"p1", "p2"}
    ChannelSize = 1
    MaxSubs = 2
    MaxForgets = 1
CONSTANTS
    Callers = {"c1", "c2"}
    Batches <- MCBatches
    Windows = {"i1", "i2"}
\* Two intents and their closings overfill an agent's channel of two; a page of one intent.
CONSTANTS
    i1 = i1
    Intents = {i1, i2}
    Agents = {a1}
    PageSize = 1
    FeedSize = 1
    StreamSize = 2
    MaxBreaks = 1
SPECIFICATION Spec
CONSTRAINT MCBounds
CHECK_DEADLOCK FALSE
INVARIANTS
    AuctionInv
    TasksInv
    IntakeInv
    StreamInv
    DataInv
    ConfigInv

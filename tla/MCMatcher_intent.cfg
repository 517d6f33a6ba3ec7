\* One intent, two bidders, up to three assignments: rejections, runner-ups and retries.
CONSTANTS
    i1 = i1
    a1 = a1
    a2 = a2
    NoAgent = NoAgent
    Intents = {i1}
    Agents = {a1, a2}
    Bids <- MCMixedBids
    EnableChainSubmit = TRUE
    MaxBids = 2
    MaxAssignments = 3
    MaxStreams = 3
SPECIFICATION Spec
\* The bounds on bids, assignments and streams let the instance stop.
CHECK_DEADLOCK FALSE
INVARIANTS
    OneLiveAssignment
    ConfirmedIsRecorded
PROPERTIES
    ConfirmedIsFinal

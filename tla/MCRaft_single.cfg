\* Single-node mode: two intents, two checkpoints, a restart, fair goroutines.
CONSTANTS
    v1 = v1
    v2 = v2
    r1 = r1
    r2 = r2
    r3 = r3
    Validators = {v1}
    ThresholdNum = 2
    ThresholdDenom = 3
    Weight <- MCNoWeight
    Reports = {r1, r2}
    IntentOf <- MCIntentOf
    MaxIntentsPerEpoch = 2
    NoHeader = NoHeader
    MaxLog = 3
    MaxEpoch = 1
    MaxProposals = 2
    RootLayerMayFail = FALSE
    MaxElections = 0
    MaxRestarts = 1
SPECIFICATION FairSpec
\* The bounds on the log, the proposals and the failures let the instance stop.
CHECK_DEADLOCK FALSE
INVARIANTS
    EpochAheadOfHandled
    SignaturesMatchCheckpoint
PROPERTIES
    EveryNodeSigns

\* A signature gossiped for the checkpoint of an idle leader is never among those it
\* holds.  Expected to be violated.
CONSTANTS
    v1 = v1
    v2 = v2
    r1 = r1
    r2 = r2
    r3 = r3
    Validators = {v1, v2}
    ThresholdNum = 2
    ThresholdDenom = 3
    Weight <- MCWeight
    Reports = {r1}
    IntentOf <- MCIntentOf
    MaxIntentsPerEpoch = 2
    NoHeader = NoHeader
    MaxLog = 2
    MaxEpoch = 0
    MaxProposals = 1
    RootLayerMayFail = FALSE
    MaxElections = 0
    MaxRestarts = 0
SPECIFICATION FairGossipSpec
\* The bounds on the log, the proposals and the failures let the instance stop.
CHECK_DEADLOCK FALSE
PROPERTIES
    GossipCollectsSignatures

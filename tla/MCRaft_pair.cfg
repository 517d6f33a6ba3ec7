\* Two validators, two intents of which an epoch may hold one, one checkpoint; with one intent
\* also a leader change and a crash at any moment; RootLayer errors.
CONSTANTS
    v1 = v1
    v2 = v2
    r1 = r1
    r2 = r2
    r3 = r3
    Validators = {v1, v2}
    ThresholdNum = 2
    ThresholdDenom = 3
    Weight <- MCWeight
    Reports = {r1, r2}
    IntentOf <- MCIntentOf
    MaxIntentsPerEpoch = 1
    NoHeader = NoHeader
    MaxLog = 3
    MaxEpoch = 0
    MaxProposals = 1
    RootLayerMayFail = TRUE
    MaxElections = 1
    MaxRestarts = 1
SPECIFICATION Spec
CONSTRAINT MCOneReportIfNodesFail
\* The bounds on the log, the proposals and the failures let the instance stop.
CHECK_DEADLOCK FALSE
INVARIANTS
    NoReportLost
    BundleItemsSigned
    TypeOK
    BundleQuorum
    OneBundleSubmissionPerEpoch

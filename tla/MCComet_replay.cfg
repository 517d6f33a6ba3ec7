\* Two validators, one report and two proposals in four blocks; one of the nodes crashes
\* and replays the chain from height 0, and the RootLayer may refuse a batch.
CONSTANTS
    v1 = v1
    v2 = v2
    r1 = r1
    r2 = r2
    Validators = {v1, v2}
    ThresholdNum = 2
    ThresholdDenom = 3
    Weight <- MCWeight
    Reports = {r1}
    MaxIntentsPerEpoch = 2
    NoHeader = NoHeader
    MaxBlocks = 4
    MaxEpoch = 1
    MaxProposals = 2
    MaxRestarts = 1
    RootLayerMayFail = TRUE
SYMMETRY MCSymmetry
CONSTRAINT MCOneFails
SPECIFICATION Spec
\* The bounds on epochs, proposals and failures let the instance stop.
CHECK_DEADLOCK FALSE
INVARIANTS
    ReplayInv
    CommittedSignaturesCount
    NoReportLost
    BatchesAreDue

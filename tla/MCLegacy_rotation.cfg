\* Two validators in two epochs with two headers proposed; at most one node at a
\* time is between two critical sections of one operation.
CONSTANTS
    Validators = {0, 1}
    ThresholdNum = 2
    ThresholdDenom = 3
    Weight <- MCWeight
    NoHeader = NoHeader
    MaxEpoch = 1
    MaxProposals = 2
SPECIFICATION Spec
CONSTRAINT MCOneBetween
\* The bounds on epochs, proposals and failures let the instance stop.
CHECK_DEADLOCK FALSE
INVARIANTS
    RotationInv
PROPERTIES
    NeverGoesBack

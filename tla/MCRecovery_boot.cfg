\* Two headers, possibly of one epoch, and a report; one restart and one snapshot.
CONSTANTS
    Reports = {r1}
    NoHeader = NoHeader
    MaxLog = 3
    MaxEpoch = 1
    MaxRestarts = 1
    MaxSnapshots = 1
SPECIFICATION Spec
INVARIANTS
    LoadFindsHeader
    ReportsReplayed
PROPERTIES
    ReplicaOfLog
    BootCompletes
\* The process may stop for good.
CHECK_DEADLOCK FALSE

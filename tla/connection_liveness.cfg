\* Release build, fair hosts; one datagram lost or duplicated, and the
\* server ends once and may be started again.
SPECIFICATION FairSpec
CONSTANTS
    Clients = {c1, c2}
    AssertsEnabled = FALSE
    MaxSeconds = 1
    SyncEvery = 1
    MaxCIDs = 3
    MaxNet = 2
    MaxFaults = 1
    MaxRestarts = 0
    MaxServerRestarts = 1
INVARIANTS
    HandlersMatchCids
PROPERTIES
    EventuallyConnected

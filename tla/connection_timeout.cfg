\* Release build: a client ends and does not come back.
SPECIFICATION FairSpec
CONSTANTS
    Clients = {c1}
    AssertsEnabled = FALSE
    MaxSeconds = 1
    SyncEvery = 1
    MaxCIDs = 3
    MaxNet = 2
    MaxFaults = 0
    MaxRestarts = 1
    MaxServerRestarts = 0
PROPERTIES
    TimedOutHandlersFreed

\* Debug build: nothing makes the ping thread wait for its CID.
SPECIFICATION Spec
CONSTANTS
    Clients = {c1}
    AssertsEnabled = TRUE
    MaxSeconds = 1
    SyncEvery = 1
    MaxCIDs = 2
    MaxNet = 2
    MaxFaults = 0
    MaxRestarts = 0
    MaxServerRestarts = 0
INVARIANTS
    CidKnownBeforeUse

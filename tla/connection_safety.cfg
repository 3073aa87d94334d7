\* Release build: two clients connect, ping, synchronise, end and start
\* again, with a datagram lost or duplicated.
SPECIFICATION Spec
CONSTANTS
    Clients = {c1, c2}
    AssertsEnabled = FALSE
    MaxSeconds = 1
    SyncEvery = 1
    MaxCIDs = 3
    MaxNet = 2
    MaxFaults = 1
    MaxRestarts = 1
    MaxServerRestarts = 0
INVARIANTS
    TypeOK
    HandlersMatchCids
    CidRoutesHome
    RepliesReachRequester
    CidsUnique
SYMMETRY MCSymmetry

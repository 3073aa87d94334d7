\* Either build: removals, a client restart, three IDs of which two have a
\* bit, objects created from JSON that lacks a field, and two datagrams in
\* flight of which one is lost or duplicated.
SPECIFICATION HSpec
CONSTANTS
    Types = {t}
    Fields = {1, 2}
    Values = {a, b}
    Default = a
    MaxObjs = 2
    MaxIDs = 3
    Clients = {c1}
    Builds = {"debug", "release"}
    MaxDatagram = 4
    Removals = TRUE
    MaxOps = 4
    MaxNet = 2
    MaxFaults = 1
    MaxRestarts = 1
    CreateJsons <- MCPartialJsons
INVARIANTS
    TypeOK
    OnlyIssuedIDs
    DirtyCoversDivergence
    DirtyCoversInFlight
    RoundTripSynchronises
PROPERTIES
    IDsNotRecycled
    OnlyStaleRepliesKill
    ShowsThePast
\* The client may have crashed.
CHECK_DEADLOCK FALSE

\* Either build: one client, its three threads, and a server that creates,
\* edits and removes.
SPECIFICATION ThreadsSpec
CONSTANTS
    Types = {t}
    Fields = {1, 2}
    Values = {a, b}
    Default = a
    MaxObjs = 2
    MaxIDs = 2
    Clients = {c1}
    Self = c1
    Builds = {"debug", "release"}
    MaxDatagram = 4
    Removals = TRUE
    MaxOps = 2
    MaxNet = 1
    MaxFaults = 0
    MaxRestarts = 0
    MaxPosts = 1
    CreateJsons <- MCCreateJsons
INVARIANTS
    ThreadsTypeOK
    DiffsAppliedWhole
    CoveredBetweenDiffs
PROPERTIES
    ConvergesOrDies
\* The client may have crashed.
CHECK_DEADLOCK FALSE

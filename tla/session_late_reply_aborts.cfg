\* Debug build: the second of two replies creates an object again.
SPECIFICATION Spec
CONSTANTS
    Types = {t}
    Fields = {1, 2}
    Values = {a, b}
    Default = a
    MaxObjs = 2
    MaxIDs = 2
    Clients = {c1}
    Builds = {"debug"}
    MaxDatagram = 4
    Removals = FALSE
    MaxOps = 3
    MaxNet = 2
    MaxFaults = 0
    MaxRestarts = 0
    CreateJsons <- MCCreateJsons
INVARIANTS
    NoAbort

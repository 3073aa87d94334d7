\* Either build, fair hosts: removals, a client restart, and two datagrams
\* in flight of which one is lost or duplicated, so that replies overtake
\* one another, reach another process than asked, or come twice.
SPECIFICATION FairSpec
CONSTANTS
    Types = {t}
    Fields = {1, 2}
    Values = {a, b}
    Default = a
    MaxObjs = 2
    MaxIDs = 2
    Clients = {c1}
    Builds = {"debug", "release"}
    MaxDatagram = 4
    Removals = TRUE
    MaxOps = 3
    MaxNet = 2
    MaxFaults = 1
    MaxRestarts = 1
    CreateJsons <- MCCreateJsons
PROPERTIES
    Converges
\* The client may have crashed.
CHECK_DEADLOCK FALSE

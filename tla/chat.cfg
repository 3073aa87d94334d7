\* Release build, fair hosts, nothing removed, no restart: the user posts
\* and edits, under any ID, two datagrams of the synchronisation are in
\* flight in any order, one of those or a packet of the user's is lost or
\* duplicated.
SPECIFICATION ChatSpec
CONSTANTS
    Message = Message
    Types = {Message}
    Fields = {"messageID", "author", "contents"}
    Texts = {x, y}
    Values <- MCValues
    Default = 0
    MaxObjs = 4
    MaxIDs = 4
    Clients = {c1}
    Builds = {"release"}
    MaxDatagram = 4
    Removals = FALSE
    MaxOps = 3
    MaxNet = 2
    MaxFaults = 1
    MaxRestarts = 0
    CreateJsons = {}
INVARIANTS
    MessageIDsAgree
    NoSegfault
    PresenceIsMonotone
PROPERTIES
    EditsFindTheirMessage
    Settles

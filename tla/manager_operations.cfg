\* Both builds, both roles: operations for any ID at a client, for live IDs
\* at the server.  A repeated creation takes a third address.
\* With and without lookups of IDs that have no object.
SPECIFICATION Spec
CONSTANTS
    Types = {t}
    Fields = {1, 2}
    Values = {a, b}
    Default = a
    MaxObjs = 3
    MaxIDs = 3
    Addr = {p, q, r}
    Null = Null
    Jsons <- MCJsons
INVARIANTS
    TypeOK
    HandlesMatchBits
    NullHandlesComeFromLookups
    ServerIDsIssued
    NoLeak
    SnapshotIsOfObjects
    NoSegfault
PROPERTIES
    ImplementsObjectMap
SYMMETRY MCSymmetry
\* A failed assertion or a null dereference ends the process.
CHECK_DEADLOCK FALSE

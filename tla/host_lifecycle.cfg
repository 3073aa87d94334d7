\* A server or a client is constructed and, if the user asks, shut down,
\* while packets arrive.
SPECIFICATION FairSpec
INVARIANTS
    TypeOK
    ThreadsHaveTheirMembers
    SafeOnceUp
PROPERTIES
    ShutdownReachesHostFuture
\* The process may have ended.
CHECK_DEADLOCK FALSE

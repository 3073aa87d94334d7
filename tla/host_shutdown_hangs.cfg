\* The user shuts the host down.
SPECIFICATION FairSpec
PROPERTIES
    ShutdownCompletes
\* The process may have ended.
CHECK_DEADLOCK FALSE

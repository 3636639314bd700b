CONSTANTS
    MaxFd <- Limit
    MaxConnections = 3
SPECIFICATION FairConnSpec
INVARIANTS
    ConnTypeOK
    CallbacksLive
    AlwaysWatched
    AssertionsHold
    NothingLeaks
    SecurityKept
PROPERTIES
    ArrivedIsTaken
\* loop() may end, and a session that is never spoken to may wait for ever.
CHECK_DEADLOCK FALSE

SPECIFICATION FairSpec
CONSTANTS
    NumMsgs = 2
    Workers = {w1, w2}
    QueueSize = 2
    MaxAge = 2
    AckWait = 1
    InboxSize = 1
    MaxFaults = 2
INVARIANTS
    TypeOK
    AckedWasBroadcast
PROPERTIES
    QueuedIsBroadcast

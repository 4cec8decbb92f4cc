SPECIFICATION FairSpec
CONSTANTS
    Workers = {w1}
    SendCap = 1
    ReplaySize = 2
    MaxMsgs = 4
    MaxLives = 1
INVARIANTS
    TypeOK
PROPERTIES
    FirstUseQueuedIsDelivered
    SlowClientLeaves

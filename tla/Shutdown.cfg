SPECIFICATION FairSpec
CONSTANTS
    Conns = {c1, c2}
    Workers = {w1}
    Monitors = {m1}
    QueueSize = 1
    MaxTasks = 2
INVARIANTS TypeOK NoPanicUnlessForced LeftoversUnacked OnlyLateHandshakesRemain
PROPERTIES ShutdownCompletes

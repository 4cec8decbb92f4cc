SPECIFICATION Spec
CONSTANTS
    Conns = {r1, r2}
    Clients = {o1, o2}
    Channels = {ch}
    MaxConnections = 2
    NoConn = NoConn
    NoClient = NoClient
SYMMETRY Symmetry
INVARIANTS
    TypeOK
    SlotAccounting
    GaugeAccounting
    ExclusiveOwnership
    OwnConnection
    PooledObjectsAreClean
    SubscriptionsAgree

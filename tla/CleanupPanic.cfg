SPECIFICATION Spec
CONSTANTS
    Conns = {r1, r2}
    Clients = {o1}
    Channels = {}
    MaxConnections = 1
    NoConn = NoConn
    NoClient = NoClient
SYMMETRY Symmetry
INVARIANTS
    CleanupRaceIsCosmetic

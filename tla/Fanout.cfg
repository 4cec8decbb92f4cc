SPECIFICATION Spec
CONSTANTS
    Clients = {c1, c2}
    Channels = {btc}
    Workers = {w1, w2}
    Bufs = {b1, b2, b3, b4}
    Sizes = {3, 4}
    ReplaySize = 2
    MaxMsgs = 3
SYMMETRY Symmetric
INVARIANTS TypeOK AddressedOnce EntriesIntact
PROPERTIES ImplementsRegistry

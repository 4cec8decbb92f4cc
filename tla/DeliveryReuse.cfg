SPECIFICATION Spec
CONSTANTS
    Workers = {w1, w2}
    SendCap = 1
    ReplaySize = 2
    MaxMsgs = 3
    MaxLives = 2
SYMMETRY Symmetry
CONSTRAINT ReuseBound
INVARIANTS
    NumbersUnique
    
    
    
PROPERTIES
    RefusedIsReplayable

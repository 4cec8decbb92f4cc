SPECIFICATION Spec
CONSTANTS
    Burst = 2
    Cost = 2
    NatsBurst = 2
    NatsCost = 3
    Horizon = 7
INVARIANTS TypeOK BurstBound RefusalsLeaveNoDebt
PROPERTIES ImplementsEagerBucket

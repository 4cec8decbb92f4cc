SPECIFICATION FairSpec
CONSTANTS
    MaxReconnects = 5
    CheckEvery = 6
INVARIANTS TypeOK LossesAlternate
PROPERTIES ReadingsCatchUp ClosedForGoodIsReported

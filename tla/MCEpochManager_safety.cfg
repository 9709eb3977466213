CONSTANTS
    Contexts = {c1, c2}
    Writers = {w1, w2}
    Records = {r1, r2}
    NoRecord = NoRecord
    QueueSize = 2
    ConfiguredQueues = 0
    HardwareConcurrency = 2
    LockPrefersWriters = FALSE
    MaxEpoch = 2
SYMMETRY Symmetry
SPECIFICATION Spec
INVARIANTS
    TypeOK
    NoUseAfterFree
    RefCountsAreExact
    FrontBehindHolders
    FrontWaitsForItsHolder
    ActionsAreNotStale
    PendingCountIsExact
    OneOwner
PROPERTIES
    ImplementsReclamation

CONSTANTS
    Contexts = {c1, c2}
    Writers = {w1}
    Records = {r1}
    NoRecord = NoRecord
    QueueSize = 4
    ConfiguredQueues = 2
    HardwareConcurrency = 4
    LockPrefersWriters = TRUE
    MaxEpoch = 2
SPECIFICATION FairSpec
PROPERTIES
    RegisteredActionsArePerformed

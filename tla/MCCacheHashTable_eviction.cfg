CONSTANTS
    k1 = k1
    k2 = k2
    k3 = k3
    Keys = {k1, k2, k3}
    Bucket <- MCBucket
    NumBuckets = 3
    NumBucketsPerMutex = 2
    Threads = {t1, t2}
    Readers = {r1}
    Sizes = {2}
    MaxCacheSizeInBytes = 5
    IndexSize = 1
    RecordOverhead = 1
    RecordTimeToLive = 0
    ForceTimeBasedEviction = TRUE
    Modulus = 1024
    MaxTime = 1
    Null = Null
SYMMETRY Symmetry
SPECIFICATION Spec
INVARIANTS
    TypeOK
    GivesUpOnlyOnFresh
    OvershootIsBounded
    CountersLagByCalls

CONSTANTS
    k1 = k1
    k2 = k2
    k3 = k3
    k4 = k4
    Keys = {k1, k2, k3, k4}
    Values = {0, 1}
    Expired = {1}
    OtherVersions = {0, 2}
    Bucket <- MCBucket
    NumBuckets = 2
    DataPerEntry = 2
    MaxEntries = 2
    Null = Null
    EmptyKey = k1
    EmptyValue = 0
SYMMETRY Symmetry
SPECIFICATION Spec
INVARIANTS
    StableKeysOnce
    RoundTrip
    CutIsNoticed

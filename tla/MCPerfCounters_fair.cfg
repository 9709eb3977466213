CONSTANTS
    Reporters = {t1, t2, t3}
    Counters = {"MinKeySize", "MaxBucketChainLength"}
    Values = {1, 2, 3}
    MaxValue = 4
SPECIFICATION FairCounterSpec
INVARIANTS
    ExtremeOfReported
PROPERTIES
    NeverBack
    CallsEnd

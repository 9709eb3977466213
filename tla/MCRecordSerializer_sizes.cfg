CONSTANTS
    Base = 4
    Sizes = {0, 1, 2, 3}
    MetadataSizes = {0, 2}
    Times = {0, 5, 7, 9}
    Threads = {get, otherGet, evict}
    Setters = {get, otherGet}
    KeyWidth = 1
    ValueWidth = 2
CHECK_DEADLOCK FALSE
SPECIFICATION Spec
INVARIANTS
    SizesAreExact
    RoundTrip
    TimeIsKept

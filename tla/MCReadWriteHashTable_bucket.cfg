CONSTANTS
    k1 = k1
    k2 = k2
    k3 = k3
    Keys = {k1, k2, k3}
    Tag <- MCTag
    KeySize <- MCKeySize
    RecordOverhead = 24
    EntrySize = 152
    EmptyIndexSize = 400
    Readers = {r1}
    Writers = {w1, w2}
    Values = {1, 2}
    DataPerEntry = 1
    MaxEntries = 2
    Null = Null
SYMMETRY Symmetry
SPECIFICATION Spec
INVARIANTS
    OnePlacePerKey
    TagsMatchData
    PerfDataIsExact
    MemoryIsAccounted
PROPERTIES
    ImplementsMap

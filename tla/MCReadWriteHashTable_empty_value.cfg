CONSTANTS
    k1 = k1
    k2 = k2
    k3 = k3
    Keys = {k1, k2, k3}
    Tag <- MCTag
    KeySize <- MCKeySize
    RecordOverhead = 24
    EntrySize = 152
    EmptyIndexSize = 400
    Readers = {}
    Writers = {w1}
    Values = {0, 1}
    DataPerEntry = 1
    MaxEntries = 3
    Null = Null
SPECIFICATION Spec
INVARIANTS
    PerfDataIsExact

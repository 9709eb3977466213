--------------------------- MODULE RecordSerializer ---------------------------
(***************************************************************************)
(* A record as bytes (inc/L4/HashTable/Common/Record.h): the sizes that    *)
(* are not fixed, the key, the metadata of a cache, and the value.  One    *)
(* record goes through CreateRecordBuffer() and Deserialize(); its sizes   *)
(* and the settings of the table are arbitrary.  What is in a byte does    *)
(* not matter but for the sizes and the metadata.  Once a cache has the    *)
(* record, threads set and clear its access bit without a lock between     *)
(* them: a Get(), and an eviction.                                         *)
(***************************************************************************)
EXTENDS Metadata

CONSTANTS
    Sizes,         \* of keys and values; 0 as a fixed size means: not fixed
    MetadataSizes, \* Metadata::c_metaDataSize in a cache, 0 otherwise
    Times,         \* at which a record is made
    Threads,       \* that update the access bit
    Setters,       \* those that set it; the others clear it
    KeyWidth,      \* sizeof(KeySize)
    ValueWidth     \* sizeof(ValueSize)

ASSUME WidthsAssumption ==
    /\ KeyWidth \in Nat /\ ValueWidth \in Nat
    /\ Sizes \cup MetadataSizes \cup Times \subseteq Nat

\* No size is too large for its field: the code does not test it.
ASSUME SizesFit ==
    /\ \A size \in Sizes : size < Power[KeyWidth]
    /\ \A size \in Sizes, metadata \in MetadataSizes : size + metadata < Power[ValueWidth]

VARIABLES
    setting, \* m_fixedKeySize, m_fixedValueSize and m_metadataSize
    given,   \* the sizes of the key, the value and the meta value, and the time
    state,   \* how far the record has come
    memory,  \* the buffer: one entry for each byte
    record,  \* what Deserialize() has returned
    update   \* of each thread: the byte that UpdateAccessStatus() works on

vars == <<setting, given, state, memory, record, update>>

Idle == <<"idle", 0>>       \* not in UpdateAccessStatus()
Differs == <<"differs", 0>> \* the bit is not what it should become

Junk == <<"junk", 0>>

Content(what, size) == [i \in 1 .. size |-> <<what, i>>]

\* The bytes after the first `offset` ones.
Read(bytes, offset, size) ==
    [i \in 1 .. size |-> IF offset + i \in DOMAIN bytes THEN bytes[offset + i] ELSE Junk]

HasKeySize == setting.key = 0
HasValueSize == setting.value = 0

\* Mistake: the metadata is forgotten when the size of values is fixed.
CalculateBufferSize_NoMetadata(key, value) ==
    (IF HasKeySize THEN key + KeyWidth ELSE setting.key) +
    (IF HasValueSize THEN value + ValueWidth + setting.metadata ELSE setting.value)

CalculateBufferSize(key, value) ==
    (IF HasKeySize THEN key + KeyWidth ELSE setting.key) +
    (IF HasValueSize THEN value + ValueWidth ELSE setting.value) + setting.metadata

CalculateRecordOverhead ==
    (IF HasKeySize THEN KeyWidth ELSE 0) + (IF HasValueSize THEN ValueWidth ELSE 0)

\* Mistake: the size of the value is tested only if that of the key is fixed.
IsValid_KeyOnly(key, value, metadata) ==
    /\ HasKeySize \/ (key = setting.key /\ value = setting.value)
    /\ metadata = setting.metadata

\* Validate(), which throws otherwise.
HasFixedSizes(key, value) ==
    /\ HasKeySize \/ key = setting.key
    /\ HasValueSize \/ value = setting.value

IsValid(key, value, metadata) ==
    /\ HasFixedSizes(key, value)
    /\ metadata = setting.metadata

SerializeSizes(key, value) ==
    (IF HasKeySize THEN Bytes("size", key, KeyWidth) ELSE <<>>) \o
    (IF HasValueSize THEN Bytes("size", value, ValueWidth) ELSE <<>>)

\* The record of a read/write table, and that of a cache.
Serialize(key, value) ==
    SerializeSizes(key, value) \o Content("key", key) \o Content("value", value)

SerializeWithMetadata(key, value, metadata, time) ==
    SerializeSizes(key, value + metadata) \o
    Content("key", key) \o NewMetadata(time, metadata) \o Content("value", value)

Deserialize(bytes) ==
    LET afterKeySize == IF HasKeySize THEN KeyWidth ELSE 0
        sizes == afterKeySize + IF HasValueSize THEN ValueWidth ELSE 0
        key == IF HasKeySize THEN Number(Read(bytes, 0, KeyWidth)) ELSE setting.key
        value == IF HasValueSize
                 THEN Number(Read(bytes, afterKeySize, ValueWidth))
                 ELSE setting.value + setting.metadata
    IN  [key |-> Read(bytes, sizes, key), value |-> Read(bytes, sizes + key, value),
         valueOffset |-> sizes + key]

\* What a cache takes for the metadata and for the value of a record.
MetadataOf(rec) == SubSeq(rec.value, 1, setting.metadata)
ValueOf(rec) == SubSeq(rec.value, setting.metadata + 1, Len(rec.value))

\* The byte of the buffer that has the access bit.
AccessOffset == Deserialize(memory).valueOffset + AccessByte(setting.metadata)

-------------------------------------------------------------------------------
\* The RecordSerializer of a read/write table, and that of a cache.
ReadWriteSettings == [key : Sizes, value : Sizes, metadata : {0}]
CacheSettings == [key : Sizes, value : Sizes, metadata : MetadataSizes \ {0}]

IsCache == setting.metadata > 0

Init ==
    /\ setting \in ReadWriteSettings \cup CacheSettings
    /\ given \in [key : Sizes, value : Sizes, metadata : MetadataSizes, time : Times]
    /\ ~IsCache => given.metadata = 0
    /\ state = "given"
    /\ memory = <<>>
    /\ record = [key |-> <<>>, value |-> <<>>, valueOffset |-> 0]
    /\ update = [t \in Threads |-> Idle]

\* CreateRecordBuffer(): the allocation ...
Allocate ==
    /\ state = "given"
    /\ memory' = [i \in 1 .. CalculateBufferSize(given.key, given.value) |-> Junk]
    /\ state' = "allocated"
    /\ UNCHANGED <<setting, given, record, update>>

\* ... then Serialize(), which overwrites the bytes from the first one on, ...
Write ==
    LET bytes == IF IsCache
                 THEN SerializeWithMetadata(given.key, given.value, given.metadata, given.time)
                 ELSE Serialize(given.key, given.value)
    IN  /\ state = "allocated"
        /\ IsValid(given.key, given.value, given.metadata)
        /\ memory' = bytes \o SubSeq(memory, Len(bytes) + 1, Len(memory))
        /\ state' = "stored"
        /\ UNCHANGED <<setting, given, record, update>>

\* ... or throws: nobody has the buffer any more.
Throw ==
    /\ state = "allocated"
    /\ ~IsValid(given.key, given.value, given.metadata)
    /\ state' = "lost"
    /\ UNCHANGED <<setting, given, memory, record, update>>

GetRecord ==
    /\ state = "stored"
    /\ record' = Deserialize(memory)
    /\ state' = "read"
    /\ UNCHANGED <<setting, given, memory, update>>

IsInCache == state \in {"stored", "read"} /\ IsCache

\* UpdateAccessStatus(): "set the bit only if the bit is not set, and vice versa", ...
TestAccess(t) ==
    /\ IsInCache
    /\ update[t] = Idle
    /\ IsAccessed(memory[AccessOffset]) # (t \in Setters)
    /\ update' = [update EXCEPT ![t] = Differs]
    /\ UNCHANGED <<setting, given, state, memory, record>>

\* ... which loads the byte ...
LoadAccess(t) ==
    /\ update[t] = Differs
    /\ update' = [update EXCEPT ![t] = memory[AccessOffset]]
    /\ UNCHANGED <<setting, given, state, memory, record>>

\* ... and stores it: another thread may have done so in between.
StoreAccess(t) ==
    /\ update[t] \notin {Idle, Differs}
    /\ memory' = [memory EXCEPT ![AccessOffset] = WithAccess(update[t], t \in Setters)]
    /\ update' = [update EXCEPT ![t] = Idle]
    /\ UNCHANGED <<setting, given, state, record>>

UpdateAccessStatus(t) == TestAccess(t) \/ LoadAccess(t) \/ StoreAccess(t)

Next ==
    \/ Allocate \/ Write \/ Throw \/ GetRecord
    \/ \E t \in Threads : UpdateAccessStatus(t)

Spec == Init /\ [][Next]_vars

-------------------------------------------------------------------------------
\* CalculateBufferSize() is neither too small for what Serialize() writes nor too
\* large (Record.h:71 and 98); and what the performance counters of a table add up
\* for a record, the size of its key, that of its value with the metadata, and the
\* overhead, are the bytes it takes: a cache compares the sum with its limit
\* (ReadWrite/HashTable.h:431).
SizesAreExact ==
    /\ state \in {"stored", "read"} =>
        /\ Len(memory) = CalculateBufferSize(given.key, given.value)
        /\ Junk \notin {memory[i] : i \in DOMAIN memory}
    /\ state = "read" =>
        Len(record.key) + Len(record.value) + CalculateRecordOverhead = Len(memory)

\* What a reader finds is the key and the value that were written, whichever sizes
\* are in the buffer and whichever in the settings, and whatever others do to the
\* access bit.
RoundTrip ==
    state = "read" =>
        /\ record.key = Content("key", given.key)
        /\ ValueOf(record) = Content("value", given.value)

\* The updates of the access bit, which race with each other and with
\* GetEpochTime(), never change the time of a record: "only the byte that contains
\* the access bit is modified" (Metadata.h:29), and of it only that bit.  The time
\* must have a bit less than the word.
TimeIsKept ==
    IsInCache /\ given.time < TimeRange(setting.metadata) =>
        GetEpochTime(MetadataOf(Deserialize(memory))) = given.time

-------------------------------------------------------------------------------
(* Not guaranteed by the code: TLC refutes these (README, section 4).        *)

\* "assert(value.m_size > Metadata::c_metaDataSize)" (Cache/HashTable.h:68).
CachedValueHasBytes ==
    state = "read" /\ IsCache => Len(record.value) > setting.metadata

\* A record is not expired when it is made: from 2^31 seconds on the time that is
\* kept has lost its high bit, and the one it is compared with has not
\* (Metadata.h:20 and 40).
FreshIsNotExpired ==
    IsInCache => ~IsExpired(MetadataOf(Deserialize(memory)), given.time, 1)
===============================================================================

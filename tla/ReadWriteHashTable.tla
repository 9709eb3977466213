-------------------------- MODULE ReadWriteHashTable --------------------------
(***************************************************************************)
(* The read/write hash table of L4 (inc/L4/HashTable/ReadWrite/HashTable.h *)
(* over inc/L4/HashTable/Common/SharedHashTable.h): writers that add and   *)
(* remove under the mutex of the bucket, and readers that take no lock.    *)
(*                                                                         *)
(* One bucket is modelled: buckets share nothing but the mutex, which only *)
(* makes writers wait, and the performance counters.  The bucket is a      *)
(* chain of entries of DataPerEntry places each; place p belongs to entry  *)
(* EntryOf(p).  A record is its key and value; that its memory outlives    *)
(* its readers is the subject of module EpochManager.                      *)
(***************************************************************************)
EXTENDS PerfCounter, FiniteSets, Functions

CONSTANTS
    Readers, Writers,  \* threads
    Keys,
    Values,            \* a value is its size, Value::m_size
    Tag,               \* the tag of each key, a part of its hash
    KeySize,           \* the number of bytes of each key
    RecordOverhead,    \* RecordSerializer::CalculateRecordOverhead()
    EntrySize,         \* sizeof(Entry)
    EmptyIndexSize,    \* TotalIndexSize of a new table
    DataPerEntry,      \* Entry::c_numDataPerEntry
    MaxEntries,        \* bound: no writer appends an entry beyond it
    Null               \* nullptr, and the value of a key that is not there

ASSUME SizesAssumption ==
    /\ DataPerEntry \in Nat \ {0}
    /\ MaxEntries \in Nat \ {0}
    /\ Values \subseteq Nat
    /\ Tag \in [Keys -> Nat]
    /\ KeySize \in [Keys -> Nat]
    /\ {RecordOverhead, EntrySize, EmptyIndexSize} \subseteq Nat
    /\ IsFiniteSet(Writers)

ASSUME NullAssumption == Null \notin Values /\ Null \notin [key : Keys, value : Values]

VARIABLES
    numEntries,  \* the length of the chain: m_next of the last entry is null;
                 \* 0 once the table is destroyed
    tags,        \* m_tags, 0 where there is nothing
    data,        \* m_dataList
    mutex,       \* the writers that own the mutex of the bucket
    writer,      \* the call each writer is in
    reader,      \* the call each reader is in
    seen,        \* history: what the table had for the key of a reader's call
    perfData,    \* m_perfData
    allocated    \* what the table has allocated and has neither freed nor given
                 \* to the epoch manager: records, and entries of the chain

vars == <<numEntries, tags, data, mutex, writer, reader, seen, perfData, allocated>>

Places == 1 .. MaxEntries * DataPerEntry
EntryOf(p) == (p - 1) \div DataPerEntry + 1
InChain == {p \in Places : EntryOf(p) <= numEntries}

Records == [key : Keys, value : Values]
IsKey(p, k) == data[p] # Null /\ data[p].key = k

\* What a Get() of k that ran alone would return, for given tags and data.
Lookup(t, d, k) ==
    LET hits == {p \in Places : t[p] = Tag[k] /\ d[p] # Null /\ d[p].key = k}
    IN  IF hits = {} THEN Null ELSE d[CHOOSE p \in hits : TRUE].value

\* The counters that depend on what is in the table.
Counters == {"RecordsCount", "TotalKeySize", "TotalValueSize", "TotalIndexSize",
             "ChainingEntriesCount", "MaxBucketChainLength"}

Idle == [state |-> "idle"]

TypeOK ==
    /\ numEntries \in 0 .. MaxEntries
    /\ tags \in [Places -> {0} \cup {Tag[k] : k \in Keys}]
    /\ data \in [Places -> Records \cup {Null}]
    /\ mutex \subseteq Writers
    /\ \A w \in Writers :
           \/ writer[w] = Idle
           \/ /\ writer[w].state \in {"storeData", "storeTag", "perfAdd",
                                      "eraseData", "eraseTag", "perfRemove"}
              /\ writer[w].place \in Places
    /\ \A r \in Readers :
           \/ reader[r].state \in {"idle", "returned"}
           \/ reader[r].state \in {"tag", "data"} /\ reader[r].place \in Places
           \/ reader[r].state = "next" /\ EntryOf(reader[r].place) \in 2 .. MaxEntries + 1
    /\ seen \in [Readers -> SUBSET (Values \cup {Null})]
    /\ perfData \in [Counters -> Int]
    /\ allocated \in [records : Int, entries : Int]

Init ==
    /\ numEntries = 1
    /\ tags = [p \in Places |-> 0]
    /\ data = [p \in Places |-> Null]
    /\ mutex = {}
    /\ writer = [w \in Writers |-> Idle]
    /\ reader = [r \in Readers |-> Idle]
    /\ seen = [r \in Readers |-> {}]
    /\ perfData = Set([counter \in Counters |-> InitialValue(counter, 0)],
                      "TotalIndexSize", EmptyIndexSize)
    /\ allocated = [records |-> 0, entries |-> 0]

-------------------------------------------------------------------------------
(* Add().                                                                    *)

First(P) == CHOOSE p \in P : \A q \in P : p <= q

\* Mistake: the scan stops at the first empty place.
PlaceFor_FirstEmpty(k) ==
    LET here == {p \in InChain : data[p] = Null \/ (tags[p] = Tag[k] /\ IsKey(p, k))}
    IN  IF here # {} THEN First(here) ELSE numEntries * DataPerEntry + 1

\* The scan under the mutex: the place that has the tag and the key, or else the
\* first empty place, or else the first place of a new entry.
PlaceFor(k) ==
    LET mine  == {p \in InChain : tags[p] = Tag[k] /\ IsKey(p, k)}
        empty == {p \in InChain : data[p] = Null}
    IN  IF mine # {} THEN First(mine)
        ELSE IF empty # {} THEN First(empty)
        ELSE numEntries * DataPerEntry + 1

\* The chain that has place p.
ChainFor(p) == IF EntryOf(p) > numEntries THEN numEntries + 1 ELSE numEntries

\* What UpdatePerfDataForAdd() and UpdatePerfDataForRemove() are told of the call;
\* the index matters with a new entry only.
Stat(record, old, chainIndex, isNewEntryAdded) ==
    [keySize |-> KeySize[record.key], valueSize |-> record.value,
     oldValueSize |-> IF old = Null THEN 0 ELSE old.value,
     chainIndex |-> IF isNewEntryAdded THEN chainIndex ELSE 0,
     isNewEntryAdded |-> isNewEntryAdded]

\* Creates the record, locks the mutex, scans, and publishes the new entry where one is needed.
\* Writers alone change the chain, under the mutex, so the scan is one step.
BeginAdd(w, k, v) ==
    LET p == PlaceFor(k)
        old == IF IsKey(p, k) THEN data[p] ELSE Null
    IN  /\ writer[w] = Idle
        /\ mutex = {}
        /\ numEntries > 0
        /\ p \in Places
        /\ mutex' = {w}
        /\ numEntries' = ChainFor(p)
        /\ writer' = [writer EXCEPT ![w] =
               [state |-> "storeData", place |-> p, key |-> k, value |-> v, old |-> data[p],
                stat |-> Stat([key |-> k, value |-> v], old, ChainFor(p),
                              ChainFor(p) # numEntries)]]
        /\ allocated' = [records |-> allocated.records + 1,
                         entries |-> allocated.entries + ChainFor(p) - numEntries]
        /\ UNCHANGED <<tags, data, reader, seen, perfData>>

Goto(w, state) == writer' = [writer EXCEPT ![w].state = state]

\* The pending calls of Get() for k may see v from now on.
Show(k, v) ==
    seen' = [r \in Readers |->
               IF reader[r].state \in {"tag", "data", "next"} /\ reader[r].key = k
               THEN seen[r] \cup {v}
               ELSE seen[r]]

\* UpdateRecord(): first the data ...
StoreData(w) ==
    /\ writer[w].state = "storeData"
    /\ data' = [data EXCEPT ![writer[w].place] =
                   [key |-> writer[w].key, value |-> writer[w].value]]
    /\ Goto(w, "storeTag")
    /\ Show(writer[w].key, writer[w].value)
    /\ UNCHANGED <<numEntries, tags, mutex, reader, perfData, allocated>>

\* ... then the tag; Add() unlocks the mutex.
StoreTag(w) ==
    /\ writer[w].state = "storeTag"
    /\ tags' = [tags EXCEPT ![writer[w].place] = Tag[writer[w].key]]
    /\ mutex' = mutex \ {w}
    /\ Goto(w, "perfAdd")
    /\ Show(writer[w].key, writer[w].value)
    /\ UNCHANGED <<numEntries, data, reader, perfData, allocated>>

\* A record of a new key.  The minima and maxima of sizes are left to PerfCounters.
CountNewRecord(stat) ==
    LET sizes == Add(Add(perfData, "TotalKeySize", stat.keySize),
                     "TotalValueSize", stat.valueSize)
        index == RecordOverhead + IF stat.isNewEntryAdded THEN EntrySize ELSE 0
        records == Increment(Add(sizes, "TotalIndexSize", index), "RecordsCount")
    IN  IF stat.isNewEntryAdded
        THEN RaiseTo(Increment(records, "ChainingEntriesCount"),
                     "MaxBucketChainLength", stat.chainIndex)
        ELSE records

\* Mistake: the size of the value that was replaced stays in the total.
UpdatePerfDataForAdd_KeepsOldSize(stat) ==
    IF stat.oldValueSize # 0
    THEN Add(perfData, "TotalValueSize", stat.valueSize)
    ELSE CountNewRecord(stat)

\* After the mutex was unlocked.
UpdatePerfDataForAdd(stat) ==
    IF stat.oldValueSize # 0
    THEN Add(perfData, "TotalValueSize", stat.valueSize - stat.oldValueSize)
    ELSE CountNewRecord(stat)

\* Mistake: the replaced record is forgotten.
EndAdd_KeepsOld(w) ==
    /\ writer[w].state = "perfAdd"
    /\ perfData' = UpdatePerfDataForAdd(writer[w].stat)
    /\ writer' = [writer EXCEPT ![w] = Idle]
    /\ UNCHANGED <<numEntries, tags, data, mutex, reader, seen, allocated>>

\* The epoch manager is to free the record, if there was one: see EpochManager.
ReleaseRecord(record) ==
    allocated' = IF record = Null THEN allocated ELSE [allocated EXCEPT !.records = @ - 1]

EndAdd(w) ==
    /\ writer[w].state = "perfAdd"
    /\ perfData' = UpdatePerfDataForAdd(writer[w].stat)
    /\ ReleaseRecord(writer[w].old)
    /\ writer' = [writer EXCEPT ![w] = Idle]
    /\ UNCHANGED <<numEntries, tags, data, mutex, reader, seen>>

-------------------------------------------------------------------------------
(* Remove().  A key that is not there changes nothing.                       *)

BeginRemove(w, k) ==
    /\ writer[w] = Idle
    /\ mutex = {}
    /\ \E p \in InChain :
           /\ tags[p] = Tag[k] /\ IsKey(p, k)
           /\ writer' = [writer EXCEPT ![w] = [state |-> "eraseData", place |-> p,
                                               old |-> data[p], key |-> k,
                                               stat |-> Stat(data[p], Null, 0, FALSE)]]
    /\ mutex' = {w}
    /\ UNCHANGED <<numEntries, tags, data, reader, seen, perfData, allocated>>

\* UpdateRecord() with no record and tag 0.
EraseData(w) ==
    /\ writer[w].state = "eraseData"
    /\ data' = [data EXCEPT ![writer[w].place] = Null]
    /\ Goto(w, "eraseTag")
    /\ Show(writer[w].key, Null)
    /\ UNCHANGED <<numEntries, tags, mutex, reader, perfData, allocated>>

\* Mistake: the place keeps the tag of the key that was removed.
EraseTag_Kept(w) ==
    /\ writer[w].state = "eraseTag"
    /\ Goto(w, "perfRemove")
    /\ UNCHANGED <<numEntries, tags, data, mutex, reader, seen, perfData, allocated>>

EraseTag(w) ==
    /\ writer[w].state = "eraseTag"
    /\ tags' = [tags EXCEPT ![writer[w].place] = 0]
    /\ Goto(w, "perfRemove")
    /\ UNCHANGED <<numEntries, data, mutex, reader, seen, perfData, allocated>>

UpdatePerfDataForRemove(stat) ==
    Subtract(Subtract(Subtract(Decrement(perfData, "RecordsCount"),
                               "TotalKeySize", stat.keySize),
                      "TotalValueSize", stat.valueSize),
             "TotalIndexSize", RecordOverhead)

\* Still under the mutex.
EndRemove(w) ==
    /\ writer[w].state = "perfRemove"
    /\ perfData' = UpdatePerfDataForRemove(writer[w].stat)
    /\ ReleaseRecord(writer[w].old)
    /\ mutex' = mutex \ {w}
    /\ writer' = [writer EXCEPT ![w] = Idle]
    /\ UNCHANGED <<numEntries, tags, data, reader, seen>>

-------------------------------------------------------------------------------
(* Get(), without a lock.                                                    *)

BeginGet(r, k) ==
    /\ numEntries > 0
    /\ reader[r].state \in {"idle", "returned"}
    /\ reader' = [reader EXCEPT ![r] = [state |-> "tag", key |-> k, place |-> 1]]
    /\ seen' = [seen EXCEPT ![r] = {Lookup(tags, data, k)}]
    /\ UNCHANGED <<numEntries, tags, data, mutex, writer, perfData, allocated>>

\* The place behind p, where the next entry starts if p was the last of its.
After(call) ==
    [call EXCEPT !.place = @ + 1,
                 !.state = IF call.place % DataPerEntry = 0 THEN "next" ELSE "tag"]

ReadTag(r) ==
    /\ reader[r].state = "tag"
    /\ reader' = [reader EXCEPT ![r] =
           IF tags[reader[r].place] = Tag[reader[r].key]
           THEN [@ EXCEPT !.state = "data"] ELSE After(@)]
    /\ UNCHANGED <<numEntries, tags, data, mutex, writer, seen, perfData, allocated>>

Return(r, v) ==
    /\ reader' = [reader EXCEPT ![r] = [state |-> "returned", value |-> v]]
    /\ seen' = [seen EXCEPT ![r] = {}]

\* Mistake: a place without a record is taken for the end of the bucket.
ReadData_StopsAtHole(r) ==
    /\ reader[r].state = "data"
    /\ IF data[reader[r].place] = Null THEN Return(r, Null)
       ELSE IF IsKey(reader[r].place, reader[r].key)
       THEN Return(r, data[reader[r].place].value)
       ELSE reader' = [reader EXCEPT ![r] = After(@)] /\ UNCHANGED seen
    /\ UNCHANGED <<numEntries, tags, data, mutex, writer, perfData, allocated>>

\* Loads the pointer once and compares the key of the record it points to.
ReadData(r) ==
    /\ reader[r].state = "data"
    /\ IF IsKey(reader[r].place, reader[r].key)
       THEN Return(r, data[reader[r].place].value)
       ELSE reader' = [reader EXCEPT ![r] = After(@)] /\ UNCHANGED seen
    /\ UNCHANGED <<numEntries, tags, data, mutex, writer, perfData, allocated>>

\* Loads m_next of the entry.
LoadNext(r) ==
    /\ reader[r].state = "next"
    /\ IF reader[r].place <= numEntries * DataPerEntry
       THEN reader' = [reader EXCEPT ![r].state = "tag"] /\ UNCHANGED seen
       ELSE Return(r, Null)
    /\ UNCHANGED <<numEntries, tags, data, mutex, writer, perfData, allocated>>

-------------------------------------------------------------------------------
(* The destructor: nobody is in a call.                                      *)

Freed(P) == Cardinality({p \in P : data[p] # Null})

\* Entry::Release() of the bucket frees the entries behind the first one, and
\* every record, those of the first entry last.
Release ==
    allocated' = [records |-> allocated.records - Freed(InChain),
                  entries |-> allocated.entries - (numEntries - 1)]

Destroy ==
    /\ numEntries > 0
    /\ \A w \in Writers : writer[w] = Idle
    /\ \A r \in Readers : reader[r].state \in {"idle", "returned"}
    /\ Release
    /\ numEntries' = 0
    /\ UNCHANGED <<tags, data, mutex, writer, reader, seen, perfData>>

Destroyed == numEntries = 0 /\ UNCHANGED vars

-------------------------------------------------------------------------------
Write(w) ==
    \/ \E k \in Keys : BeginRemove(w, k) \/ \E v \in Values : BeginAdd(w, k, v)
    \/ StoreData(w) \/ StoreTag(w) \/ EndAdd(w)
    \/ EraseData(w) \/ EraseTag(w) \/ EndRemove(w)

Read(r) == (\E k \in Keys : BeginGet(r, k)) \/ ReadTag(r) \/ ReadData(r) \/ LoadNext(r)

Next ==
    \/ \E w \in Writers : Write(w)
    \/ \E r \in Readers : Read(r)
    \/ Destroy
    \/ Destroyed

Spec == Init /\ [][Next]_vars

-------------------------------------------------------------------------------
(* Properties.                                                               *)

\* A key is in at most one place, so that Add() replaces it and Remove() leaves
\* none behind, however removals have punched holes into the chain.
OnePlacePerKey ==
    \A p, q \in Places : data[p] # Null /\ data[q] # Null /\ data[p].key = data[q].key => p = q

\* A tag and its data disagree only at the place that a writer is updating
\* under the mutex (the argument at SharedHashTable.h:45-57).
TagsMatchData ==
    \A p \in Places :
        \/ tags[p] = IF data[p] = Null THEN 0 ELSE Tag[data[p].key]
        \/ \E w \in mutex : writer[w].state \in {"storeTag", "eraseTag"} /\ writer[w].place = p

\* The lock-free Get() returns what the table had for the key at some moment of
\* the call, or a value that a writer had stored and was about to tag: it misses
\* a key only if the key was not there at some moment (SharedHashTable.h:51-57).
get == [r \in Readers |->
          CASE reader[r].state = "idle" -> [state |-> "none"]
            [] reader[r].state = "returned" -> reader[r]
            [] OTHER -> [state |-> "called", key |-> reader[r].key, seen |-> seen[r]]]

\* The value that is stored for k and not yet tagged, for given tags and data.
Coming(t, d, k) ==
    LET untagged == {p \in Places : d[p] # Null /\ d[p].key = k /\ t[p] # Tag[k]}
    IN  IF untagged = {} THEN Null ELSE d[CHOOSE p \in untagged : TRUE].value

Promise == INSTANCE KeyValueMap WITH
    map    <- [k \in Keys |-> Lookup(tags, data, k)],
    coming <- [k \in Keys |-> Coming(tags, data, k)]

\* Every execution of the bucket is one of a map that keeps this promise.
ImplementsMap == Promise!Spec

Linked == {p \in Places : data[p] # Null}

\* The bytes of the key and of the value at a place.
KeyBytes(p) == IF data[p] = Null THEN 0 ELSE KeySize[data[p].key]
ValueBytes(p) == IF data[p] = Null THEN 0 ELSE data[p].value

\* The counters are what the table has whenever no writer is between its change
\* and its report.
PerfDataIsExact ==
    numEntries > 0 /\ (\A w \in Writers : writer[w] = Idle)
        => perfData =
             [RecordsCount |-> Cardinality(Linked),
              TotalKeySize |-> SumFunction([p \in Places |-> KeyBytes(p)]),
              TotalValueSize |-> SumFunction([p \in Places |-> ValueBytes(p)]),
              TotalIndexSize |-> EmptyIndexSize + RecordOverhead * Cardinality(Linked)
                                                + EntrySize * (numEntries - 1),
              ChainingEntriesCount |-> numEntries - 1,
              MaxBucketChainLength |-> numEntries]

\* Each record that was allocated is in the table, or in the hands of the one
\* writer that links it or has replaced or removed it; so each is freed or given
\* to the epoch manager once, and nothing is left when the table is destroyed.
Held(w) ==
    CASE writer[w].state = "storeData" -> 1
      [] writer[w].state \in {"storeTag", "perfAdd", "eraseTag", "perfRemove"}
             /\ writer[w].old # Null -> 1
      [] OTHER -> 0

MemoryIsAccounted ==
    allocated = IF numEntries = 0 THEN [records |-> 0, entries |-> 0]
                ELSE [records |-> Cardinality(Linked) + SumFunction([w \in Writers |-> Held(w)]),
                      entries |-> numEntries - 1]
===============================================================================

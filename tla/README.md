# A verification project for L4

L4 is a C++ library for in-memory hash tables that are read without locks. Memory
that a writer takes out of a table is given back by *epochs*: only once no reader
that could have seen it is left. These TLA+ modules model that machinery and the
tables on top of it. TLC checks them on small instances; TLAPS proves the main
theorems for every value of the constants.

Line numbers are those of the source files named in `PROJECT.json` under `map`,
which gives the lines behind every definition.

## 1. Inventory of the system

### Components, their state and their operations

| component | source | state | operations |
|---|---|---|---|
| Epoch queue | `inc/L4/Epoch/EpochQueue.h` | `m_frontIndex`, `m_backIndex`, ring `m_refCounts`, a reader/writer lock | `AddRef`, `RemoveRef` (clients), `RemoveUnreferenceEpochCounters`, `AddNewEpoch` (processing thread) |
| Contexts | `inc/L4/Epoch/EpochRefPolicy.h`, `LocalMemory/Context.h` | the epoch each context holds, or a sentinel once moved from | construct, move, destroy, `operator[]` |
| Action manager | `src/EpochActionManager.cpp` | queues of (epoch, actions), each with its lock; a round-robin counter | `RegisterAction`, `PerformActions` |
| Epoch manager | `LocalMemory/EpochManager.h` | the global epoch, the three above, server counters | `RegisterAction` (writers); `Remove`, `Add` (processing thread) |
| Processing thread | `Utils/RunningThread.h` | `m_isRunning`, the thread | start, loop, stop and join in the destructor |
| Hash table service | `LocalMemory/HashTableService.h` | counters, tables, epoch manager, in this order | construct, add a table, give a context, destroy |
| Read/write table | `HashTable/ReadWrite/HashTable.h`, `Common/SharedHashTable.h` | buckets: chains of entries of 16 tags and record pointers; bucket mutexes; counters | `Get` (no lock), `Add`, `Remove` (bucket mutex), `Iterator` |
| Cache table | `HashTable/Cache/HashTable.h`, `Metadata.h` | the table, a byte budget, the CLOCK hand, an access bit and a time in each record | `Get`, `Add` (evicts first), `EvictBasedOnTime`, `Evict` |
| Serializer | `ReadWrite/Serializer.h` | a stream | `Serialize` over an iterator, `Deserialize` by `Add` |
| Table manager | `LocalMemory/HashTableManager.h` | two vectors of tables, a map from names to indices | `Add`, which may throw half-way; `GetHashTable` |
| Connection monitor | `src/Interprocess/Connection/ConnectionMonitor.cpp` | remote monitors, endpoints to be unregistered, two mutexes | `Register`, callbacks of the thread pool, `UnRegister` in two steps |
| Counters and loggers | `Log/PerfCounter.h`, `PerfLogger.cpp` | atomic counters | `Add`, `Min`, `Max`, ... |
| Records and metadata | `Common/Record.h`, `Cache/Metadata.h` | a buffer | `Serialize`, `Deserialize`, the access bit |
| Maths, hash, wrappers | `Utils/*`, `MurmurHash3.cpp` | none | pure functions |

### How they interact

A client gets a context from the service: its constructor counts one reference on the
newest epoch (`AddRef`). Through the context it calls `Get`, and what `Get` returns points
*into the record of the table*. A writer that replaces or removes a record unlinks it and
calls `RegisterAction` with a function that frees it; the action is kept under the global
epoch of that moment. The processing thread repeats `Remove(); Add();`: it moves the front
of the queue over epochs without references, performs the actions of epochs before the
front, and then starts a new epoch. The destructor of the service joins the thread and
takes the members down in reverse order.

### What is hard

* **Interleavings.** Contexts, writers and the processing thread share counters with few
  locks: an epoch is loaded before the action is inserted under it (`EpochManager.h:43`); the
  back index is read twice by `AddRef`; `RemoveRef` tests and decrements in two steps; the
  counter of pending actions is incremented after the fact; `Get` reads tags, pointers and
  chains that a writer is changing; counters of `Add` are updated after the unlock.
* **Order.** `Add()` must increment the global epoch before it enqueues the new one; data is
  stored before its tag; members are destroyed in reverse order of declaration.
* **Limits.** The ring of epochs is not protected from overwrapping (`EpochQueue.h:119`, a
  TODO); a value of size 0 is taken for "no value"; sums of counters that may transiently be
  negative become unsigned.
* **Progress.** Reclamation needs every context to be destroyed, the processing thread to
  get an exclusive lock, and the thread to stop when it is told to.
* **Nothing is persisted and nothing is sent** between machines, so crashes, lost messages and
  duplicates do not arise, except in the connection monitor, which watches for the end
  of other processes.

`PROJECT.json` lists every hazard at its line with the properties that cover it.

### What makes each component correct

* Queue and contexts: the count of a slot is the number of contexts that hold an epoch in it;
  the front never passes an epoch that is held; while epochs do not wrap, only a holder
  of the front epoch stops it.
* Epoch manager: no record is freed while a context may read it; no action is lost, performed
  twice, or kept under too old an epoch; counters come out right; each registered action is
  performed in the end.
* Service: no action runs on a table that is gone; the destructor returns.
* Tables: a key is in one place; a lock-free `Get` returns something the table had; counters
  are exact when writers are idle; a cache exceeds its budget only by what is in flight.
* Table manager: an index that `Add` has returned stays the index of that table, which has the settings asked for.
* Iterator and serializer: a record that stays in the table is visited once; what is loaded is
  what was saved; a stream that was cut off is not taken for a whole one.
* Connection monitor: each end of a remote is reported once, nobody uses a monitor that is gone, and
  no wait for a callback is a deadlock.
* Counters: a minimum or maximum is that of all reported values, though updates race.
* Records: what is written is as large as what was allocated, and is found again; the access bit that threads set and
  clear without a lock never spoils the time beside it.

## 2. Modules

| module | models | based on |
|---|---|---|
| `EpochQueue` | ring, lock, contexts; the effect of each step of the processing thread on the queue | |
| `EpochManager` | action queues, writers, processing thread, records and the pointers clients have | EXTENDS `EpochQueue`, `Math` |
| `Reclamation` | the promise: a record is freed only when no context has a pointer to it | abstract |
| `EpochManagerProofs` | theorems about both | |
| `Math` | powers of two and rounding, on words of bits | |
| `RunningThread` | a thread with a flag, its start and its stop | |
| `HashTableManager` | tables by name and by index, and an `Add` that may throw at each step | |
| `HashTableService` | adding tables; shutdown: thread, pending actions, tables | EXTENDS `RunningThread`, `HashTableManager` |
| `HashTableServiceProofs` | safe shutdown, indices and memory of the tables | |
| `PerfCounter` | the counters of a table and what one atomic instruction does to them | |
| `MurmurHash3` | the hash functions on words of bytes; bucket and tag of a key | |
| `ReadWriteHashTable` | one bucket: lock-free readers against writers, memory and counters | EXTENDS `PerfCounter`; its instances use `MurmurHash3` |
| `ReadWriteHashTableProofs` | the place of a key, the tags, the refinement of `KeyValueMap`, memory and counters | |
| `KeyValueMap` | the promise of a table to its readers | abstract |
| `CacheHashTable` | eviction by time and by CLOCK, the byte budget, striped mutexes | |
| `CacheHashTableProofs` | types, eviction, counters and byte budget of the cache | |
| `SumTheorems` | lemmas about sums over finite sets, for the modules of proofs that count or have numbers in digits | |
| `Metadata` | the time and the access bit of a cached record as bytes | |
| `TableIterator` | the iterators of both tables over all buckets against writers | |
| `TableSerializer` | saving a table to a stream and loading it | EXTENDS `TableIterator` |
| `TableSerializerProofs` | iterator, streams, and what comes back from them | |
| `ConnectionMonitor` | registrations, callbacks of the thread pool, the end of the monitor | |
| `ConnectionMonitorProofs` | its safety properties | |
| `PerfCounters` | `Min()` and `Max()` as loops of compare-and-swap | EXTENDS `PerfCounter` |
| `RecordSerializer` | a record as bytes, for each combination of fixed and variable sizes, and threads that race for its access bit | EXTENDS `Metadata` |
| `RecordAndCounterProofs` | sizes, content and time of a record; minima and maxima | EXTENDS `RecordSerializer`, `PerfCounters` |
| `MC...` | instances of these for TLC: functions as constants, symmetry | |

Definitions whose comment begins with "Mistake:" are wrong variants of the definition that
follows them. Nothing uses them; replacing the right definition by the wrong one must
make a property fail, which shows that the property can.

### EpochQueue and EpochManager

A context is a *place* that a client can construct a `Context` in. Its life is `none`,
`counted` (inside `AddRef`, lock held), `open`, `checked` (inside `RemoveRef`, between the test
and the decrement), and `terminated` if `RemoveRef` ever threw out of the destructor; that
this is never reached is part of `RefCountsAreExact`. A move leaves the source `open` with the
sentinel `MovedFrom`. The epoch counters do not wrap in the model: they have 64 bits.

A critical section that touches shared state once is one step, otherwise it is
several: `AddRef` is two (`BeginAddRef`, `EndAddRef`, with the shared lock held between),
`AddNewEpoch` one, `PerformActions` one per queue, and `RegisterAction` four (load the epoch, choose
the queue, insert, count). `Scan` is one iteration of the loop that moves the front.
Actions are performed one at a time, in any order, without a lock.

The shared lock of the queue is `sharedLock`, a set of contexts; `AddNewEpoch` needs it empty. The number of action queues is what the
constructor makes of `ConfiguredQueues` and `HardwareConcurrency`: the next power of two, computed on words of bits in `Math`
as the code does, so that the mask of `RegisterAction` is a remainder. The assertion of the constructor is the assumption
`NumActionQueuesAssumption`.

A record is a place in memory: `free`, `linked` in a table, or `unlinked`. `Get` gives a context a
pointer to a linked record; the pointer is valid for the client until it destroys the
context, or goes with the context when it is moved. Reuse of memory is what makes a stale
pointer harmful, so an `Apply` makes the record `free`, and `Link` may take it again.

`ImplementsReclamation` maps the two variables that the promise has (`recordState`, `pointers`) to
themselves: every step of every thread is a step of `Reclamation` or leaves both alone.

### RunningThread, HashTableManager and HashTableService

`StoreTrue` is the first statement of the new thread and `StoreFalse` the first of the destructor: they
may come in either order. The service adds records that are `linked`, `pending`, `collected`,
`freed` or `leaked`. Epochs are left out: an iteration may collect any set of the pending
actions, which is more than any epoch would allow. Clients are done before the service is
destroyed, as C++ demands of them.

`HashTableManager` is the part of the service that `AddHashTable` works on. `Add` fills three containers in
order, one action each, and any step may throw: what is filled stays filled. Then the two vectors have
different lengths for ever, which is why `IndicesStayTrue` is about the index into `m_hashTables` and
`MemoryIsKept` about any element of the other vector. The containers have no lock, so a lookup during
`Add` is a data race that clients must avoid; the code and its tests add all tables first, and such
lookups are left out. `Configs` are what `Add` is called with: with or without a cache, a serializer, a stream, and with settings
that may be absent (`Null`); `SettingOf` is what the table gets. Names are compared without regard to case (`KeyOf`), so two names that
differ only in case are one, and the second `Add` throws.

### ReadWriteHashTable

One bucket, because buckets share only mutexes and counters. The chain has `DataPerEntry` places
per entry (16 in the code); place `p` is the `p`-th of the chain. Under the mutex only the owner
changes the bucket, so the scan of `Add` and the link of a new entry are one step, followed by the
store of the data, the store of the tag with the unlock, and the update of the counters. `Remove`
keeps the mutex until its counters are updated. A reader reads one tag, one pointer or one
`m_next` per step. A value is its size. `Tag` is what `MurmurHash3` makes of the bytes of each key (`CollidingKeys` of
`MCReadWriteHashTable`): the keys of the runs were chosen such that all three are in one bucket of two, two of them have one
tag, and the tag of the third is 0, the tag of an empty place.

`allocated` counts the records and entries that the table has allocated and has neither freed nor given to the epoch manager. The
destructor (`Destroy`) frees what is in the bucket, and nothing must be left. `perfData` are those counters of `PerfCounter` that
depend on what is in the table; each call works out what to report (`Stat`) under the mutex and reports it later.

`MurmurHash3` computes on words of 4 or 8 bytes, since numbers of TLC have 32 bits. It is written once for all three
functions of the source, where they differ in constants, widths and order. `KnownDigests` compares the results with published ones.

`KeyValueMap` says what a `Get` may return: a value that the map had at some moment between call
and return, or one that a writer was about to add. The second case is real. A reader that has
read the old tag of a place before the key was removed and added again in the same place
finds the new record before its tag is stored, and a later `Get` may still miss it. So the
table is *not* linearizable in the strict sense; `SharedHashTable.h:51-57` accepts it ("we don't need
to guarantee the timing of writing and reading"). The variable `coming` of `KeyValueMap` is exactly
this concession: a value on its way can be shown only to calls that were pending when it was stored.

### CacheHashTable

The cache adds to a read/write table a byte budget, so this module takes the table as a map from keys to
records, and looks at what `Add` does before and after the bucket. Each look at the clock, each lock, each visit of a
record in a bucket (in any order), and the report to the counters is a step of its own. The three counters that
are compared with the limit (keys, values, index) are always added up, so they are one sum, `total`. It is
modulo `Modulus` wherever the code reads it as `uint64_t`: between the link of a record and its count another
thread may evict the record, and the sum may then be below zero for a moment. `delta` is what a call has still to report.
`fresh` and `wasRead` are histories. `MutexOf` stripes the buckets over the mutexes as `GetMutex` does, so that an eviction may have to wait for a writer
of another bucket. The index does not grow (no bucket gets a second entry). The counters of hits and misses are not
modelled: nothing reads them.

### TableIterator and TableSerializer

A bucket is the sequence of places of its chain. The iterator loads one pointer per step. A writer is one
step: the iterator looks at no tags, and an entry that is linked but empty looks like none. `isCache` chooses between the two tables: the
iterator of the cache (`LoadRecord`) goes on behind a record that has expired at the time the iterator was made. `Expired` are the values whose metadata says so.

A stream is a sequence of items: the version, the settings, each record behind a flag TRUE, and the flag FALSE. It may arrive whole,
of another version, or cut off after any item, perhaps with a part of the next record, which has then any key. Reading past
the end leaves the variable as it was. That is what `Deserialize` does, and what makes `CutIsNoticed` hold: the flag stays TRUE, the
empty key is added again and again, and the second time `RegisterAction` of the deserializer throws. A version that
cannot be read is 0, which is not supported. A stream cut before its first flag is the exception (section 4, item 10). The counters of records saved and
loaded are part of `RoundTrip`.

### ConnectionMonitor

Each registration has two waiters (of the event and of the process), which share a flag. The thread pool and
`shared_ptr` are outside the repository and modelled from their use: a waiter fires once, and its destructor
cancels a callback that has not begun and waits for one that has (`Destroyable`). `holders` are the threads
that own a `shared_ptr`; the one that gives up the last runs the destructor. The mutex of the list of endpoints to
unregister guards single statements and is therefore implicit; the one of the map is held over several steps. The list is a
set, because erasing an endpoint twice is the same as once. `Cases` names what users and the system may do: give up the
monitor (`release`), unregister themselves, register twice, call the monitor from their callback, and
handles that cannot be opened (`failure`).

### PerfCounters and RecordSerializer

`PerfCounters` has some of the minima and maxima of a table. The load, the test and each compare-and-swap are
the steps; `reported` is the history of the values whose call is done.

`RecordSerializer` follows one record from `CreateRecordBuffer` to `Deserialize` under arbitrary settings. Bytes are
told apart only by the part of the record they belong to, except for the sizes, which are really encoded
in `KeyWidth` and `ValueWidth` digits of `Base`, and the metadata; `Power[n]` is the number of values of n digits. `SizesFit` says that no size is too large for its field, which
the code does not test.

The metadata is the time and, as the highest bit of the word, the access bit. `UpdateAccessStatus` loads, changes and stores one byte of it,
without a lock, so the three are steps of their own: two threads that set the bit and one that clears it lose each other's updates. That is
harmless as long as the time never changes, which is `TimeIsKept`: which byte has the bit matters (`AccessByte`), and so does that no other
part of the byte changes.

## 3. Runs

| run | question | bounds |
|---|---|---|
| `epoch_safety` | are counts, queues and ownership exact, is no record freed under a reader, and is every step one of the promise? | 2 contexts, 2 writers, 2 records, no configured queues on a machine of 2 processors (2 queues), a ring of 2 for 3 epochs (0 to 2), so that it overwraps |
| `epoch_liveness` | is each action performed? | 2 contexts, 1 writer, 1 record, 3 epochs, a ring that they fit in |
| `service_shutdown` | is shutdown safe at any moment, do indices stay right, does the destructor return once the loop has begun? | 2 records, 2 names, one of them also in lower case, 3 tables |
| `service_start_race` | does it always return? **No** | as above |
| `table_bucket` | do writers keep the bucket and its counters consistent, and does a lock-free reader see what the map may show? | 2 writers, 1 reader, 3 keys, 2 values, chains of 1 or 2 entries of 1 place |
| `table_empty_value` | are the counters exact for values of size 0? **No** | 1 writer, values 0 and 1 |
| `cache_eviction` | does eviction free what is needed, how far over its limit is the cache, do counters lag only by calls under way? | 2 threads, 1 reader, 3 keys in 2 of 3 buckets, which share a mutex, limit 5 for records of 2 + 1 bytes, clock 0 to 1 |
| `monitor_safety` | is nobody called twice, after the end of a registration, or on a monitor that is gone? | 2 clients, 1 endpoint, 2 registrations, all `Cases` |
| `monitor_orderly` | is each end of a remote reported, and does every call return? | as above, only `failure` |
| `serializer_stream` | is each key visited once, does a table come back, is a cut stream noticed? | both tables, 4 keys, 3 of them in one bucket of up to 2 entries of 2 places, one value that has expired, versions 0 to 2 |
| `perf_fair` | do racing minima and maxima come out right, and does each call end? | 3 threads, 3 values, one minimum and one maximum |
| `record_sizes` | is a record as large as its buffer and found again, and is its time kept while its access bit is raced for? | sizes 0 to 3, with and without metadata, all combinations of fixed and variable; 3 threads, 4 times, one beyond the range |

*Why these are enough.* Safety of an epoch is about one record, the context that reads it and
the writer that retires it; the second of each is the one that interferes. Three
epochs are the fewest in which an action registered in one epoch can be performed too early in the
next but one, and with a ring of two they wrap. At `MaxEpoch` the thread goes on without adding
epochs, so the bound stops no behaviour. Two action queues are the fewest between which an action could
be lost.

In the bucket, the three keys cover collisions of tags, the tag 0, holes, and a chain that grows.
The second writer is the one whose counters are still to be reported, since the mutex keeps it out of the bucket.
With fewer places than keys a place is soon used again, which is what a slow reader has to survive;
a bucket that is full when the third key comes makes the chain grow, and one that is full with
`MaxEntries` entries takes no new key, which is the bound.

In the cache, a limit of 5 has room for one record beside the empty index, so almost every `Add` evicts;
the second thread takes what the first has freed. Two buckets and a clock of two values give every
record a chance to be too old, read, or new. In the monitor, one endpoint registered twice has all
the conflicts: different endpoints meet only at the mutex. In the iterator, two places per entry and two
entries have each kind of step (in an entry, to the next one, to the next bucket); the key of size 0 is one of
the four. Three threads are the fewest of which one can fail its exchange twice. With `Base` = 4 a key
size has one digit, and the size of a value with its metadata may need both of its two; a metadata word of two bytes has
a byte with the access bit and one without, and the times 0, 5 and 7 fit below the access bit, 9 does not.

*Symmetry* is used where no liveness property is checked: writers, contexts, clients and records, and those keys
that have the same bucket or tag and are not named in a constant. `ImplementsReclamation` and
`ImplementsMap` speak of all of them alike and contain no fairness.

*Deadlock* is checked in all runs but two. In `monitor_safety` the program may stop, for good
reasons (the clients are gone) or bad ones (section 4, items 6 and 7); `monitor_orderly` shows where
it may not. In `record_sizes` the life of the record ends. The service and the deserializer end in a
state that stutters.

### Fairness

`epoch_liveness` assumes that the processing thread goes on (`WF` of `Remove` and `Add`: it is a loop
without waiting, except for the queue's lock), that a writer inside `RegisterAction` finishes,
that a context inside `AddRef` finishes, and that the contexts of each epoch are destroyed in
the end: a client that keeps one for ever stops reclamation by design. The last one is
stated per *epoch*, not per context, since a reference may be moved from context to
context for ever. The property is about actions of epochs before `MaxEpoch`, because the epoch after
it never comes in the bounded model.

`LockPrefersWriters` says whether the lock of the queue keeps new shared owners out while an
exclusive one waits. The SRW lock of Windows does; a default `pthread_rwlock_t` need not, and
then contexts that are constructed without a break can keep `AddNewEpoch` out for ever. The liveness run
assumes TRUE; the safety run assumes FALSE, which allows more.

`service_shutdown` assumes that the thread is scheduled, and the owner while it is in the destructor.
`monitor_orderly` assumes that the thread pool runs callbacks to their end (`WF`), and that a client in a call
goes on and in the end gets a mutex that is free again and again (`SF`, since others take it in between).
`perf_fair` assumes only that a thread in a call is scheduled (`WF` of each).

## 4. Findings

Two statements of the repository are refuted by a run of their own:

1. **A thread that is stopped before it has started never stops** (`RunningThread.h:43`). The new thread
   stores `true` unconditionally, possibly after the destructor has stored `false`; `join` then waits for
   ever. Run `service_start_race`.
2. **Replacing an empty value is counted as an insertion** (`ReadWrite/HashTable.h:419`). `Add` takes the old
   value's size for the fact that there was one. Run `table_empty_value`.

Eight more are stated as properties at the end of their modules, under "Not guaranteed by the code". Adding the
name as an `INVARIANT` to the configuration named here makes TLC print a counterexample:

3. `RecordsAreNotFromTheFuture` (`MCCacheHashTable_eviction.cfg`): the assertion of `Metadata.h:39`. Both evictions
   read the clock before they lock a bucket; a record added in between, one tick later, is newer than `now`.
   Without assertions nothing happens: the difference is signed and the record is kept.
4. `SeesFreeBytes` (`MCCacheHashTable_eviction.cfg`): the three counters are signed and briefly below zero if a record is
   evicted before it is counted in. As an unsigned number (`Cache/HashTable.h:306`) the sum is then huge, and
   a call of `Add` empties a cache that has room.
5. `CachedValueHasBytes` (`MCRecordSerializer_sizes.cfg`): the assertion of `Cache/HashTable.h:68` fails for an empty value, which
   `Add` accepts. The comparison would have to be `>=`.
6. `NoSelfDestruct` (`MCConnectionMonitor_safety.cfg`): "Cannot call `UnRegister()` because it will self-destruct"
   (`ConnectionMonitor.cpp:66`). The callback holds a `shared_ptr` at line 64; if the client gives up the last other one meanwhile,
   the callback runs the destructor of the monitor, and with it the one of its own waiter, which
   waits for the callback to end.
7. `NoCircularWait` (`MCConnectionMonitor_safety.cfg`): "it can deadlock if this function holds the lock while calling the
   `erase()`" (`ConnectionMonitor.cpp:90`). It does not hold the lock of the list, but it holds the one of the map (line 97), and
   a user's callback that calls `Register()` waits for that one.
8. `KeysAreUnique` (`MCTableSerializer_stream.cfg`): "it is guaranteed that all the keys are unique" (`Serializer.h:154`). The iterator takes no
   lock; a key that is removed and added again behind it is saved twice, and loading the
   stream throws. Only tables at rest are safe to save, which nothing in the interface says.
9. `FreshIsNotExpired` (`MCRecordSerializer_sizes.cfg`): `Metadata` keeps 31 bits of the time (`Metadata.h:20`), and `IsExpired` compares them with a time of all its bits.
   From 2^31 seconds after the epoch on, which is in 2038, every record of a cache is expired when it is made.
10. `NoFlagIsNoticed` (`MCTableSerializer_stream.cfg`): a stream that ends before its first flag is loaded as an empty table, with the settings
   it has or, without them, the default ones: the flag keeps its initial value FALSE, and nothing tests the stream.

Also found while modelling, and visible in the models:

* The comment on the order of destruction (`HashTableService.h:32`) is the wrong way round. It asks for the tables to go
  first; the declarations make the epoch manager go first, which is the safe order. Theorem `SafeShutdown` proves the order of the code;
  the mistake `DestroyTables_First` is the order of the comment, and breaks it.
* A registration that fails (`Register()` throws) may leave its endpoint on the list of those to be unregistered, if its callback had
  begun. The next call then removes a later, healthy registration of the same endpoint
  (`ConnectionMonitor.cpp:97`). This is the exception `Disturbed` in `RemovedAfterCallback` and `ClosedIsReported`.
* A client's `UnRegister()` of an endpoint that is registered again before the list is worked off removes the new registration
  (section 5, `RemovedAfterCallback`).
* `CreateRecordBuffer` loses its buffer when `Serialize` throws on a size that does not fit the settings
  (`ReadWrite/HashTable.h:386`; action `Throw` of `RecordSerializer`).
* Actions that are pending at shutdown are dropped and their records lost; `OnlyPendingLeaks` says that
  nothing else is.
* `Get` is weaker than linearizable, as described under `ReadWriteHashTable`.
* An overwrapped ring delays reclamation and is otherwise safe (theorems `MemorySafety` and
  `FrontDelay`), so the TODO of `EpochQueue.h:119` is about progress, not about safety.

## 5. Proofs

TLAPS proves these for every value of the constants that satisfies the named assumptions: any finite set of
contexts, any writers and records, any sizes of ring and queues, any bound on epochs, any names, any
number of tables, any threads and reported values, any keys and tags, any length of a chain, any sizes of records and of the
cache, any streams.

| theorem | states |
|---|---|
| `TypeCorrectness` | `Spec => []TypeOK` |
| `ExactRefCounts`, `FrontSafety`, `FrontDelay` | the three properties of the queue |
| `NoStaleActions` | `Spec => []ActionsAreNotStale` |
| `MemorySafety` | `Spec => []NoUseAfterFree` |
| `Implementation` | `Spec => ImplementsReclamation`: the refinement |
| `SingleOwner`, `ExactPendingCount` | `Spec => []OneOwner`, `Spec => []PendingCountIsExact`: no record is lost or freed twice, no action uncounted |
| `OneRecordPerKey`, `TrueTags` | `Spec => []OnePlacePerKey`, `Spec => []TagsMatchData` of a bucket |
| `MapRefinement` | `Spec => ImplementsMap`: the lock-free `Get` |
| `NoMemoryIsLost` | `Spec => []MemoryIsAccounted` of a bucket |
| `ExactPerfData` | `Spec => []PerfDataIsExact` of a bucket, if no value is empty |
| `TypeCorrectness`, `BoundedLag`, `TwoTurnsSuffice` | `TypeOK`, `CountersLagByCalls` and `GivesUpOnlyOnFresh` of the cache |
| `BoundedOvershoot` | `Spec => []OvershootIsBounded` of the cache, if `Roomy` |
| `NoneMissedOrTwice` | `Spec => []StableKeysOnce` of the iterators of both tables |
| `NothingIsLostOnTheWay`, `NoTruncatedTable` | `Spec => []RoundTrip`, `Spec => []CutIsNoticed` of the serializer |
| `SafeShutdown` | `Spec => []ActionsRunOnLiveTables` of the service |
| `OthersAreFreed` | `Spec => []OnlyPendingLeaks` of the service |
| `TrueIndices`, `KeptMemory` | `Spec => []IndicesStayTrue`, `Spec => []MemoryIsKept` of the tables of a service |
| `TypeCorrectness`, `SingleCall`, `SafeDestruction`, `QuietRegistrations` | `TypeOK`, `CalledAtMostOnce`, `NoUseAfterDestruction` and `QuietWhenGone` of the monitor |
| `OrderlyRemoval` | `Spec => []RemovedAfterCallback`, if clients do not call `UnRegister()` |
| `CountersAreExact`, `CountersAreMonotonic` | `CounterSpec => []ExtremeOfReported`, `CounterSpec => NeverBack` of the counters |
| `ExactSizes`, `RecordsAreKept`, `TimesAreKept` | `Spec => []SizesAreExact`, `Spec => []RoundTrip`, `Spec => []TimeIsKept` of a record |
| `RoundedNumbers` | `RoundUp` and `RoundDown` return the nearest multiple of the base |

*Assumptions.* `QueueSize` and `NumActionQueues` are positive (the latter is what the constructor asserts), `MaxEpoch` and `MaxTables` are natural numbers, `Contexts` is finite,
`DataPerEntry` and `MaxEntries` are positive, the tags of keys are natural numbers, equal ones and 0 included (`SizesAssumption`),
`NoRecord` is not a record, `Null` is neither an index nor a record nor a value, reported values are integers. In the monitor clients are not callbacks, and `Null` is neither a thread nor a registration (`ThreadsAssumption`). In the cache, `Keys` and `Threads` are
finite, buckets and sizes are as `CacheAssumption` says, and no record is `Null` (`NullAssumption`). The iterator is over at least one bucket
of at least one place (`IteratorAssumption`); the empty key is a key, and a version that cannot be read is not supported (`SerializerAssumption`).
Of a record, sizes, times and widths of fields are natural numbers (`WidthsAssumption`), no size is too large for its field (`SizesFit`), and the base of a byte is even
and positive (`BaseAssumption`), so that a byte has a highest bit. All are named in the modules and TLC evaluates them.
Three theorems have a hypothesis of their own, because they are false without it: `0 \notin Values` in `ExactPerfData` (run `table_empty_value`
is the counterexample), `"unregister" \notin Cases` in `OrderlyRemoval`, explained below, and `Roomy` in `BoundedOvershoot`: there is a largest record, it fits into the empty cache, and
the sum of the counters stays away from the end of a `uint64_t` (a cache that is smaller than its index exceeds its limit from the start).
The model that TLC checks satisfies `Roomy`, which `MCCacheHashTable` asserts.

*The argument for epochs.* `NoUseAfterFree` is not inductive. `Inv` is, and has five parts. `QueueInv`: each count is
the number of holders of its slot, and every epoch that is held lies between front and back. It is
proved first for the steps of the queue alone, and carried over by the lemma that each step of
`EpochManager` is one of those or leaves the queue alone. `EpochOrder`: the global epoch is the
back index, or one more while the new epoch is being enqueued; this is where the order of the two
statements of `Add()` enters. `Ownership`: a record is registered, or about to be registered, only
while it is unlinked, and by one owner. `Protection`: whoever has a pointer to a record that was
retired holds an epoch that is not newer than the one of the action. An action that is performed has
an epoch before the front, holders have epochs not before the front, so nobody who holds a pointer
is left. The steps are one lemma per action, the theorems combine them.

The proof does not assume that the ring is long enough: two epochs that share a slot add their
counts, so the front only waits longer. Only `FrontDelay` needs the ring, and says so.

*For the accounting of epochs.* `OneOwner` says that an unlinked record has exactly one owner. That it has at most one is `Ownership`; that
it has one at all is `Owned`, which each of the four steps of a registration and each
step of the collection must hand on. `PendingCountIsExact` counts actions, so its invariant `PendingInv` also says that
the sets counted are finite.

*For the bucket.* `TableInv` says that the mutex has at most one owner, that whoever updates a place owns it, that nothing is linked
beyond the chain, and that the place a writer has found is the one of its key, or empty while no other place has the key.
From this follow `OnePlacePerKey` and `TagsMatchData`. The refinement needs two more facts about each `Get`.
`HitInv`: a record of its key that it may still return has a value that it is allowed to return; so a reader that
is between tag and data already counts as having seen what is there. `MissInv`: either it may miss the key, or the record of
the key is tagged and in a place that it has not passed yet. A writer that replaces a record keeps it in
its place, and one that removes it lets all pending calls miss it, so both are preserved without any assumption about where the readers are.

*For the memory and the counters of the bucket.* Both are sums: what is allocated is a sum over the places of the chain and over the calls in
progress, and so are the counters. `SumTheorems` has what is needed of sums: one element changes the sum by as much as its value changes. Its induction over finite
sets is the well-foundedness of their strict subsets (a set that is minimal among those of which the lemma is false), which needs no operator as parameter.
Each action changes one or two places and one call, and the two sums cancel. `ExactPerfData` needs the hypothesis that no value is empty,
because `Add` takes the size of the old value for the fact that there was one.

*For the cache.* `CountersLagByCalls` is inductive with the types of calls: what an eviction takes off the counters it takes out of the table at the same moment.
`GivesUpOnlyOnFresh` needs `SweepInv`, which is about each record that was not added or read since the eviction began: if the hand
has passed its bucket once, its access bit is off, and the hand has not passed it twice. `Distance` is how far a bucket is behind the hand,
and `Visited` how many buckets the eviction has taken; after 2 `NumBuckets` of them each record would have to be
at a distance that no bucket has. `LockInv` says that the records still to be visited in a locked bucket are there, since whoever removes
one needs that mutex.

`OvershootIsBounded` needs `BudgetInv`. A call that has found room *claims* the bytes of its record until the record is linked; `Claimed` is what the table has and
what is claimed so. A look at the counters misses at most one record of each other thread, which it has in flight or has not reported (lemma `Busy`), so whoever finds enough
free bytes does not lift `Claimed` over the limit. A call that evicts knows besides how much is `toFree`: what it removes lowers both by as much (`Freeing`). If in the meantime
another thread finds room, its own look proves that there was room for the evicting one too. And if the hand gives up after two turns, everything that is left is fresh
(`GivesUpOnlyOnFresh`): it was in flight when the eviction began, so it is not more than what the other threads may have in flight. That is
where "not read" enters: what was read is left behind without having been in flight.

*For the iterator.* The place of a record that stays never changes, and the places passed (`Passed`) only become more. So `WalkInv` holds of each key that no writer touched: it was
returned once if its place was passed and not at all otherwise; at the end every place was passed. A record that is linked or removed
anywhere, before or behind the iterator, touches only its own key.

*For the serializer.* `StreamInv`: a stream is version, settings, pairs of a flag TRUE and a record, and a flag FALSE. `CutInv`: all flags left in a stream that lacks its end
are TRUE, so the loop of `Deserialize` cannot end but by an exception. `CopyInv`: the keys that were returned and have stayed are in the stream, and without writers nothing
else is, each once. `LoadInv`: what was loaded is the first part of what was saved. Together: the keys that stay come back, and so does the whole of a table at rest.
Only read/write tables are saved, so `ExpiredInv` (nothing expires but in a cache) makes what the iterator returns the whole table.

*For the service.* `SafeShutdown` rests on an invariant that ties the collected actions to the place of the thread, and the end of
the queues to the join. `TrueIndices` and `KeptMemory` come from `ManagerInv`, which says besides what the call of `Add` in progress
has filled so far: its name is still free, and in the state `internal` its memory is already there.

`OthersAreFreed` adds that a member that is destroyed has given up its records (`LeakInv`).

*For the monitor.* `HolderInv`: who is in the monitor has a `shared_ptr`. `OpenInv`: a registration that is being made belongs to one call
of `Register`, and has exactly the waiters that this call has armed so far; so an exception knows which waiters to destroy. `QuietInv`: a
waiter of a registration that is gone is at rest or still on the list of those that some thread destroys, and a waiter leaves that list only at rest.
A callback may itself call the monitor, so a waiter can be the thread that destroys others; the proof does not exclude that it is on its own list, which
is finding 6.

`RemovedAfterCallback` needs `RemovalInv`. An endpoint may be on the list of those to be unregistered, in a callback, or in the hands of the thread that erases it: say there is a
token for it. As long as no registration of the endpoint is rejected and no client asks for its removal, there is at most one, and it belongs to the registration in the map, whose callback has begun.
A call of `UnRegister()` breaks this: with the hypothesis dropped TLC finds that the name a client asked to be removed is
taken from the list, the endpoint is registered again, and the new registration is erased in place of the old one. The property excludes only registrations
that were asked for themselves, and holds in the run `monitor_orderly`, where no client calls it.

*For the counters.* `ExtremeOfReported` needs `SeenIsBehind`: what a call has loaded of a counter is never further out than the counter
is now. So a call that returns without an exchange has nothing to add, and a successful exchange
moves the counter outward only.

*For records.* `RoundTrip` is not inductive: it says nothing of a record before it is read. `RecordInv` says what is in the buffer. Its
main part, `Layout`, names the five parts of a stored record (two sizes, key, metadata, value), where each begins, and that nothing is in
front, between or behind them. What `Serialize` writes has this layout (`WrittenIs`), `CalculateBufferSize` is its length (`BufferSizeIs`), and
`Deserialize` finds the parts again (`DeserializeIs`, `ReadValueIs`). This needs that the bytes of a size are its size (`NumberOfBytes`), for any number of them:
`n` is its k low digits and `Power[k]` times what `n \div Power[k]` is (`LowDigits`). If this were false there would be a least such k (`Smallest`), which is not 0, and
the quotient of k - 1, of which it is true, has one digit more. Arguing from a least exception replaces an induction over the digits, which none of the provers can
instantiate; `Power` and the sums are functions for the same reason.

For the race, `Layout` requires of the byte with the access bit only that it is the right byte with the bit set *or* clear (`IsTop`), and `Updates` requires the same of the
byte that each thread has in its hands between the load and the store. A store of a stale byte thus leaves the layout (`LayoutWithTop`): what is
lost is another thread's bit. `TimesAreKept` adds that a time below `TimeRange` has no bit there (`TopDigit`), and that `GetEpochTime` takes the bit
off again (`TimeOfBytes`). That the bit is changed by a remainder and not by a sum is what the proof uses at `WithAccessTwice`.

*Only model-checked:* all liveness (`RegisteredActionsArePerformed`, `StopIsHonoured`, `ClosedIsReported`, `CallsReturn`, `CallsEnd`), since fairness and `ENABLED` are outside what is proved here. Each invariant and each
action property of the passing runs has a theorem. The digests of `MurmurHash3` and the powers of two of `Math` are
assumptions of the MC modules, which TLC evaluates for the inputs they name: `Value` adds up bits recursively, and a proof for all inputs would need an induction over data.

## 6. Limits of the models

* Memory is sequentially consistent. `Get` and the counters use acquire, release and relaxed
  accesses, and tags are plain bytes; a reader that sees stores in another order is not
  modelled.
* A record in a table is a key and a value; its layout is the subject of `RecordSerializer` alone. The
  allocator fails only in `HashTableManager`, where an exception may come from any step.
* Other exceptions are modelled only where the code throws them in the modelled functions
  (`RemoveRef`, `Register`, `RegisterAction` of the deserializer, `Validate`).
* Performance counters that are stored or loaded one after the other are one step: the four that `Remove` sets (`EpochManager.h:79`), and the sum of
  three that a cache compares with its limit (`Cache/HashTable.h:306`) and that `Add` and `Remove` update (`ReadWrite/HashTable.h:361` and `416`). `total` is that sum.
  No property is about a moment between two of the four. What `OvershootIsBounded` and its theorem say is for a look at all three at once; that a look which reads them
  one after the other is wrong by no more than the calls it overlaps with is not checked.
* A mutex is a plain lock; which thread gets it next is open.
* The counters of a bucket are those of what is in it. The minima and maxima of sizes only grow and are in `PerfCounters`;
  `RaiseTo` is a whole call of `Max()` in one step.
* The hash is computed for the keys of the instances; that other keys spread evenly is not claimed.
* The cache never gets a second entry in a bucket, so its index does not grow. `OvershootIsBounded` is about
  a cache that was not read: a read record survives one turn of the hand, and a reader that is quick enough
  can keep eviction from freeing anything (`GivesUpOnlyOnFresh` says that this is the only reason).
* The size of a record is added in 32 bits (`Record.h:102`) without a test; `SizesFit` assumes that it fits.
* Of the settings in a stream only the number of buckets is modelled: the others are copied alike.

## 7. Plan

Theorems next: the refinement of the map by a bucket that is composed with the epochs, once it is modelled.

Models next: a composition of `EpochManager` with the bucket of `ReadWriteHashTable`, so that the pointer a `Get`
has loaded is protected step by step; the growth of the index of a cache.

Not to be modelled: loggers, the wrappers of libraries and platforms (`AtomicOffsetPtr`, `Properties`, `Memory`, handles as such), and the
benchmark, examples and tests, which have no state that a property could be about.

---------------------------- MODULE CacheHashTable ----------------------------
(***************************************************************************)
(* The cache of L4 (inc/L4/HashTable/Cache/HashTable.h): a read/write hash *)
(* table whose Add() first makes room.  EvictBasedOnTime() removes what is *)
(* too old from the bucket of the new key; Evict() turns a CLOCK hand over *)
(* the buckets and removes what is too old, or was not read since the hand *)
(* last came by, until enough bytes are free.                              *)
(*                                                                         *)
(* The table below is a map from keys to records: that a bucket has a key  *)
(* once is the subject of module ReadWriteHashTable.  Of a record the      *)
(* model has its size, the bytes of its key and value, and its metadata    *)
(* (inc/L4/HashTable/Cache/Metadata.h).  No bucket outgrows its first      *)
(* entry; several may share a mutex.                                       *)
(***************************************************************************)
EXTENDS Integers, FiniteSets, FiniteSetsExt, Functions

CONSTANTS
    Threads,                 \* threads that call Add()
    Readers,                 \* threads that call Get()
    Keys,
    Sizes,                   \* bytes of a key, its value and the metadata
    Bucket,                  \* the index of the bucket of each key
    NumBuckets,
    NumBucketsPerMutex,
    MaxCacheSizeInBytes,
    IndexSize,               \* TotalIndexSize of the empty table
    RecordOverhead,          \* CalculateRecordOverhead()
    RecordTimeToLive,
    ForceTimeBasedEviction,
    Modulus,                 \* the number of values of a std::uint64_t
    MaxTime,                 \* bound: the clock stops there
    Null

ASSUME CacheAssumption ==
    /\ NumBuckets \in Nat \ {0}
    /\ Bucket \in [Keys -> 0 .. NumBuckets - 1]
    /\ Sizes \subseteq Nat \ {0}
    /\ {NumBucketsPerMutex, MaxCacheSizeInBytes, IndexSize, RecordOverhead, RecordTimeToLive, MaxTime}
           \subseteq Nat
    /\ Modulus \in Nat \ {0}
    /\ ForceTimeBasedEviction \in BOOLEAN
    /\ IsFiniteSet(Threads) /\ IsFiniteSet(Keys)

VARIABLES
    table,       \* the record of each key, or Null
    total,       \* TotalKeySize + TotalValueSize + TotalIndexSize of m_perfData
    clock,       \* what GetCurrentEpochTime() returns
    hand,        \* m_currentEvictBucketIndex, modulo the number of buckets
    evictMutex,  \* the thread that owns m_evictMutex, or Null
    bucketMutex, \* m_mutexes: the thread that owns each, or Null
    call,        \* the call of Add() each thread is in
    reader,      \* the record whose access bit a reader is about to set, or Null
    wasRead      \* whether any access bit was ever set (history)

lockVars == <<evictMutex, bucketMutex>>
vars == <<table, total, clock, hand, evictMutex, bucketMutex, call, reader, wasRead>>

Buckets == 0 .. NumBuckets - 1

NumMutexes == Max({NumBuckets \div Max({NumBucketsPerMutex, 1}), 1})
Mutexes == 0 .. NumMutexes - 1

\* GetMutex()
MutexOf(b) == b % NumMutexes

Records == [size : Sizes, time : 0 .. MaxTime, accessed : BOOLEAN]

ASSUME NullAssumption == Null \notin Threads \cup Keys \cup Records

\* The keys of the records in a bucket.
RecordsIn(b) == {k \in Keys : Bucket[k] = b /\ table[k] # Null}

Idle == [state |-> "idle"]

\* Inside EvictBasedOnTime(); inside Evict(), with m_evictMutex; and behind.
TimeStates == {"readTime", "lockBucket", "expire"}
ClockStates == {"recheck", "turn", "visit"}
States == {"idle", "check", "lockEvict", "create", "link", "count"}
              \cup TimeStates \cup ClockStates

TypeOK ==
    /\ table \in [Keys -> Records \cup {Null}]
    /\ total \in Int
    /\ clock \in 0 .. MaxTime
    /\ hand \in Buckets
    /\ evictMutex \in Threads \cup {Null}
    /\ bucketMutex \in [Mutexes -> Threads \cup {Null}]
    /\ \A t \in Threads :
           /\ call[t].state \in States
           /\ evictMutex = t <=> call[t].state \in ClockStates
           /\ \A m \in Mutexes :
                  bucketMutex[m] = t
                      <=> call[t].state \in {"expire", "visit"} /\ MutexOf(call[t].bucket) = m
           /\ call[t].state \in {"expire", "visit"} => call[t].todo \subseteq RecordsIn(call[t].bucket)
    /\ reader \in [Readers -> Keys \cup {Null}]
    /\ wasRead \in BOOLEAN

Init ==
    /\ table = [k \in Keys |-> Null]
    /\ total = IndexSize
    /\ clock = 0
    /\ hand = 0
    /\ evictMutex = Null
    /\ bucketMutex = [m \in Mutexes |-> Null]
    /\ call = [t \in Threads |-> Idle]
    /\ reader = [r \in Readers |-> Null]
    /\ wasRead = FALSE

-------------------------------------------------------------------------------
\* IsExpired(), as it is without its assertion.
IsExpired(record, now) == now - record.time > RecordTimeToLive

\* A record that is gone takes its access bit with it: the readers that were
\* about to set it write to memory that nobody looks at any more.
Forget(k) == reader' = [r \in Readers |-> IF reader[r] = k THEN Null ELSE reader[r]]

\* Mistake: the overhead of the record stays in the index size.
AfterRemove_KeepsOverhead(record) == total - record.size

\* UpdatePerfDataForRemove()
AfterRemove(record) == total - record.size - RecordOverhead

\* WritableBase::Remove(), under the mutex of the bucket.
RemoveRecord(k) ==
    /\ table' = [table EXCEPT ![k] = Null]
    /\ total' = AfterRemove(table[k])
    /\ Forget(k)

Become(t, c) == call' = [call EXCEPT ![t] = c]

Lock(t, b) ==
    /\ bucketMutex[MutexOf(b)] = Null
    /\ bucketMutex' = [bucketMutex EXCEPT ![MutexOf(b)] = t]

Unlock(b) == bucketMutex' = [bucketMutex EXCEPT ![MutexOf(b)] = Null]

-------------------------------------------------------------------------------
(* Add().                                                                    *)

BeginAdd(t, k, size) ==
    /\ call[t].state = "idle"
    /\ Become(t, [state |-> IF ForceTimeBasedEviction THEN "readTime" ELSE "check",
                  key |-> k, size |-> size])
    /\ UNCHANGED <<table, total, clock, hand, lockVars, reader>>

\* EvictBasedOnTime() reads the clock before it locks the bucket ...
ReadTime(t) ==
    /\ call[t].state = "readTime"
    /\ Become(t, [state |-> "lockBucket", key |-> call[t].key, size |-> call[t].size, now |-> clock])
    /\ UNCHANGED <<table, total, clock, hand, lockVars, reader>>

LockBucket(t) ==
    LET b == Bucket[call[t].key]
    IN  /\ call[t].state = "lockBucket"
        /\ Lock(t, b)
        /\ Become(t, [state |-> "expire", key |-> call[t].key, size |-> call[t].size,
                      now |-> call[t].now, bucket |-> b, todo |-> RecordsIn(b)])
        /\ UNCHANGED <<table, total, clock, hand, evictMutex, reader>>

\* ... and visits each of its records.
Expire(t, k) ==
    /\ call[t].state = "expire"
    /\ k \in call[t].todo
    /\ Become(t, [call[t] EXCEPT !.todo = @ \ {k}])
    /\ IF IsExpired(table[k], call[t].now)
       THEN RemoveRecord(k)
       ELSE UNCHANGED <<table, total, reader>>
    /\ UNCHANGED <<clock, hand, lockVars>>

EndExpire(t) ==
    /\ call[t].state = "expire"
    /\ call[t].todo = {}
    /\ Unlock(call[t].bucket)
    /\ Become(t, [state |-> "check", key |-> call[t].key, size |-> call[t].size])
    /\ UNCHANGED <<table, total, clock, hand, evictMutex, reader>>

-------------------------------------------------------------------------------
(* Evict().                                                                  *)

\* Mistake: what is needed besides what is over the limit is forgotten.
NumBytesToFree_OnlyExcess(needed) ==
    LET totalDataSize == total % Modulus
    IN  IF totalDataSize > MaxCacheSizeInBytes THEN totalDataSize - MaxCacheSizeInBytes ELSE 0

\* CalculateNumBytesToFree(), in unsigned arithmetic.
NumBytesToFree(needed) ==
    LET totalDataSize == total % Modulus
    IN  IF needed < MaxCacheSizeInBytes /\ (totalDataSize + needed) % Modulus <= MaxCacheSizeInBytes
        THEN 0
        ELSE IF totalDataSize > MaxCacheSizeInBytes
        THEN (totalDataSize - MaxCacheSizeInBytes + needed) % Modulus
        ELSE needed

\* The first look, without a lock.
Check(t) ==
    /\ call[t].state = "check"
    /\ Become(t, [call[t] EXCEPT !.state =
                     IF NumBytesToFree(call[t].size) = 0 THEN "create" ELSE "lockEvict"])
    /\ UNCHANGED <<table, total, clock, hand, lockVars, reader>>

LockEvict(t) ==
    /\ call[t].state = "lockEvict"
    /\ evictMutex = Null
    /\ evictMutex' = t
    /\ Become(t, [call[t] EXCEPT !.state = "recheck"])
    /\ UNCHANGED <<table, total, clock, hand, bucketMutex, reader>>

\* Mistake: one turn of the hand, which may only clear the access bits.
NumIterations_OneTurn == NumBuckets

NumIterations == 2 * NumBuckets

\* The second look, under m_evictMutex; then Evict() reads the clock.  The
\* records added or read from here on are noted in "fresh" (history).
Recheck(t) ==
    LET toFree == NumBytesToFree(call[t].size)
    IN  /\ call[t].state = "recheck"
        /\ IF toFree = 0
           THEN /\ evictMutex' = Null
                /\ Become(t, [call[t] EXCEPT !.state = "create"])
           ELSE /\ UNCHANGED evictMutex
                /\ Become(t, [state |-> "turn", key |-> call[t].key, size |-> call[t].size,
                              now |-> clock, toFree |-> toFree,
                              iterations |-> NumIterations, fresh |-> {}])
        /\ UNCHANGED <<table, total, clock, hand, bucketMutex, reader>>

IsDone(t) == call[t].toFree = 0 \/ call[t].iterations = 0

\* Mistake: the index of the hand runs past the buckets.
NextHand_Unreduced == hand + 1

NextHand == (hand + 1) % NumBuckets

\* The hand moves on to the next bucket and locks it.
Turn(t) ==
    /\ call[t].state = "turn"
    /\ ~IsDone(t)
    /\ Lock(t, hand)
    /\ hand' = NextHand
    /\ Become(t, [state |-> "visit", key |-> call[t].key, size |-> call[t].size,
                  now |-> call[t].now, toFree |-> call[t].toFree,
                  iterations |-> call[t].iterations - 1, fresh |-> call[t].fresh,
                  bucket |-> hand, todo |-> RecordsIn(hand)])
    /\ UNCHANGED <<table, total, clock, evictMutex, reader>>

\* Visits a record: all of the bucket, even if enough bytes are free already.
Visit(t, k) ==
    /\ call[t].state = "visit"
    /\ k \in call[t].todo
    /\ IF IsExpired(table[k], call[t].now) \/ ~table[k].accessed
       THEN /\ RemoveRecord(k)
            /\ Become(t, [call[t] EXCEPT !.todo = @ \ {k}, !.fresh = @ \ {k},
                             !.toFree = IF table[k].size >= @ THEN 0 ELSE @ - table[k].size])
       ELSE /\ table' = [table EXCEPT ![k].accessed = FALSE]
            /\ Become(t, [call[t] EXCEPT !.todo = @ \ {k}])
            /\ UNCHANGED <<total, reader>>
    /\ UNCHANGED <<clock, hand, lockVars>>

EndVisit(t) ==
    /\ call[t].state = "visit"
    /\ call[t].todo = {}
    /\ Unlock(call[t].bucket)
    /\ Become(t, [state |-> "turn", key |-> call[t].key, size |-> call[t].size,
                  now |-> call[t].now, toFree |-> call[t].toFree,
                  iterations |-> call[t].iterations, fresh |-> call[t].fresh])
    /\ UNCHANGED <<table, total, clock, hand, evictMutex, reader>>

EndEvict(t) ==
    /\ call[t].state = "turn"
    /\ IsDone(t)
    /\ evictMutex' = Null
    /\ Become(t, [state |-> "create", key |-> call[t].key, size |-> call[t].size])
    /\ UNCHANGED <<table, total, clock, hand, bucketMutex, reader>>

-------------------------------------------------------------------------------
(* Add() goes on with WritableBase::Add().                                   *)

\* CreateRecordBuffer() puts the time into the metadata.
Create(t) ==
    /\ call[t].state = "create"
    /\ Become(t, [state |-> "link", key |-> call[t].key,
                  record |-> [size |-> call[t].size, time |-> clock, accessed |-> FALSE]])
    /\ UNCHANGED <<table, total, clock, hand, lockVars, reader>>

\* The history of the thread that is evicting, if any.
Refreshed(k) ==
    [u \in Threads |-> IF call[u].state \in {"turn", "visit"}
                       THEN [call[u] EXCEPT !.fresh = @ \cup {k}] ELSE call[u]]

\* The record replaces the one of the same key, under the mutex of the bucket;
\* "delta" is what UpdatePerfDataForAdd() will add.
Link(t) ==
    LET k == call[t].key
        record == call[t].record
    IN  /\ call[t].state = "link"
        /\ bucketMutex[MutexOf(Bucket[k])] = Null
        /\ table' = [table EXCEPT ![k] = record]
        /\ Forget(k)
        /\ call' = [Refreshed(k) EXCEPT ![t] =
               [state |-> "count",
                delta |-> IF table[k] = Null THEN record.size + RecordOverhead
                          ELSE record.size - table[k].size]]
        /\ UNCHANGED <<total, clock, hand, lockVars>>

Count(t) ==
    /\ call[t].state = "count"
    /\ total' = total + call[t].delta
    /\ Become(t, Idle)
    /\ UNCHANGED <<table, clock, hand, lockVars, reader>>

-------------------------------------------------------------------------------
\* Remove(), which the cache inherits.
Remove(t, k) ==
    /\ call[t].state = "idle"
    /\ table[k] # Null
    /\ bucketMutex[MutexOf(Bucket[k])] = Null
    /\ RemoveRecord(k)
    /\ UNCHANGED <<clock, hand, lockVars, call>>

-------------------------------------------------------------------------------
(* Get() of a record that is there and not expired sets its access bit, if   *)
(* it finds the bit off, and has no lock in between.                         *)

BeginGet(r, k) ==
    /\ reader[r] = Null
    /\ table[k] # Null
    /\ ~IsExpired(table[k], clock)
    /\ ~table[k].accessed
    /\ reader' = [reader EXCEPT ![r] = k]
    /\ UNCHANGED <<table, total, clock, hand, lockVars, call>>

SetAccessed(r) ==
    /\ reader[r] # Null
    /\ table' = [table EXCEPT ![reader[r]].accessed = TRUE]
    /\ call' = Refreshed(reader[r])
    /\ reader' = [reader EXCEPT ![r] = Null]
    /\ wasRead' = TRUE
    /\ UNCHANGED <<total, clock, hand, lockVars>>

GetInternal(r) == (\E k \in Keys : BeginGet(r, k) /\ UNCHANGED wasRead) \/ SetAccessed(r)

Tick ==
    /\ clock < MaxTime
    /\ clock' = clock + 1
    /\ UNCHANGED <<table, total, hand, lockVars, call, reader>>

-------------------------------------------------------------------------------
EvictBasedOnTime(t) ==
    ReadTime(t) \/ LockBucket(t) \/ EndExpire(t) \/ \E k \in Keys : Expire(t, k)

Evict(t) ==
    \/ Check(t) \/ LockEvict(t) \/ Recheck(t) \/ Turn(t) \/ EndVisit(t) \/ EndEvict(t)
    \/ \E k \in Keys : Visit(t, k)

Add(t) ==
    \/ \E k \in Keys, size \in Sizes : BeginAdd(t, k, size)
    \/ EvictBasedOnTime(t) \/ Evict(t) \/ Create(t) \/ Link(t) \/ Count(t)

Next ==
    \/ /\ \/ \E t \in Threads : Add(t) \/ \E k \in Keys : Remove(t, k)
          \/ Tick
       /\ UNCHANGED wasRead
    \/ \E r \in Readers : GetInternal(r)

Spec == Init /\ [][Next]_vars

-------------------------------------------------------------------------------
(* Properties.                                                               *)

\* What the records and the index really take.
SizeOf(k) == IF table[k] = Null THEN 0 ELSE table[k].size + RecordOverhead

DataSize == IndexSize + SumFunction([k \in Keys |-> SizeOf(k)])

\* What a call of Add() has changed and not reported.
Unreported(t) == IF call[t].state = "count" THEN call[t].delta ELSE 0

\* The counters differ from the table by what the calls of Add() between their
\* unlock and their report have changed, though a record may be evicted, and
\* counted out, before it is counted in.
CountersLagByCalls ==
    total + SumFunction([t \in Threads |-> Unreported(t)]) = DataSize

\* Evict() gives up with bytes still to free only if all that is left was added
\* or read while it was at work: two turns of the hand are enough otherwise.
GivesUpOnlyOnFresh ==
    \A t \in Threads :
        call[t].state = "turn" /\ call[t].iterations = 0 /\ call[t].toFree > 0
            => {k \in Keys : table[k] # Null} \subseteq call[t].fresh

\* There is a largest record, it fits into an empty cache, and what all threads
\* may have in flight does not bring the counters near the end of a uint64_t.
Roomy ==
    /\ \E size \in Sizes : \A other \in Sizes : other <= size
    /\ IndexSize + Max(Sizes) <= MaxCacheSizeInBytes
    /\ MaxCacheSizeInBytes + 2 * (Cardinality(Threads) * (Max(Sizes) + RecordOverhead)) < Modulus

\* As long as no record was read, the cache exceeds its limit by what the other
\* threads had in flight when each found room for its own record, and by the
\* overhead of the records in flight, which bytesNeeded leaves out (if Roomy).
OvershootIsBounded ==
    LET n == Cardinality(Threads)
    IN  ~wasRead =>
            DataSize <= MaxCacheSizeInBytes + (n - 1) * Max(Sizes) + n * RecordOverhead

-------------------------------------------------------------------------------
(* Not guaranteed by the code: TLC refutes these (README, section 4).        *)

\* "There are enough free bytes" is not denied while there are, and no more is
\* evicted than the two cases of HashTable.h:317-321 call for.
SeesFreeBytes == total % Modulus > MaxCacheSizeInBytes => total > MaxCacheSizeInBytes

\* The assertion of IsExpired(), Metadata.h:39: curEpochTime >= GetEpochTime().
RecordsAreNotFromTheFuture ==
    \A t \in Threads :
        call[t].state \in {"expire", "visit"} =>
            \A k \in call[t].todo : call[t].now >= table[k].time
===============================================================================

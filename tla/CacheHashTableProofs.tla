------------------------- MODULE CacheHashTableProofs -------------------------
(***************************************************************************)
(* Theorems about the cache (module CacheHashTable).                       *)
(*                                                                         *)
(* The inductive invariant has the type of every call (StateInv), who owns *)
(* which mutex and what may then be left to visit (LockInv), that readers  *)
(* are at live records (ReaderInv), what the CLOCK hand has left behind    *)
(* (SweepInv), and the counters (CountersLagByCalls).  BudgetInv, which    *)
(* builds on it, says how much the calls may claim of the byte budget.     *)
(***************************************************************************)
EXTENDS CacheHashTable, SumTheorems

TimeOf == 0 .. MaxTime
PlainStates == {"readTime", "check", "lockEvict", "recheck", "create"}

PlainCalls == [state : PlainStates, key : Keys, size : Sizes]
TimedCalls == [state : {"lockBucket"}, key : Keys, size : Sizes, now : TimeOf]
ExpireCalls == [state : {"expire"}, key : Keys, size : Sizes, now : TimeOf,
                bucket : Buckets, todo : SUBSET Keys]
TurnCalls == [state : {"turn"}, key : Keys, size : Sizes, now : TimeOf, toFree : Nat,
              iterations : 0 .. NumIterations, fresh : SUBSET Keys]
VisitCalls == [state : {"visit"}, key : Keys, size : Sizes, now : TimeOf, toFree : Nat,
               iterations : 0 .. NumIterations, fresh : SUBSET Keys,
               bucket : Buckets, todo : SUBSET Keys]
LinkCalls == [state : {"link"}, key : Keys, record : Records]
CountCalls == [state : {"count"}, delta : Int]

Calls == {Idle} \cup PlainCalls \cup TimedCalls \cup ExpireCalls \cup TurnCalls
             \cup VisitCalls \cup LinkCalls \cup CountCalls

StateInv ==
    /\ table \in [Keys -> Records \cup {Null}]
    /\ total \in Int
    /\ clock \in TimeOf
    /\ hand \in Buckets
    /\ evictMutex \in Threads \cup {Null}
    /\ bucketMutex \in [Mutexes -> Threads \cup {Null}]
    /\ call \in [Threads -> Calls]
    /\ reader \in [Readers -> Keys \cup {Null}]
    /\ wasRead \in BOOLEAN

InBucket(t) == call[t].state \in {"expire", "visit"}

EvictOwner(t) == evictMutex = t <=> call[t].state \in ClockStates

BucketOwner(t) ==
    \A m \in Mutexes : bucketMutex[m] = t <=> InBucket(t) /\ MutexOf(call[t].bucket) = m

TodoThere(t) ==
    InBucket(t) => \A k \in call[t].todo : Bucket[k] = call[t].bucket /\ table[k] # Null

LockInv == \A t \in Threads : EvictOwner(t) /\ BucketOwner(t) /\ TodoThere(t)

ReaderInv == \A r \in Readers : reader[r] # Null => table[reader[r]] # Null

\* How many buckets behind the hand a bucket is; how many buckets a call of
\* Evict() has visited or is visiting; what it has not looked at of the last one.
Distance(b) == IF b < hand THEN hand - 1 - b ELSE hand - 1 - b + NumBuckets
Visited(t) == NumIterations - call[t].iterations
Pending(t) == IF call[t].state = "visit" THEN call[t].todo ELSE {}

\* A record that is not fresh has lost its access bit when the hand came by, and
\* is gone when the hand came by again.
Swept(t) ==
    \A k \in Keys : table[k] # Null /\ k \notin call[t].fresh =>
        IF k \in Pending(t)
        THEN Visited(t) > NumBuckets => ~table[k].accessed
        ELSE /\ Distance(Bucket[k]) < Visited(t) => ~table[k].accessed
             /\ Distance(Bucket[k]) >= Visited(t) - NumBuckets

Sweeping(t) == call[t].state \in {"turn", "visit"}

SweepOf(t) ==
    Sweeping(t) =>
        /\ Swept(t)
        /\ call[t].state = "visit" => Distance(call[t].bucket) = 0 /\ Visited(t) > 0

SweepInv == \A t \in Threads : SweepOf(t)

Inv == StateInv /\ LockInv /\ ReaderInv /\ SweepInv /\ CountersLagByCalls

-------------------------------------------------------------------------------
(* Calls, mutexes and the hand.                                              *)

LEMMA CallKinds ==
    ASSUME NEW c \in Calls
    PROVE  /\ c.state \in States
           /\ c.state = "idle" => c = Idle
           /\ c.state \in PlainStates => c \in PlainCalls
           /\ c.state = "lockBucket" => c \in TimedCalls
           /\ c.state = "expire" => c \in ExpireCalls
           /\ c.state = "turn" => c \in TurnCalls
           /\ c.state = "visit" => c \in VisitCalls
           /\ c.state = "link" => c \in LinkCalls
           /\ c.state = "count" => c \in CountCalls
<1>1. CASE c = Idle
    BY <1>1 DEF Idle, States, PlainStates
<1>2. CASE c \in PlainCalls
    BY <1>2 DEF PlainCalls, PlainStates, States, TimeStates, ClockStates
<1>3. CASE c \in TimedCalls
    BY <1>3 DEF TimedCalls, PlainStates, States, TimeStates
<1>4. CASE c \in ExpireCalls
    BY <1>4 DEF ExpireCalls, PlainStates, States, TimeStates
<1>5. CASE c \in TurnCalls
    BY <1>5 DEF TurnCalls, PlainStates, States, ClockStates
<1>6. CASE c \in VisitCalls
    BY <1>6 DEF VisitCalls, PlainStates, States, ClockStates
<1>7. CASE c \in LinkCalls
    BY <1>7 DEF LinkCalls, PlainStates, States
<1>8. CASE c \in CountCalls
    BY <1>8 DEF CountCalls, PlainStates, States
<1> QED
    BY <1>1, <1>2, <1>3, <1>4, <1>5, <1>6, <1>7, <1>8 DEF Calls

\* The thread's call becomes c, the others keep theirs.
LEMMA Moved ==
    ASSUME StateInv, NEW t \in Threads, NEW c \in Calls, Become(t, c)
    PROVE  /\ call' \in [Threads -> Calls]
           /\ call'[t] = c
           /\ \A u \in Threads : u # t => call'[u] = call[u]
    BY DEF StateInv, Become

\* Each bucket has a mutex.
LEMMA MutexIn == ASSUME NEW b \in Buckets PROVE MutexOf(b) \in Mutexes
<1>1. PICK n : n = Max({NumBucketsPerMutex, 1})
    OBVIOUS
<1>2. n \in Nat \ {0}
  <2>1. NumBucketsPerMutex \in Nat
    BY CacheAssumption
  <2>2. \E x \in {NumBucketsPerMutex, 1} : \A y \in {NumBucketsPerMutex, 1} : x >= y
    BY <2>1
  <2>3. n \in {NumBucketsPerMutex, 1} /\ \A y \in {NumBucketsPerMutex, 1} : n >= y
    BY <1>1, <2>2 DEF Max
  <2> QED
    BY <2>1, <2>3
<1>3. PICK q : q = NumBuckets \div n
    OBVIOUS
<1>4. q \in Nat
    BY <1>2, <1>3, CacheAssumption
<1>5. NumMutexes \in Nat \ {0}
  <2>1. NumMutexes = Max({q, 1})
    BY <1>1, <1>3 DEF NumMutexes
  <2>2. \E x \in {q, 1} : \A y \in {q, 1} : x >= y
    BY <1>4
  <2>3. NumMutexes \in {q, 1} /\ \A y \in {q, 1} : NumMutexes >= y
    BY <2>1, <2>2 DEF Max
  <2> QED
    BY <1>4, <2>3
<1> QED
    BY <1>5, CacheAssumption DEF MutexOf, Mutexes, Buckets

\* The hand goes round.
LEMMA HandIs ==
    ASSUME hand \in Buckets
    PROVE  /\ NextHand = IF hand + 1 = NumBuckets THEN 0 ELSE hand + 1
           /\ NextHand \in Buckets
<1>1. CASE hand + 1 = NumBuckets
  <2>1. NumBuckets % NumBuckets = 0
    BY CacheAssumption
  <2> QED
    BY <1>1, <2>1, CacheAssumption DEF NextHand, Buckets
<1>2. CASE hand + 1 # NumBuckets
  <2>1. hand + 1 \in 0 .. NumBuckets - 1
    BY <1>2, CacheAssumption DEF Buckets
  <2>2. (hand + 1) % NumBuckets = hand + 1
    BY <2>1, CacheAssumption
  <2> QED
    BY <1>2, <2>1, <2>2 DEF NextHand, Buckets
<1> QED
    BY <1>1, <1>2

\* What is to free is a number of bytes.
LEMMA BytesIn ==
    ASSUME total \in Int, NEW needed \in Sizes
    PROVE  NumBytesToFree(needed) \in Nat
<1>1. Modulus \in Nat \ {0} /\ needed \in Nat /\ MaxCacheSizeInBytes \in Nat
    BY CacheAssumption
<1>2. ASSUME NEW n \in Int PROVE n % Modulus \in Nat
    BY <1>1
<1>3. PICK d : d = total % Modulus
    OBVIOUS
<1>4. d \in Nat /\ (d - MaxCacheSizeInBytes + needed) % Modulus \in Nat
    BY <1>1, <1>2, <1>3
<1> QED
    BY <1>1, <1>3, <1>4 DEF NumBytesToFree

LEMMA LiveRecord ==
    ASSUME StateInv, NEW k \in Keys, table[k] # Null
    PROVE  /\ table[k] \in Records
           /\ table[k].size \in Sizes /\ table[k].size \in Nat \ {0}
           /\ table[k].time \in TimeOf /\ table[k].accessed \in BOOLEAN
    BY CacheAssumption DEF StateInv, Records, TimeOf

-------------------------------------------------------------------------------
(* The counters.                                                             *)

Sum(f, S) == SumFunctionOnSet(f, S)
SizeMap == [k \in Keys |-> SizeOf(k)]
UnreportedMap == [t \in Threads |-> Unreported(t)]

LEMMA SumsAre ==
    /\ CountersLagByCalls <=>
           total + Sum(UnreportedMap, Threads) = IndexSize + Sum(SizeMap, Keys)
    /\ CountersLagByCalls' <=>
           total' + Sum(UnreportedMap', Threads) = IndexSize + Sum(SizeMap', Keys)
    BY DEF CountersLagByCalls, DataSize, SumFunction, Sum, SizeMap, UnreportedMap

LEMMA SizesIn ==
    ASSUME StateInv, NEW k \in Keys
    PROVE  SizeOf(k) \in Int
    BY LiveRecord, CacheAssumption DEF SizeOf

LEMMA UnreportedIn ==
    ASSUME StateInv, NEW t \in Threads
    PROVE  Unreported(t) \in Int
<1>1. call[t] \in Calls
    BY DEF StateInv
<1> QED
    BY <1>1, CallKinds DEF Unreported, CountCalls

LEMMA SumSizes ==
    ASSUME StateInv
    PROVE  Sum(SizeMap, Keys) \in Int /\ Sum(UnreportedMap, Threads) \in Int
<1>1. \A k \in Keys : SizeMap[k] \in Int
    BY SizesIn DEF SizeMap
<1>2. \A t \in Threads : UnreportedMap[t] \in Int
    BY UnreportedIn DEF UnreportedMap
<1> QED
    BY <1>1, <1>2, SumType, CacheAssumption DEF Sum

LEMMA SizesKept ==
    ASSUME \A k \in Keys : SizeOf(k)' = SizeOf(k)
    PROVE  Sum(SizeMap', Keys) = Sum(SizeMap, Keys)
    BY DEF SizeMap

LEMMA UnreportedKept ==
    ASSUME \A t \in Threads : Unreported(t)' = Unreported(t)
    PROVE  Sum(UnreportedMap', Threads) = Sum(UnreportedMap, Threads)
    BY DEF UnreportedMap

LEMMA SizeChanges ==
    ASSUME StateInv, NEW k \in Keys, SizeOf(k)' \in Int,
           \A q \in Keys : q # k => SizeOf(q)' = SizeOf(q)
    PROVE  Sum(SizeMap', Keys) = Sum(SizeMap, Keys) - SizeOf(k) + SizeOf(k)'
<1>1. \A q \in Keys : SizeMap[q] = SizeOf(q) /\ SizeMap'[q] = SizeOf(q)' /\ SizeOf(q) \in Int
    BY SizesIn DEF SizeMap
<1>2. \A q \in Keys : q # k => SizeMap'[q] = SizeMap[q]
    BY <1>1
<1>3. IsFiniteSet(Keys) /\ SizeMap'[k] \in Int /\ \A q \in Keys : SizeMap[q] \in Int
    BY <1>1, CacheAssumption
<1>4. SumFunctionOnSet(SizeMap', Keys) = SumFunctionOnSet(SizeMap, Keys) - SizeMap[k] + SizeMap'[k]
    BY <1>2, <1>3, SumChange
<1> QED
    BY <1>1, <1>4 DEF Sum

LEMMA UnreportedChanges ==
    ASSUME StateInv, NEW t \in Threads, Unreported(t)' \in Int,
           \A u \in Threads : u # t => Unreported(u)' = Unreported(u)
    PROVE  Sum(UnreportedMap', Threads)
               = Sum(UnreportedMap, Threads) - Unreported(t) + Unreported(t)'
<1>1. \A u \in Threads : /\ UnreportedMap[u] = Unreported(u) /\ UnreportedMap'[u] = Unreported(u)'
                         /\ Unreported(u) \in Int
    BY UnreportedIn DEF UnreportedMap
<1>2. \A u \in Threads : u # t => UnreportedMap'[u] = UnreportedMap[u]
    BY <1>1
<1>3. /\ IsFiniteSet(Threads) /\ UnreportedMap'[t] \in Int
      /\ \A u \in Threads : UnreportedMap[u] \in Int
    BY <1>1, CacheAssumption
<1>4. SumFunctionOnSet(UnreportedMap', Threads)
          = SumFunctionOnSet(UnreportedMap, Threads) - UnreportedMap[t] + UnreportedMap'[t]
    BY <1>2, <1>3, SumChange
<1> QED
    BY <1>1, <1>4 DEF Sum

\* Nothing is counted.
LEMMA LagKept ==
    ASSUME CountersLagByCalls, total' = total,
           \A k \in Keys : SizeOf(k)' = SizeOf(k),
           \A t \in Threads : Unreported(t)' = Unreported(t)
    PROVE  CountersLagByCalls'
    BY SumsAre, SizesKept, UnreportedKept

-------------------------------------------------------------------------------
(* Steps of a thread that leave the table alone.                             *)

LEMMA StateKept ==
    ASSUME Inv, NEW t \in Threads, NEW c \in Calls, Become(t, c),
           UNCHANGED <<table, total, clock, reader, wasRead>>,
           hand' \in Buckets, evictMutex' \in Threads \cup {Null},
           bucketMutex' \in [Mutexes -> Threads \cup {Null}],
           call[t].state # "count", c.state # "count"
    PROVE  StateInv' /\ ReaderInv' /\ CountersLagByCalls'
<1>1. StateInv /\ ReaderInv /\ CountersLagByCalls
    BY DEF Inv
<1>2. /\ call' \in [Threads -> Calls] /\ call'[t] = c
      /\ \A u \in Threads : u # t => call'[u] = call[u]
    BY <1>1, Moved
<1>3. StateInv'
    BY <1>1, <1>2 DEF StateInv
<1>4. ReaderInv'
    BY <1>1 DEF ReaderInv
<1>5. \A u \in Threads : Unreported(u)' = Unreported(u)
    BY <1>2 DEF Unreported
<1>6. \A k \in Keys : SizeOf(k)' = SizeOf(k)
    BY DEF SizeOf
<1> QED
    BY <1>1, <1>3, <1>4, <1>5, <1>6, LagKept

\* A thread that is not evicting goes on; the hand stays.
LEMMA SweepStays ==
    ASSUME Inv, NEW t \in Threads, NEW c \in Calls, Become(t, c),
           UNCHANGED <<table, hand>>, c.state \notin {"turn", "visit"}
    PROVE  SweepInv'
<1>1. call'[t] = c /\ \A u \in Threads : u # t => call'[u] = call[u]
    BY Moved DEF Inv
<1>2. ASSUME NEW u \in Threads, u # t PROVE SweepOf(u)'
  <2>1. SweepOf(u) /\ call'[u] = call[u]
    BY <1>1, <1>2 DEF Inv, SweepInv
  <2> QED
    BY <2>1 DEF SweepOf, Sweeping, Swept, Pending, Visited, Distance
<1>3. SweepOf(t)'
    BY <1>1 DEF SweepOf, Sweeping
<1> QED
    BY <1>2, <1>3 DEF SweepInv

\* No mutex changes hands.
LEMMA LocksStay ==
    ASSUME Inv, NEW t \in Threads, NEW c \in Calls, Become(t, c),
           UNCHANGED <<table, evictMutex, bucketMutex>>,
           c.state \in ClockStates <=> call[t].state \in ClockStates,
           c.state \notin {"expire", "visit"}, call[t].state \notin {"expire", "visit"}
    PROVE  LockInv'
<1>1. call'[t] = c /\ \A u \in Threads : u # t => call'[u] = call[u]
    BY Moved DEF Inv
<1>2. \A u \in Threads : EvictOwner(u) /\ BucketOwner(u) /\ TodoThere(u)
    BY DEF Inv, LockInv
<1>3. \A u \in Threads : EvictOwner(u)'
    BY <1>1, <1>2 DEF EvictOwner
<1>4. \A u \in Threads : BucketOwner(u)'
    BY <1>1, <1>2 DEF BucketOwner, InBucket
<1>5. \A u \in Threads : TodoThere(u)'
    BY <1>1, <1>2 DEF TodoThere, InBucket
<1> QED
    BY <1>3, <1>4, <1>5 DEF LockInv

\* m_evictMutex is locked or unlocked.
LEMMA EvictMutexMoves ==
    ASSUME Inv, NEW t \in Threads, NEW c \in Calls, Become(t, c),
           UNCHANGED <<table, bucketMutex>>,
           \/ evictMutex = Null /\ evictMutex' = t /\ c.state \in ClockStates
           \/ evictMutex = t /\ evictMutex' = Null /\ c.state \notin ClockStates,
           c.state \notin {"expire", "visit"}, call[t].state \notin {"expire", "visit"}
    PROVE  LockInv'
<1>1. call'[t] = c /\ \A u \in Threads : u # t => call'[u] = call[u]
    BY Moved DEF Inv
<1>2. \A u \in Threads : EvictOwner(u) /\ BucketOwner(u) /\ TodoThere(u)
    BY DEF Inv, LockInv
<1>3. \A u \in Threads : EvictOwner(u)'
    BY <1>1, <1>2, NullAssumption DEF EvictOwner
<1>4. \A u \in Threads : BucketOwner(u)'
    BY <1>1, <1>2 DEF BucketOwner, InBucket
<1>5. \A u \in Threads : TodoThere(u)'
    BY <1>1, <1>2 DEF TodoThere, InBucket
<1> QED
    BY <1>3, <1>4, <1>5 DEF LockInv

\* A thread locks the mutex of a bucket and looks at what is in it.
LEMMA BucketTaken ==
    ASSUME Inv, NEW t \in Threads, NEW c \in Calls, Become(t, c), NEW b \in Buckets, Lock(t, b),
           UNCHANGED <<table, evictMutex>>,
           c.state \in ClockStates <=> call[t].state \in ClockStates,
           call[t].state \notin {"expire", "visit"}, c.state \in {"expire", "visit"},
           c.bucket = b, c.todo = RecordsIn(b)
    PROVE  LockInv' /\ bucketMutex' \in [Mutexes -> Threads \cup {Null}]
<1>1. call'[t] = c /\ \A u \in Threads : u # t => call'[u] = call[u]
    BY Moved DEF Inv
<1>2. \A u \in Threads : EvictOwner(u) /\ BucketOwner(u) /\ TodoThere(u)
    BY DEF Inv, LockInv
<1>3. PICK m \in Mutexes : m = MutexOf(b)
    BY MutexIn
<1>4. /\ bucketMutex' \in [Mutexes -> Threads \cup {Null}] /\ bucketMutex[m] = Null
      /\ \A n \in Mutexes : bucketMutex'[n] = IF n = m THEN t ELSE bucketMutex[n]
    BY <1>3 DEF Lock, Inv, StateInv
<1>5. \A u \in Threads : EvictOwner(u)'
    BY <1>1, <1>2 DEF EvictOwner
<1>6. ASSUME NEW u \in Threads PROVE BucketOwner(u)'
  <2>1. CASE u = t
    <3>1. \A n \in Mutexes : bucketMutex[n] # t
      BY <1>2 DEF BucketOwner, InBucket
    <3> QED
      BY <1>1, <1>3, <1>4, <2>1, <3>1 DEF BucketOwner, InBucket
  <2>2. CASE u # t
    <3>1. bucketMutex[m] # u
      BY <1>4, NullAssumption
    <3>2. ~(InBucket(u) /\ MutexOf(call[u].bucket) = m)
      BY <1>2, <3>1 DEF BucketOwner
    <3>3. \A n \in Mutexes : bucketMutex'[n] = u <=> bucketMutex[n] = u
      BY <1>4, <2>2, <3>1
    <3> QED
      BY <1>1, <1>2, <2>2, <3>3 DEF BucketOwner, InBucket
  <2> QED
    BY <2>1, <2>2
<1>7. \A u \in Threads : TodoThere(u)'
    BY <1>1, <1>2 DEF TodoThere, InBucket, RecordsIn
<1> QED
    BY <1>4, <1>5, <1>6, <1>7 DEF LockInv

\* It unlocks the mutex.
LEMMA BucketGiven ==
    ASSUME Inv, NEW t \in Threads, NEW c \in Calls, Become(t, c), NEW b \in Buckets, Unlock(b),
           UNCHANGED <<table, evictMutex>>,
           c.state \in ClockStates <=> call[t].state \in ClockStates,
           call[t].state \in {"expire", "visit"}, c.state \notin {"expire", "visit"},
           call[t].bucket = b
    PROVE  LockInv' /\ bucketMutex' \in [Mutexes -> Threads \cup {Null}]
<1>1. call'[t] = c /\ \A u \in Threads : u # t => call'[u] = call[u]
    BY Moved DEF Inv
<1>2. \A u \in Threads : EvictOwner(u) /\ BucketOwner(u) /\ TodoThere(u)
    BY DEF Inv, LockInv
<1>3. PICK m \in Mutexes : m = MutexOf(b)
    BY MutexIn
<1>4. /\ bucketMutex' \in [Mutexes -> Threads \cup {Null}]
      /\ \A n \in Mutexes : bucketMutex'[n] = IF n = m THEN Null ELSE bucketMutex[n]
    BY <1>3 DEF Unlock, Inv, StateInv
<1>5. \A u \in Threads : EvictOwner(u)'
    BY <1>1, <1>2 DEF EvictOwner
<1>6. \A n \in Mutexes : bucketMutex[n] = t <=> n = m
    BY <1>2, <1>3 DEF BucketOwner, InBucket
<1>7. ASSUME NEW u \in Threads PROVE BucketOwner(u)'
  <2>1. CASE u = t
    BY <1>1, <1>4, <1>6, <2>1, NullAssumption DEF BucketOwner, InBucket
  <2>2. CASE u # t
    <3>1. \A n \in Mutexes : bucketMutex'[n] = u <=> bucketMutex[n] = u
      BY <1>4, <1>6, <2>2, NullAssumption
    <3> QED
      BY <1>1, <1>2, <2>2, <3>1 DEF BucketOwner, InBucket
  <2> QED
    BY <2>1, <2>2
<1>8. \A u \in Threads : TodoThere(u)'
    BY <1>1, <1>2 DEF TodoThere, InBucket
<1> QED
    BY <1>4, <1>5, <1>7, <1>8 DEF LockInv

LEMMA BeginAdd_Inv ==
    ASSUME Inv, NEW t \in Threads, NEW k \in Keys, NEW size \in Sizes, BeginAdd(t, k, size),
           UNCHANGED wasRead
    PROVE  Inv'
<1>1. PICK c : c = [state |-> IF ForceTimeBasedEviction THEN "readTime" ELSE "check",
                    key |-> k, size |-> size]
    OBVIOUS
<1>2. c \in PlainCalls /\ c.state \in {"readTime", "check"}
    BY <1>1 DEF PlainCalls, PlainStates
<1>3. c \in Calls /\ Become(t, c)
    BY <1>1, <1>2 DEF Calls, BeginAdd
<1>4. /\ call[t].state = "idle"
      /\ UNCHANGED <<table, total, clock, hand, evictMutex, bucketMutex, reader>>
    BY DEF BeginAdd, lockVars
<1>5. StateInv' /\ ReaderInv' /\ CountersLagByCalls'
    BY <1>2, <1>3, <1>4, StateKept DEF Inv, StateInv
<1>6. LockInv'
    BY <1>2, <1>3, <1>4, LocksStay DEF ClockStates
<1>7. SweepInv'
    BY <1>2, <1>3, <1>4, SweepStays
<1> QED
    BY <1>5, <1>6, <1>7 DEF Inv

LEMMA CallIn ==
    ASSUME Inv, NEW t \in Threads
    PROVE  call[t] \in Calls
    BY DEF Inv, StateInv

\* EvictBasedOnTime() and Add() go on without a lock.
LEMMA Step_Inv ==
    ASSUME Inv, NEW t \in Threads, ReadTime(t) \/ Check(t) \/ Create(t), UNCHANGED wasRead
    PROVE  Inv'
<1>1. call[t].state \in {"readTime", "check", "create"} /\ call[t] \in PlainCalls
    BY CallIn, CallKinds DEF ReadTime, Check, Create, PlainStates
<1>2. call[t].key \in Keys /\ call[t].size \in Sizes /\ clock \in TimeOf
    BY <1>1 DEF PlainCalls, Inv, StateInv
<1>3. \E c \in Calls : /\ Become(t, c) /\ c.state \in {"lockBucket", "create", "lockEvict", "link"}
  <2>1. CASE ReadTime(t)
    <3>1. PICK c : c = [state |-> "lockBucket", key |-> call[t].key, size |-> call[t].size,
                        now |-> clock]
      OBVIOUS
    <3>2. c \in TimedCalls /\ c.state = "lockBucket"
      BY <1>2, <3>1 DEF TimedCalls
    <3> QED
      BY <2>1, <3>1, <3>2 DEF ReadTime, Calls
  <2>2. CASE Check(t)
    <3>1. PICK s \in {"create", "lockEvict"} :
              s = IF NumBytesToFree(call[t].size) = 0 THEN "create" ELSE "lockEvict"
      OBVIOUS
    <3>2. PICK c : c = [call[t] EXCEPT !.state = s]
      OBVIOUS
    <3>3. c \in PlainCalls /\ c.state = s
      BY <1>1, <3>2 DEF PlainCalls, PlainStates
    <3>4. Become(t, c)
      BY <2>2, <3>1, <3>2 DEF Check
    <3> QED
      BY <3>3, <3>4 DEF Calls
  <2>3. CASE Create(t)
    <3>1. PICK record : record = [size |-> call[t].size, time |-> clock, accessed |-> FALSE]
      OBVIOUS
    <3>2. PICK c : c = [state |-> "link", key |-> call[t].key, record |-> record]
      OBVIOUS
    <3>3. record \in Records
      BY <1>2, <3>1 DEF Records, TimeOf
    <3>4. c \in LinkCalls /\ c.state = "link"
      BY <1>2, <3>2, <3>3 DEF LinkCalls
    <3> QED
      BY <2>3, <3>1, <3>2, <3>4 DEF Create, Calls
  <2> QED
    BY <2>1, <2>2, <2>3
<1>4. PICK c \in Calls : /\ Become(t, c) /\ c.state \in {"lockBucket", "create", "lockEvict", "link"}
    BY <1>3
<1>5. UNCHANGED <<table, total, clock, hand, evictMutex, bucketMutex, reader>>
    BY DEF ReadTime, Check, Create, lockVars
<1>6. StateInv' /\ ReaderInv' /\ CountersLagByCalls'
    BY <1>1, <1>4, <1>5, StateKept DEF Inv, StateInv
<1>7. LockInv'
    BY <1>1, <1>4, <1>5, LocksStay DEF ClockStates
<1>8. SweepInv'
    BY <1>4, <1>5, SweepStays
<1> QED
    BY <1>6, <1>7, <1>8 DEF Inv

LEMMA LockBucket_Inv ==
    ASSUME Inv, NEW t \in Threads, LockBucket(t), UNCHANGED wasRead
    PROVE  Inv'
<1>1. call[t].state = "lockBucket" /\ call[t] \in TimedCalls
    BY CallIn, CallKinds DEF LockBucket
<1>2. PICK b \in Buckets : b = Bucket[call[t].key]
    BY <1>1, CacheAssumption DEF TimedCalls, Buckets
<1>3. PICK c : c = [state |-> "expire", key |-> call[t].key, size |-> call[t].size,
                    now |-> call[t].now, bucket |-> b, todo |-> RecordsIn(b)]
    OBVIOUS
<1>4. c \in ExpireCalls /\ c.state = "expire" /\ c.bucket = b /\ c.todo = RecordsIn(b)
    BY <1>1, <1>3 DEF TimedCalls, ExpireCalls, RecordsIn
<1>5. c \in Calls
    BY <1>4 DEF Calls
<1>6. Become(t, c) /\ Lock(t, b) /\ UNCHANGED <<table, total, clock, hand, evictMutex, reader>>
    BY <1>2, <1>3 DEF LockBucket
<1>7. LockInv' /\ bucketMutex' \in [Mutexes -> Threads \cup {Null}]
    BY <1>1, <1>4, <1>5, <1>6, BucketTaken DEF ClockStates
<1>8. StateInv' /\ ReaderInv' /\ CountersLagByCalls'
    BY <1>1, <1>4, <1>5, <1>6, <1>7, StateKept DEF Inv, StateInv
<1>9. SweepInv'
    BY <1>4, <1>5, <1>6, SweepStays
<1> QED
    BY <1>7, <1>8, <1>9 DEF Inv

LEMMA EndExpire_Inv ==
    ASSUME Inv, NEW t \in Threads, EndExpire(t), UNCHANGED wasRead
    PROVE  Inv'
<1>1. call[t].state = "expire" /\ call[t] \in ExpireCalls
    BY CallIn, CallKinds DEF EndExpire
<1>2. PICK b \in Buckets : b = call[t].bucket
    BY <1>1 DEF ExpireCalls
<1>3. PICK c : c = [state |-> "check", key |-> call[t].key, size |-> call[t].size]
    OBVIOUS
<1>4. c \in PlainCalls /\ c.state = "check"
    BY <1>1, <1>3 DEF ExpireCalls, PlainCalls, PlainStates
<1>5. c \in Calls
    BY <1>4 DEF Calls
<1>6. Become(t, c) /\ Unlock(b) /\ UNCHANGED <<table, total, clock, hand, evictMutex, reader>>
    BY <1>2, <1>3 DEF EndExpire
<1>7. LockInv' /\ bucketMutex' \in [Mutexes -> Threads \cup {Null}]
    BY <1>1, <1>2, <1>4, <1>5, <1>6, BucketGiven DEF ClockStates
<1>8. StateInv' /\ ReaderInv' /\ CountersLagByCalls'
    BY <1>1, <1>4, <1>5, <1>6, <1>7, StateKept DEF Inv, StateInv
<1>9. SweepInv'
    BY <1>4, <1>5, <1>6, SweepStays
<1> QED
    BY <1>7, <1>8, <1>9 DEF Inv

LEMMA LockEvict_Inv ==
    ASSUME Inv, NEW t \in Threads, LockEvict(t), UNCHANGED wasRead
    PROVE  Inv'
<1>1. call[t].state = "lockEvict" /\ call[t] \in PlainCalls
    BY CallIn, CallKinds DEF LockEvict, PlainStates
<1>2. PICK c : c = [call[t] EXCEPT !.state = "recheck"]
    OBVIOUS
<1>3. c \in PlainCalls /\ c.state = "recheck"
    BY <1>1, <1>2 DEF PlainCalls, PlainStates
<1>4. c \in Calls /\ Become(t, c)
    BY <1>2, <1>3 DEF Calls, LockEvict
<1>5. /\ evictMutex = Null /\ evictMutex' = t
      /\ UNCHANGED <<table, total, clock, hand, bucketMutex, reader>>
    BY DEF LockEvict
<1>6. LockInv'
    BY <1>1, <1>3, <1>4, <1>5, EvictMutexMoves DEF ClockStates
<1>7. StateInv' /\ ReaderInv' /\ CountersLagByCalls'
    BY <1>1, <1>3, <1>4, <1>5, StateKept DEF Inv, StateInv
<1>8. SweepInv'
    BY <1>3, <1>4, <1>5, SweepStays
<1> QED
    BY <1>6, <1>7, <1>8 DEF Inv

\* Evict() ends, or finds that there is nothing to free.
LEMMA UnlockEvict_Inv ==
    ASSUME Inv, NEW t \in Threads, UNCHANGED wasRead, call[t].state \in {"recheck", "turn"},
           NEW c \in Calls, Become(t, c), c.state = "create", evictMutex' = Null,
           UNCHANGED <<table, total, clock, hand, bucketMutex, reader>>
    PROVE  Inv'
<1>1. evictMutex = t
    BY DEF Inv, LockInv, EvictOwner, ClockStates
<1>2. LockInv'
    BY <1>1, EvictMutexMoves DEF ClockStates
<1>3. StateInv' /\ ReaderInv' /\ CountersLagByCalls'
    BY StateKept DEF Inv, StateInv
<1>4. SweepInv'
    BY SweepStays
<1> QED
    BY <1>2, <1>3, <1>4 DEF Inv

LEMMA EndEvict_Inv ==
    ASSUME Inv, NEW t \in Threads, EndEvict(t), UNCHANGED wasRead
    PROVE  Inv'
<1>1. call[t].state = "turn" /\ call[t] \in TurnCalls
    BY CallIn, CallKinds DEF EndEvict
<1>2. PICK c : c = [state |-> "create", key |-> call[t].key, size |-> call[t].size]
    OBVIOUS
<1>3. c \in PlainCalls /\ c.state = "create"
    BY <1>1, <1>2 DEF PlainCalls, PlainStates, TurnCalls
<1>4. c \in Calls /\ Become(t, c)
    BY <1>2, <1>3 DEF Calls, EndEvict
<1>5. evictMutex' = Null /\ UNCHANGED <<table, total, clock, hand, bucketMutex, reader>>
    BY DEF EndEvict
<1> QED
    BY <1>1, <1>3, <1>4, <1>5, UnlockEvict_Inv

-------------------------------------------------------------------------------
(* The hand.                                                                 *)

LEMMA DistanceIn ==
    ASSUME StateInv, NEW b \in Buckets
    PROVE  Distance(b) \in 0 .. NumBuckets - 1
    BY CacheAssumption DEF StateInv, Buckets, Distance

LEMMA IterationsIn == NumIterations \in Nat /\ NumIterations = NumBuckets + NumBuckets
    BY CacheAssumption DEF NumIterations

LEMMA BucketIn ==
    ASSUME NEW k \in Keys
    PROVE  Bucket[k] \in Buckets
    BY CacheAssumption DEF Buckets

\* The other threads do not see that t moves on.
LEMMA OthersSweep ==
    ASSUME Inv, NEW t \in Threads, NEW c \in Calls, Become(t, c), UNCHANGED <<table, hand>>,
           NEW u \in Threads, u # t
    PROVE  SweepOf(u)'
<1>1. SweepOf(u) /\ call'[u] = call[u]
    BY Moved DEF Inv, SweepInv
<1> QED
    BY <1>1 DEF SweepOf, Sweeping, Swept, Pending, Visited, Distance

\* Who sweeps has m_evictMutex, so it is alone.
LEMMA SweepsAlone ==
    ASSUME Inv, NEW t \in Threads, Sweeping(t), NEW u \in Threads, u # t
    PROVE  ~Sweeping(u)
    BY DEF Inv, LockInv, EvictOwner, Sweeping, ClockStates

LEMMA Recheck_Inv ==
    ASSUME Inv, NEW t \in Threads, Recheck(t), UNCHANGED wasRead
    PROVE  Inv'
<1>1. call[t].state = "recheck" /\ call[t] \in PlainCalls /\ evictMutex = t
    BY CallIn, CallKinds DEF Recheck, PlainStates, Inv, LockInv, EvictOwner, ClockStates
<1>2. PICK toFree \in Nat : toFree = NumBytesToFree(call[t].size)
    BY <1>1, BytesIn DEF Inv, StateInv, PlainCalls
<1>3. UNCHANGED <<table, total, clock, hand, bucketMutex, reader>>
    BY DEF Recheck
<1>4. CASE toFree = 0
  <2>1. PICK c : c = [call[t] EXCEPT !.state = "create"]
    OBVIOUS
  <2>2. c \in PlainCalls /\ c.state = "create"
    BY <1>1, <2>1 DEF PlainCalls, PlainStates
  <2>3. c \in Calls /\ Become(t, c) /\ evictMutex' = Null
    BY <1>2, <1>4, <2>1, <2>2 DEF Calls, Recheck
  <2> QED
    BY <1>1, <1>3, <2>2, <2>3, UnlockEvict_Inv
<1>5. CASE toFree # 0
  <2>1. PICK c : c = [state |-> "turn", key |-> call[t].key, size |-> call[t].size, now |-> clock,
                      toFree |-> toFree, iterations |-> NumIterations, fresh |-> {}]
    OBVIOUS
  <2>2. c \in TurnCalls /\ c.state = "turn" /\ c.iterations = NumIterations
    BY <1>1, <2>1, IterationsIn DEF TurnCalls, PlainCalls, Inv, StateInv
  <2>3. c \in Calls /\ Become(t, c) /\ UNCHANGED evictMutex
    BY <1>2, <1>5, <2>1, <2>2 DEF Calls, Recheck
  <2>4. StateInv' /\ ReaderInv' /\ CountersLagByCalls'
    BY <1>1, <1>3, <2>2, <2>3, StateKept DEF Inv, StateInv
  <2>5. LockInv'
    BY <1>1, <1>3, <2>2, <2>3, LocksStay DEF ClockStates
  <2>6. call'[t] = c
    BY <2>3, Moved DEF Inv
  <2>7. Swept(t)'
    <3>1. Visited(t)' = 0 /\ Pending(t)' = {}
      BY <2>2, <2>6, IterationsIn DEF Visited, Pending
    <3>2. \A k \in Keys : Distance(Bucket[k])' \in 0 .. NumBuckets - 1
      BY <2>4, DistanceIn, BucketIn, <1>3 DEF Inv, Distance
    <3>3. \A k \in Keys : ~(Distance(Bucket[k])' < 0) /\ Distance(Bucket[k])' >= 0 - NumBuckets
      BY <3>2, CacheAssumption
    <3> QED
      BY <3>1, <3>3 DEF Swept
  <2>8. SweepOf(t)'
    BY <2>2, <2>6, <2>7 DEF SweepOf
  <2>9. SweepInv'
    BY <1>3, <2>3, <2>8, OthersSweep DEF SweepInv
  <2> QED
    BY <2>4, <2>5, <2>9 DEF Inv
<1> QED
    BY <1>4, <1>5

LEMMA Turn_Inv ==
    ASSUME Inv, NEW t \in Threads, Turn(t), UNCHANGED wasRead
    PROVE  Inv'
<1>1. call[t].state = "turn" /\ call[t] \in TurnCalls
    BY CallIn, CallKinds DEF Turn
<1>2. call[t].iterations \in 1 .. NumIterations
    BY <1>1, IterationsIn DEF Turn, IsDone, TurnCalls
<1>3. PICK c : c = [state |-> "visit", key |-> call[t].key, size |-> call[t].size,
                    now |-> call[t].now, toFree |-> call[t].toFree,
                    iterations |-> call[t].iterations - 1, fresh |-> call[t].fresh,
                    bucket |-> hand, todo |-> RecordsIn(hand)]
    OBVIOUS
<1>4. /\ hand \in Buckets /\ Become(t, c) /\ Lock(t, hand) /\ hand' = NextHand
      /\ UNCHANGED <<table, total, clock, evictMutex, reader>>
    BY <1>3 DEF Turn, Inv, StateInv
<1>5. /\ c.state = "visit" /\ c.bucket = hand /\ c.todo = RecordsIn(hand)
      /\ c.iterations = call[t].iterations - 1 /\ c.fresh = call[t].fresh
    BY <1>3
<1>6. c \in VisitCalls
  <2>1. call[t].iterations - 1 \in 0 .. NumIterations
    BY <1>2, IterationsIn
  <2>2. RecordsIn(hand) \in SUBSET Keys
    BY DEF RecordsIn
  <2> QED
    BY <1>1, <1>3, <1>4, <2>1, <2>2 DEF TurnCalls, VisitCalls
<1>7. c \in Calls
    BY <1>6 DEF Calls
<1>8. LockInv' /\ bucketMutex' \in [Mutexes -> Threads \cup {Null}]
    BY <1>1, <1>4, <1>5, <1>7, BucketTaken DEF ClockStates
<1>9. /\ hand' = (IF hand + 1 = NumBuckets THEN 0 ELSE hand + 1) /\ hand' \in Buckets
    BY <1>4, HandIs
<1>10. StateInv' /\ ReaderInv' /\ CountersLagByCalls'
    BY <1>1, <1>4, <1>5, <1>7, <1>8, <1>9, StateKept DEF Inv, StateInv
<1>11. call'[t] = c /\ \A u \in Threads : u # t => call'[u] = call[u]
    BY <1>4, <1>7, Moved DEF Inv
<1>12. SweepOf(t)'
  <2>1. /\ Visited(t)' = Visited(t) + 1 /\ Visited(t) \in 0 .. NumBuckets + NumBuckets - 1
    <3>1. call'[t].iterations = call[t].iterations - 1
      BY <1>5, <1>11
    <3> QED
      BY <1>2, <3>1, IterationsIn, CacheAssumption DEF Visited
  <2> PICK h \in Buckets : h = hand
    BY <1>4
  <2>2. Distance(h)' = 0 /\ \A b \in Buckets : b # h => Distance(b)' = Distance(b) + 1
    <3>1. h \in 0 .. NumBuckets - 1 /\ NumBuckets \in Nat
      BY CacheAssumption DEF Buckets
    <3>2. hand = h /\ hand' = IF h + 1 = NumBuckets THEN 0 ELSE h + 1
      BY <1>9
    <3> QED
      BY ONLY <3>1, <3>2 DEF Distance, Buckets
  <2>3. \A b \in Buckets : Distance(b) \in 0 .. NumBuckets - 1
    BY <1>4, DistanceIn DEF Inv
  <2>4. Distance(h) = NumBuckets - 1
    BY CacheAssumption DEF Distance, Buckets
  <2>5. Swept(t) /\ Pending(t) = {}
    BY <1>1 DEF Inv, SweepInv, SweepOf, Sweeping, Pending
  <2>6. Pending(t)' = RecordsIn(h)
    BY <1>5, <1>11 DEF Pending
  <2>7. ASSUME NEW k \in Keys, table'[k] # Null, k \notin call'[t].fresh
        PROVE  IF k \in Pending(t)'
               THEN Visited(t)' > NumBuckets => ~table'[k].accessed
               ELSE /\ Distance(Bucket[k])' < Visited(t)' => ~table'[k].accessed
                    /\ Distance(Bucket[k])' >= Visited(t)' - NumBuckets
    <3>1. /\ Distance(Bucket[k]) < Visited(t) => ~table[k].accessed
          /\ Distance(Bucket[k]) >= Visited(t) - NumBuckets
      BY <1>4, <1>5, <1>11, <2>5, <2>7 DEF Swept
    <3>2. Bucket[k] \in Buckets
      BY BucketIn
    <3>3. CASE Bucket[k] = h
      <4>1. k \in Pending(t)'
        BY <1>4, <2>6, <2>7, <3>3 DEF RecordsIn
      <4>2. Visited(t)' > NumBuckets => Distance(Bucket[k]) < Visited(t)
        BY <2>1, <2>4, <3>3, CacheAssumption
      <4> QED
        BY <1>4, <3>1, <4>1, <4>2
    <3>4. CASE Bucket[k] # h
      <4>1. k \notin Pending(t)'
        BY <2>6, <3>4 DEF RecordsIn
      <4>2. PICK d \in 0 .. NumBuckets - 1 : d = Distance(Bucket[k]) /\ Distance(Bucket[k])' = d + 1
        BY <2>2, <2>3, <3>2, <3>4
      <4>3. /\ d + 1 < Visited(t)' => d < Visited(t)
            /\ d >= Visited(t) - NumBuckets => d + 1 >= Visited(t)' - NumBuckets
        BY <2>1, CacheAssumption
      <4> QED
        BY <1>4, <3>1, <4>1, <4>2, <4>3
    <3> QED
      BY <3>3, <3>4
  <2>8. Swept(t)'
    BY <2>7 DEF Swept
  <2>9. Distance(call[t].bucket)' = 0
    <3>1. call'[t].bucket = h
      BY <1>5, <1>11
    <3> QED
      BY <2>2, <3>1 DEF Distance
  <2>10. Visited(t)' > 0
    BY <2>1
  <2> QED
    BY <2>8, <2>9, <2>10 DEF SweepOf
<1>13. SweepInv'
  <2>1. ASSUME NEW u \in Threads, u # t PROVE ~Sweeping(u)'
    BY <1>1, <1>11, <2>1, SweepsAlone DEF Sweeping
  <2> QED
    BY <1>12, <2>1 DEF SweepInv, SweepOf
<1> QED
    BY <1>8, <1>10, <1>13 DEF Inv

LEMMA EndVisit_Inv ==
    ASSUME Inv, NEW t \in Threads, EndVisit(t), UNCHANGED wasRead
    PROVE  Inv'
<1>1. call[t].state = "visit" /\ call[t] \in VisitCalls /\ call[t].todo = {}
    BY CallIn, CallKinds DEF EndVisit
<1>2. PICK b \in Buckets : b = call[t].bucket
    BY <1>1 DEF VisitCalls
<1>3. PICK c : c = [state |-> "turn", key |-> call[t].key, size |-> call[t].size,
                    now |-> call[t].now, toFree |-> call[t].toFree,
                    iterations |-> call[t].iterations, fresh |-> call[t].fresh]
    OBVIOUS
<1>4. c \in TurnCalls /\ c.state = "turn" /\ c.iterations = call[t].iterations /\ c.fresh = call[t].fresh
    BY <1>1, <1>3 DEF VisitCalls, TurnCalls
<1>5. c \in Calls
    BY <1>4 DEF Calls
<1>6. Become(t, c) /\ Unlock(b) /\ UNCHANGED <<table, total, clock, hand, evictMutex, reader>>
    BY <1>2, <1>3 DEF EndVisit
<1>7. LockInv' /\ bucketMutex' \in [Mutexes -> Threads \cup {Null}]
    BY <1>1, <1>2, <1>4, <1>5, <1>6, BucketGiven DEF ClockStates
<1>8. StateInv' /\ ReaderInv' /\ CountersLagByCalls'
    BY <1>1, <1>4, <1>5, <1>6, <1>7, StateKept DEF Inv, StateInv
<1>9. call'[t] = c
    BY <1>5, <1>6, Moved DEF Inv
<1>10. SweepOf(t)'
  <2>1. Swept(t) /\ Pending(t) = {}
    BY <1>1 DEF Inv, SweepInv, SweepOf, Sweeping, Pending
  <2>2. Pending(t)' = {} /\ Visited(t)' = Visited(t) /\ \A k \in Keys : Distance(Bucket[k])' = Distance(Bucket[k])
    BY <1>4, <1>6, <1>9 DEF Pending, Visited, Distance
  <2>3. Swept(t)'
    BY <1>4, <1>6, <1>9, <2>1, <2>2 DEF Swept
  <2> QED
    BY <1>4, <1>9, <2>3 DEF SweepOf
<1>11. SweepInv'
    BY <1>5, <1>6, <1>10, OthersSweep DEF SweepInv
<1> QED
    BY <1>7, <1>8, <1>11 DEF Inv

-------------------------------------------------------------------------------
(* Records go, come and are read.                                            *)

\* The table, the readers and the counters when a record is removed; the calls
\* have reported what they had.
LEMMA Removed ==
    ASSUME Inv, NEW k \in Keys, table[k] # Null, RemoveRecord(k),
           \A u \in Threads : Unreported(u)' = Unreported(u)
    PROVE  /\ table' \in [Keys -> Records \cup {Null}] /\ table'[k] = Null
           /\ \A q \in Keys : q # k => table'[q] = table[q]
           /\ total' \in Int /\ reader' \in [Readers -> Keys \cup {Null}]
           /\ ReaderInv' /\ CountersLagByCalls'
<1>1. StateInv /\ ReaderInv /\ CountersLagByCalls
    BY DEF Inv
<1>2. /\ table' \in [Keys -> Records \cup {Null}] /\ table'[k] = Null
      /\ \A q \in Keys : q # k => table'[q] = table[q]
    BY <1>1 DEF StateInv, RemoveRecord
<1>3. /\ reader' \in [Readers -> Keys \cup {Null}]
      /\ \A r \in Readers : reader'[r] = IF reader[r] = k THEN Null ELSE reader[r]
    BY <1>1 DEF StateInv, RemoveRecord, Forget
<1>4. ReaderInv'
  <2>1. \A r \in Readers : reader'[r] # Null => reader'[r] \in Keys /\ reader'[r] = reader[r] /\ reader[r] # k
    BY <1>3
  <2> QED
    BY <1>1, <1>2, <2>1 DEF ReaderInv
<1>5. total' = total - SizeOf(k) /\ total' \in Int /\ SizeOf(k) \in Int
  <2>1. table[k].size \in Nat /\ RecordOverhead \in Nat /\ total \in Int
    BY <1>1, LiveRecord, CacheAssumption DEF StateInv
  <2> QED
    BY <2>1 DEF RemoveRecord, AfterRemove, SizeOf
<1>6. SizeOf(k)' = 0 /\ \A q \in Keys : q # k => SizeOf(q)' = SizeOf(q)
    BY <1>2 DEF SizeOf
<1>7. Sum(SizeMap', Keys) = Sum(SizeMap, Keys) - SizeOf(k) + 0
    BY <1>1, <1>6, SizeChanges
<1>8. Sum(UnreportedMap', Threads) = Sum(UnreportedMap, Threads)
    BY UnreportedKept
<1>9. Sum(SizeMap, Keys) \in Int /\ Sum(UnreportedMap, Threads) \in Int /\ total \in Int /\ IndexSize \in Int
    BY <1>1, SumSizes, CacheAssumption DEF StateInv
<1>10. CountersLagByCalls'
    BY <1>1, <1>5, <1>7, <1>8, <1>9, SumsAre
<1> QED
    BY <1>2, <1>3, <1>4, <1>5, <1>10

\* Who has a record left to visit has the mutex of its bucket.
LEMMA TodoLocked ==
    ASSUME Inv, NEW u \in Threads, InBucket(u), NEW k \in call[u].todo, k \in Keys
    PROVE  bucketMutex[MutexOf(Bucket[k])] = u
<1>1. BucketOwner(u) /\ TodoThere(u)
    BY DEF Inv, LockInv
<1> QED
    BY <1>1, BucketIn, MutexIn DEF BucketOwner, TodoThere

LEMMA TodoIn ==
    ASSUME Inv, NEW u \in Threads, InBucket(u)
    PROVE  call[u].todo \subseteq Keys /\ call[u].bucket \in Buckets
    BY CallIn, CallKinds DEF InBucket, ExpireCalls, VisitCalls

\* The thread that has locked a bucket has dealt with a record of it.
LEMMA LocksHeld ==
    ASSUME Inv, NEW t \in Threads, NEW c \in Calls, Become(t, c), UNCHANGED <<evictMutex, bucketMutex>>,
           InBucket(t), NEW k \in call[t].todo, k \in Keys,
           c.state = call[t].state, c.bucket = call[t].bucket, c.todo = call[t].todo \ {k},
           \A q \in Keys : q # k => (table'[q] # Null <=> table[q] # Null)
    PROVE  LockInv'
<1>1. call'[t] = c /\ \A u \in Threads : u # t => call'[u] = call[u]
    BY Moved DEF Inv
<1>2. \A u \in Threads : EvictOwner(u) /\ BucketOwner(u) /\ TodoThere(u)
    BY DEF Inv, LockInv
<1>3. \A u \in Threads : EvictOwner(u)'
    BY <1>1, <1>2 DEF EvictOwner
<1>4. \A u \in Threads : BucketOwner(u)'
    BY <1>1, <1>2 DEF BucketOwner, InBucket
<1>5. TodoThere(t)'
  <2>1. call[t].todo \subseteq Keys
    BY TodoIn
  <2> QED
    BY <1>1, <1>2, <2>1 DEF TodoThere, InBucket
<1>6. ASSUME NEW u \in Threads, u # t PROVE TodoThere(u)'
  <2>1. InBucket(u) => call[u].todo \subseteq Keys /\ k \notin call[u].todo
    BY <1>6, TodoIn, TodoLocked
  <2> QED
    BY <1>1, <1>2, <1>6, <2>1 DEF TodoThere, InBucket
<1> QED
    BY <1>3, <1>4, <1>5, <1>6 DEF LockInv

\* A thread that sweeps notices nothing but records that are gone, and those
\* that are fresh.
LEMMA SweptKept ==
    ASSUME NEW u \in Threads, SweepOf(u), hand' = hand,
           call'[u].state = call[u].state,
           Sweeping(u) => call'[u].iterations = call[u].iterations /\ call[u].fresh \subseteq call'[u].fresh,
           call[u].state = "visit" => call'[u].bucket = call[u].bucket /\ call'[u].todo = call[u].todo,
           Sweeping(u) => \A k \in Keys : table'[k] # Null /\ k \notin call'[u].fresh =>
                              table[k] # Null /\ table'[k].accessed = table[k].accessed
    PROVE  SweepOf(u)'
<1>1. SUFFICES ASSUME Sweeping(u) PROVE SweepOf(u)'
    BY DEF SweepOf, Sweeping
<1>2. Pending(u)' = Pending(u) /\ Visited(u)' = Visited(u)
    BY <1>1 DEF Pending, Visited
<1>3. \A b \in Buckets : Distance(b)' = Distance(b)
    BY DEF Distance
<1>4. Swept(u)'
  <2>1. ASSUME NEW k \in Keys, table'[k] # Null, k \notin call'[u].fresh
        PROVE  IF k \in Pending(u)'
               THEN Visited(u)' > NumBuckets => ~table'[k].accessed
               ELSE /\ Distance(Bucket[k])' < Visited(u)' => ~table'[k].accessed
                    /\ Distance(Bucket[k])' >= Visited(u)' - NumBuckets
    <3>1. table[k] # Null /\ table'[k].accessed = table[k].accessed /\ k \notin call[u].fresh
      BY <1>1, <2>1
    <3>2. IF k \in Pending(u)
          THEN Visited(u) > NumBuckets => ~table[k].accessed
          ELSE /\ Distance(Bucket[k]) < Visited(u) => ~table[k].accessed
               /\ Distance(Bucket[k]) >= Visited(u) - NumBuckets
      BY <1>1, <3>1 DEF SweepOf, Swept
    <3>3. Distance(Bucket[k])' = Distance(Bucket[k])
      BY <1>3, BucketIn
    <3> QED
      BY <1>2, <3>1, <3>2, <3>3
  <2> QED
    BY <2>1 DEF Swept
<1>5. call[u].state = "visit" => Distance(call[u].bucket)' = 0 /\ Visited(u)' > 0
  <2>1. call[u].state = "visit" => Distance(call[u].bucket) = 0 /\ Visited(u) > 0
    BY <1>1 DEF SweepOf
  <2> QED
    BY <1>2, <2>1 DEF Distance
<1> QED
    BY <1>4, <1>5 DEF SweepOf

LEMMA Remove_Inv ==
    ASSUME Inv, NEW t \in Threads, NEW k \in Keys, Remove(t, k), UNCHANGED wasRead
    PROVE  Inv'
<1>1. /\ table[k] # Null /\ bucketMutex[MutexOf(Bucket[k])] = Null /\ RemoveRecord(k)
      /\ UNCHANGED <<clock, hand, evictMutex, bucketMutex, call>>
    BY DEF Remove, lockVars
<1>2. /\ table' \in [Keys -> Records \cup {Null}] /\ table'[k] = Null
      /\ \A q \in Keys : q # k => table'[q] = table[q]
      /\ total' \in Int /\ reader' \in [Readers -> Keys \cup {Null}]
      /\ ReaderInv' /\ CountersLagByCalls'
    BY <1>1, Removed DEF Unreported
<1>3. StateInv'
    BY <1>1, <1>2 DEF Inv, StateInv
<1>4. LockInv'
  <2>1. ASSUME NEW u \in Threads PROVE EvictOwner(u)' /\ BucketOwner(u)' /\ TodoThere(u)'
    <3>1. EvictOwner(u) /\ BucketOwner(u) /\ TodoThere(u)
      BY DEF Inv, LockInv
    <3>2. InBucket(u) => call[u].todo \subseteq Keys /\ k \notin call[u].todo
      BY <1>1, TodoIn, TodoLocked, NullAssumption
    <3> QED
      BY <1>1, <1>2, <3>1, <3>2 DEF EvictOwner, BucketOwner, TodoThere, InBucket
  <2> QED
    BY <2>1 DEF LockInv
<1>5. SweepInv'
  <2>1. \A q \in Keys : table'[q] # Null => table'[q] = table[q]
    BY <1>2
  <2>2. ASSUME NEW u \in Threads PROVE SweepOf(u)'
    BY <1>1, <2>1, SweptKept DEF Inv, SweepInv
  <2> QED
    BY <2>2 DEF SweepInv
<1> QED
    BY <1>2, <1>3, <1>4, <1>5 DEF Inv

LEMMA Expire_Inv ==
    ASSUME Inv, NEW t \in Threads, NEW k \in Keys, Expire(t, k), UNCHANGED wasRead
    PROVE  Inv'
<1>1. /\ call[t].state = "expire" /\ call[t] \in ExpireCalls /\ k \in call[t].todo /\ InBucket(t)
      /\ UNCHANGED <<clock, hand, evictMutex, bucketMutex>>
    BY CallIn, CallKinds DEF Expire, InBucket, lockVars
<1>2. table[k] # Null
    BY <1>1 DEF Inv, LockInv, TodoThere
<1>3. PICK c : c = [call[t] EXCEPT !.todo = @ \ {k}]
    OBVIOUS
<1>4. c \in ExpireCalls /\ c.state = "expire" /\ c.bucket = call[t].bucket /\ c.todo = call[t].todo \ {k}
    BY <1>1, <1>3 DEF ExpireCalls
<1>5. c \in Calls /\ Become(t, c)
    BY <1>3, <1>4 DEF Calls, Expire
<1>6. /\ call' \in [Threads -> Calls] /\ call'[t] = c
      /\ \A u \in Threads : u # t => call'[u] = call[u]
    BY <1>5, Moved DEF Inv
<1>7. \A u \in Threads : Unreported(u)' = Unreported(u)
    BY <1>1, <1>4, <1>6 DEF Unreported
<1>8. /\ table' \in [Keys -> Records \cup {Null}]
      /\ \A q \in Keys : q # k => table'[q] = table[q]
      /\ table'[k] = Null \/ table'[k] = table[k]
      /\ total' \in Int /\ reader' \in [Readers -> Keys \cup {Null}]
      /\ ReaderInv' /\ CountersLagByCalls'
  <2>1. CASE IsExpired(table[k], call[t].now)
    BY <1>2, <1>7, <2>1, Removed DEF Expire
  <2>2. CASE ~IsExpired(table[k], call[t].now)
    <3>1. UNCHANGED <<table, total, reader>>
      BY <2>2 DEF Expire
    <3>2. \A q \in Keys : SizeOf(q)' = SizeOf(q)
      BY <3>1 DEF SizeOf
    <3>3. CountersLagByCalls'
      BY <1>7, <3>1, <3>2, LagKept DEF Inv
    <3> QED
      BY <3>1, <3>3 DEF Inv, StateInv, ReaderInv
  <2> QED
    BY <2>1, <2>2
<1>9. StateInv'
    BY <1>1, <1>6, <1>8 DEF Inv, StateInv
<1>10. LockInv'
    BY <1>1, <1>4, <1>5, <1>8, LocksHeld
<1>11. SweepInv'
  <2>1. \A q \in Keys : table'[q] # Null => table'[q] = table[q]
    BY <1>8
  <2>2. ASSUME NEW u \in Threads, u # t PROVE SweepOf(u)'
    BY <1>1, <1>6, <2>1, <2>2, SweptKept DEF Inv, SweepInv
  <2>3. SweepOf(t)'
    BY <1>4, <1>6 DEF SweepOf, Sweeping
  <2> QED
    BY <2>2, <2>3 DEF SweepInv
<1> QED
    BY <1>8, <1>9, <1>10, <1>11 DEF Inv

\* The record has lost its access bit, or is gone.
LEMMA VisitedOne ==
    ASSUME Inv, NEW t \in Threads, NEW k \in Keys, call[t] \in VisitCalls, k \in call[t].todo,
           NEW c \in VisitCalls, Become(t, c), hand' = hand,
           c.iterations = call[t].iterations, c.bucket = call[t].bucket,
           c.todo = call[t].todo \ {k},
           \A q \in Keys : q # k => (q \in c.fresh <=> q \in call[t].fresh),
           \A q \in Keys : q # k => table'[q] = table[q],
           \/ table'[k] = Null
           \/ /\ table[k].accessed /\ table'[k] # Null /\ ~table'[k].accessed
              /\ c.fresh = call[t].fresh
    PROVE  SweepOf(t)'
<1>1. c \in Calls /\ c.state = "visit" /\ call[t].state = "visit"
    BY DEF Calls, VisitCalls
<1>2. call'[t] = c
    BY <1>1, Moved DEF Inv
<1>3. Swept(t) /\ Distance(call[t].bucket) = 0 /\ Visited(t) > 0
    BY <1>1 DEF Inv, SweepInv, SweepOf, Sweeping
<1>4. Bucket[k] = call[t].bucket /\ table[k] # Null
    BY <1>1 DEF Inv, LockInv, TodoThere, InBucket
<1>5. Pending(t) = call[t].todo /\ Pending(t)' = call[t].todo \ {k} /\ Visited(t)' = Visited(t)
    BY <1>1, <1>2 DEF Pending, Visited
<1>6. \A b \in Buckets : Distance(b)' = Distance(b)
    BY DEF Distance
<1>7. Visited(t) \in Int /\ NumBuckets \in Nat
    BY IterationsIn, CacheAssumption DEF Visited, VisitCalls
<1>8. ASSUME NEW q \in Keys, table'[q] # Null, q \notin call'[t].fresh
      PROVE  IF q \in Pending(t)'
             THEN Visited(t)' > NumBuckets => ~table'[q].accessed
             ELSE /\ Distance(Bucket[q])' < Visited(t)' => ~table'[q].accessed
                  /\ Distance(Bucket[q])' >= Visited(t)' - NumBuckets
  <2>1. Distance(Bucket[q])' = Distance(Bucket[q])
    BY <1>6, BucketIn
  <2>2. CASE q = k
    <3>1. table[k].accessed /\ ~table'[k].accessed /\ k \notin call[t].fresh
      BY <1>2, <1>8, <2>2
    <3>2. ~(Visited(t) > NumBuckets)
      BY <1>3, <1>4, <1>5, <3>1 DEF Swept
    <3>3. 0 >= Visited(t) - NumBuckets
      BY <1>7, <3>2
    <3> QED
      BY <1>3, <1>4, <1>5, <2>1, <2>2, <3>1, <3>3
  <2>3. CASE q # k
    <3>1. table[q] # Null /\ q \notin call[t].fresh /\ table'[q] = table[q]
      BY <1>2, <1>8, <2>3
    <3>2. IF q \in Pending(t)
          THEN Visited(t) > NumBuckets => ~table[q].accessed
          ELSE /\ Distance(Bucket[q]) < Visited(t) => ~table[q].accessed
               /\ Distance(Bucket[q]) >= Visited(t) - NumBuckets
      BY <1>3, <3>1 DEF Swept
    <3>3. q \in Pending(t)' <=> q \in Pending(t)
      BY <1>5, <2>3
    <3> QED
      BY <1>5, <2>1, <3>1, <3>2, <3>3
  <2> QED
    BY <2>2, <2>3
<1>9. Swept(t)'
    BY <1>8 DEF Swept
<1>10. Distance(call[t].bucket)' = 0
    BY <1>2, <1>3 DEF Distance
<1> QED
    BY <1>3, <1>5, <1>9, <1>10 DEF SweepOf

LEMMA Visit_Inv ==
    ASSUME Inv, NEW t \in Threads, NEW k \in Keys, Visit(t, k), UNCHANGED wasRead
    PROVE  Inv'
<1>1. /\ call[t].state = "visit" /\ call[t] \in VisitCalls /\ k \in call[t].todo /\ InBucket(t)
      /\ UNCHANGED <<clock, hand, evictMutex, bucketMutex>>
    BY CallIn, CallKinds DEF Visit, InBucket, lockVars
<1>2. table[k] # Null
    BY <1>1 DEF Inv, LockInv, TodoThere
<1>3. table[k] \in Records /\ table[k].size \in Nat /\ table[k].accessed \in BOOLEAN
    BY <1>2, LiveRecord DEF Inv
<1>4. \E c \in VisitCalls :
          /\ Become(t, c) /\ c.iterations = call[t].iterations /\ c.bucket = call[t].bucket
          /\ c.todo = call[t].todo \ {k}
          /\ \A q \in Keys : q # k => (q \in c.fresh <=> q \in call[t].fresh)
          /\ \/ RemoveRecord(k)
             \/ /\ c.fresh = call[t].fresh /\ table[k].accessed
                /\ table' = [table EXCEPT ![k].accessed = FALSE] /\ UNCHANGED <<total, reader>>
  <2>1. CASE IsExpired(table[k], call[t].now) \/ ~table[k].accessed
    <3>1. PICK n : n = IF table[k].size >= call[t].toFree THEN 0 ELSE call[t].toFree - table[k].size
      OBVIOUS
    <3>2. n \in Nat
      BY <1>1, <1>3, <3>1 DEF VisitCalls
    <3>3. PICK c : c = [call[t] EXCEPT !.todo = call[t].todo \ {k}, !.fresh = call[t].fresh \ {k},
                                       !.toFree = n]
      OBVIOUS
    <3>4. /\ c \in VisitCalls /\ c.iterations = call[t].iterations /\ c.bucket = call[t].bucket
          /\ c.todo = call[t].todo \ {k} /\ c.fresh = call[t].fresh \ {k}
      BY <1>1, <3>2, <3>3 DEF VisitCalls
    <3>5. Become(t, c) /\ RemoveRecord(k)
      BY <1>1, <2>1, <3>1, <3>3 DEF Visit, VisitCalls
    <3> QED
      BY <3>4, <3>5
  <2>2. CASE ~(IsExpired(table[k], call[t].now) \/ ~table[k].accessed)
    <3>1. PICK c : c = [call[t] EXCEPT !.todo = @ \ {k}]
      OBVIOUS
    <3>2. /\ c \in VisitCalls /\ c.iterations = call[t].iterations /\ c.bucket = call[t].bucket
          /\ c.todo = call[t].todo \ {k} /\ c.fresh = call[t].fresh
      BY <1>1, <3>1 DEF VisitCalls
    <3>3. Become(t, c) /\ table' = [table EXCEPT ![k].accessed = FALSE] /\ UNCHANGED <<total, reader>>
      BY <2>2, <3>1 DEF Visit
    <3> QED
      BY <2>2, <3>2, <3>3
  <2> QED
    BY <2>1, <2>2
<1>5. PICK c \in VisitCalls :
          /\ Become(t, c) /\ c.iterations = call[t].iterations /\ c.bucket = call[t].bucket
          /\ c.todo = call[t].todo \ {k}
          /\ \A q \in Keys : q # k => (q \in c.fresh <=> q \in call[t].fresh)
          /\ \/ RemoveRecord(k)
             \/ /\ c.fresh = call[t].fresh /\ table[k].accessed
                /\ table' = [table EXCEPT ![k].accessed = FALSE] /\ UNCHANGED <<total, reader>>
    BY <1>4
<1>6. c \in Calls /\ c.state = "visit"
    BY DEF Calls, VisitCalls
<1>7. /\ call' \in [Threads -> Calls] /\ call'[t] = c
      /\ \A u \in Threads : u # t => call'[u] = call[u]
    BY <1>5, <1>6, Moved DEF Inv
<1>8. \A u \in Threads : Unreported(u)' = Unreported(u)
    BY <1>1, <1>6, <1>7 DEF Unreported
<1>9. /\ table' \in [Keys -> Records \cup {Null}]
      /\ \A q \in Keys : q # k => table'[q] = table[q]
      /\ \/ table'[k] = Null
         \/ table[k].accessed /\ table'[k] # Null /\ ~table'[k].accessed /\ c.fresh = call[t].fresh
      /\ total' \in Int /\ reader' \in [Readers -> Keys \cup {Null}]
      /\ ReaderInv' /\ CountersLagByCalls'
  <2>1. CASE RemoveRecord(k)
    BY <1>2, <1>8, <2>1, Removed
  <2>2. CASE ~RemoveRecord(k)
    <3>1. PICK record : record = [table[k] EXCEPT !.accessed = FALSE]
      OBVIOUS
    <3>2. record \in Records /\ record.accessed = FALSE /\ record.size = table[k].size /\ record # Null
      BY <1>3, <3>1, NullAssumption DEF Records
    <3>3. table' = [table EXCEPT ![k] = record] /\ table \in [Keys -> Records \cup {Null}]
      BY <1>5, <2>2, <3>1 DEF Inv, StateInv
    <3>4. /\ table' \in [Keys -> Records \cup {Null}] /\ table'[k] = record
          /\ \A q \in Keys : q # k => table'[q] = table[q]
      BY <3>2, <3>3
    <3>5. UNCHANGED <<total, reader>>
      BY <1>5, <2>2
    <3>6. \A q \in Keys : SizeOf(q)' = SizeOf(q)
      BY <1>2, <3>2, <3>4 DEF SizeOf
    <3>7. CountersLagByCalls'
      BY <1>8, <3>5, <3>6, LagKept DEF Inv
    <3>8. ReaderInv'
      BY <3>2, <3>4, <3>5 DEF Inv, StateInv, ReaderInv
    <3> QED
      BY <1>5, <2>2, <3>2, <3>4, <3>5, <3>7, <3>8 DEF Inv, StateInv
  <2> QED
    BY <2>1, <2>2
<1>10. StateInv'
    BY <1>1, <1>7, <1>9 DEF Inv, StateInv
<1>11. LockInv'
    BY <1>1, <1>5, <1>6, <1>9, LocksHeld
<1>12. SweepInv'
  <2>1. SweepOf(t)'
    BY <1>1, <1>5, <1>9, VisitedOne
  <2>2. ASSUME NEW u \in Threads, u # t PROVE ~Sweeping(u)'
    BY <1>1, <1>7, <2>2, SweepsAlone DEF Sweeping
  <2> QED
    BY <2>1, <2>2 DEF SweepInv, SweepOf
<1> QED
    BY <1>9, <1>10, <1>11, <1>12 DEF Inv

\* A call that sweeps notes the record as fresh; the others see nothing.
IsRefreshed(d, c, k) ==
    /\ d.state = c.state
    /\ c.state \notin {"turn", "visit"} => d = c
    /\ c.state \in {"turn", "visit"} => d.iterations = c.iterations /\ d.fresh = c.fresh \cup {k}
    /\ c.state = "visit" => d.bucket = c.bucket /\ d.todo = c.todo

LEMMA RefreshedIs ==
    ASSUME StateInv, NEW k \in Keys
    PROVE  /\ Refreshed(k) \in [Threads -> Calls]
           /\ \A u \in Threads : IsRefreshed(Refreshed(k)[u], call[u], k)
<1>1. ASSUME NEW u \in Threads PROVE Refreshed(k)[u] \in Calls /\ IsRefreshed(Refreshed(k)[u], call[u], k)
  <2>1. call[u] \in Calls
    BY DEF StateInv
  <2>2. CASE call[u].state = "turn"
    <3>1. call[u] \in TurnCalls
      BY <2>1, <2>2, CallKinds
    <3>2. PICK d : d = [call[u] EXCEPT !.fresh = @ \cup {k}]
      OBVIOUS
    <3>3. d \in TurnCalls /\ IsRefreshed(d, call[u], k)
      BY <2>2, <3>1, <3>2 DEF TurnCalls, IsRefreshed
    <3> QED
      BY <2>2, <3>2, <3>3 DEF Refreshed, Calls
  <2>3. CASE call[u].state = "visit"
    <3>1. call[u] \in VisitCalls
      BY <2>1, <2>3, CallKinds
    <3>2. PICK d : d = [call[u] EXCEPT !.fresh = @ \cup {k}]
      OBVIOUS
    <3>3. d \in VisitCalls /\ IsRefreshed(d, call[u], k)
      BY <2>3, <3>1, <3>2 DEF VisitCalls, IsRefreshed
    <3> QED
      BY <2>3, <3>2, <3>3 DEF Refreshed, Calls
  <2>4. CASE call[u].state \notin {"turn", "visit"}
    BY <2>1, <2>4 DEF Refreshed, IsRefreshed
  <2> QED
    BY <2>2, <2>3, <2>4
<1> QED
  <2>1. Refreshed(k) = [u \in Threads |-> Refreshed(k)[u]]
    BY DEF Refreshed
  <2> QED
    BY <1>1, <2>1

LEMMA RefreshedSweep ==
    ASSUME Inv, NEW k \in Keys, NEW u \in Threads, IsRefreshed(call'[u], call[u], k), hand' = hand,
           \A q \in Keys : q # k => table'[q] = table[q]
    PROVE  SweepOf(u)'
<1>1. SweepOf(u)
    BY DEF Inv, SweepInv
<1>2. Sweeping(u) => call'[u].iterations = call[u].iterations /\ call[u].fresh \subseteq call'[u].fresh
    BY DEF Sweeping, IsRefreshed
<1>3. Sweeping(u) => \A q \in Keys : table'[q] # Null /\ q \notin call'[u].fresh =>
                         table[q] # Null /\ table'[q].accessed = table[q].accessed
    BY DEF Sweeping, IsRefreshed
<1>4. /\ call'[u].state = call[u].state
      /\ call[u].state = "visit" => call'[u].bucket = call[u].bucket /\ call'[u].todo = call[u].todo
    BY DEF IsRefreshed
<1> QED
    BY <1>1, <1>2, <1>3, <1>4, SweptKept

LEMMA RefreshedLocks ==
    ASSUME Inv, NEW k \in Keys, NEW u \in Threads, IsRefreshed(call'[u], call[u], k),
           UNCHANGED <<evictMutex, bucketMutex>>,
           \A q \in Keys : table[q] # Null => table'[q] # Null
    PROVE  EvictOwner(u)' /\ BucketOwner(u)' /\ TodoThere(u)'
<1>1. EvictOwner(u) /\ BucketOwner(u) /\ TodoThere(u)
    BY DEF Inv, LockInv
<1>2. /\ call'[u].state = call[u].state
      /\ InBucket(u) => call'[u].bucket = call[u].bucket /\ call'[u].todo = call[u].todo
                        /\ call[u].todo \subseteq Keys
    BY TodoIn DEF IsRefreshed, InBucket
<1> QED
    BY <1>1, <1>2 DEF EvictOwner, BucketOwner, TodoThere, InBucket

LEMMA Link_Inv ==
    ASSUME Inv, NEW t \in Threads, Link(t), UNCHANGED wasRead
    PROVE  Inv'
<1>1. call[t].state = "link" /\ call[t] \in LinkCalls
    BY CallIn, CallKinds DEF Link
<1>2. PICK k \in Keys : k = call[t].key
    BY <1>1 DEF LinkCalls
<1>3. PICK record \in Records : record = call[t].record
    BY <1>1 DEF LinkCalls
<1>4. PICK delta : delta = IF table[k] = Null THEN record.size + RecordOverhead
                           ELSE record.size - table[k].size
    OBVIOUS
<1>5. PICK c : c = [state |-> "count", delta |-> delta]
    OBVIOUS
<1>6. /\ table' = [table EXCEPT ![k] = record] /\ Forget(k)
      /\ call' = [Refreshed(k) EXCEPT ![t] = c]
      /\ UNCHANGED <<total, clock, hand, evictMutex, bucketMutex>>
    BY <1>2, <1>3, <1>4, <1>5 DEF Link, lockVars
<1>7. record # Null /\ record.size \in Nat /\ RecordOverhead \in Nat
    BY NullAssumption, CacheAssumption DEF Records
<1>8. /\ table' \in [Keys -> Records \cup {Null}] /\ table'[k] = record
      /\ \A q \in Keys : q # k => table'[q] = table[q]
    BY <1>6 DEF Inv, StateInv
<1>9. delta \in Int /\ SizeOf(k) \in Int /\ SizeOf(k)' = record.size + RecordOverhead
      /\ delta = SizeOf(k)' - SizeOf(k)
  <2>1. table[k] # Null => table[k].size \in Nat
    BY LiveRecord DEF Inv
  <2> QED
    BY <1>4, <1>7, <1>8, <2>1 DEF SizeOf
<1>10. c \in Calls /\ c.state = "count" /\ c.delta = delta
    BY <1>5, <1>9 DEF Calls, CountCalls
<1>11. /\ call' \in [Threads -> Calls] /\ call'[t] = c
       /\ \A u \in Threads : u # t => IsRefreshed(call'[u], call[u], k)
  <2>1. Refreshed(k) \in [Threads -> Calls] /\ \A u \in Threads : IsRefreshed(Refreshed(k)[u], call[u], k)
    BY RefreshedIs DEF Inv
  <2> QED
    BY <1>6, <1>10, <2>1
<1>12. /\ reader' \in [Readers -> Keys \cup {Null}]
       /\ \A r \in Readers : reader'[r] = IF reader[r] = k THEN Null ELSE reader[r]
    BY <1>6 DEF Inv, StateInv, Forget
<1>13. StateInv'
    BY <1>6, <1>8, <1>11, <1>12 DEF Inv, StateInv
<1>14. ReaderInv'
  <2>1. \A r \in Readers : reader'[r] # Null => reader'[r] \in Keys /\ reader'[r] = reader[r] /\ reader[r] # k
    BY <1>12
  <2> QED
    BY <1>8, <2>1 DEF Inv, ReaderInv
<1>15. LockInv'
  <2>1. EvictOwner(t)' /\ BucketOwner(t)' /\ TodoThere(t)'
    <3>1. EvictOwner(t) /\ BucketOwner(t)
      BY DEF Inv, LockInv
    <3> QED
      BY <1>1, <1>6, <1>10, <1>11, <3>1 DEF EvictOwner, BucketOwner, TodoThere, InBucket, ClockStates
  <2>2. \A q \in Keys : table[q] # Null => table'[q] # Null
    BY <1>7, <1>8
  <2> QED
    BY <1>6, <1>11, <2>1, <2>2, RefreshedLocks DEF LockInv
<1>16. SweepInv'
  <2>1. SweepOf(t)'
    BY <1>10, <1>11 DEF SweepOf, Sweeping
  <2> QED
    BY <1>6, <1>8, <1>11, <2>1, RefreshedSweep DEF SweepInv
<1>17. CountersLagByCalls'
  <2>1. Unreported(t) = 0 /\ Unreported(t)' = delta
    BY <1>1, <1>10, <1>11 DEF Unreported
  <2>2. ASSUME NEW u \in Threads, u # t PROVE Unreported(u)' = Unreported(u)
    BY <1>11, <2>2 DEF IsRefreshed, Unreported
  <2>3. Sum(UnreportedMap', Threads) = Sum(UnreportedMap, Threads) - 0 + delta
    BY <1>9, <2>1, <2>2, UnreportedChanges DEF Inv
  <2>4. \A q \in Keys : q # k => SizeOf(q)' = SizeOf(q)
    BY <1>8 DEF SizeOf
  <2>5. SizeOf(k)' \in Int
    BY <1>7, <1>9
  <2>6. Sum(SizeMap', Keys) = Sum(SizeMap, Keys) - SizeOf(k) + SizeOf(k)'
    BY <2>4, <2>5, SizeChanges DEF Inv
  <2>7. Sum(SizeMap, Keys) \in Int /\ Sum(UnreportedMap, Threads) \in Int /\ total \in Int /\ IndexSize \in Int
    BY SumSizes, CacheAssumption DEF Inv, StateInv
  <2>8. total + Sum(UnreportedMap, Threads) = IndexSize + Sum(SizeMap, Keys) /\ total' = total
    BY <1>6, SumsAre DEF Inv
  <2> QED
    BY <1>9, <2>3, <2>5, <2>6, <2>7, <2>8, SumsAre
<1> QED
    BY <1>13, <1>14, <1>15, <1>16, <1>17 DEF Inv

LEMMA Count_Inv ==
    ASSUME Inv, NEW t \in Threads, Count(t), UNCHANGED wasRead
    PROVE  Inv'
<1>1. call[t].state = "count" /\ call[t] \in CountCalls /\ call[t].delta \in Int
    BY CallIn, CallKinds DEF Count, CountCalls
<1>2. /\ total' = total + call[t].delta /\ Become(t, Idle) /\ Idle \in Calls /\ Idle.state = "idle"
      /\ UNCHANGED <<table, clock, hand, evictMutex, bucketMutex, reader>>
    BY DEF Count, Calls, Idle, lockVars
<1>3. /\ call' \in [Threads -> Calls] /\ call'[t] = Idle
      /\ \A u \in Threads : u # t => call'[u] = call[u]
    BY <1>2, Moved DEF Inv
<1>4. StateInv'
    BY <1>1, <1>2, <1>3 DEF Inv, StateInv
<1>5. LockInv'
    BY <1>1, <1>2, LocksStay DEF ClockStates
<1>6. SweepInv'
    BY <1>2, SweepStays
<1>7. ReaderInv'
    BY <1>2 DEF Inv, ReaderInv
<1>8. CountersLagByCalls'
  <2>1. Unreported(t) = call[t].delta /\ Unreported(t)' = 0
    BY <1>1, <1>2, <1>3 DEF Unreported
  <2>2. \A u \in Threads : u # t => Unreported(u)' = Unreported(u)
    BY <1>3 DEF Unreported
  <2>3. Sum(UnreportedMap', Threads) = Sum(UnreportedMap, Threads) - call[t].delta + 0
    BY <2>1, <2>2, UnreportedChanges DEF Inv
  <2>4. Sum(SizeMap', Keys) = Sum(SizeMap, Keys)
    BY <1>2, SizesKept DEF SizeOf
  <2>5. Sum(SizeMap, Keys) \in Int /\ Sum(UnreportedMap, Threads) \in Int /\ total \in Int
    BY SumSizes DEF Inv, StateInv
  <2>6. total + Sum(UnreportedMap, Threads) = IndexSize + Sum(SizeMap, Keys)
    BY SumsAre DEF Inv
  <2> QED
    BY <1>1, <1>2, <2>3, <2>4, <2>5, <2>6, SumsAre
<1> QED
    BY <1>4, <1>5, <1>6, <1>7, <1>8 DEF Inv

\* A step that leaves the calls and the sizes alone.
LEMMA CallsStay ==
    ASSUME Inv, UNCHANGED <<table, total, hand, evictMutex, bucketMutex, call>>
    PROVE  LockInv' /\ SweepInv' /\ CountersLagByCalls'
<1>1. LockInv'
    BY DEF Inv, LockInv, EvictOwner, BucketOwner, TodoThere, InBucket
<1>2. SweepInv'
    BY DEF Inv, SweepInv, SweepOf, Sweeping, Swept, Pending, Visited, Distance
<1>3. (\A k \in Keys : SizeOf(k)' = SizeOf(k)) /\ \A t \in Threads : Unreported(t)' = Unreported(t)
    BY DEF SizeOf, Unreported
<1> QED
    BY <1>1, <1>2, <1>3, LagKept DEF Inv

LEMMA BeginGet_Inv ==
    ASSUME Inv, NEW r \in Readers, NEW k \in Keys, BeginGet(r, k), UNCHANGED wasRead
    PROVE  Inv'
<1>1. /\ table[k] # Null /\ reader' = [reader EXCEPT ![r] = k]
      /\ UNCHANGED <<table, total, clock, hand, evictMutex, bucketMutex, call>>
    BY DEF BeginGet, lockVars
<1>2. StateInv' /\ ReaderInv'
    BY <1>1 DEF Inv, StateInv, ReaderInv
<1> QED
    BY <1>1, <1>2, CallsStay DEF Inv

LEMMA Tick_Inv ==
    ASSUME Inv, Tick, UNCHANGED wasRead
    PROVE  Inv'
<1>1. /\ clock' \in TimeOf
      /\ UNCHANGED <<table, total, hand, evictMutex, bucketMutex, call, reader>>
    BY CacheAssumption DEF Tick, Inv, StateInv, TimeOf, lockVars
<1>2. StateInv' /\ ReaderInv'
    BY <1>1 DEF Inv, StateInv, ReaderInv
<1> QED
    BY <1>1, <1>2, CallsStay DEF Inv

LEMMA SetAccessed_Inv ==
    ASSUME Inv, NEW r \in Readers, SetAccessed(r)
    PROVE  Inv'
<1>1. PICK k \in Keys : k = reader[r]
    BY DEF SetAccessed, Inv, StateInv
<1>2. table[k] # Null
    BY <1>1, NullAssumption DEF Inv, ReaderInv
<1>3. /\ table' = [table EXCEPT ![k].accessed = TRUE] /\ call' = Refreshed(k)
      /\ reader' = [reader EXCEPT ![r] = Null] /\ wasRead' = TRUE
      /\ UNCHANGED <<total, clock, hand, evictMutex, bucketMutex>>
    BY <1>1 DEF SetAccessed, lockVars
<1>4. PICK record : record = [table[k] EXCEPT !.accessed = TRUE]
    OBVIOUS
<1>5. record \in Records /\ record.size = table[k].size /\ record # Null
    BY <1>2, <1>4, LiveRecord, NullAssumption DEF Inv, Records
<1>6. /\ table' \in [Keys -> Records \cup {Null}] /\ table'[k] = record
      /\ \A q \in Keys : q # k => table'[q] = table[q]
  <2>1. table' = [table EXCEPT ![k] = record] /\ table \in [Keys -> Records \cup {Null}]
    BY <1>3, <1>4 DEF Inv, StateInv
  <2> QED
    BY <1>5, <2>1
<1>7. /\ call' \in [Threads -> Calls]
      /\ \A u \in Threads : IsRefreshed(call'[u], call[u], k)
    BY <1>3, RefreshedIs DEF Inv
<1>8. StateInv'
    BY <1>3, <1>6, <1>7 DEF Inv, StateInv
<1>9. ReaderInv'
    BY <1>3, <1>5, <1>6 DEF Inv, StateInv, ReaderInv
<1>10. LockInv'
  <2>1. \A q \in Keys : table[q] # Null => table'[q] # Null
    BY <1>5, <1>6
  <2> QED
    BY <1>3, <1>7, <2>1, RefreshedLocks DEF LockInv
<1>11. SweepInv'
    BY <1>3, <1>6, <1>7, RefreshedSweep DEF SweepInv
<1>12. CountersLagByCalls'
  <2>1. \A q \in Keys : SizeOf(q)' = SizeOf(q)
    BY <1>2, <1>5, <1>6 DEF SizeOf
  <2>2. \A u \in Threads : Unreported(u)' = Unreported(u)
    BY <1>7 DEF IsRefreshed, Unreported
  <2> QED
    BY <1>3, <2>1, <2>2, LagKept DEF Inv
<1> QED
    BY <1>8, <1>9, <1>10, <1>11, <1>12 DEF Inv

-------------------------------------------------------------------------------
LEMMA Init_Inv == ASSUME Init PROVE Inv
<1>1. StateInv
  <2>1. total \in Int /\ clock \in TimeOf /\ hand \in Buckets
    BY CacheAssumption DEF Init, Buckets, TimeOf
  <2>2. Idle \in Calls
    BY DEF Idle, Calls
  <2>3. call \in [Threads -> Calls]
    BY <2>2 DEF Init
  <2>4. table \in [Keys -> Records \cup {Null}] /\ reader \in [Readers -> Keys \cup {Null}]
    BY DEF Init
  <2>5. bucketMutex \in [Mutexes -> Threads \cup {Null}]
    BY DEF Init
  <2> QED
    BY <2>1, <2>3, <2>4, <2>5 DEF Init, StateInv
<1>2. \A t \in Threads : call[t] = Idle /\ call[t].state = "idle"
    BY DEF Init, Idle
<1>3. LockInv
    BY <1>2, NullAssumption DEF Init, LockInv, EvictOwner, BucketOwner, TodoThere, InBucket, ClockStates
<1>4. ReaderInv
    BY DEF Init, ReaderInv
<1>5. SweepInv
    BY <1>2 DEF SweepInv, SweepOf, Sweeping
<1>6. CountersLagByCalls
  <2>1. \A t \in Threads : UnreportedMap[t] = 0
    BY <1>2 DEF UnreportedMap, Unreported
  <2>2. \A k \in Keys : SizeMap[k] = 0
    BY DEF Init, SizeMap, SizeOf
  <2>3. Sum(UnreportedMap, Threads) = 0 /\ Sum(SizeMap, Keys) = 0
    BY <2>1, <2>2, SumZero, CacheAssumption DEF Sum
  <2>4. total = IndexSize /\ IndexSize \in Int
    BY CacheAssumption DEF Init
  <2> QED
    BY <2>3, <2>4, SumsAre
<1> QED
    BY <1>1, <1>3, <1>4, <1>5, <1>6 DEF Inv

LEMMA Next_Inv == ASSUME Inv, [Next]_vars PROVE Inv'
<1>1. CASE UNCHANGED vars
  <2>1. UNCHANGED <<table, total, clock, hand, evictMutex, bucketMutex, call, reader, wasRead>>
    BY <1>1 DEF vars, lockVars
  <2>2. StateInv' /\ ReaderInv'
    BY <2>1 DEF Inv, StateInv, ReaderInv
  <2> QED
    BY <2>1, <2>2, CallsStay DEF Inv
<1>2. ASSUME NEW t \in Threads, Add(t), UNCHANGED wasRead PROVE Inv'
  <2>1. CASE EvictBasedOnTime(t)
    BY <1>2, <2>1, Step_Inv, LockBucket_Inv, EndExpire_Inv, Expire_Inv DEF EvictBasedOnTime
  <2>2. CASE Evict(t)
    BY <1>2, <2>2, Step_Inv, LockEvict_Inv, Recheck_Inv, Turn_Inv, EndVisit_Inv, EndEvict_Inv, Visit_Inv
       DEF Evict
  <2> QED
    BY <1>2, <2>1, <2>2, BeginAdd_Inv, Step_Inv, Link_Inv, Count_Inv DEF Add
<1>3. ASSUME NEW r \in Readers, GetInternal(r) PROVE Inv'
    BY <1>3, BeginGet_Inv, SetAccessed_Inv DEF GetInternal
<1> QED
    BY <1>1, <1>2, <1>3, Remove_Inv, Tick_Inv DEF Next

LEMMA Invariance == Spec => []Inv
<1>1. Init => Inv
    BY Init_Inv
<1>2. Inv /\ [Next]_vars => Inv'
    BY Next_Inv
<1> QED
    BY <1>1, <1>2, PTL DEF Spec

\* After two turns of the hand nothing is left but what is fresh.
LEMMA LeftIsFresh == ASSUME Inv PROVE GivesUpOnlyOnFresh
<1> SUFFICES ASSUME NEW t \in Threads, call[t].state = "turn", call[t].iterations = 0,
                    NEW k \in Keys, table[k] # Null, k \notin call[t].fresh
             PROVE  FALSE
    BY DEF GivesUpOnlyOnFresh
<1>1. Swept(t) /\ Pending(t) = {}
    BY DEF Inv, SweepInv, SweepOf, Sweeping, Pending
<1>2. Visited(t) - NumBuckets = NumBuckets /\ NumBuckets \in Nat
    BY IterationsIn, CacheAssumption DEF Visited
<1>3. Distance(Bucket[k]) \in 0 .. NumBuckets - 1
    BY DistanceIn, BucketIn DEF Inv
<1>4. Distance(Bucket[k]) >= Visited(t) - NumBuckets
    BY <1>1 DEF Swept
<1> QED
    BY <1>2, <1>3, <1>4

-------------------------------------------------------------------------------
(* The budget.  What counts against it is what the records take and what the *)
(* calls that have found room will add (Claimed).  Whoever finds room knows  *)
(* the counters, which the other calls may be late to update or about to     *)
(* raise: each by the bytes of one record at most (Busy).  A call that       *)
(* evicts hands on what is left to free (FreeingInv), and what it cannot     *)
(* free was added meanwhile, by calls that had room when it began.           *)

Largest == Max(Sizes)
Cost == Largest + RecordOverhead
AllBusy == Cardinality(Threads) * Cost
Limit == MaxCacheSizeInBytes - Largest + AllBusy

\* What a call that has found room will add, if its key is new.
InFlight(t) ==
    IF call[t].state = "create" THEN call[t].size + RecordOverhead
    ELSE IF call[t].state = "link" THEN call[t].record.size + RecordOverhead ELSE 0

InFlightMap == [t \in Threads |-> InFlight(t)]
Claimed == IndexSize + Sum(SizeMap, Keys) + Sum(InFlightMap, Threads)

FreshMap(t) == [k \in Keys |-> IF k \in call[t].fresh THEN SizeOf(k) ELSE 0]
FreshClaimed(t) == Sum(FreshMap(t), Keys) + Sum(InFlightMap, Threads)

DeltaInv ==
    \A t \in Threads : call[t].state = "count" => call[t].delta <= Cost /\ -call[t].delta <= Cost

Need(t) == call[t].size + RecordOverhead

Freeing(t) ==
    /\ Claimed + Need(t) - call[t].toFree <= Limit
    /\ Claimed + Need(t) <= Limit \/ FreshClaimed(t) <= AllBusy - Cost

FreeingInv == \A t \in Threads : Sweeping(t) => Freeing(t)

BudgetInv == DeltaInv /\ (~wasRead => Claimed <= Limit /\ FreeingInv)

LEMMA LargestIs ==
    ASSUME Roomy
    PROVE  /\ Largest \in Nat \ {0} /\ \A size \in Sizes : size \in Nat \ {0} /\ size <= Largest
           /\ Cost \in Nat /\ Cost = Largest + RecordOverhead /\ RecordOverhead \in Nat
           /\ AllBusy \in Nat /\ AllBusy = Cardinality(Threads) * Cost
           /\ MaxCacheSizeInBytes \in Nat /\ IndexSize \in Nat /\ Modulus \in Nat
           /\ IndexSize + Largest <= MaxCacheSizeInBytes
           /\ MaxCacheSizeInBytes + AllBusy + AllBusy < Modulus
           /\ Limit \in Int /\ Limit = MaxCacheSizeInBytes - Largest + AllBusy
<1>1. \E size \in Sizes : \A other \in Sizes : size >= other
  <2>1. Sizes \subseteq Nat
    BY CacheAssumption
  <2> QED
    BY <2>1 DEF Roomy
<1>2. Largest \in Sizes /\ \A size \in Sizes : Largest >= size
    BY <1>1 DEF Largest, Max
<1>3. Sizes \subseteq Nat \ {0} /\ {RecordOverhead, MaxCacheSizeInBytes, IndexSize, Modulus} \subseteq Nat
    BY CacheAssumption
<1>4. Largest \in Nat \ {0} /\ \A size \in Sizes : size \in Nat \ {0} /\ size <= Largest
    BY <1>2, <1>3
<1>5. Cost \in Nat /\ Cost = Largest + RecordOverhead
    BY <1>3, <1>4 DEF Cost
<1>6. Cardinality(Threads) \in Nat
    BY CacheAssumption, FS_CardinalityType
<1>7. AllBusy \in Nat /\ AllBusy = Cardinality(Threads) * Cost
    BY <1>5, <1>6 DEF AllBusy
<1>8. IndexSize + Largest <= MaxCacheSizeInBytes /\ MaxCacheSizeInBytes + 2 * AllBusy < Modulus
    BY DEF Roomy, Largest, Cost, AllBusy
<1> QED
    BY <1>3, <1>4, <1>5, <1>7, <1>8 DEF Limit

-------------------------------------------------------------------------------
(* The amounts.                                                              *)

LEMMA InFlightIn ==
    ASSUME Roomy, StateInv, NEW t \in Threads
    PROVE  InFlight(t) \in Nat /\ InFlight(t) <= Cost
<1>1. call[t] \in Calls
    BY DEF StateInv
<1>2. CASE call[t].state = "create"
  <2>1. call[t].size \in Sizes
    BY <1>1, <1>2, CallKinds DEF PlainCalls, PlainStates
  <2> QED
    BY <1>2, <2>1, LargestIs DEF InFlight
<1>3. CASE call[t].state = "link"
  <2>1. call[t].record.size \in Sizes
    BY <1>1, <1>3, CallKinds DEF LinkCalls, Records
  <2> QED
    BY <1>3, <2>1, LargestIs DEF InFlight
<1> QED
    BY <1>2, <1>3, LargestIs DEF InFlight

\* A thread that evicts needs room for its record and knows what it has to free.
LEMMA SweepingIn ==
    ASSUME Roomy, StateInv, NEW t \in Threads, Sweeping(t)
    PROVE  /\ call[t].size \in Sizes /\ call[t].toFree \in Nat
           /\ Need(t) \in Nat /\ Need(t) <= Cost
           /\ InFlight(t) = 0 /\ Unreported(t) = 0
<1>1. call[t] \in TurnCalls \/ call[t] \in VisitCalls
    BY CallKinds DEF StateInv, Sweeping
<1>2. call[t].size \in Sizes /\ call[t].toFree \in Nat
    BY <1>1 DEF TurnCalls, VisitCalls
<1> QED
    BY <1>2, LargestIs DEF Need, Sweeping, InFlight, Unreported

LEMMA SizesNat ==
    ASSUME StateInv, NEW k \in Keys
    PROVE  SizeOf(k) \in Nat
    BY LiveRecord, CacheAssumption DEF SizeOf

LEMMA AmountsIn ==
    ASSUME Roomy, StateInv
    PROVE  /\ Sum(SizeMap, Keys) \in Int /\ Sum(InFlightMap, Threads) \in Int /\ Claimed \in Int
           /\ \A t \in Threads : Sum(FreshMap(t), Keys) \in Int /\ FreshClaimed(t) \in Int
           /\ \A t \in Threads : Sweeping(t) => call[t].toFree \in Nat /\ Need(t) \in Nat /\ Need(t) <= Cost
<1>1. Sum(SizeMap, Keys) \in Int
    BY SumSizes
<1>2. Sum(InFlightMap, Threads) \in Int
  <2>1. \A t \in Threads : InFlightMap[t] \in Int
    BY InFlightIn DEF InFlightMap
  <2> QED
    BY <2>1, SumType, CacheAssumption DEF Sum
<1>3. ASSUME NEW t \in Threads PROVE Sum(FreshMap(t), Keys) \in Int
  <2>1. \A k \in Keys : FreshMap(t)[k] \in Int
    BY SizesNat DEF FreshMap
  <2> QED
    BY <2>1, SumType, CacheAssumption DEF Sum
<1> QED
    BY <1>1, <1>2, <1>3, LargestIs, SweepingIn DEF Claimed, FreshClaimed

\* The same of the next state.
AmountsAre ==
    StateInv =>
        /\ Sum(SizeMap, Keys) \in Int /\ Sum(InFlightMap, Threads) \in Int /\ Claimed \in Int
        /\ \A t \in Threads : Sum(FreshMap(t), Keys) \in Int /\ FreshClaimed(t) \in Int
        /\ \A t \in Threads : Sweeping(t) => call[t].toFree \in Nat /\ Need(t) \in Nat /\ Need(t) <= Cost

LEMMA AmountsInNext == ASSUME Roomy PROVE AmountsAre'
<1>1. Roomy => AmountsAre
    BY AmountsIn DEF AmountsAre
<1>2. (Roomy => AmountsAre)'
    BY <1>1, PTL
<1> QED
    BY <1>2

LEMMA InFlightCounts ==
    ASSUME Roomy, StateInv
    PROVE  0 <= Sum(InFlightMap, Threads)
<1>1. \A t \in Threads : InFlightMap[t] \in Nat
    BY InFlightIn DEF InFlightMap
<1>2. PICK minus : minus = [t \in Threads |-> -InFlightMap[t]]
    OBVIOUS
<1>3. \A t \in Threads : minus[t] \in Int /\ minus[t] <= 0
    BY <1>1, <1>2
<1>4. Sum(minus, Threads) <= Cardinality(Threads) * 0 /\ Cardinality(Threads) \in Nat
    BY <1>3, SumAtMost, CacheAssumption, FS_CardinalityType DEF Sum
<1>5. Sum(minus, Threads) = -Sum(InFlightMap, Threads) /\ Sum(InFlightMap, Threads) \in Int
    BY <1>1, <1>2, SumOpposite, AmountsIn, CacheAssumption DEF Sum
<1> QED
    BY <1>4, <1>5

\* A thread with nothing in flight leaves the others one record less.
LEMMA Busy ==
    ASSUME Roomy, StateInv, DeltaInv, NEW t \in Threads, InFlight(t) = 0, Unreported(t) = 0
    PROVE  /\ 0 <= Sum(InFlightMap, Threads) /\ Sum(InFlightMap, Threads) <= AllBusy - Cost
           /\ -Sum(UnreportedMap, Threads) <= AllBusy - Cost
           /\ Sum(UnreportedMap, Threads) + Sum(InFlightMap, Threads) <= AllBusy - Cost
           /\ \A u \in Threads : u # t /\ InFlight(u) = 0 /\ Unreported(u) = 0 =>
                  Sum(UnreportedMap, Threads) + Sum(InFlightMap, Threads) <= AllBusy - Cost - Cost
<1>1. PICK busy : busy = [u \in Threads |-> Unreported(u) + InFlight(u)]
    OBVIOUS
<1>2. ASSUME NEW u \in Threads
      PROVE  /\ Unreported(u) \in Int /\ Unreported(u) <= Cost /\ -Unreported(u) <= Cost
             /\ InFlight(u) \in Nat /\ InFlight(u) <= Cost
             /\ Unreported(u) + InFlight(u) <= Cost
  <2>1. Unreported(u) \in Int /\ InFlight(u) \in Nat /\ InFlight(u) <= Cost /\ Cost \in Nat
    BY UnreportedIn, InFlightIn, LargestIs
  <2>2. Unreported(u) <= Cost /\ -Unreported(u) <= Cost
    BY <2>1 DEF Unreported, DeltaInv
  <2>3. Unreported(u) = 0 \/ InFlight(u) = 0
    BY DEF Unreported, InFlight
  <2> QED
    BY <2>1, <2>2, <2>3
<1>3. PICK minus : minus = [u \in Threads |-> -UnreportedMap[u]]
    OBVIOUS
<1>4. IsFiniteSet(Threads) /\ Cost \in Nat /\ AllBusy = Cardinality(Threads) * Cost /\ Cardinality(Threads) \in Nat
    BY LargestIs, CacheAssumption, FS_CardinalityType
<1>5. \A u \in Threads : /\ InFlightMap[u] = InFlight(u) /\ UnreportedMap[u] = Unreported(u)
                         /\ minus[u] = -Unreported(u)
                         /\ busy[u] = Unreported(u) + InFlight(u)
    BY <1>1, <1>3 DEF InFlightMap, UnreportedMap
<1>6. \A u \in Threads : /\ InFlightMap[u] \in Int /\ InFlightMap[u] <= Cost
                         /\ UnreportedMap[u] \in Int
                         /\ minus[u] \in Int /\ minus[u] <= Cost
                         /\ busy[u] \in Int /\ busy[u] <= Cost /\ busy[u] = UnreportedMap[u] + InFlightMap[u]
    BY <1>2, <1>5
<1>7. InFlightMap[t] = 0 /\ minus[t] = 0 /\ busy[t] = 0
    BY <1>5
<1>8. Sum(InFlightMap, Threads) <= AllBusy - Cost
    BY <1>4, <1>6, <1>7, SumOfOthers DEF Sum
<1>9. Sum(minus, Threads) <= AllBusy - Cost
    BY <1>4, <1>6, <1>7, SumOfOthers DEF Sum
<1>10. Sum(busy, Threads) <= AllBusy - Cost
    BY <1>4, <1>6, <1>7, SumOfOthers DEF Sum
<1>11. Sum(minus, Threads) = -Sum(UnreportedMap, Threads)
    BY <1>3, <1>4, <1>6, SumOpposite DEF Sum
<1>12. Sum(busy, Threads) = Sum(UnreportedMap, Threads) + Sum(InFlightMap, Threads)
    BY <1>4, <1>6, SumPlus DEF Sum
<1>13. ASSUME NEW u \in Threads, u # t, InFlight(u) = 0, Unreported(u) = 0
       PROVE  Sum(busy, Threads) <= AllBusy - Cost - Cost
  <2>1. busy[u] = 0
    BY <1>5, <1>13
  <2> QED
    BY <1>4, <1>6, <1>7, <1>13, <2>1, SumOfOthersButTwo DEF Sum
<1> QED
    BY <1>8, <1>9, <1>10, <1>11, <1>12, <1>13, InFlightCounts

\* What is claimed is what the counters say and what the busy calls make of it.
LEMMA ClaimedIs ==
    ASSUME Roomy, Inv
    PROVE  /\ total \in Int
           /\ Claimed = total + (Sum(UnreportedMap, Threads) + Sum(InFlightMap, Threads))
<1>1. total + Sum(UnreportedMap, Threads) = IndexSize + Sum(SizeMap, Keys)
    BY SumsAre DEF Inv
<1>2. /\ total \in Int /\ Sum(UnreportedMap, Threads) \in Int /\ Sum(SizeMap, Keys) \in Int
      /\ Sum(InFlightMap, Threads) \in Int /\ IndexSize \in Int
    BY SumSizes, AmountsIn, LargestIs DEF Inv, StateInv
<1> QED
    BY <1>1, <1>2 DEF Claimed

\* The sum of the counters is far from the end of a std::uint64_t.
LEMMA TotalInRange ==
    ASSUME Roomy, Inv, BudgetInv, ~wasRead, NEW t \in Threads, InFlight(t) = 0, Unreported(t) = 0
    PROVE  total + Largest < Modulus
<1>1. /\ 0 <= Sum(InFlightMap, Threads) /\ -Sum(UnreportedMap, Threads) <= AllBusy - Cost
      /\ Sum(InFlightMap, Threads) \in Int /\ Sum(UnreportedMap, Threads) \in Int
    BY Busy, AmountsIn, SumSizes DEF Inv, BudgetInv
<1>2. Claimed <= Limit /\ Claimed \in Int
    BY AmountsIn DEF Inv, BudgetInv
<1> QED
    BY <1>1, <1>2, ClaimedIs, LargestIs

LEMMA SmallRemainder ==
    ASSUME NEW a \in Nat, NEW m \in Nat, a < m
    PROVE  a % m = a
    OBVIOUS

\* CalculateNumBytesToFree() asks for all that is over the limit.
LEMMA EnoughToFree ==
    ASSUME Roomy, total \in Int, total + Largest < Modulus, NEW needed \in Sizes
    PROVE  /\ NumBytesToFree(needed) \in Nat
           /\ total + needed - NumBytesToFree(needed) <= MaxCacheSizeInBytes
<1>1. /\ needed \in Nat \ {0} /\ needed <= Largest /\ Largest \in Nat
      /\ MaxCacheSizeInBytes \in Nat /\ Modulus \in Nat \ {0} /\ Largest <= MaxCacheSizeInBytes
    BY LargestIs, CacheAssumption
<1>2. PICK d : d = total % Modulus
    OBVIOUS
<1>3. PICK n : n = NumBytesToFree(needed)
    OBVIOUS
<1>4. n = IF needed < MaxCacheSizeInBytes /\ (d + needed) % Modulus <= MaxCacheSizeInBytes THEN 0
          ELSE IF d > MaxCacheSizeInBytes THEN (d - MaxCacheSizeInBytes + needed) % Modulus ELSE needed
    BY <1>2, <1>3 DEF NumBytesToFree
<1>5. d \in Nat
    BY <1>1, <1>2
<1>6. (d - MaxCacheSizeInBytes + needed) % Modulus \in Nat
    BY <1>1, <1>5
<1>7. n \in Nat
    BY <1>1, <1>4, <1>6
<1>8. CASE total < 0
    BY <1>1, <1>3, <1>7, <1>8
<1>9. CASE total >= 0
  <2>1. d = total
    BY <1>1, <1>2, <1>9, SmallRemainder
  <2>2. (d + needed) % Modulus = d + needed
    BY <1>1, <1>5, <2>1, SmallRemainder
  <2>3. d > MaxCacheSizeInBytes => (d - MaxCacheSizeInBytes + needed) % Modulus = d - MaxCacheSizeInBytes + needed
    BY <1>1, <1>5, <2>1, SmallRemainder
  <2> QED
    BY <1>1, <1>3, <1>4, <1>5, <1>9, <2>1, <2>2, <2>3
<1> QED
    BY <1>8, <1>9

-------------------------------------------------------------------------------
(* Steps that claim nothing.                                                 *)

\* Less is claimed than before, also besides what evicting calls are to free.
LEMMA Shrinks ==
    ASSUME Roomy, Inv, Inv', BudgetInv, DeltaInv', wasRead' = wasRead, Claimed' <= Claimed,
           \A u \in Threads : Sweeping(u)' =>
               /\ Sweeping(u) /\ Need(u)' = Need(u)
               /\ Claimed' - call'[u].toFree <= Claimed - call[u].toFree
               /\ FreshClaimed(u)' <= FreshClaimed(u)
    PROVE  BudgetInv'
<1>1. SUFFICES ASSUME ~wasRead PROVE Claimed' <= Limit /\ FreeingInv'
    BY DEF BudgetInv
<1>2. Claimed <= Limit /\ FreeingInv
    BY <1>1 DEF BudgetInv
<1>3. AmountsAre /\ AmountsAre'
    BY AmountsIn, AmountsInNext DEF AmountsAre
<1>4. StateInv /\ StateInv' /\ Limit \in Int /\ AllBusy \in Nat /\ Cost \in Nat
    BY LargestIs DEF Inv
<1>5. Claimed \in Int /\ Claimed' \in Int
    BY <1>3, <1>4 DEF AmountsAre
<1>6. ASSUME NEW u \in Threads, Sweeping(u)' PROVE Freeing(u)'
  <2>1. /\ Sweeping(u) /\ Need(u)' = Need(u)
        /\ Claimed' - call'[u].toFree <= Claimed - call[u].toFree
        /\ FreshClaimed(u)' <= FreshClaimed(u)
    BY <1>6
  <2>2. /\ call[u].toFree \in Nat /\ Need(u) \in Nat /\ FreshClaimed(u) \in Int
        /\ call'[u].toFree \in Nat /\ FreshClaimed(u)' \in Int
    BY <1>3, <1>4, <1>6, <2>1 DEF AmountsAre
  <2>3. /\ Claimed + Need(u) - call[u].toFree <= Limit
        /\ Claimed + Need(u) <= Limit \/ FreshClaimed(u) <= AllBusy - Cost
    BY <1>2, <2>1 DEF FreeingInv, Freeing
  <2>4. Claimed' + Need(u) - call'[u].toFree <= Limit
    BY <1>4, <1>5, <2>1, <2>2, <2>3
  <2>5. Claimed' + Need(u) <= Limit \/ FreshClaimed(u)' <= AllBusy - Cost
    BY <1>4, <1>5, <2>1, <2>2, <2>3
  <2> QED
    BY <2>1, <2>4, <2>5 DEF Freeing
<1> QED
    BY <1>2, <1>4, <1>5, <1>6 DEF FreeingInv

\* Nothing is added or removed, and no call finds room.
LEMMA Quiet ==
    ASSUME Roomy, Inv, Inv', BudgetInv, wasRead' = wasRead,
           \A k \in Keys : SizeOf(k)' = SizeOf(k),
           \A u \in Threads :
               /\ InFlight(u)' = InFlight(u)
               /\ call'[u].state = "count" => call'[u] = call[u]
               /\ Sweeping(u)' => /\ Sweeping(u) /\ call'[u].size = call[u].size
                                  /\ call'[u].toFree = call[u].toFree /\ call'[u].fresh = call[u].fresh
    PROVE  BudgetInv'
<1>1. DeltaInv'
    BY DEF BudgetInv, DeltaInv
<1>2. Sum(SizeMap', Keys) = Sum(SizeMap, Keys)
    BY SizesKept
<1>3. InFlightMap' = InFlightMap
    BY DEF InFlightMap
<1>4. Claimed' = Claimed
    BY <1>2, <1>3 DEF Claimed
<1>5. ASSUME NEW u \in Threads, Sweeping(u)' PROVE FreshMap(u)' = FreshMap(u)
    BY <1>5 DEF FreshMap
<1>6. \A u \in Threads : Sweeping(u)' => FreshClaimed(u)' = FreshClaimed(u)
    BY <1>3, <1>5 DEF FreshClaimed
<1>7. \A u \in Threads : Sweeping(u)' => Need(u)' = Need(u)
    BY DEF Need
<1>8. AmountsAre /\ StateInv
    BY AmountsIn DEF AmountsAre, Inv
<1>9. \A u \in Threads : Sweeping(u)' =>
          /\ Sweeping(u) /\ Need(u)' = Need(u)
          /\ Claimed' - call'[u].toFree <= Claimed - call[u].toFree
          /\ FreshClaimed(u)' <= FreshClaimed(u)
    BY <1>4, <1>6, <1>7, <1>8 DEF AmountsAre
<1>10. Claimed' <= Claimed
    BY <1>4, <1>8 DEF AmountsAre
<1> QED
    BY <1>1, <1>9, <1>10, Shrinks

\* A call goes on and finds no room.
LEMMA QuietStep ==
    ASSUME Roomy, Inv, Inv', BudgetInv, wasRead' = wasRead,
           \A k \in Keys : SizeOf(k)' = SizeOf(k),
           NEW t \in Threads, NEW c, Become(t, c), c.state # "count",
           InFlight(t)' = InFlight(t),
           c.state \in {"turn", "visit"} =>
               /\ Sweeping(t) /\ c.size = call[t].size
               /\ c.toFree = call[t].toFree /\ c.fresh = call[t].fresh
    PROVE  BudgetInv'
<1>1. call'[t] = c /\ \A u \in Threads : u # t => call'[u] = call[u]
    BY DEF Become, Inv, StateInv
<1>2. ASSUME NEW u \in Threads
      PROVE  /\ InFlight(u)' = InFlight(u)
             /\ call'[u].state = "count" => call'[u] = call[u]
             /\ Sweeping(u)' => /\ Sweeping(u) /\ call'[u].size = call[u].size
                                /\ call'[u].toFree = call[u].toFree /\ call'[u].fresh = call[u].fresh
  <2>1. CASE u = t
    BY <1>1, <2>1 DEF Sweeping
  <2>2. CASE u # t
    BY <1>1, <2>2 DEF InFlight, Sweeping
  <2> QED
    BY <2>1, <2>2
<1> QED
    BY <1>2, Quiet

\* One record is removed, or takes up what was in flight for it.
LEMMA OneRecord ==
    ASSUME Roomy, Inv, Inv', BudgetInv, DeltaInv', wasRead' = wasRead, NEW k \in Keys,
           \A q \in Keys : q # k => SizeOf(q)' = SizeOf(q), SizeOf(k)' \in Nat,
           Sum(InFlightMap', Threads) = Sum(InFlightMap, Threads) - SizeOf(k)',
           \A u \in Threads : Sweeping(u)' =>
               /\ Sweeping(u) /\ call'[u].size = call[u].size
               /\ call[u].toFree <= call'[u].toFree + SizeOf(k)
               /\ \A q \in Keys : q # k => (q \in call'[u].fresh <=> q \in call[u].fresh)
    PROVE  BudgetInv'
<1>1. StateInv /\ StateInv' /\ AmountsAre /\ AmountsAre' /\ SizeOf(k) \in Nat /\ IndexSize \in Nat
    BY AmountsIn, AmountsInNext, SizesNat, LargestIs DEF AmountsAre, Inv
<1>2. Sum(SizeMap', Keys) = Sum(SizeMap, Keys) - SizeOf(k) + SizeOf(k)'
    BY <1>1, SizeChanges
<1>3. Claimed' = Claimed - SizeOf(k)
    BY <1>1, <1>2 DEF Claimed, AmountsAre
<1>4. ASSUME NEW u \in Threads, Sweeping(u)' PROVE FreshClaimed(u)' <= FreshClaimed(u)
  <2>1. \A q \in Keys : q # k => (q \in call'[u].fresh <=> q \in call[u].fresh)
    BY <1>4
  <2>2. /\ \A q \in Keys : q # k => FreshMap(u)'[q] = FreshMap(u)[q]
        /\ \A q \in Keys : FreshMap(u)[q] \in Nat
        /\ FreshMap(u)'[k] \in Nat /\ FreshMap(u)'[k] <= SizeOf(k)'
    <3>1. \A q \in Keys : FreshMap(u)[q] = IF q \in call[u].fresh THEN SizeOf(q) ELSE 0
      BY DEF FreshMap
    <3>2. \A q \in Keys : FreshMap(u)'[q] = IF q \in call'[u].fresh THEN SizeOf(q)' ELSE 0
      BY DEF FreshMap
    <3>3. \A q \in Keys : SizeOf(q) \in Nat
      BY <1>1, SizesNat
    <3> QED
      BY <2>1, <3>1, <3>2, <3>3
  <2>3. SumFunctionOnSet(FreshMap(u)', Keys)
            = SumFunctionOnSet(FreshMap(u), Keys) - FreshMap(u)[k] + FreshMap(u)'[k]
    BY <2>2, SumChange, CacheAssumption
  <2>4. Sum(FreshMap(u)', Keys) <= Sum(FreshMap(u), Keys) + SizeOf(k)'
    BY <1>1, <2>2, <2>3 DEF Sum, AmountsAre
  <2> QED
    BY <1>1, <2>4 DEF FreshClaimed, AmountsAre
<1>5. \A u \in Threads : Sweeping(u)' =>
          /\ Sweeping(u) /\ Need(u)' = Need(u)
          /\ Claimed' - call'[u].toFree <= Claimed - call[u].toFree
          /\ FreshClaimed(u)' <= FreshClaimed(u)
  <2> SUFFICES ASSUME NEW u \in Threads, Sweeping(u)'
               PROVE  /\ Sweeping(u) /\ Need(u)' = Need(u)
                      /\ Claimed' - call'[u].toFree <= Claimed - call[u].toFree
    BY <1>4
  <2>1. Sweeping(u) /\ Need(u)' = Need(u) /\ call[u].toFree <= call'[u].toFree + SizeOf(k)
    BY DEF Need
  <2>2. call[u].toFree \in Nat /\ call'[u].toFree \in Nat /\ Claimed \in Int
    BY <1>1, <2>1 DEF AmountsAre
  <2> QED
    BY <1>1, <1>3, <2>1, <2>2
<1>6. Claimed' <= Claimed
    BY <1>1, <1>3 DEF AmountsAre
<1> QED
    BY <1>5, <1>6, Shrinks

LEMMA Quiet_Budget ==
    ASSUME Roomy, Inv, Inv', BudgetInv, UNCHANGED wasRead, NEW t \in Threads,
           \/ \E k \in Keys, size \in Sizes : BeginAdd(t, k, size)
           \/ ReadTime(t) \/ LockBucket(t) \/ EndExpire(t) \/ LockEvict(t)
           \/ Turn(t) \/ EndVisit(t) \/ Create(t) \/ Count(t)
    PROVE  BudgetInv'
<1>1. UNCHANGED table /\ \A k \in Keys : SizeOf(k)' = SizeOf(k)
    BY DEF BeginAdd, ReadTime, LockBucket, EndExpire, LockEvict, Turn, EndVisit, Create, Count, SizeOf
<1>2. call \in [Threads -> Calls]
    BY DEF Inv, StateInv
<1>3. CASE \E k \in Keys, size \in Sizes : BeginAdd(t, k, size)
  <2>1. PICK k \in Keys, size \in Sizes : BeginAdd(t, k, size)
    BY <1>3
  <2>2. PICK c : c = [state |-> IF ForceTimeBasedEviction THEN "readTime" ELSE "check",
                      key |-> k, size |-> size]
    OBVIOUS
  <2>3. Become(t, c) /\ c.state \in {"readTime", "check"} /\ call[t].state = "idle"
    BY <2>1, <2>2 DEF BeginAdd
  <2>4. InFlight(t)' = InFlight(t)
    BY <1>2, <2>3 DEF InFlight, Become
  <2> QED
    BY <1>1, <2>3, <2>4, QuietStep
<1>4. CASE ReadTime(t)
  <2>1. PICK c : c = [state |-> "lockBucket", key |-> call[t].key, size |-> call[t].size, now |-> clock]
    OBVIOUS
  <2>2. Become(t, c) /\ c.state = "lockBucket" /\ call[t].state = "readTime"
    BY <1>4, <2>1 DEF ReadTime
  <2>3. InFlight(t)' = InFlight(t)
    BY <1>2, <2>2 DEF InFlight, Become
  <2> QED
    BY <1>1, <2>2, <2>3, QuietStep
<1>5. CASE LockBucket(t)
  <2>1. PICK b : b = Bucket[call[t].key]
    OBVIOUS
  <2>2. PICK c : c = [state |-> "expire", key |-> call[t].key, size |-> call[t].size,
                      now |-> call[t].now, bucket |-> b, todo |-> RecordsIn(b)]
    OBVIOUS
  <2>3. Become(t, c) /\ c.state = "expire" /\ call[t].state = "lockBucket"
    BY <1>5, <2>1, <2>2 DEF LockBucket
  <2>4. InFlight(t)' = InFlight(t)
    BY <1>2, <2>3 DEF InFlight, Become
  <2> QED
    BY <1>1, <2>3, <2>4, QuietStep
<1>6. CASE EndExpire(t)
  <2>1. PICK c : c = [state |-> "check", key |-> call[t].key, size |-> call[t].size]
    OBVIOUS
  <2>2. Become(t, c) /\ c.state = "check" /\ call[t].state = "expire"
    BY <1>6, <2>1 DEF EndExpire
  <2>3. InFlight(t)' = InFlight(t)
    BY <1>2, <2>2 DEF InFlight, Become
  <2> QED
    BY <1>1, <2>2, <2>3, QuietStep
<1>7. CASE LockEvict(t)
  <2>1. PICK c : c = [call[t] EXCEPT !.state = "recheck"]
    OBVIOUS
  <2>2. call[t].state = "lockEvict" /\ call[t] \in PlainCalls
    BY <1>2, <1>7, CallKinds DEF LockEvict, PlainStates
  <2>3. Become(t, c) /\ c.state = "recheck"
    BY <1>7, <2>1, <2>2 DEF LockEvict, PlainCalls
  <2>4. InFlight(t)' = InFlight(t)
    BY <1>2, <2>2, <2>3 DEF InFlight, Become
  <2> QED
    BY <1>1, <2>3, <2>4, QuietStep
<1>8. CASE Turn(t)
  <2>1. PICK c : c = [state |-> "visit", key |-> call[t].key, size |-> call[t].size,
                      now |-> call[t].now, toFree |-> call[t].toFree,
                      iterations |-> call[t].iterations - 1, fresh |-> call[t].fresh,
                      bucket |-> hand, todo |-> RecordsIn(hand)]
    OBVIOUS
  <2>2. /\ Become(t, c) /\ c.state = "visit" /\ c.size = call[t].size /\ c.toFree = call[t].toFree
        /\ c.fresh = call[t].fresh /\ call[t].state = "turn" /\ Sweeping(t)
    BY <1>8, <2>1 DEF Turn, Sweeping
  <2>3. InFlight(t)' = InFlight(t)
    BY <1>2, <2>2 DEF InFlight, Become
  <2> QED
    BY <1>1, <2>2, <2>3, QuietStep
<1>9. CASE EndVisit(t)
  <2>1. PICK c : c = [state |-> "turn", key |-> call[t].key, size |-> call[t].size,
                      now |-> call[t].now, toFree |-> call[t].toFree,
                      iterations |-> call[t].iterations, fresh |-> call[t].fresh]
    OBVIOUS
  <2>2. /\ Become(t, c) /\ c.state = "turn" /\ c.size = call[t].size /\ c.toFree = call[t].toFree
        /\ c.fresh = call[t].fresh /\ call[t].state = "visit" /\ Sweeping(t)
    BY <1>9, <2>1 DEF EndVisit, Sweeping
  <2>3. InFlight(t)' = InFlight(t)
    BY <1>2, <2>2 DEF InFlight, Become
  <2> QED
    BY <1>1, <2>2, <2>3, QuietStep
<1>10. CASE Create(t)
  <2>1. PICK c : c = [state |-> "link", key |-> call[t].key,
                      record |-> [size |-> call[t].size, time |-> clock, accessed |-> FALSE]]
    OBVIOUS
  <2>2. Become(t, c) /\ c.state = "link" /\ c.record.size = call[t].size /\ call[t].state = "create"
    BY <1>10, <2>1 DEF Create
  <2>3. InFlight(t)' = InFlight(t)
    BY <1>2, <2>2 DEF InFlight, Become
  <2> QED
    BY <1>1, <2>2, <2>3, QuietStep
<1>11. CASE Count(t)
  <2>1. Become(t, Idle) /\ Idle.state = "idle" /\ call[t].state = "count"
    BY <1>11 DEF Count, Idle
  <2>2. InFlight(t)' = InFlight(t)
    BY <1>2, <2>1 DEF InFlight, Become
  <2> QED
    BY <1>1, <2>1, <2>2, QuietStep
<1> QED
    BY <1>3, <1>4, <1>5, <1>6, <1>7, <1>8, <1>9, <1>10, <1>11

-------------------------------------------------------------------------------
(* Removing and linking a record.                                            *)

\* No call has found room: what is in flight stays, but for the calls' records.
LEMMA Removal ==
    ASSUME Roomy, Inv, Inv', BudgetInv, wasRead' = wasRead, NEW k \in Keys, RemoveRecord(k),
           \A u \in Threads :
               /\ InFlight(u)' = InFlight(u)
               /\ call'[u].state = "count" => call'[u] = call[u]
               /\ Sweeping(u)' =>
                      /\ Sweeping(u) /\ call'[u].size = call[u].size
                      /\ call[u].toFree <= call'[u].toFree + SizeOf(k)
                      /\ \A q \in Keys : q # k => (q \in call'[u].fresh <=> q \in call[u].fresh)
    PROVE  BudgetInv'
<1>1. table' = [table EXCEPT ![k] = Null] /\ table \in [Keys -> Records \cup {Null}]
    BY DEF RemoveRecord, Inv, StateInv
<1>2. /\ SizeOf(k)' = 0 /\ SizeOf(k)' \in Nat
      /\ \A q \in Keys : q # k => SizeOf(q)' = SizeOf(q)
    BY <1>1 DEF SizeOf
<1>3. DeltaInv'
    BY DEF BudgetInv, DeltaInv
<1>4. InFlightMap' = InFlightMap
    BY DEF InFlightMap
<1>5. Sum(InFlightMap', Threads) = Sum(InFlightMap, Threads) - SizeOf(k)'
    BY <1>2, <1>4, AmountsIn DEF Inv
<1> QED
    BY <1>2, <1>3, <1>5, OneRecord

LEMMA Remove_Budget ==
    ASSUME Roomy, Inv, Inv', BudgetInv, UNCHANGED wasRead, NEW t \in Threads, NEW k \in Keys, Remove(t, k)
    PROVE  BudgetInv'
<1>1. RemoveRecord(k) /\ UNCHANGED call
    BY DEF Remove
<1>2. AmountsAre /\ StateInv /\ SizeOf(k) \in Nat
    BY AmountsIn, SizesNat DEF AmountsAre, Inv
<1>3. ASSUME NEW u \in Threads
      PROVE  /\ InFlight(u)' = InFlight(u)
             /\ Sweeping(u)' => Sweeping(u) /\ call[u].toFree <= call'[u].toFree + SizeOf(k)
    BY <1>1, <1>2 DEF InFlight, Sweeping, AmountsAre
<1> QED
    BY <1>1, <1>3, Removal

LEMMA Expire_Budget ==
    ASSUME Roomy, Inv, Inv', BudgetInv, UNCHANGED wasRead, NEW t \in Threads, NEW k \in Keys, Expire(t, k)
    PROVE  BudgetInv'
<1>1. PICK c : c = [call[t] EXCEPT !.todo = @ \ {k}]
    OBVIOUS
<1>2. call[t].state = "expire" /\ call[t] \in ExpireCalls
    BY CallIn, CallKinds DEF Expire
<1>3. Become(t, c) /\ c.state = "expire"
    BY <1>1, <1>2 DEF Expire, ExpireCalls
<1>4. call'[t] = c /\ \A u \in Threads : u # t => call'[u] = call[u]
    BY <1>3 DEF Become, Inv, StateInv
<1>5. InFlight(t)' = InFlight(t)
    BY <1>2, <1>3, <1>4 DEF InFlight
<1>6. CASE IsExpired(table[k], call[t].now)
  <2>1. RemoveRecord(k)
    BY <1>6 DEF Expire
  <2>2. AmountsAre /\ StateInv /\ SizeOf(k) \in Nat
    BY AmountsIn, SizesNat DEF AmountsAre, Inv
  <2>3. ASSUME NEW u \in Threads
        PROVE  /\ InFlight(u)' = InFlight(u)
               /\ call'[u].state = "count" => call'[u] = call[u]
               /\ Sweeping(u)' => /\ Sweeping(u) /\ call'[u] = call[u]
                                  /\ call[u].toFree <= call'[u].toFree + SizeOf(k)
    <3>1. CASE u = t
      BY <1>3, <1>4, <1>5, <3>1 DEF Sweeping
    <3>2. CASE u # t
      BY <1>4, <2>2, <3>2 DEF InFlight, Sweeping, AmountsAre
    <3> QED
      BY <3>1, <3>2
  <2> QED
    BY <2>1, <2>3, Removal
<1>7. CASE ~IsExpired(table[k], call[t].now)
  <2>1. UNCHANGED table
    BY <1>7 DEF Expire
  <2>2. \A q \in Keys : SizeOf(q)' = SizeOf(q)
    BY <2>1 DEF SizeOf
  <2> QED
    BY <1>3, <1>5, <2>2, QuietStep
<1> QED
    BY <1>6, <1>7

\* What is removed is no longer left to free, its overhead besides.
LEMMA Visit_Budget ==
    ASSUME Roomy, Inv, Inv', BudgetInv, UNCHANGED wasRead, NEW t \in Threads, NEW k \in Keys, Visit(t, k)
    PROVE  BudgetInv'
<1>1. /\ call[t].state = "visit" /\ call[t] \in VisitCalls /\ k \in call[t].todo
      /\ InBucket(t) /\ Sweeping(t)
    BY CallIn, CallKinds DEF Visit, InBucket, Sweeping
<1>2. table[k] # Null /\ table[k] \in Records /\ table[k].size \in Nat
  <2>1. table[k] # Null
    BY <1>1 DEF Inv, LockInv, TodoThere
  <2> QED
    BY <2>1, LiveRecord DEF Inv
<1>3. SizeOf(k) = table[k].size + RecordOverhead /\ RecordOverhead \in Nat
    BY <1>2, LargestIs DEF SizeOf
<1>4. CASE IsExpired(table[k], call[t].now) \/ ~table[k].accessed
  <2>1. PICK n : n = IF table[k].size >= call[t].toFree THEN 0 ELSE call[t].toFree - table[k].size
    OBVIOUS
  <2>2. PICK c : c = [call[t] EXCEPT !.todo = call[t].todo \ {k}, !.fresh = call[t].fresh \ {k},
                                     !.toFree = n]
    OBVIOUS
  <2>3. /\ c.state = "visit" /\ c.size = call[t].size /\ c.fresh = call[t].fresh \ {k} /\ c.toFree = n
    BY <1>1, <2>2 DEF VisitCalls
  <2>4. call[t].toFree <= c.toFree + SizeOf(k)
    BY <1>1, <1>2, <1>3, <2>1, <2>3 DEF VisitCalls
  <2>5. Become(t, c) /\ RemoveRecord(k)
    BY <1>4, <2>1, <2>2 DEF Visit
  <2>6. call'[t] = c /\ \A u \in Threads : u # t => call'[u] = call[u]
    BY <2>5 DEF Become, Inv, StateInv
  <2>7. AmountsAre /\ StateInv /\ SizeOf(k) \in Nat
    BY AmountsIn, SizesNat DEF AmountsAre, Inv
  <2>8. ASSUME NEW u \in Threads
        PROVE  /\ InFlight(u)' = InFlight(u)
               /\ call'[u].state = "count" => call'[u] = call[u]
               /\ Sweeping(u)' =>
                      /\ Sweeping(u) /\ call'[u].size = call[u].size
                      /\ call[u].toFree <= call'[u].toFree + SizeOf(k)
                      /\ \A q \in Keys : q # k => (q \in call'[u].fresh <=> q \in call[u].fresh)
    <3>1. CASE u = t
      BY <1>1, <2>3, <2>4, <2>6, <3>1 DEF InFlight
    <3>2. CASE u # t
      BY <2>6, <2>7, <3>2 DEF InFlight, Sweeping, AmountsAre
    <3> QED
      BY <3>1, <3>2
  <2> QED
    BY <2>5, <2>8, Removal
<1>5. CASE ~(IsExpired(table[k], call[t].now) \/ ~table[k].accessed)
  <2>1. PICK c : c = [call[t] EXCEPT !.todo = call[t].todo \ {k}]
    OBVIOUS
  <2>2. /\ c.state = "visit" /\ c.size = call[t].size /\ c.fresh = call[t].fresh /\ c.toFree = call[t].toFree
    BY <1>1, <2>1 DEF VisitCalls
  <2>3. Become(t, c) /\ table' = [table EXCEPT ![k].accessed = FALSE]
    BY <1>5, <2>1 DEF Visit
  <2>4. PICK record : record = [table[k] EXCEPT !.accessed = FALSE]
    OBVIOUS
  <2>5. record \in Records /\ record.size = table[k].size
    BY <1>2, <2>4 DEF Records
  <2>6. table' = [table EXCEPT ![k] = record] /\ table \in [Keys -> Records \cup {Null}] /\ record # Null
    BY <2>3, <2>4, <2>5, NullAssumption DEF Inv, StateInv
  <2>7. \A q \in Keys : SizeOf(q)' = SizeOf(q)
    BY <1>2, <2>5, <2>6 DEF SizeOf
  <2>8. InFlight(t)' = InFlight(t)
    BY <1>1, <2>2, <2>3 DEF InFlight, Become, Inv, StateInv
  <2> QED
    BY <1>1, <2>2, <2>3, <2>7, <2>8, QuietStep
<1> QED
    BY <1>4, <1>5

\* What was in flight becomes the size of a record.
LEMMA Link_Budget ==
    ASSUME Roomy, Inv, Inv', BudgetInv, UNCHANGED wasRead, NEW t \in Threads, Link(t)
    PROVE  BudgetInv'
<1>1. call[t].state = "link" /\ call[t] \in LinkCalls /\ StateInv /\ StateInv'
    BY CallIn, CallKinds DEF Link, Inv
<1>2. PICK k \in Keys : k = call[t].key
    BY <1>1 DEF LinkCalls
<1>3. PICK record \in Records : record = call[t].record
    BY <1>1 DEF LinkCalls
<1>4. PICK c : c = [state |-> "count",
                    delta |-> IF table[k] = Null THEN record.size + RecordOverhead
                              ELSE record.size - table[k].size]
    OBVIOUS
<1>5. table' = [table EXCEPT ![k] = record] /\ call' = [Refreshed(k) EXCEPT ![t] = c]
    BY <1>2, <1>3, <1>4 DEF Link
<1>6. /\ record # Null /\ record.size \in Nat /\ record.size <= Largest
      /\ RecordOverhead \in Nat /\ Largest \in Nat /\ Cost = Largest + RecordOverhead
    BY NullAssumption, LargestIs DEF Records
<1>7. /\ SizeOf(k)' = record.size + RecordOverhead /\ SizeOf(k)' \in Nat
      /\ \A q \in Keys : q # k => SizeOf(q)' = SizeOf(q)
    BY <1>1, <1>5, <1>6 DEF SizeOf, StateInv
<1>8. Refreshed(k) \in [Threads -> Calls]
    BY <1>1, RefreshedIs
<1>9. /\ call'[t] = c /\ c.state = "count"
      /\ \A u \in Threads : u # t => call'[u] = Refreshed(k)[u] /\ IsRefreshed(call'[u], call[u], k)
    BY <1>1, <1>4, <1>5, <1>8, RefreshedIs
<1>10. c.delta <= Cost /\ -c.delta <= Cost
  <2>1. table[k] # Null => table[k].size \in Nat /\ table[k].size <= Largest
    BY <1>1, LiveRecord, LargestIs DEF Records
  <2> QED
    BY <1>4, <1>6, <2>1
<1>11. DeltaInv'
    BY <1>9, <1>10 DEF BudgetInv, DeltaInv, IsRefreshed
<1>12. ASSUME NEW u \in Threads, u # t
       PROVE  /\ InFlight(u)' = InFlight(u)
              /\ Sweeping(u)' =>
                     /\ Sweeping(u) /\ call'[u].size = call[u].size /\ call'[u].toFree = call[u].toFree
                     /\ \A q \in Keys : q # k => (q \in call'[u].fresh <=> q \in call[u].fresh)
  <2>1. IsRefreshed(call'[u], call[u], k) /\ call'[u] = Refreshed(k)[u] /\ call[u] \in Calls
    BY <1>1, <1>9, <1>12 DEF StateInv
  <2>2. InFlight(u)' = InFlight(u)
    BY <2>1 DEF IsRefreshed, InFlight
  <2>3. ASSUME Sweeping(u)'
        PROVE  Sweeping(u) /\ call'[u].size = call[u].size /\ call'[u].toFree = call[u].toFree
    <3>1. call[u].state \in {"turn", "visit"}
      BY <2>1, <2>3 DEF Sweeping, IsRefreshed
    <3>2. call[u] \in TurnCalls \/ call[u] \in VisitCalls
      BY <2>1, <3>1, CallKinds
    <3>3. call'[u] = [call[u] EXCEPT !.fresh = @ \cup {k}]
      BY <2>1, <3>1 DEF Refreshed
    <3> QED
      BY <3>1, <3>2, <3>3 DEF TurnCalls, VisitCalls, Sweeping
  <2>4. Sweeping(u)' => \A q \in Keys : q # k => (q \in call'[u].fresh <=> q \in call[u].fresh)
    BY <2>1 DEF Sweeping, IsRefreshed
  <2> QED
    BY <2>2, <2>3, <2>4
<1>13. InFlight(t) = record.size + RecordOverhead /\ InFlight(t)' = 0 /\ ~Sweeping(t)'
    BY <1>1, <1>3, <1>9 DEF InFlight, Sweeping
<1>14. Sum(InFlightMap', Threads) = Sum(InFlightMap, Threads) - SizeOf(k)'
  <2>1. \A u \in Threads : InFlightMap[u] = InFlight(u) /\ InFlightMap'[u] = InFlight(u)'
    BY DEF InFlightMap
  <2>2. \A u \in Threads : InFlightMap[u] \in Int
    BY <1>1, <2>1, InFlightIn
  <2>3. InFlightMap'[t] \in Int /\ \A u \in Threads : u # t => InFlightMap'[u] = InFlightMap[u]
    BY <1>12, <1>13, <2>1
  <2>4. SumFunctionOnSet(InFlightMap', Threads)
            = SumFunctionOnSet(InFlightMap, Threads) - InFlightMap[t] + InFlightMap'[t]
    BY <2>2, <2>3, SumChange, CacheAssumption
  <2>5. Sum(InFlightMap, Threads) \in Int
    BY <1>1, AmountsIn
  <2> QED
    BY <1>6, <1>7, <1>13, <2>1, <2>4, <2>5 DEF Sum
<1>15. ASSUME NEW u \in Threads, Sweeping(u)'
       PROVE  /\ Sweeping(u) /\ call'[u].size = call[u].size
              /\ call[u].toFree <= call'[u].toFree + SizeOf(k)
              /\ \A q \in Keys : q # k => (q \in call'[u].fresh <=> q \in call[u].fresh)
  <2>1. u # t
    BY <1>13, <1>15
  <2>2. AmountsAre /\ SizeOf(k) \in Nat
    BY <1>1, AmountsIn, SizesNat DEF AmountsAre
  <2> QED
    BY <1>1, <1>12, <1>15, <2>1, <2>2 DEF AmountsAre
<1> QED
    BY <1>7, <1>11, <1>14, <1>15, OneRecord

-------------------------------------------------------------------------------
(* Finding room.                                                             *)

LEMMA FindsRoom ==
    ASSUME Roomy, Inv, Inv', BudgetInv, UNCHANGED <<table, wasRead>>,
           NEW t \in Threads, NEW c, Become(t, c), c.state = "create", c.size = call[t].size,
           call[t].size \in Sizes, InFlight(t) = 0,
           ~wasRead => /\ Claimed + Need(t) <= Limit
                       /\ \A u \in Threads : u # t /\ Sweeping(u) => Claimed + Need(t) + Need(u) <= Limit
    PROVE  BudgetInv'
<1>1. call'[t] = c /\ \A u \in Threads : u # t => call'[u] = call[u]
    BY DEF Become, Inv, StateInv
<1>2. DeltaInv'
    BY <1>1 DEF BudgetInv, DeltaInv
<1>3. AmountsAre /\ StateInv
    BY AmountsIn DEF AmountsAre, Inv
<1>4. Need(t) \in Nat /\ InFlight(t)' = Need(t)
    BY <1>1, LargestIs DEF Need, InFlight
<1>5. Sum(InFlightMap', Threads) = Sum(InFlightMap, Threads) + Need(t)
  <2>1. \A u \in Threads : InFlightMap[u] = InFlight(u) /\ InFlightMap'[u] = InFlight(u)'
    BY DEF InFlightMap
  <2>2. \A u \in Threads : InFlightMap[u] \in Int
    BY <1>3, <2>1, InFlightIn
  <2>3. InFlightMap'[t] \in Int /\ \A u \in Threads : u # t => InFlightMap'[u] = InFlightMap[u]
    BY <1>1, <1>4, <2>1 DEF InFlight
  <2>4. SumFunctionOnSet(InFlightMap', Threads)
            = SumFunctionOnSet(InFlightMap, Threads) - InFlightMap[t] + InFlightMap'[t]
    BY <2>2, <2>3, SumChange, CacheAssumption
  <2> QED
    BY <1>3, <1>4, <2>1, <2>4 DEF Sum, AmountsAre
<1>6. Sum(SizeMap', Keys) = Sum(SizeMap, Keys)
    BY SizesKept DEF SizeOf
<1>7. Claimed' = Claimed + Need(t)
    BY <1>3, <1>4, <1>5, <1>6, LargestIs DEF Claimed, AmountsAre
<1>8. ASSUME ~wasRead PROVE Claimed' <= Limit /\ FreeingInv'
  <2>1. ASSUME NEW u \in Threads, Sweeping(u)' PROVE Freeing(u)'
    <3>1. u # t /\ call'[u] = call[u] /\ Sweeping(u)
      BY <1>1, <2>1 DEF Sweeping
    <3>2. Claimed + Need(t) + Need(u) <= Limit /\ Need(u)' = Need(u)
      BY <1>8, <3>1 DEF Need
    <3>3. call[u].toFree \in Nat /\ Need(u) \in Nat /\ Claimed \in Int /\ Limit \in Int
      BY <1>3, <3>1, LargestIs DEF AmountsAre
    <3> QED
      BY <1>4, <1>7, <3>1, <3>2, <3>3 DEF Freeing
  <2> QED
    BY <1>7, <1>8, <2>1 DEF FreeingInv
<1> QED
    BY <1>2, <1>8 DEF BudgetInv

\* Only one thread evicts.
LEMMA OneSweeper ==
    ASSUME Inv, NEW t \in Threads, call[t].state \in ClockStates,
           NEW u \in Threads, call[u].state \in ClockStates
    PROVE  u = t
    BY DEF Inv, LockInv, EvictOwner

\* A thread that looks at the counters sees all but what the others have in flight.
LEMMA Looks ==
    ASSUME Roomy, Inv, BudgetInv, ~wasRead,
           NEW t \in Threads, call[t].state \in {"check", "recheck"}
    PROVE  /\ call[t].size \in Sizes /\ InFlight(t) = 0 /\ NumBytesToFree(call[t].size) \in Nat
           /\ Claimed + Need(t) - NumBytesToFree(call[t].size) <= Limit
           /\ Sum(InFlightMap, Threads) <= AllBusy - Cost
           /\ \A u \in Threads : u # t /\ Sweeping(u) =>
                  Claimed + Need(t) - NumBytesToFree(call[t].size) + Need(u) <= Limit
<1>1. call[t].size \in Sizes /\ InFlight(t) = 0 /\ Unreported(t) = 0
  <2>1. call[t] \in PlainCalls
    BY CallIn, CallKinds DEF PlainStates
  <2> QED
    BY <2>1 DEF PlainCalls, InFlight, Unreported
<1>2. StateInv /\ DeltaInv /\ AmountsAre
    BY AmountsIn DEF Inv, BudgetInv, AmountsAre
<1>3. PICK n : n = NumBytesToFree(call[t].size)
    OBVIOUS
<1>4. n \in Nat /\ total + call[t].size - n <= MaxCacheSizeInBytes /\ total \in Int
  <2>1. total \in Int /\ total + Largest < Modulus
    BY <1>1, ClaimedIs, TotalInRange
  <2> QED
    BY <1>1, <1>3, <2>1, EnoughToFree
<1>5. PICK m : m = Sum(UnreportedMap, Threads) + Sum(InFlightMap, Threads)
    OBVIOUS
<1>6. /\ m \in Int /\ m <= AllBusy - Cost /\ Claimed = total + m
      /\ Sum(InFlightMap, Threads) <= AllBusy - Cost
    BY <1>1, <1>2, <1>5, Busy, ClaimedIs, SumSizes DEF AmountsAre
<1>7. /\ call[t].size \in Nat /\ Need(t) = call[t].size + RecordOverhead
      /\ RecordOverhead \in Nat /\ AllBusy \in Nat /\ Cost \in Nat /\ MaxCacheSizeInBytes \in Nat
      /\ Largest \in Nat /\ Cost = Largest + RecordOverhead
      /\ Limit = MaxCacheSizeInBytes - Largest + AllBusy
    BY <1>1, LargestIs DEF Need
<1>8. Claimed + Need(t) - n <= Limit
    BY <1>4, <1>6, <1>7
<1>9. ASSUME NEW u \in Threads, u # t, Sweeping(u) PROVE Claimed + Need(t) - n + Need(u) <= Limit
  <2>1. InFlight(u) = 0 /\ Unreported(u) = 0 /\ Need(u) \in Nat /\ Need(u) <= Cost
    BY <1>2, <1>9, SweepingIn
  <2>2. m <= AllBusy - Cost - Cost
    BY <1>1, <1>2, <1>5, <1>9, <2>1, Busy
  <2> QED
    BY <1>4, <1>6, <1>7, <2>1, <2>2
<1> QED
    BY <1>1, <1>3, <1>4, <1>6, <1>8, <1>9

LEMMA Passes_Budget ==
    ASSUME Roomy, Inv, Inv', BudgetInv, UNCHANGED wasRead, NEW t \in Threads, Check(t) \/ Recheck(t),
           NumBytesToFree(call[t].size) = 0
    PROVE  BudgetInv'
<1>1. call[t].state \in {"check", "recheck"} /\ call[t] \in PlainCalls
    BY CallIn, CallKinds DEF Check, Recheck, PlainStates
<1>2. PICK c : c = [call[t] EXCEPT !.state = "create"]
    OBVIOUS
<1>3. c.state = "create" /\ c.size = call[t].size
    BY <1>1, <1>2 DEF PlainCalls
<1>4. Become(t, c) /\ UNCHANGED table
    BY <1>2 DEF Check, Recheck
<1>5. call[t].size \in Sizes /\ InFlight(t) = 0
    BY <1>1 DEF PlainCalls, InFlight
<1>6. ASSUME ~wasRead
      PROVE  /\ Claimed + Need(t) <= Limit
             /\ \A u \in Threads : u # t /\ Sweeping(u) => Claimed + Need(t) + Need(u) <= Limit
  <2>1. Claimed \in Int /\ Need(t) \in Nat
    BY <1>5, AmountsIn, LargestIs DEF Inv, Need
  <2>2. Claimed + Need(t) - 0 = Claimed + Need(t)
    BY <2>1
  <2> QED
    BY <1>1, <1>6, <2>2, Looks
<1> QED
    BY <1>3, <1>4, <1>5, <1>6, FindsRoom

LEMMA Check_Budget ==
    ASSUME Roomy, Inv, Inv', BudgetInv, UNCHANGED wasRead, NEW t \in Threads, Check(t)
    PROVE  BudgetInv'
<1>1. CASE NumBytesToFree(call[t].size) = 0
    BY <1>1, Passes_Budget
<1>2. CASE NumBytesToFree(call[t].size) # 0
  <2>1. call[t].state = "check" /\ call[t] \in PlainCalls
    BY CallIn, CallKinds DEF Check, PlainStates
  <2>2. PICK c : c = [call[t] EXCEPT !.state = "lockEvict"]
    OBVIOUS
  <2>3. Become(t, c) /\ c.state = "lockEvict" /\ UNCHANGED table
    BY <1>2, <2>1, <2>2 DEF Check, PlainCalls
  <2>4. InFlight(t)' = InFlight(t)
    BY <2>1, <2>3 DEF InFlight, Become, Inv, StateInv
  <2>5. \A k \in Keys : SizeOf(k)' = SizeOf(k)
    BY <2>3 DEF SizeOf
  <2> QED
    BY <2>3, <2>4, <2>5, QuietStep
<1> QED
    BY <1>1, <1>2

\* An eviction begins with all to free that is too much, and with nothing fresh.
LEMMA Recheck_Budget ==
    ASSUME Roomy, Inv, Inv', BudgetInv, UNCHANGED wasRead, NEW t \in Threads, Recheck(t)
    PROVE  BudgetInv'
<1>1. CASE NumBytesToFree(call[t].size) = 0
    BY <1>1, Passes_Budget
<1>2. CASE NumBytesToFree(call[t].size) # 0
  <2>1. PICK n : n = NumBytesToFree(call[t].size)
    OBVIOUS
  <2>2. PICK c : c = [state |-> "turn", key |-> call[t].key, size |-> call[t].size,
                      now |-> clock, toFree |-> n, iterations |-> NumIterations, fresh |-> {}]
    OBVIOUS
  <2>3. call[t].state = "recheck" /\ Become(t, c) /\ UNCHANGED table
    BY <1>2, <2>1, <2>2 DEF Recheck
  <2>4. c.state = "turn" /\ c.size = call[t].size /\ c.toFree = n /\ c.fresh = {}
    BY <2>2
  <2>5. call'[t] = c /\ \A u \in Threads : u # t => call'[u] = call[u]
    BY <2>3 DEF Become, Inv, StateInv
  <2>6. DeltaInv'
    BY <2>4, <2>5 DEF BudgetInv, DeltaInv
  <2>7. Sum(SizeMap', Keys) = Sum(SizeMap, Keys)
    BY <2>3, SizesKept DEF SizeOf
  <2>8. ASSUME NEW u \in Threads PROVE InFlight(u)' = InFlight(u)
    BY <2>3, <2>4, <2>5 DEF InFlight
  <2>9. InFlightMap' = InFlightMap
    BY <2>8 DEF InFlightMap
  <2>10. Claimed' = Claimed
    BY <2>7, <2>9 DEF Claimed
  <2>11. ASSUME ~wasRead PROVE Claimed' <= Limit /\ FreeingInv'
    <3>1. /\ Claimed + Need(t) - n <= Limit /\ Sum(InFlightMap, Threads) <= AllBusy - Cost
      BY <2>1, <2>3, <2>11, Looks
    <3>2. Sum(FreshMap(t)', Keys) = 0
      <4>1. \A k \in Keys : FreshMap(t)'[k] = 0
        BY <2>4, <2>5 DEF FreshMap
      <4> QED
        BY <4>1, SumZero, CacheAssumption DEF Sum
    <3>3. FreshClaimed(t)' = Sum(InFlightMap, Threads)
      BY <2>9, <3>2, AmountsIn DEF FreshClaimed, Inv
    <3>4. Freeing(t)'
      BY <2>4, <2>5, <2>10, <3>1, <3>3 DEF Freeing, Need
    <3>5. ASSUME NEW u \in Threads, Sweeping(u)' PROVE u = t
      <4>1. u # t => call'[u] = call[u] /\ call[u].state \in ClockStates
        BY <2>5, <3>5 DEF Sweeping, ClockStates
      <4> QED
        BY <2>3, <4>1, OneSweeper DEF ClockStates
    <3>6. Claimed' <= Limit
      BY <2>10, <2>11 DEF BudgetInv
    <3> QED
      BY <3>4, <3>5, <3>6 DEF FreeingInv
  <2> QED
    BY <2>6, <2>11 DEF BudgetInv
<1> QED
    BY <1>1, <1>2

\* An eviction ends with room for its record, or with only records left that
\* had room beside what others have in flight.
LEMMA EndEvict_Budget ==
    ASSUME Roomy, Inv, Inv', BudgetInv, UNCHANGED wasRead, NEW t \in Threads, EndEvict(t)
    PROVE  BudgetInv'
<1>1. call[t].state = "turn" /\ IsDone(t) /\ Sweeping(t) /\ UNCHANGED table
    BY DEF EndEvict, Sweeping
<1>2. PICK c : c = [state |-> "create", key |-> call[t].key, size |-> call[t].size]
    OBVIOUS
<1>3. c.state = "create" /\ c.size = call[t].size /\ Become(t, c)
    BY <1>2 DEF EndEvict
<1>4. /\ call[t].size \in Sizes /\ call[t].toFree \in Nat /\ Need(t) \in Nat /\ Need(t) <= Cost
      /\ InFlight(t) = 0
    BY <1>1, SweepingIn DEF Inv
<1>5. \A u \in Threads : ~(u # t /\ Sweeping(u))
    BY <1>1, OneSweeper DEF Sweeping, ClockStates
<1>6. ASSUME ~wasRead PROVE Claimed + Need(t) <= Limit
  <2>1. Freeing(t)
    BY <1>1, <1>6 DEF BudgetInv, FreeingInv
  <2>2. Claimed \in Int /\ FreshClaimed(t) \in Int /\ Sum(InFlightMap, Threads) \in Int /\ Sum(SizeMap, Keys) \in Int
    BY AmountsIn DEF Inv
  <2>3. CASE call[t].toFree = 0
    BY <2>1, <2>2, <2>3, <1>4 DEF Freeing
  <2>4. CASE call[t].toFree # 0
    <3>1. \A k \in Keys : table[k] # Null => k \in call[t].fresh
      BY <1>1, <1>4, <2>4, LeftIsFresh DEF IsDone, GivesUpOnlyOnFresh
    <3>2. FreshMap(t) = SizeMap
      BY <3>1 DEF FreshMap, SizeMap, SizeOf
    <3>3. Claimed = IndexSize + FreshClaimed(t)
      BY <2>2, <3>2, LargestIs DEF Claimed, FreshClaimed
    <3>4. Claimed + Need(t) <= Limit \/ FreshClaimed(t) <= AllBusy - Cost
      BY <2>1 DEF Freeing
    <3> QED
      BY <1>4, <2>2, <3>3, <3>4, LargestIs
  <2> QED
    BY <2>3, <2>4
<1> QED
    BY <1>1, <1>3, <1>4, <1>5, <1>6, FindsRoom

-------------------------------------------------------------------------------
LEMMA SetAccessed_Budget ==
    ASSUME Inv, BudgetInv, NEW r \in Readers, SetAccessed(r)
    PROVE  BudgetInv'
<1>1. PICK k \in Keys : k = reader[r]
    BY DEF SetAccessed, Inv, StateInv
<1>2. call' = Refreshed(k) /\ wasRead' = TRUE
    BY <1>1 DEF SetAccessed
<1>3. \A t \in Threads : IsRefreshed(call'[t], call[t], k)
    BY <1>2, RefreshedIs DEF Inv
<1>4. DeltaInv'
    BY <1>3 DEF BudgetInv, DeltaInv, IsRefreshed
<1> QED
    BY <1>2, <1>4 DEF BudgetInv

LEMMA Init_Budget == ASSUME Roomy, Init PROVE BudgetInv
<1>1. \A t \in Threads : call[t].state = "idle"
    BY DEF Init, Idle
<1>2. DeltaInv /\ FreeingInv
    BY <1>1 DEF DeltaInv, FreeingInv, Sweeping
<1>3. Sum(SizeMap, Keys) = 0
  <2>1. \A k \in Keys : SizeMap[k] = 0
    BY DEF Init, SizeMap, SizeOf
  <2> QED
    BY <2>1, SumZero, CacheAssumption DEF Sum
<1>4. Sum(InFlightMap, Threads) = 0
  <2>1. \A t \in Threads : InFlightMap[t] = 0
    BY <1>1 DEF InFlightMap, InFlight
  <2> QED
    BY <2>1, SumZero, CacheAssumption DEF Sum
<1>5. Claimed <= Limit
    BY <1>3, <1>4, LargestIs DEF Claimed
<1> QED
    BY <1>2, <1>5 DEF BudgetInv

LEMMA Next_Budget == ASSUME Roomy, Inv, Inv', BudgetInv, [Next]_vars PROVE BudgetInv'
<1>1. ASSUME UNCHANGED <<table, call, wasRead>> PROVE BudgetInv'
  <2>1. \A k \in Keys : SizeOf(k)' = SizeOf(k)
    BY <1>1 DEF SizeOf
  <2>2. \A t \in Threads : InFlight(t)' = InFlight(t) /\ (Sweeping(t)' => Sweeping(t))
    BY <1>1 DEF InFlight, Sweeping
  <2> QED
    BY <1>1, <2>1, <2>2, Quiet
<1>2. ASSUME NEW t \in Threads, Add(t), UNCHANGED wasRead PROVE BudgetInv'
  <2>1. CASE EvictBasedOnTime(t)
    BY <1>2, <2>1, Quiet_Budget, Expire_Budget DEF EvictBasedOnTime
  <2>2. CASE Evict(t)
    BY <1>2, <2>2, Check_Budget, Recheck_Budget, EndEvict_Budget, Quiet_Budget, Visit_Budget DEF Evict
  <2> QED
    BY <1>2, <2>1, <2>2, Quiet_Budget, Link_Budget DEF Add
<1>3. ASSUME NEW r \in Readers, GetInternal(r) PROVE BudgetInv'
    BY <1>1, <1>3, SetAccessed_Budget DEF GetInternal, BeginGet
<1>4. CASE UNCHANGED vars
    BY <1>1, <1>4 DEF vars
<1>5. CASE Tick /\ UNCHANGED wasRead
    BY <1>1, <1>5 DEF Tick
<1> QED
    BY <1>2, <1>3, <1>4, <1>5, Remove_Budget DEF Next

-------------------------------------------------------------------------------
\* Calls, mutexes and the hand are what Add(), Evict() and EvictBasedOnTime()
\* of Cache/HashTable.h make of them: m_evictMutex and the mutex of a bucket are
\* owned by who is inside, and what is left to visit of a bucket is there.
THEOREM TypeCorrectness == Spec => []TypeOK
<1>1. Inv => TypeOK
  <2> SUFFICES ASSUME Inv PROVE TypeOK
    OBVIOUS
  <2>1. ASSUME NEW t \in Threads
        PROVE  /\ call[t].state \in States
               /\ evictMutex = t <=> call[t].state \in ClockStates
               /\ \A m \in Mutexes :
                      bucketMutex[m] = t
                          <=> call[t].state \in {"expire", "visit"} /\ MutexOf(call[t].bucket) = m
               /\ call[t].state \in {"expire", "visit"} => call[t].todo \subseteq RecordsIn(call[t].bucket)
    <3>1. call[t].state \in States
      BY CallIn, CallKinds
    <3>2. EvictOwner(t) /\ BucketOwner(t) /\ TodoThere(t)
      BY DEF Inv, LockInv
    <3>3. InBucket(t) => call[t].todo \subseteq Keys
      BY TodoIn
    <3> QED
      BY <3>1, <3>2, <3>3 DEF EvictOwner, BucketOwner, TodoThere, InBucket, RecordsIn
  <2> QED
    BY <2>1 DEF Inv, StateInv, TypeOK, TimeOf
<1> QED
    BY <1>1, Invariance, PTL

\* The counters of the cache differ from its records by what calls of Add() have
\* changed and not yet reported (UpdatePerfDataForAdd() runs after the unlock).
THEOREM BoundedLag == Spec => []CountersLagByCalls
<1>1. Inv => CountersLagByCalls
    BY DEF Inv
<1> QED
    BY <1>1, Invariance, PTL

\* Two turns of the hand are enough: Evict() gives up with bytes still to free
\* only if each record left was added or read while it was at work.
THEOREM TwoTurnsSuffice == Spec => []GivesUpOnlyOnFresh
<1>1. Inv => GivesUpOnlyOnFresh
    BY LeftIsFresh
<1> QED
    BY <1>1, Invariance, PTL

\* A cache that was not read exceeds its limit by no more than what the other
\* threads had in flight when each found room for its own record, and the
\* overhead that CalculateNumBytesToFree() is not told of.
THEOREM BoundedOvershoot ==
    ASSUME Roomy
    PROVE  Spec => []OvershootIsBounded
<1>1. Inv /\ BudgetInv => OvershootIsBounded
  <2> SUFFICES ASSUME Inv, BudgetInv, ~wasRead
               PROVE  DataSize <= MaxCacheSizeInBytes + (Cardinality(Threads) - 1) * Max(Sizes)
                                      + Cardinality(Threads) * RecordOverhead
    BY DEF OvershootIsBounded
  <2>1. /\ DataSize = IndexSize + Sum(SizeMap, Keys)
        /\ Claimed = DataSize + Sum(InFlightMap, Threads) /\ Claimed <= Limit
    BY DEF DataSize, SumFunction, Sum, SizeMap, Claimed, BudgetInv
  <2>2. 0 <= Sum(InFlightMap, Threads) /\ Sum(InFlightMap, Threads) \in Int /\ DataSize \in Int
    BY <2>1, InFlightCounts, AmountsIn, LargestIs DEF Inv
  <2>3. DataSize <= Limit
    BY <2>1, <2>2, LargestIs
  <2>4. PICK n : n = Cardinality(Threads)
    OBVIOUS
  <2>5. n \in Nat /\ Largest \in Nat /\ RecordOverhead \in Nat /\ MaxCacheSizeInBytes \in Nat
        /\ Limit = MaxCacheSizeInBytes - Largest + n * (Largest + RecordOverhead)
    BY <2>4, CacheAssumption, FS_CardinalityType, LargestIs
  <2>6. Limit = MaxCacheSizeInBytes + (n - 1) * Largest + n * RecordOverhead
    BY <2>5
  <2> QED
    BY <2>3, <2>4, <2>6 DEF Largest
<1>2. Init => BudgetInv
    BY Init_Budget
<1>3. Inv /\ Inv' /\ BudgetInv /\ [Next]_vars => BudgetInv'
    BY Next_Budget
<1> QED
    BY <1>1, <1>2, <1>3, Invariance, PTL DEF Spec
===============================================================================

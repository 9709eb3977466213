---------------------------- MODULE TableIterator -----------------------------
(***************************************************************************)
(* The iterators of the hash tables, which walk all buckets without a lock *)
(* while writers add and remove records: the one of the read/write table   *)
(* (inc/L4/HashTable/ReadWrite/HashTable.h:113), and the one of the cache  *)
(* (inc/L4/HashTable/Cache/HashTable.h:91), which passes over records that *)
(* have expired at the time it was made.                                   *)
(*                                                                         *)
(* A bucket is the sequence of the places of its chain, DataPerEntry per   *)
(* entry.  A writer changes one place in a step: the iterator reads no     *)
(* tags, and an entry that is linked but empty looks to it like none.      *)
(***************************************************************************)
EXTENDS Integers, Sequences, FiniteSets

CONSTANTS
    Keys,
    Values,        \* of a cache: a value and its metadata
    Expired,       \* values of a cache that are expired for the iterator
    Bucket,        \* the index of the bucket of each key
    NumBuckets,
    DataPerEntry,  \* Entry::c_numDataPerEntry
    MaxEntries,    \* bound: no chain grows beyond it
    Null

ASSUME IteratorAssumption ==
    /\ {NumBuckets, DataPerEntry, MaxEntries} \subseteq Nat \ {0}
    /\ Bucket \in [Keys -> 0 .. NumBuckets - 1]
    /\ Expired \subseteq Values
    /\ Null \notin [key : Keys, value : Values]

VARIABLES
    isCache,  \* whether the table is a cache
    table,    \* m_buckets
    it,       \* the iterator
    touched,  \* the keys added anew or removed since its start (history)
    returned  \* how often it has stopped at each key (history)

iteratorVars == <<isCache, table, it, touched, returned>>

Buckets == 0 .. NumBuckets - 1
Records == [key : Keys, value : Values]
Entry == [i \in 1 .. DataPerEntry |-> Null]

EmptyTable == [b \in Buckets |-> Entry]

\* What a table has, as a set of records.
Contents(t) == {r \in Records : \E i \in DOMAIN t[Bucket[r.key]] : t[Bucket[r.key]][i] = r}

KeysOf(t) == {r.key : r \in Contents(t)}

\* Metadata::IsExpired() at m_currentEpochTime.
IsExpired(record) == record.value \in Expired

\* The keys that the iterator is to return.
LiveKeys(t) == {r.key : r \in {s \in Contents(t) : ~IsExpired(s)}}

\* Where the iterator is before the first MoveNext().
AtStart == [state |-> "start", bucket |-> -1, entry |-> 0, index |-> 0, record |-> Null]

IsEnd == it.bucket = NumBuckets

\* Whether GetKey() and GetValue() give an answer.  A null pointer is entry 0.
IsValid == ~IsEnd /\ it.entry # 0 /\ it.record # Null

IteratorTypeOK ==
    /\ isCache \in BOOLEAN
    /\ \A b \in Buckets :
           /\ Len(table[b]) \in {n * DataPerEntry : n \in 1 .. MaxEntries}
           /\ \A i \in DOMAIN table[b] : table[b][i] \in Records \cup {Null}
    /\ it \in [state : {"start", "advance", "load", "valid", "end"}, bucket : -1 .. NumBuckets,
               entry : 0 .. MaxEntries, index : 0 .. DataPerEntry - 1, record : Records \cup {Null}]
    /\ it.state = "valid" => IsValid
    /\ it.state \in {"start", "end"} => ~IsValid
    /\ touched \subseteq Keys
    /\ returned \in [Keys -> Nat]

IteratorInit ==
    /\ isCache \in BOOLEAN
    /\ table = EmptyTable
    /\ it = AtStart
    /\ touched = {}
    /\ returned = [k \in Keys |-> 0]

-------------------------------------------------------------------------------
(* Writers.                                                                  *)

First(P) == CHOOSE p \in P : \A q \in P : p <= q

\* The place for a record with key k: the one that has the key, or else the
\* first empty one, or else the first of a new entry.
PlaceFor(chain, k) ==
    LET mine  == {i \in DOMAIN chain : chain[i] # Null /\ chain[i].key = k}
        empty == {i \in DOMAIN chain : chain[i] = Null}
    IN  IF mine # {} THEN First(mine)
        ELSE IF empty # {} THEN First(empty)
        ELSE Len(chain) + 1

Put(chain, record) ==
    LET p == PlaceFor(chain, record.key)
    IN  IF p \in DOMAIN chain THEN [chain EXCEPT ![p] = record]
        ELSE chain \o [Entry EXCEPT ![1] = record]

\* The history of a key that comes or goes while the iterator is on its way.
Touch(k) == touched' = IF it.state = "start" THEN touched ELSE touched \cup {k}

\* What is added while the iterator is on its way is newer than its time.
Add(record) ==
    LET b == Bucket[record.key]
    IN  /\ IsExpired(record) => isCache /\ it.state = "start"
        /\ Len(Put(table[b], record)) <= MaxEntries * DataPerEntry
        /\ table' = [table EXCEPT ![b] = Put(@, record)]
        /\ IF record.key \in LiveKeys(table) THEN UNCHANGED touched ELSE Touch(record.key)
        /\ UNCHANGED <<isCache, it, returned>>

Remove(k) ==
    LET b == Bucket[k]
    IN  /\ k \in KeysOf(table)
        /\ table' = [table EXCEPT ![b] = [@ EXCEPT ![PlaceFor(@, k)] = Null]]
        /\ Touch(k)
        /\ UNCHANGED <<isCache, it, returned>>

-------------------------------------------------------------------------------
(* MoveNext(): a load of a pointer is a step.                                *)

BeginMoveNext ==
    /\ it.state \in {"start", "valid"}
    /\ it' = [it EXCEPT !.state = IF it.entry # 0 THEN "advance" ELSE "load"]
    /\ UNCHANGED <<isCache, table, touched, returned>>

NextIndex == IF it.index + 1 >= DataPerEntry THEN 0 ELSE it.index + 1

\* MoveToNextData(), which loads m_next behind the last place of an entry.
MoveToNextData ==
    /\ it.state = "advance"
    /\ it' = [it EXCEPT !.state = "load", !.index = NextIndex,
                        !.entry = IF NextIndex # 0 THEN @
                                  ELSE IF it.entry * DataPerEntry < Len(table[it.bucket])
                                  THEN it.entry + 1 ELSE 0]
    /\ UNCHANGED <<isCache, table, touched, returned>>

\* Behind the end of a chain the next bucket follows.
NextBucket ==
    /\ it.state = "load"
    /\ it.entry = 0
    /\ LET b == it.bucket + 1
       IN  it' = [it EXCEPT !.bucket = b, !.index = 0,
                            !.entry = IF b = NumBuckets THEN 0 ELSE 1,
                            !.state = IF b = NumBuckets THEN "end" ELSE "load"]
    /\ UNCHANGED <<isCache, table, touched, returned>>

Here == table[it.bucket][(it.entry - 1) * DataPerEntry + it.index + 1]

Stop(record) ==
    /\ it' = [it EXCEPT !.state = "valid", !.record = record]
    /\ returned' = [returned EXCEPT ![record.key] = @ + 1]

\* Mistake: an empty place is taken for the end of the chain.
LoadRecord_StopsAtHole ==
    /\ it.state = "load"
    /\ it.entry # 0
    /\ IF Here # Null THEN Stop(Here)
       ELSE it' = [it EXCEPT !.entry = 0, !.record = Null] /\ UNCHANGED returned
    /\ UNCHANGED <<isCache, table, touched>>

\* The iterator of a cache calls MoveNext() again for an expired record.
LoadRecord ==
    /\ it.state = "load"
    /\ it.entry # 0
    /\ IF Here # Null /\ ~IsExpired(Here) THEN Stop(Here)
       ELSE it' = [it EXCEPT !.state = "advance", !.record = Here] /\ UNCHANGED returned
    /\ UNCHANGED <<isCache, table, touched>>

\* Reset() keeps m_currentRecord, which no one can get at any more.
Reset ==
    /\ it.state \in {"valid", "end"}
    /\ it' = [AtStart EXCEPT !.record = it.record]
    /\ touched' = {}
    /\ returned' = [k \in Keys |-> 0]
    /\ UNCHANGED <<isCache, table>>

MoveNext == BeginMoveNext \/ MoveToNextData \/ NextBucket \/ LoadRecord

Write == (\E r \in Records : Add(r)) \/ \E k \in Keys : Remove(k)

IteratorNext == Write \/ MoveNext \/ Reset

IteratorSpec == IteratorInit /\ [][IteratorNext]_iteratorVars

-------------------------------------------------------------------------------
\* A key that is neither added anew nor removed while the iterator walks is
\* returned once if it is there and not expired, even if its value is replaced,
\* and not otherwise; this needs places never to move and chains never to shrink.
StableKeysOnce ==
    \A k \in Keys \ touched :
        /\ returned[k] <= IF k \in LiveKeys(table) THEN 1 ELSE 0
        /\ it.state = "end" /\ k \in LiveKeys(table) => returned[k] = 1
===============================================================================

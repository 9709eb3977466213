----------------------------- MODULE PerfCounter ------------------------------
(***************************************************************************)
(* The counters of a table (inc/L4/Log/PerfCounter.h) and what is done to  *)
(* one of them in a single atomic instruction.  Module PerfCounters is     *)
(* about Min() and Max(), which are loops.                                 *)
(***************************************************************************)
EXTENDS Integers

HashTablePerfCounter ==
    {"RecordsCount", "BucketsCount", "TotalKeySize", "TotalValueSize", "TotalIndexSize",
     "ChainingEntriesCount", "MinKeySize", "MaxKeySize", "MinValueSize", "MaxValueSize",
     "MaxBucketChainLength", "RecordsCountLoadedFromSerializer",
     "RecordsCountSavedFromSerializer", "CacheHitCount", "CacheMissCount", "EvictedRecordsCount"}

Minima == {"MinKeySize", "MinValueSize"}
Maxima == {"MaxKeySize", "MaxValueSize", "MaxBucketChainLength"}

\* Of a new table; maxValue is numeric_limits<TValue>::max().  A bucket has its
\* first entry from the start.
InitialValue(counter, maxValue) ==
    CASE counter \in Minima -> maxValue
      [] counter = "MaxBucketChainLength" -> 1
      [] OTHER -> 0

Set(perfData, counter, value) == [perfData EXCEPT ![counter] = value]
Add(perfData, counter, value) == [perfData EXCEPT ![counter] = @ + value]
Subtract(perfData, counter, value) == [perfData EXCEPT ![counter] = @ - value]
Increment(perfData, counter) == Add(perfData, counter, 1)
Decrement(perfData, counter) == Subtract(perfData, counter, 1)

\* What a whole call of Max() does, if no other comes in between.
RaiseTo(perfData, counter, value) ==
    [perfData EXCEPT ![counter] = IF @ > value THEN @ ELSE value]

===============================================================================

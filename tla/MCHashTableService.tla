-------------------------- MODULE MCHashTableService --------------------------
(* Instances of HashTableService for TLC. *)
EXTENDS HashTableService

\* "table" and "TABLE" are one name.
MCNames == {"table", "TABLE", "cache"}
MCUpperCase == [n \in MCNames |-> IF n = "cache" THEN n ELSE "TABLE"]

Setting(perMutex) ==
    [numBuckets |-> 4, numBucketsPerMutex |-> perMutex, fixedKeySize |-> Null, fixedValueSize |-> 8]
Config(name, cache, serializer, setting) ==
    [name |-> name, cache |-> cache, serializer |-> serializer, setting |-> setting]

\* A new table, and one of nearly the same name to be loaded, whose own setting
\* has no bucket; a cache, and one that would have to be loaded.
MCConfigs ==
    {Config("table", FALSE, "none", Setting(0)),
     Config("TABLE", FALSE, "stream", [Setting(Null) EXCEPT !.numBuckets = 0]),
     Config("cache", TRUE, "none", Setting(Null)),
     Config("cache", TRUE, "noStream", Setting(2))}

MCStreamSetting ==
    [numBuckets |-> 8, numBucketsPerMutex |-> 1, fixedKeySize |-> 0, fixedValueSize |-> 0]
===============================================================================

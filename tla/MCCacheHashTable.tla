-------------------------- MODULE MCCacheHashTable ----------------------------
(* Instances of CacheHashTable for TLC. *)
EXTENDS CacheHashTable, TLC

CONSTANTS k1, k2, k3

\* Two keys share a bucket, and the third has a bucket with the same mutex.
MCBucket == k1 :> 0 @@ k2 :> 0 @@ k3 :> 2

\* What OvershootIsBounded needs.
ASSUME RoomyAssumption == Roomy

Symmetry == Permutations(Threads) \cup Permutations({k1, k2})
===============================================================================

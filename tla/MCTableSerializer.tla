-------------------------- MODULE MCTableSerializer ---------------------------
(* An instance of TableIterator and TableSerializer for TLC. *)
EXTENDS TableSerializer, TLC

CONSTANTS k1, k2, k3, k4

\* Three keys share a bucket of two entries, one has a bucket of its own.
MCBucket == k1 :> 0 @@ k2 :> 0 @@ k3 :> 0 @@ k4 :> 1

\* k1 is the key of size 0.
Symmetry == Permutations({k2, k3})
===============================================================================

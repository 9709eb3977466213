------------------------ MODULE MCReadWriteHashTable --------------------------
(* Instances of ReadWriteHashTable for TLC, with keys that the hash makes   *)
(* collide.                                                                 *)
EXTENDS ReadWriteHashTable, TLC, Sequences

CONSTANTS k1, k2, k3

Hash == INSTANCE MurmurHash3

MCBytes == k1 :> <<34>> @@ k2 :> <<36>> @@ k3 :> <<123, 2>>
MCTag == k1 :> 197 @@ k2 :> 197 @@ k3 :> 0
MCKeySize == [k \in Keys |-> Len(MCBytes[k])]

\* The three keys are in one bucket of two; two of them have one tag, and one
\* has the tag of an empty place.
ASSUME CollidingKeys ==
    \A k \in {k1, k2, k3} :
        /\ MCTag[k] = Hash!TagOf(MCBytes[k])
        /\ Hash!BucketIndex(MCBytes[k], 2) = 0

\* The published digests of "hello" and of a text of two blocks and a tail; and
\* those of "hello" that the functions no table uses compute (with seed 7 for the
\* second one).
ASSUME KnownDigests ==
    /\ Hash!MurmurHash3_x86_32(<<104, 101, 108, 108, 111>>, 0) = <<71, 250, 139, 36>>
    /\ Hash!MurmurHash3_x86_128(<<104, 101, 108, 108, 111>>, 7)
           = << <<123, 176, 217, 110>>, <<190, 25, 172, 131>>, <<43, 132, 144, 21>>, <<43, 132, 144, 21>> >>
    /\ Hash!MurmurHash3_x64_128(<<104, 101, 108, 108, 111>>, 0)
           = << <<2, 155, 189, 65, 179, 167, 216, 203>>, <<25, 29, 174, 72, 106, 144, 30, 91>> >>
    /\ Hash!MurmurHash3_x64_128(
           <<84, 104, 101, 32, 113, 117, 105, 99, 107, 32, 98, 114, 111, 119, 110, 32, 102, 111, 120,
             32, 106, 117, 109, 112, 115, 32, 111, 118, 101, 114, 32, 116, 104, 101, 32, 108, 97, 122,
             121, 32, 100, 111, 103>>, 0)
           = << <<108, 27, 7, 188, 123, 188, 75, 227>>, <<71, 147, 154, 196, 169, 60, 67, 122>> >>

\* Writers are alike, and so are the two keys with one tag.
Symmetry == Permutations(Writers) \cup Permutations({k1, k2})
===============================================================================

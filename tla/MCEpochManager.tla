---------------------------- MODULE MCEpochManager ----------------------------
(* Instances of EpochManager for TLC. *)
EXTENDS EpochManager, TLC

\* Contexts, writers and records are interchangeable.
Symmetry == Permutations(Contexts) \cup Permutations(Writers) \cup Permutations(Records)

-------------------------------------------------------------------------------
\* What the code relies on in module Math, for small numbers.
ASSUME PowersOfTwo ==
    /\ \A n \in 1 .. 300 :
           LET p == NextHighestPowerOfTwo(n)
           IN  p >= n /\ IsPowerOfTwo(p) /\ \A m \in n .. p - 1 : ~IsPowerOfTwo(m)
    /\ NextHighestPowerOfTwo(0) = 0 /\ ~IsPowerOfTwo(0)

ASSUME Multiples ==
    \A n \in 0 .. 20, b \in 1 .. 9 :
        /\ RoundUp(n, b) \in n .. n + b - 1 /\ RoundUp(n, b) % b = 0
        /\ RoundDown(n, b) \in n - b + 1 .. n /\ RoundDown(n, b) % b = 0
===============================================================================

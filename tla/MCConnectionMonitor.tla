------------------------- MODULE MCConnectionMonitor --------------------------
(* Instances of ConnectionMonitor for TLC. *)
EXTENDS ConnectionMonitor, TLC

Symmetry == Permutations(Clients) \cup Permutations(EndPoints) \cup Permutations(Registrations)
===============================================================================

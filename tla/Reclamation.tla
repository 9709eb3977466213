----------------------------- MODULE Reclamation ------------------------------
(***************************************************************************)
(* What epoch based reclamation promises to the hash tables, without       *)
(* epochs: a record that was unlinked from its table is freed only when no *)
(* context has a pointer to it any more, and only a linked record can be   *)
(* found.  Module EpochManager implements this specification.              *)
(***************************************************************************)
CONSTANTS Contexts, Records

VARIABLES
    recordState,  \* "free", "linked" in a table, or "unlinked" from it
    pointers      \* the records each context has found and can still read

vars == <<recordState, pointers>>

Init ==
    /\ recordState = [r \in Records |-> "free"]
    /\ pointers = [c \in Contexts |-> {}]

SetState(r, from, to) ==
    /\ recordState[r] = from
    /\ recordState' = [recordState EXCEPT ![r] = to]
    /\ UNCHANGED pointers

Link(r) == SetState(r, "free", "linked")

Unlink(r) == SetState(r, "linked", "unlinked")

\* The memory of r is free for other uses.
Reclaim(r) ==
    /\ \A c \in Contexts : r \notin pointers[c]
    /\ SetState(r, "unlinked", "free")

Find(c, r) ==
    /\ recordState[r] = "linked"
    /\ pointers' = [pointers EXCEPT ![c] = @ \cup {r}]
    /\ UNCHANGED recordState

\* A context hands its pointers over to one that has none.
HandOver(c, d) ==
    /\ pointers[d] = {}
    /\ pointers' = [pointers EXCEPT ![d] = pointers[c], ![c] = {}]
    /\ UNCHANGED recordState

Forget(c) ==
    /\ pointers' = [pointers EXCEPT ![c] = {}]
    /\ UNCHANGED recordState

Next ==
    \/ \E r \in Records : Link(r) \/ Unlink(r) \/ Reclaim(r)
    \/ \E c \in Contexts :
           \/ Forget(c)
           \/ \E r \in Records : Find(c, r)
           \/ \E d \in Contexts : HandOver(c, d)

Spec == Init /\ [][Next]_vars
===============================================================================

----------------------------- MODULE KeyValueMap ------------------------------
(***************************************************************************)
(* What a hash table promises to its readers: a map from keys to values    *)
(* that writers change, and a Get() that returns what the map had for the  *)
(* key at some moment between its call and its return, or a value that a   *)
(* writer had by then begun to add.  The second case makes the promise     *)
(* weaker than linearizability: of two calls one after the other, the      *)
(* first may return a new value and the second still miss it.              *)
(***************************************************************************)
CONSTANTS Keys, Values, Readers, Null

VARIABLES
    map,     \* the value of each key, or Null
    coming,  \* the value that a writer has begun to add to each key, or Null
    get      \* the call each reader is in: the values it may return for its
             \* key, or the one it returns

vars == <<map, coming, get>>

NoCall == [state |-> "none"]

Call(k, seen) == [state |-> "called", key |-> k, seen |-> seen]

Return(v) == [state |-> "returned", value |-> v]

Init ==
    /\ map = [k \in Keys |-> Null]
    /\ coming = [k \in Keys |-> Null]
    /\ get = [r \in Readers |-> NoCall]

\* Every pending call on k may from now on return v.
Show(k, v) ==
    get' = [r \in Readers |->
              IF get[r].state = "called" /\ get[r].key = k
              THEN Call(k, get[r].seen \cup {v})
              ELSE get[r]]

\* Add() of a key that is not there: its value is on its way.
Offer(k, v) ==
    /\ map[k] = Null
    /\ coming[k] = Null
    /\ coming' = [coming EXCEPT ![k] = v]
    /\ Show(k, v)
    /\ UNCHANGED map

\* Add() and Remove() take effect.  What is on its way to k is what arrives.
Set(k, v) ==
    /\ coming[k] \in {Null, v}
    /\ map' = [map EXCEPT ![k] = v]
    /\ coming' = [coming EXCEPT ![k] = Null]
    /\ Show(k, v)

\* A call that begins now does not see what is only on its way.
BeginGet(r, k) ==
    /\ get[r].state # "called"
    /\ get' = [get EXCEPT ![r] = Call(k, {map[k]})]
    /\ UNCHANGED <<map, coming>>

EndGet(r) ==
    /\ get[r].state = "called"
    /\ \E v \in get[r].seen : get' = [get EXCEPT ![r] = Return(v)]
    /\ UNCHANGED <<map, coming>>

Next ==
    \/ \E k \in Keys, v \in Values : Offer(k, v)
    \/ \E k \in Keys, v \in Values \cup {Null} : Set(k, v)
    \/ \E r \in Readers : EndGet(r) \/ \E k \in Keys : BeginGet(r, k)

Spec == Init /\ [][Next]_vars
===============================================================================

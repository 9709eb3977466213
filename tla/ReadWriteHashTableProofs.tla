----------------------- MODULE ReadWriteHashTableProofs ------------------------
(***************************************************************************)
(* The bucket of a read/write hash table, for all sets of readers, writers *)
(* and keys, any tags, any sizes of entries and chains: a key is in one    *)
(* place, tags are true but where a writer is at work, a Get() without a   *)
(* lock keeps the promise of module KeyValueMap, no memory is lost, and    *)
(* the counters are exact when nobody writes.                              *)
(***************************************************************************)
EXTENDS ReadWriteHashTable, SumTheorems

-------------------------------------------------------------------------------
(* Arithmetic: places, and the entries they belong to.                       *)

LEMMA FirstIsMember ==
    ASSUME NEW P, P \subseteq Nat, P # {}
    PROVE  First(P) \in P
    BY Smallest DEF First

LEMMA TimesMonotonic ==
    \A m, n, d \in Nat : m * d \in Nat /\ (m < n => m * d + d <= n * d)
    OBVIOUS

LEMMA Division ==
    ASSUME NEW x \in Nat, NEW d \in Nat \ {0}
    PROVE  x \div d \in Nat /\ x % d \in 0 .. d - 1 /\ x = (x \div d) * d + (x % d)
    OBVIOUS

\* The quotient is at least n if and only if n times the divisor fits.
LEMMA Quotient ==
    ASSUME NEW x \in Nat, NEW d \in Nat \ {0}, NEW n \in Nat
    PROVE  n <= x \div d <=> n * d <= x
<1> DEFINE q == x \div d
           r == x % d
<1>1. q \in Nat /\ r \in 0 .. d - 1 /\ x = q * d + r
    BY Division
<1>2. q < n => q * d + d <= n * d
    BY <1>1, TimesMonotonic
<1>3. n < q => n * d + d <= q * d
    BY <1>1, TimesMonotonic
<1>4. n * d \in Nat /\ q * d \in Nat
    BY <1>1, TimesMonotonic
<1> HIDE DEF q, r
<1>5. n <= q <=> n * d <= x
  <2>1. CASE n <= q
    BY <1>1, <1>3, <1>4, <2>1
  <2>2. CASE q < n
    BY <1>1, <1>2, <1>4, <2>2
  <2> QED
    BY <1>1, <2>1, <2>2
<1> QED
    BY <1>5 DEF q

\* A place belongs to the first n entries if and only if it is one of their
\* DataPerEntry each.
LEMMA EntryBound ==
    ASSUME NEW p \in Nat \ {0}, NEW n \in Nat
    PROVE  EntryOf(p) \in Nat \ {0} /\ (EntryOf(p) <= n <=> p <= n * DataPerEntry)
<1>1. p - 1 \in Nat /\ (p - 1) \div DataPerEntry \in Nat
  <2>1. p - 1 \in Nat
    OBVIOUS
  <2> QED
    BY <2>1, SizesAssumption, Division
<1>2. n <= (p - 1) \div DataPerEntry <=> n * DataPerEntry <= p - 1
    BY <1>1, SizesAssumption, Quotient
<1>3. n * DataPerEntry \in Nat
    BY SizesAssumption, TimesMonotonic
<1> QED
    BY <1>1, <1>2, <1>3 DEF EntryOf

LEMMA PlacesAreEntries ==
    /\ Places \subseteq Nat \ {0}
    /\ \A p \in Nat \ {0} : p \in Places <=> EntryOf(p) <= MaxEntries
<1>1. MaxEntries * DataPerEntry \in Nat
    BY SizesAssumption, TimesMonotonic
<1> QED
    BY <1>1, EntryBound, SizesAssumption DEF Places

-------------------------------------------------------------------------------
(* The invariant.                                                            *)

Stats == [keySize : Nat, valueSize : Nat, oldValueSize : Nat, chainIndex : Nat,
          isNewEntryAdded : BOOLEAN]
AddCalls == [state : {"storeData", "storeTag", "perfAdd"}, place : Places, key : Keys,
             value : Values, old : Records \cup {Null}, stat : Stats]
RemoveCalls == [state : {"eraseData", "eraseTag", "perfRemove"}, place : Places,
                old : Records, key : Keys, stat : Stats]
Calls == AddCalls \cup RemoveCalls

\* What the lemmas need of the types.
StateInv ==
    /\ numEntries \in 0 .. MaxEntries
    /\ tags \in [Places -> Nat]
    /\ data \in [Places -> Records \cup {Null}]
    /\ mutex \subseteq Writers
    /\ writer \in [Writers -> Calls \cup {Idle}]

\* Who is between the lock and the unlock owns the mutex, and is alone.
MutexInv ==
    /\ \A w \in Writers :
           w \in mutex <=> writer[w].state \in {"storeData", "storeTag", "eraseData", "eraseTag", "perfRemove"}
    /\ \A v, w \in mutex : v = w

\* There is nothing beyond the chain.
ChainInv == numEntries > 0 => \A p \in Places \ InChain : data[p] = Null

\* What a writer knows of its place as long as it owns the mutex.
PlaceInv ==
    \A w \in Writers :
        /\ writer[w].state = "storeData" =>
               /\ writer[w].place \in InChain
               /\ data[writer[w].place] = Null \/ IsKey(writer[w].place, writer[w].key)
               /\ \A q \in Places : IsKey(q, writer[w].key) => q = writer[w].place
        /\ writer[w].state = "storeTag" =>
               data[writer[w].place] = [key |-> writer[w].key, value |-> writer[w].value]
        /\ writer[w].state = "eraseData" => IsKey(writer[w].place, writer[w].key)
        /\ writer[w].state = "eraseTag" => data[writer[w].place] = Null

TableInv == StateInv /\ MutexInv /\ ChainInv /\ PlaceInv /\ OnePlacePerKey /\ TagsMatchData

LEMMA Init_TableInv == Init => TableInv
<1> SUFFICES ASSUME Init PROVE TableInv
    OBVIOUS
<1> USE DEF Init
<1>1. StateInv
    BY SizesAssumption DEF StateInv
<1>2. \A w \in Writers : writer[w].state = "idle"
    BY DEF Idle
<1>3. MutexInv /\ ChainInv /\ PlaceInv /\ OnePlacePerKey /\ TagsMatchData
    BY <1>2 DEF MutexInv, ChainInv, PlaceInv, OnePlacePerKey, TagsMatchData, InChain
<1> QED
    BY <1>1, <1>3 DEF TableInv

-------------------------------------------------------------------------------
(* One lemma for each action.                                                *)

\* The scan under the mutex finds the place that has the key, or an empty one: nobody
\* is updating a place then, so a key is never behind the tag of another.
LEMMA ScanFindsPlace ==
    ASSUME TableInv, mutex = {}, numEntries > 0, NEW k \in Keys, NEW p, p = PlaceFor(k)
    PROVE  /\ p \in Nat \ {0} /\ EntryOf(p) <= numEntries + 1
           /\ p \in Places => /\ data[p] = Null \/ IsKey(p, k)
                              /\ \A q \in Places : IsKey(q, k) => q = p
<1> DEFINE mine == {q \in InChain : tags[q] = Tag[k] /\ IsKey(q, k)}
           empty == {q \in InChain : data[q] = Null}
<1>1. InChain \subseteq Places /\ InChain \subseteq Nat
    BY PlacesAreEntries DEF InChain
<1>2. \A q \in Places : IsKey(q, k) => q \in mine
  <2>1. \A q \in Places : IsKey(q, k) => tags[q] = Tag[k]
    BY DEF TableInv, TagsMatchData, IsKey
  <2> QED
    BY <2>1 DEF TableInv, ChainInv, IsKey
<1>3. \A q, o \in Places : IsKey(q, k) /\ IsKey(o, k) => q = o
    BY DEF TableInv, OnePlacePerKey, IsKey
<1>4. \A q \in InChain : q \in Nat \ {0} /\ EntryOf(q) <= numEntries + 1
    BY PlacesAreEntries, EntryBound DEF InChain, TableInv, StateInv
<1>5. CASE mine # {}
  <2>1. p \in mine
    BY <1>1, <1>5, FirstIsMember DEF PlaceFor
  <2> QED
    BY <1>1, <1>3, <1>4, <2>1
<1>6. CASE mine = {} /\ empty # {}
  <2>1. p \in empty
    BY <1>1, <1>6, FirstIsMember DEF PlaceFor
  <2> QED
    BY <1>2, <1>4, <1>6, <2>1
<1>7. CASE mine = {} /\ empty = {}
  <2>1. p = numEntries * DataPerEntry + 1 /\ numEntries \in Nat
    BY <1>7 DEF PlaceFor, TableInv, StateInv
  <2>2. /\ numEntries * DataPerEntry \in Nat
        /\ numEntries * DataPerEntry + DataPerEntry <= (numEntries + 1) * DataPerEntry
    BY <2>1, TimesMonotonic, SizesAssumption
  <2>3. /\ p \in Nat \ {0}
        /\ p <= (numEntries + 1) * DataPerEntry
        /\ ~(p <= numEntries * DataPerEntry)
    BY <2>1, <2>2, SizesAssumption
  <2>4. EntryOf(p) <= numEntries + 1 /\ ~(EntryOf(p) <= numEntries)
    BY <2>1, <2>3, EntryBound
  <2>5. p \in Places => data[p] = Null
    BY <2>4 DEF TableInv, ChainInv, InChain
  <2> QED
    BY <1>2, <1>7, <2>3, <2>4, <2>5
<1> QED
    BY <1>5, <1>6, <1>7

LEMMA BeginAdd_TableInv ==
    ASSUME TableInv, NEW w \in Writers, NEW k \in Keys, NEW v \in Values, BeginAdd(w, k, v)
    PROVE  TableInv'
<1>1. PICK p : p = PlaceFor(k)
    OBVIOUS
<1>2. PICK stat : stat = Stat([key |-> k, value |-> v], IF IsKey(p, k) THEN data[p] ELSE Null,
                              ChainFor(p), ChainFor(p) # numEntries)
    OBVIOUS
<1>3. PICK added : added = [state |-> "storeData", place |-> p, key |-> k, value |-> v,
                            old |-> data[p], stat |-> stat]
    OBVIOUS
<1>4. /\ writer[w] = Idle /\ mutex = {} /\ numEntries > 0 /\ p \in Places
      /\ mutex' = {w} /\ numEntries' = ChainFor(p)
      /\ writer' = [writer EXCEPT ![w] = added]
      /\ UNCHANGED <<tags, data>>
    BY <1>1, <1>2, <1>3 DEF BeginAdd
<1>5. /\ p \in Nat \ {0} /\ EntryOf(p) <= numEntries + 1
      /\ data[p] = Null \/ IsKey(p, k)
      /\ \A q \in Places : IsKey(q, k) => q = p
    BY <1>1, <1>4, ScanFindsPlace
<1>6. EntryOf(p) \in Nat \ {0} /\ EntryOf(p) <= MaxEntries
    BY <1>4, <1>5, EntryBound, PlacesAreEntries
<1>7. /\ numEntries \in Nat /\ numEntries' \in 0 .. MaxEntries /\ numEntries <= numEntries'
      /\ EntryOf(p) <= numEntries'
    BY <1>4, <1>5, <1>6, SizesAssumption DEF TableInv, StateInv, ChainFor
<1>8. stat \in Stats
  <2>1. ChainFor(p) \in Nat
    BY <1>4, <1>7
  <2>2. data[p] = Null \/ data[p].value \in Nat
    BY <1>4, SizesAssumption DEF TableInv, StateInv, Records
  <2>3. v \in Nat /\ KeySize[k] \in Nat
    BY SizesAssumption
  <2> QED
    BY <1>2, <2>1, <2>2, <2>3 DEF Stat, Stats, IsKey
<1>9. added \in AddCalls
    BY <1>3, <1>4, <1>8 DEF AddCalls, TableInv, StateInv
<1>10. StateInv'
    BY <1>4, <1>7, <1>9 DEF TableInv, StateInv, Calls
<1>11. \A u \in Writers : writer'[u] = IF u = w THEN added ELSE writer[u]
    BY <1>4 DEF TableInv, StateInv
<1>12. \A u \in Writers : writer[u].state \notin {"storeData", "storeTag", "eraseData", "eraseTag", "perfRemove"}
    BY <1>4 DEF TableInv, MutexInv
<1>13. added.state = "storeData" /\ added.place = p /\ added.key = k
    BY <1>3
<1>14. MutexInv'
    BY <1>4, <1>11, <1>12, <1>13 DEF MutexInv
<1>15. ChainInv'
    BY <1>4, <1>6, <1>7, PlacesAreEntries, EntryBound DEF TableInv, ChainInv, InChain
<1>16. PlaceInv'
    BY <1>4, <1>5, <1>7, <1>11, <1>12, <1>13 DEF PlaceInv, InChain, IsKey
<1>17. OnePlacePerKey'
    BY <1>4 DEF TableInv, OnePlacePerKey
<1>18. TagsMatchData'
    BY <1>4, <1>12 DEF TableInv, TagsMatchData
<1> QED
    BY <1>10, <1>14, <1>15, <1>16, <1>17, <1>18 DEF TableInv

\* The state of a call tells which call it is, and its fields stay when it goes on.
LEMMA CallOfState ==
    ASSUME StateInv, NEW w \in Writers
    PROVE  /\ writer[w].state \in {"storeData", "storeTag", "perfAdd"} => writer[w] \in AddCalls
           /\ writer[w].state \in {"eraseData", "eraseTag", "perfRemove"} => writer[w] \in RemoveCalls
    BY DEF StateInv, Calls, AddCalls, RemoveCalls, Idle

LEMMA GotoKeepsCall ==
    ASSUME StateInv, NEW w \in Writers, NEW s, Goto(w, s),
           \/ writer[w] \in AddCalls /\ s \in {"storeTag", "perfAdd"}
           \/ writer[w] \in RemoveCalls /\ s \in {"eraseTag", "perfRemove"}
    PROVE  /\ writer' \in [Writers -> Calls \cup {Idle}]
           /\ writer'[w].state = s
           /\ writer'[w].place = writer[w].place /\ writer'[w].key = writer[w].key
           /\ writer[w] \in AddCalls => writer'[w].value = writer[w].value
           /\ \A u \in Writers \ {w} : writer'[u] = writer[u]
<1>1. writer' = [writer EXCEPT ![w] = [writer[w] EXCEPT !.state = s]]
    BY DEF Goto
<1>2. PICK c : c = [writer[w] EXCEPT !.state = s]
    OBVIOUS
<1>3. CASE writer[w] \in AddCalls /\ s \in {"storeTag", "perfAdd"}
  <2>1. c \in AddCalls /\ c.state = s /\ c.place = writer[w].place /\ c.key = writer[w].key
            /\ c.value = writer[w].value
    BY <1>2, <1>3 DEF AddCalls
  <2> QED
    BY <1>1, <1>2, <1>3, <2>1 DEF StateInv, Calls
<1>4. CASE writer[w] \in RemoveCalls /\ s \in {"eraseTag", "perfRemove"}
  <2>1. c \in RemoveCalls /\ c.state = s /\ c.place = writer[w].place /\ c.key = writer[w].key
    BY <1>2, <1>4 DEF RemoveCalls
  <2>2. writer[w] \notin AddCalls
    BY <1>4 DEF AddCalls, RemoveCalls
  <2> QED
    BY <1>1, <1>2, <1>4, <2>1, <2>2 DEF StateInv, Calls
<1> QED
    BY <1>3, <1>4

\* Nobody else is in a state that PlaceInv or TagsMatchData is about.
LEMMA OwnerIsAlone ==
    ASSUME TableInv, NEW w \in Writers,
           writer[w].state \in {"storeData", "storeTag", "eraseData", "eraseTag", "perfRemove"}
    PROVE  /\ mutex = {w}
           /\ \A u \in Writers \ {w} :
                  writer[u].state \notin {"storeData", "storeTag", "eraseData", "eraseTag", "perfRemove"}
    BY DEF TableInv, MutexInv, StateInv

LEMMA StoreData_TableInv ==
    ASSUME TableInv, NEW w \in Writers, StoreData(w)
    PROVE  TableInv'
<1> DEFINE c == writer[w]
<1>1. PICK p, k, v : p = c.place /\ k = c.key /\ v = c.value
    OBVIOUS
<1>2. c \in AddCalls /\ c.state = "storeData"
    BY CallOfState DEF StoreData, TableInv
<1>3. p \in Places /\ k \in Keys /\ v \in Values
    BY <1>1, <1>2 DEF AddCalls
<1>4. PICK r \in Records : r = [key |-> k, value |-> v]
    BY <1>3 DEF Records
<1>5. /\ data' = [data EXCEPT ![p] = r] /\ Goto(w, "storeTag")
      /\ UNCHANGED <<numEntries, tags, mutex>>
    BY <1>1, <1>4 DEF StoreData
<1>6. /\ writer' \in [Writers -> Calls \cup {Idle}]
      /\ writer'[w].state = "storeTag" /\ writer'[w].place = p /\ writer'[w].key = k
      /\ writer'[w].value = v
      /\ \A u \in Writers \ {w} : writer'[u] = writer[u]
    BY <1>1, <1>2, <1>5, GotoKeepsCall DEF TableInv
<1>7. \A q \in Places : data'[q] = IF q = p THEN r ELSE data[q]
    BY <1>5 DEF TableInv, StateInv
<1>8. StateInv'
    BY <1>5, <1>6 DEF TableInv, StateInv
<1>9. mutex = {w} /\ \A u \in Writers \ {w} :
          writer[u].state \notin {"storeData", "storeTag", "eraseData", "eraseTag", "perfRemove"}
    BY <1>2, OwnerIsAlone
<1>10. MutexInv'
    BY <1>2, <1>5, <1>6, <1>9 DEF TableInv, MutexInv
<1>11. p \in InChain /\ \A q \in Places : IsKey(q, k) => q = p
    BY <1>1, <1>2 DEF TableInv, PlaceInv
<1>12. ChainInv'
    BY <1>5, <1>7, <1>11 DEF TableInv, ChainInv, InChain
<1>13. PlaceInv'
    BY <1>3, <1>4, <1>6, <1>7, <1>9 DEF PlaceInv
<1>14. r # Null /\ r.key = k
    BY <1>4, NullAssumption DEF Records
<1>15. OnePlacePerKey'
    BY <1>7, <1>11, <1>14 DEF TableInv, OnePlacePerKey, IsKey
<1>16. TagsMatchData'
  <2>1. \A q \in Places : tags[q] = IF data[q] = Null THEN 0 ELSE Tag[data[q].key]
    BY <1>2, <1>9 DEF TableInv, TagsMatchData
  <2> QED
    BY <1>5, <1>6, <1>7, <1>9, <2>1 DEF TagsMatchData
<1> QED
    BY <1>8, <1>10, <1>12, <1>13, <1>15, <1>16 DEF TableInv

LEMMA StoreTag_TableInv ==
    ASSUME TableInv, NEW w \in Writers, StoreTag(w)
    PROVE  TableInv'
<1>1. PICK p, k, v : p = writer[w].place /\ k = writer[w].key /\ v = writer[w].value
    OBVIOUS
<1>2. writer[w] \in AddCalls /\ writer[w].state = "storeTag"
    BY CallOfState DEF StoreTag, TableInv
<1>3. p \in Places /\ k \in Keys
    BY <1>1, <1>2 DEF AddCalls
<1>4. mutex = {w} /\ \A u \in Writers \ {w} :
          writer[u].state \notin {"storeData", "storeTag", "eraseData", "eraseTag", "perfRemove"}
    BY <1>2, OwnerIsAlone
<1>5. /\ tags' = [tags EXCEPT ![p] = Tag[k]] /\ mutex' = {} /\ Goto(w, "perfAdd")
      /\ UNCHANGED <<numEntries, data>>
    BY <1>1, <1>4 DEF StoreTag
<1>6. /\ writer' \in [Writers -> Calls \cup {Idle}]
      /\ writer'[w].state = "perfAdd"
      /\ \A u \in Writers \ {w} : writer'[u] = writer[u]
    BY <1>2, <1>5, GotoKeepsCall DEF TableInv
<1>7. \A q \in Places : tags'[q] = IF q = p THEN Tag[k] ELSE tags[q]
    BY <1>5 DEF TableInv, StateInv
<1>8. StateInv'
    BY <1>3, <1>5, <1>6, SizesAssumption DEF TableInv, StateInv
<1>9. MutexInv'
    BY <1>4, <1>5, <1>6 DEF MutexInv
<1>10. ChainInv'
    BY <1>5 DEF TableInv, ChainInv, InChain
<1>11. PlaceInv'
    BY <1>4, <1>6 DEF PlaceInv
<1>12. OnePlacePerKey'
    BY <1>5 DEF TableInv, OnePlacePerKey
<1>13. TagsMatchData'
  <2>1. data[p] = [key |-> k, value |-> v]
    BY <1>1, <1>2 DEF TableInv, PlaceInv
  <2>2. data[p] # Null /\ data[p].key = k
    BY <1>1, <1>2, <2>1, NullAssumption DEF AddCalls
  <2>3. \A q \in Places \ {p} : tags[q] = IF data[q] = Null THEN 0 ELSE Tag[data[q].key]
    BY <1>1, <1>4 DEF TableInv, TagsMatchData
  <2> QED
    BY <1>5, <1>7, <2>2, <2>3 DEF TagsMatchData
<1> QED
    BY <1>8, <1>9, <1>10, <1>11, <1>12, <1>13 DEF TableInv

\* A call that ends outside the table: its report, with or without the mutex.
LEMMA End_TableInv ==
    ASSUME TableInv, NEW w \in Writers, EndAdd(w) \/ EndRemove(w)
    PROVE  TableInv'
<1>1. writer' = [writer EXCEPT ![w] = Idle] /\ UNCHANGED <<numEntries, tags, data>>
    BY DEF EndAdd, EndRemove
<1>2. writer'[w].state = "idle" /\ \A u \in Writers \ {w} : writer'[u] = writer[u]
    BY <1>1 DEF TableInv, StateInv, Idle
<1>3. mutex' = mutex \ {w}
    BY DEF EndAdd, EndRemove, TableInv, MutexInv
<1>4. StateInv'
    BY <1>1, <1>3 DEF TableInv, StateInv
<1>5. MutexInv'
    BY <1>2, <1>3 DEF TableInv, MutexInv
<1>6. ChainInv' /\ OnePlacePerKey'
    BY <1>1 DEF TableInv, ChainInv, InChain, OnePlacePerKey
<1>7. PlaceInv'
    BY <1>1, <1>2 DEF TableInv, PlaceInv, InChain, IsKey
<1>8. TagsMatchData'
  <2>1. writer[w].state \in {"perfAdd", "perfRemove"}
    BY DEF EndAdd, EndRemove
  <2> QED
    BY <1>1, <1>2, <1>3, <2>1 DEF TableInv, StateInv, TagsMatchData
<1> QED
    BY <1>4, <1>5, <1>6, <1>7, <1>8 DEF TableInv

LEMMA BeginRemove_TableInv ==
    ASSUME TableInv, NEW w \in Writers, NEW k \in Keys, BeginRemove(w, k)
    PROVE  TableInv'
<1>1. PICK p \in InChain :
          /\ IsKey(p, k)
          /\ writer' = [writer EXCEPT ![w] = [state |-> "eraseData", place |-> p,
                                             old |-> data[p], key |-> k,
                                             stat |-> Stat(data[p], Null, 0, FALSE)]]
    BY DEF BeginRemove
<1>2. PICK stat : stat = Stat(data[p], Null, 0, FALSE)
    OBVIOUS
<1>3. PICK c : c = [state |-> "eraseData", place |-> p, old |-> data[p], key |-> k, stat |-> stat]
    OBVIOUS
<1>4. /\ mutex = {} /\ mutex' = {w} /\ p \in Places
      /\ writer' = [writer EXCEPT ![w] = c]
      /\ UNCHANGED <<numEntries, tags, data>>
    BY <1>1, <1>2, <1>3 DEF BeginRemove, InChain
<1>5. data[p] \in Records /\ data[p].key = k
    BY <1>1, <1>4 DEF TableInv, StateInv, IsKey
<1>6. stat \in Stats
  <2>1. data[p].value \in Nat /\ KeySize[data[p].key] \in Nat
    BY <1>5, SizesAssumption DEF Records
  <2> QED
    BY <1>2, <2>1 DEF Stat, Stats
<1>7. c \in RemoveCalls
    BY <1>3, <1>4, <1>5, <1>6 DEF RemoveCalls
<1>8. c.state = "eraseData" /\ c.place = p /\ c.key = k
    BY <1>3
<1>9. StateInv'
    BY <1>4, <1>7 DEF TableInv, StateInv, Calls
<1>10. \A u \in Writers : writer'[u] = IF u = w THEN c ELSE writer[u]
    BY <1>4 DEF TableInv, StateInv
<1>11. \A u \in Writers : writer[u].state \notin {"storeData", "storeTag", "eraseData", "eraseTag", "perfRemove"}
    BY <1>4 DEF TableInv, MutexInv
<1>12. MutexInv'
    BY <1>4, <1>8, <1>10, <1>11 DEF MutexInv
<1>13. ChainInv' /\ OnePlacePerKey'
    BY <1>4 DEF TableInv, ChainInv, InChain, OnePlacePerKey
<1>14. PlaceInv'
    BY <1>1, <1>4, <1>8, <1>10, <1>11 DEF PlaceInv, IsKey
<1>15. TagsMatchData'
    BY <1>4 DEF TableInv, TagsMatchData
<1> QED
    BY <1>9, <1>12, <1>13, <1>14, <1>15 DEF TableInv

LEMMA EraseData_TableInv ==
    ASSUME TableInv, NEW w \in Writers, EraseData(w)
    PROVE  TableInv'
<1>1. PICK p : p = writer[w].place
    OBVIOUS
<1>2. writer[w] \in RemoveCalls /\ writer[w].state = "eraseData" /\ p \in Places
    BY <1>1, CallOfState DEF EraseData, TableInv, RemoveCalls
<1>3. /\ data' = [data EXCEPT ![p] = Null] /\ Goto(w, "eraseTag")
      /\ UNCHANGED <<numEntries, tags, mutex>>
    BY <1>1 DEF EraseData
<1>4. /\ writer' \in [Writers -> Calls \cup {Idle}]
      /\ writer'[w].state = "eraseTag" /\ writer'[w].place = p
      /\ \A u \in Writers \ {w} : writer'[u] = writer[u]
    BY <1>1, <1>2, <1>3, GotoKeepsCall DEF TableInv
<1>5. \A q \in Places : data'[q] = IF q = p THEN Null ELSE data[q]
    BY <1>3 DEF TableInv, StateInv
<1>6. mutex = {w} /\ \A u \in Writers \ {w} :
          writer[u].state \notin {"storeData", "storeTag", "eraseData", "eraseTag", "perfRemove"}
    BY <1>2, OwnerIsAlone
<1>7. StateInv'
    BY <1>3, <1>4 DEF TableInv, StateInv
<1>8. MutexInv'
    BY <1>2, <1>3, <1>4, <1>6 DEF TableInv, MutexInv
<1>9. ChainInv'
    BY <1>3, <1>5 DEF TableInv, ChainInv, InChain
<1>10. PlaceInv'
    BY <1>2, <1>4, <1>5, <1>6 DEF PlaceInv
<1>11. OnePlacePerKey'
    BY <1>5 DEF TableInv, OnePlacePerKey
<1>12. TagsMatchData'
  <2>1. \A q \in Places : tags[q] = IF data[q] = Null THEN 0 ELSE Tag[data[q].key]
    BY <1>2, <1>6 DEF TableInv, TagsMatchData
  <2> QED
    BY <1>3, <1>4, <1>5, <1>6, <2>1 DEF TagsMatchData
<1> QED
    BY <1>7, <1>8, <1>9, <1>10, <1>11, <1>12 DEF TableInv

LEMMA EraseTag_TableInv ==
    ASSUME TableInv, NEW w \in Writers, EraseTag(w)
    PROVE  TableInv'
<1>1. PICK p : p = writer[w].place
    OBVIOUS
<1>2. writer[w] \in RemoveCalls /\ writer[w].state = "eraseTag" /\ p \in Places
    BY <1>1, CallOfState DEF EraseTag, TableInv, RemoveCalls
<1>3. /\ tags' = [tags EXCEPT ![p] = 0] /\ Goto(w, "perfRemove")
      /\ UNCHANGED <<numEntries, data, mutex>>
    BY <1>1 DEF EraseTag
<1>4. /\ writer' \in [Writers -> Calls \cup {Idle}]
      /\ writer'[w].state = "perfRemove"
      /\ \A u \in Writers \ {w} : writer'[u] = writer[u]
    BY <1>2, <1>3, GotoKeepsCall DEF TableInv
<1>5. \A q \in Places : tags'[q] = IF q = p THEN 0 ELSE tags[q]
    BY <1>3 DEF TableInv, StateInv
<1>6. mutex = {w} /\ \A u \in Writers \ {w} :
          writer[u].state \notin {"storeData", "storeTag", "eraseData", "eraseTag", "perfRemove"}
    BY <1>2, OwnerIsAlone
<1>7. StateInv'
    BY <1>3, <1>4 DEF TableInv, StateInv
<1>8. MutexInv'
    BY <1>2, <1>3, <1>4, <1>6 DEF TableInv, MutexInv
<1>9. ChainInv' /\ OnePlacePerKey'
    BY <1>3 DEF TableInv, ChainInv, InChain, OnePlacePerKey
<1>10. PlaceInv'
    BY <1>4, <1>6 DEF PlaceInv
<1>11. TagsMatchData'
  <2>1. data[p] = Null
    BY <1>1, <1>2 DEF TableInv, PlaceInv
  <2>2. \A q \in Places \ {p} : tags[q] = IF data[q] = Null THEN 0 ELSE Tag[data[q].key]
    BY <1>1, <1>6 DEF TableInv, TagsMatchData
  <2> QED
    BY <1>3, <1>5, <2>1, <2>2 DEF TagsMatchData
<1> QED
    BY <1>7, <1>8, <1>9, <1>10, <1>11 DEF TableInv

LEMMA Destroy_TableInv ==
    ASSUME TableInv, Destroy
    PROVE  TableInv'
<1>1. numEntries' = 0 /\ UNCHANGED <<tags, data, mutex, writer>>
    BY DEF Destroy
<1>2. \A w \in Writers : writer[w].state = "idle"
    BY DEF Destroy, Idle
<1>3. StateInv'
    BY <1>1, SizesAssumption DEF TableInv, StateInv
<1> QED
    BY <1>1, <1>2, <1>3 DEF TableInv, MutexInv, ChainInv, PlaceInv, OnePlacePerKey, TagsMatchData

LEMMA Same_TableInv ==
    ASSUME TableInv, UNCHANGED <<numEntries, tags, data, mutex, writer>>
    PROVE  TableInv'
    BY DEF TableInv, StateInv, MutexInv, ChainInv, PlaceInv, OnePlacePerKey, TagsMatchData,
           InChain, IsKey

LEMMA Next_TableInv == TableInv /\ [Next]_vars => TableInv'
<1> SUFFICES ASSUME TableInv, [Next]_vars PROVE TableInv'
    OBVIOUS
<1>1. CASE UNCHANGED vars
    BY <1>1, Same_TableInv DEF vars
<1>2. ASSUME NEW w \in Writers, Write(w) PROVE TableInv'
    BY <1>2, BeginAdd_TableInv, StoreData_TableInv, StoreTag_TableInv, End_TableInv,
       BeginRemove_TableInv, EraseData_TableInv, EraseTag_TableInv DEF Write
<1>3. ASSUME NEW r \in Readers, Read(r) PROVE TableInv'
    BY <1>3, Same_TableInv DEF Read, BeginGet, ReadTag, ReadData, LoadNext
<1>4. CASE Destroy \/ Destroyed
    BY <1>1, <1>4, Destroy_TableInv DEF Destroyed
<1> QED
    BY <1>1, <1>2, <1>3, <1>4 DEF Next

LEMMA TableInvariance == Spec => []TableInv
    BY Init_TableInv, Next_TableInv, PTL DEF Spec

\* A key is in one place, however removals punch holes into the chain and other
\* writers fill them: the scan of Add() goes on behind a hole (HashTable.h:334-372).
THEOREM OneRecordPerKey == Spec => []OnePlacePerKey
<1>1. TableInv => OnePlacePerKey
    BY DEF TableInv
<1> QED
    BY <1>1, TableInvariance, PTL

\* A tag is wrong only where the owner of the mutex has stored the data and not
\* yet the tag (the argument of SharedHashTable.h:45-57).
THEOREM TrueTags == Spec => []TagsMatchData
<1>1. TableInv => TagsMatchData
    BY DEF TableInv
<1> QED
    BY <1>1, TableInvariance, PTL

-------------------------------------------------------------------------------
(* The readers.                                                              *)

InCall(r) == reader[r].state \in {"tag", "data", "next"}

Gets == [state : {"tag", "data", "next"}, key : Keys, place : Nat \ {0}]
Returns == [state : {"returned"}, value : Values \cup {Null}]

ReaderTypes ==
    /\ reader \in [Readers -> Gets \cup Returns \cup {Idle}]
    /\ seen \in [Readers -> SUBSET (Values \cup {Null})]
    /\ \A r \in Readers :
           /\ reader[r].state \in {"tag", "data"} => reader[r].place \in Places
           /\ InCall(r) => numEntries > 0

\* A value that a reader can still reach is one that it may return ...
HitInv ==
    \A r \in Readers : InCall(r) =>
        \A p \in Places : IsKey(p, reader[r].key) =>
            \/ data[p].value \in seen[r]
            \/ /\ tags[p] # Tag[reader[r].key]
               /\ ~(reader[r].state = "data" /\ reader[r].place = p)

\* ... and one that may not miss its key has it still ahead.
MissInv ==
    \A r \in Readers : InCall(r) =>
        \/ Null \in seen[r]
        \/ \E p \in Places : /\ IsKey(p, reader[r].key)
                             /\ tags[p] = Tag[reader[r].key]
                             /\ reader[r].place <= p

ReaderInv == ReaderTypes /\ HitInv /\ MissInv

LEMMA CallOfReader ==
    ASSUME ReaderTypes, NEW r \in Readers
    PROVE  /\ InCall(r) <=> reader[r] \in Gets
           /\ reader[r].state = "returned" <=> reader[r] \in Returns
           /\ reader[r].state = "idle" <=> reader[r] = Idle
    BY DEF ReaderTypes, InCall, Gets, Returns, Idle

HasKey(d, p, k) == d[p] # Null /\ d[p].key = k

\* What Lookup() finds, and what is on its way, by the place of the key.
LEMMA PlaceDecides ==
    ASSUME NEW t, NEW d, NEW k,
           \A p, q \in Places : HasKey(d, p, k) /\ HasKey(d, q, k) => p = q
    PROVE  /\ \A p \in Places : HasKey(d, p, k) =>
                  IF t[p] = Tag[k]
                  THEN Lookup(t, d, k) = d[p].value /\ Coming(t, d, k) = Null
                  ELSE Lookup(t, d, k) = Null /\ Coming(t, d, k) = d[p].value
           /\ (\A p \in Places : ~HasKey(d, p, k)) =>
                  Lookup(t, d, k) = Null /\ Coming(t, d, k) = Null
<1> DEFINE hits == {p \in Places : t[p] = Tag[k] /\ d[p] # Null /\ d[p].key = k}
           untagged == {p \in Places : d[p] # Null /\ d[p].key = k /\ t[p] # Tag[k]}
<1>1. ASSUME NEW p \in Places, HasKey(d, p, k)
      PROVE  IF t[p] = Tag[k] THEN hits = {p} /\ untagged = {} ELSE hits = {} /\ untagged = {p}
    BY <1>1 DEF HasKey
<1>2. ASSUME \A p \in Places : ~HasKey(d, p, k) PROVE hits = {} /\ untagged = {}
    BY <1>2 DEF HasKey
<1>3. Lookup(t, d, k) = IF hits = {} THEN Null ELSE d[CHOOSE p \in hits : TRUE].value
    BY DEF Lookup
<1>4. Coming(t, d, k) = IF untagged = {} THEN Null ELSE d[CHOOSE p \in untagged : TRUE].value
    BY DEF Coming
<1> HIDE DEF hits, untagged
<1>5. \A p : (CHOOSE q \in {p} : TRUE) = p
    OBVIOUS
<1> QED
    BY <1>1, <1>2, <1>3, <1>4, <1>5

\* A key whose place is left alone is left alone.
LEMMA SamePlace ==
    ASSUME NEW t, NEW d, NEW u, NEW e, NEW k,
           \A p, q \in Places : HasKey(d, p, k) /\ HasKey(d, q, k) => p = q,
           \A p \in Places : HasKey(d, p, k) <=> HasKey(e, p, k),
           \A p \in Places : HasKey(d, p, k) => d[p] = e[p] /\ t[p] = u[p]
    PROVE  Lookup(u, e, k) = Lookup(t, d, k) /\ Coming(u, e, k) = Coming(t, d, k)
<1>1. \A p, q \in Places : HasKey(e, p, k) /\ HasKey(e, q, k) => p = q
    OBVIOUS
<1>2. CASE \E p \in Places : HasKey(d, p, k)
  <2>1. PICK p \in Places : HasKey(d, p, k)
    BY <1>2
  <2>2. HasKey(e, p, k) /\ d[p] = e[p] /\ t[p] = u[p]
    BY <2>1
  <2>3. IF t[p] = Tag[k]
        THEN Lookup(t, d, k) = d[p].value /\ Coming(t, d, k) = Null
        ELSE Lookup(t, d, k) = Null /\ Coming(t, d, k) = d[p].value
    BY <2>1, PlaceDecides
  <2>4. IF u[p] = Tag[k]
        THEN Lookup(u, e, k) = e[p].value /\ Coming(u, e, k) = Null
        ELSE Lookup(u, e, k) = Null /\ Coming(u, e, k) = e[p].value
    BY <1>1, <2>2, PlaceDecides
  <2> QED
    BY <2>2, <2>3, <2>4
<1>3. CASE \A p \in Places : ~HasKey(d, p, k)
  <2>1. \A p \in Places : ~HasKey(e, p, k)
    BY <1>3
  <2>2. Lookup(t, d, k) = Null /\ Coming(t, d, k) = Null
    BY <1>3, PlaceDecides
  <2>3. Lookup(u, e, k) = Null /\ Coming(u, e, k) = Null
    BY <1>1, <2>1, PlaceDecides
  <2> QED
    BY <2>2, <2>3
<1> QED
    BY <1>2, <1>3

-------------------------------------------------------------------------------
(* What the writers do to the readers.                                       *)

LEMMA ShowExtends ==
    ASSUME ReaderTypes, NEW k, NEW v \in Values \cup {Null}, Show(k, v),
           UNCHANGED <<reader, numEntries>>
    PROVE  /\ ReaderTypes'
           /\ \A r \in Readers :
                  /\ InCall(r)' = InCall(r)
                  /\ seen[r] \subseteq seen'[r]
                  /\ InCall(r) /\ reader[r].key = k => v \in seen'[r]
    BY DEF ReaderTypes, Show, InCall

LEMMA StoreData_Effect ==
    ASSUME TableInv, NEW w \in Writers, StoreData(w)
    PROVE  \E p \in Places, k \in Keys, v \in Values :
               /\ \A q \in Places : data'[q] = IF q = p THEN [key |-> k, value |-> v] ELSE data[q]
               /\ \A q \in Places : HasKey(data, q, k) => q = p
               /\ data[p] = Null \/ HasKey(data, p, k)
               /\ tags[p] = IF data[p] = Null THEN 0 ELSE Tag[data[p].key]
               /\ Show(k, v)
               /\ UNCHANGED <<numEntries, tags, reader>>
<1>1. PICK p, k, v : p = writer[w].place /\ k = writer[w].key /\ v = writer[w].value
    OBVIOUS
<1>2. writer[w] \in AddCalls /\ writer[w].state = "storeData"
    BY CallOfState DEF StoreData, TableInv
<1>3. p \in Places /\ k \in Keys /\ v \in Values
    BY <1>1, <1>2 DEF AddCalls
<1>4. \A q \in Places : data'[q] = IF q = p THEN [key |-> k, value |-> v] ELSE data[q]
    BY <1>1, <1>3 DEF StoreData, TableInv, StateInv
<1>5. (\A q \in Places : HasKey(data, q, k) => q = p) /\ (data[p] = Null \/ HasKey(data, p, k))
    BY <1>1, <1>2 DEF TableInv, PlaceInv, IsKey, HasKey
<1>6. tags[p] = IF data[p] = Null THEN 0 ELSE Tag[data[p].key]
    BY <1>2, <1>3, OwnerIsAlone DEF TableInv, TagsMatchData
<1>7. Show(k, v) /\ UNCHANGED <<numEntries, tags, reader>>
    BY <1>1 DEF StoreData
<1> QED
    BY <1>3, <1>4, <1>5, <1>6, <1>7

LEMMA StoreTag_Effect ==
    ASSUME TableInv, NEW w \in Writers, StoreTag(w)
    PROVE  \E p \in Places, k \in Keys, v \in Values :
               /\ data[p] = [key |-> k, value |-> v]
               /\ \A q \in Places : tags'[q] = IF q = p THEN Tag[k] ELSE tags[q]
               /\ Show(k, v)
               /\ UNCHANGED <<numEntries, data, reader>>
<1>1. PICK p, k, v : p = writer[w].place /\ k = writer[w].key /\ v = writer[w].value
    OBVIOUS
<1>2. writer[w] \in AddCalls /\ writer[w].state = "storeTag"
    BY CallOfState DEF StoreTag, TableInv
<1>3. p \in Places /\ k \in Keys /\ v \in Values
    BY <1>1, <1>2 DEF AddCalls
<1>4. data[p] = [key |-> k, value |-> v]
    BY <1>1, <1>2 DEF TableInv, PlaceInv
<1>5. \A q \in Places : tags'[q] = IF q = p THEN Tag[k] ELSE tags[q]
    BY <1>1, <1>3 DEF StoreTag, TableInv, StateInv
<1>6. Show(k, v) /\ UNCHANGED <<numEntries, data, reader>>
    BY <1>1 DEF StoreTag
<1> QED
    BY <1>3, <1>4, <1>5, <1>6

LEMMA EraseData_Effect ==
    ASSUME TableInv, NEW w \in Writers, EraseData(w)
    PROVE  \E p \in Places, k \in Keys :
               /\ HasKey(data, p, k) /\ tags[p] = Tag[k]
               /\ \A q \in Places : data'[q] = IF q = p THEN Null ELSE data[q]
               /\ Show(k, Null)
               /\ UNCHANGED <<numEntries, tags, reader>>
<1>1. PICK p, k : p = writer[w].place /\ k = writer[w].key
    OBVIOUS
<1>2. writer[w] \in RemoveCalls /\ writer[w].state = "eraseData"
    BY CallOfState DEF EraseData, TableInv
<1>3. p \in Places /\ k \in Keys
    BY <1>1, <1>2 DEF RemoveCalls
<1>4. HasKey(data, p, k)
    BY <1>1, <1>2 DEF TableInv, PlaceInv, IsKey, HasKey
<1>5. tags[p] = Tag[k]
    BY <1>2, <1>3, <1>4, OwnerIsAlone DEF TableInv, TagsMatchData, HasKey
<1>6. \A q \in Places : data'[q] = IF q = p THEN Null ELSE data[q]
    BY <1>1, <1>3 DEF EraseData, TableInv, StateInv
<1>7. Show(k, Null) /\ UNCHANGED <<numEntries, tags, reader>>
    BY <1>1 DEF EraseData
<1> QED
    BY <1>3, <1>4, <1>5, <1>6, <1>7

LEMMA EraseTag_Effect ==
    ASSUME TableInv, NEW w \in Writers, EraseTag(w)
    PROVE  \E p \in Places :
               /\ data[p] = Null
               /\ \A q \in Places \ {p} : tags'[q] = tags[q]
               /\ UNCHANGED <<numEntries, data, reader, seen>>
<1>1. writer[w] \in RemoveCalls /\ writer[w].state = "eraseTag"
    BY CallOfState DEF EraseTag, TableInv
<1>2. writer[w].place \in Places /\ data[writer[w].place] = Null
    BY <1>1 DEF RemoveCalls, TableInv, PlaceInv
<1> QED
    BY <1>2 DEF EraseTag, TableInv, StateInv

LEMMA StoreData_ReaderInv ==
    ASSUME TableInv, ReaderInv, NEW w \in Writers, StoreData(w)
    PROVE  ReaderInv'
<1>1. PICK p \in Places, k \in Keys, v \in Values :
          /\ \A q \in Places : data'[q] = IF q = p THEN [key |-> k, value |-> v] ELSE data[q]
          /\ \A q \in Places : HasKey(data, q, k) => q = p
          /\ data[p] = Null \/ HasKey(data, p, k)
          /\ tags[p] = IF data[p] = Null THEN 0 ELSE Tag[data[p].key]
          /\ Show(k, v)
          /\ UNCHANGED <<numEntries, tags, reader>>
    BY StoreData_Effect
<1>2. PICK record \in Records : record = [key |-> k, value |-> v]
    BY DEF Records
<1>3. record # Null /\ record.key = k /\ record.value = v
    BY <1>2, NullAssumption DEF Records
<1>4. \A q \in Places : data'[q] = IF q = p THEN record ELSE data[q]
    BY <1>1, <1>2
<1>5. /\ ReaderTypes'
      /\ \A r \in Readers :
             /\ InCall(r)' = InCall(r)
             /\ seen[r] \subseteq seen'[r]
             /\ InCall(r) /\ reader[r].key = k => v \in seen'[r]
    BY <1>1, ShowExtends DEF ReaderInv
<1>6. HitInv'
    BY <1>1, <1>3, <1>4, <1>5 DEF ReaderInv, HitInv, IsKey
<1>7. MissInv'
    BY <1>1, <1>3, <1>4, <1>5 DEF ReaderInv, MissInv, IsKey, HasKey
<1> QED
    BY <1>5, <1>6, <1>7 DEF ReaderInv

LEMMA StoreTag_ReaderInv ==
    ASSUME TableInv, ReaderInv, NEW w \in Writers, StoreTag(w)
    PROVE  ReaderInv'
<1>1. PICK p \in Places, k \in Keys, v \in Values :
          /\ data[p] = [key |-> k, value |-> v]
          /\ \A q \in Places : tags'[q] = IF q = p THEN Tag[k] ELSE tags[q]
          /\ Show(k, v)
          /\ UNCHANGED <<numEntries, data, reader>>
    BY StoreTag_Effect
<1>2. data[p].key = k /\ data[p].value = v
    BY <1>1
<1>3. /\ ReaderTypes'
      /\ \A r \in Readers :
             /\ InCall(r)' = InCall(r)
             /\ seen[r] \subseteq seen'[r]
             /\ InCall(r) /\ reader[r].key = k => v \in seen'[r]
    BY <1>1, ShowExtends DEF ReaderInv
<1>4. HitInv'
    BY <1>1, <1>2, <1>3 DEF ReaderInv, HitInv, IsKey
<1>5. MissInv'
    BY <1>1, <1>2, <1>3 DEF ReaderInv, MissInv, IsKey
<1> QED
    BY <1>3, <1>4, <1>5 DEF ReaderInv

LEMMA EraseData_ReaderInv ==
    ASSUME TableInv, ReaderInv, NEW w \in Writers, EraseData(w)
    PROVE  ReaderInv'
<1>1. PICK p \in Places, k \in Keys :
          /\ HasKey(data, p, k) /\ tags[p] = Tag[k]
          /\ \A q \in Places : data'[q] = IF q = p THEN Null ELSE data[q]
          /\ Show(k, Null)
          /\ UNCHANGED <<numEntries, tags, reader>>
    BY EraseData_Effect
<1>2. /\ ReaderTypes'
      /\ \A r \in Readers :
             /\ InCall(r)' = InCall(r)
             /\ seen[r] \subseteq seen'[r]
             /\ InCall(r) /\ reader[r].key = k => Null \in seen'[r]
    BY <1>1, ShowExtends DEF ReaderInv
<1>3. HitInv'
    BY <1>1, <1>2 DEF ReaderInv, HitInv, IsKey
<1>4. MissInv'
    BY <1>1, <1>2 DEF ReaderInv, MissInv, IsKey, HasKey
<1> QED
    BY <1>2, <1>3, <1>4 DEF ReaderInv

LEMMA EraseTag_ReaderInv ==
    ASSUME TableInv, ReaderInv, NEW w \in Writers, EraseTag(w)
    PROVE  ReaderInv'
<1>1. PICK p \in Places :
          /\ data[p] = Null
          /\ \A q \in Places \ {p} : tags'[q] = tags[q]
          /\ UNCHANGED <<numEntries, data, reader, seen>>
    BY EraseTag_Effect
<1>2. ReaderTypes' /\ \A r \in Readers : InCall(r)' = InCall(r)
    BY <1>1 DEF ReaderInv, ReaderTypes, InCall
<1>3. HitInv'
    BY <1>1, <1>2 DEF ReaderInv, HitInv, IsKey
<1>4. MissInv'
    BY <1>1, <1>2 DEF ReaderInv, MissInv, IsKey
<1> QED
    BY <1>2, <1>3, <1>4 DEF ReaderInv

\* The other steps of writers and the destructor, which waits for the readers.
LEMMA Rest_ReaderInv ==
    ASSUME TableInv, ReaderInv,
           UNCHANGED <<tags, data, reader, seen>>,
           \/ numEntries <= numEntries' /\ numEntries' \in Nat
           \/ \A r \in Readers : ~InCall(r)
    PROVE  ReaderInv'
<1>1. \A r \in Readers : InCall(r)' = InCall(r)
    BY DEF InCall
<1>2. ReaderTypes'
    BY <1>1 DEF TableInv, StateInv, ReaderInv, ReaderTypes
<1>3. HitInv' /\ MissInv'
    BY <1>1 DEF ReaderInv, HitInv, MissInv, IsKey
<1> QED
    BY <1>2, <1>3 DEF ReaderInv

-------------------------------------------------------------------------------
(* What the readers do.                                                      *)

LEMMA BeginGet_ReaderInv ==
    ASSUME TableInv, ReaderInv, NEW r \in Readers, NEW k \in Keys, BeginGet(r, k)
    PROVE  ReaderInv'
<1>1. PICK call : call = [state |-> "tag", key |-> k, place |-> 1]
    OBVIOUS
<1>2. PICK found : found = Lookup(tags, data, k)
    OBVIOUS
<1>3. /\ numEntries > 0
      /\ reader' = [reader EXCEPT ![r] = call]
      /\ seen' = [seen EXCEPT ![r] = {found}]
      /\ UNCHANGED <<numEntries, tags, data>>
    BY <1>1, <1>2 DEF BeginGet
<1>4. call \in Gets /\ call.state = "tag" /\ call.key = k /\ call.place = 1
    BY <1>1 DEF Gets
<1>5. 1 \in Places /\ \A p \in Places : 1 <= p
  <2>1. MaxEntries * DataPerEntry \in Nat \ {0}
    BY SizesAssumption, TimesMonotonic
  <2> QED
    BY <2>1 DEF Places
<1>6. \A p, q \in Places : HasKey(data, p, k) /\ HasKey(data, q, k) => p = q
    BY DEF TableInv, OnePlacePerKey, HasKey
<1>7. \A p \in Places : HasKey(data, p, k) =>
          IF tags[p] = Tag[k] THEN found = data[p].value ELSE found = Null
    BY <1>2, <1>6, PlaceDecides
<1>8. (\A p \in Places : ~HasKey(data, p, k)) => found = Null
    BY <1>2, <1>6, PlaceDecides
<1>9. found \in Values \cup {Null}
    BY <1>7, <1>8 DEF TableInv, StateInv, Records, HasKey
<1>10. \A q \in Readers :
           /\ reader'[q] = IF q = r THEN call ELSE reader[q]
           /\ seen'[q] = IF q = r THEN {found} ELSE seen[q]
    BY <1>3 DEF ReaderInv, ReaderTypes
<1>11. ReaderTypes'
    BY <1>3, <1>4, <1>5, <1>9, <1>10 DEF ReaderInv, ReaderTypes, InCall
<1>12. HitInv'
    BY <1>3, <1>4, <1>7, <1>10 DEF ReaderInv, HitInv, IsKey, HasKey, InCall
<1>13. MissInv'
    BY <1>3, <1>4, <1>5, <1>7, <1>8, <1>10 DEF ReaderInv, MissInv, IsKey, HasKey, InCall
<1> QED
    BY <1>11, <1>12, <1>13 DEF ReaderInv

\* A reader goes on to the next place of its entry, or to the end of the entry.
LEMMA AfterPlace ==
    ASSUME ReaderTypes, NEW r \in Readers, reader[r].state \in {"tag", "data"},
           NEW call, call = After(reader[r])
    PROVE  /\ call \in Gets /\ call.key = reader[r].key
           /\ call.place = reader[r].place + 1
           /\ call.state \in {"tag", "next"}
           /\ call.state = "tag" => call.place \in Places
<1>1. reader[r] \in Gets /\ reader[r].place \in Places
    BY DEF ReaderTypes, Gets, Returns, Idle
<1>2. PICK x \in Nat \ {0} : x = reader[r].place
    BY <1>1 DEF Gets
<1>3. call = [[reader[r] EXCEPT !.place = x + 1] EXCEPT !.state = IF x % DataPerEntry = 0 THEN "next" ELSE "tag"]
    BY <1>1, <1>2 DEF After, Gets
<1>4. /\ call \in Gets /\ call.key = reader[r].key /\ call.place = x + 1
      /\ call.state = IF x % DataPerEntry = 0 THEN "next" ELSE "tag"
  <2>1. PICK moved : moved = [reader[r] EXCEPT !.place = x + 1]
    OBVIOUS
  <2>2. moved \in Gets /\ moved.key = reader[r].key /\ moved.place = x + 1
    BY <1>1, <2>1 DEF Gets
  <2>3. PICK s \in {"tag", "next"} : s = IF x % DataPerEntry = 0 THEN "next" ELSE "tag"
    OBVIOUS
  <2>4. call = [moved EXCEPT !.state = s]
    BY <1>3, <2>1, <2>3
  <2>5. call \in Gets /\ call.key = moved.key /\ call.place = moved.place /\ call.state = s
    BY <2>2, <2>4 DEF Gets
  <2> QED
    BY <2>2, <2>3, <2>5
<1>5. x % DataPerEntry # 0 => x + 1 \in Places
  <2>1. x = MaxEntries * DataPerEntry => x % DataPerEntry = 0
    <3> SUFFICES ASSUME x = MaxEntries * DataPerEntry PROVE x % DataPerEntry = 0
      OBVIOUS
    <3>1. /\ x \div DataPerEntry \in Nat /\ x % DataPerEntry \in 0 .. DataPerEntry - 1
          /\ x = (x \div DataPerEntry) * DataPerEntry + (x % DataPerEntry)
      BY Division, SizesAssumption
    <3>2. MaxEntries <= x \div DataPerEntry
      BY Quotient, SizesAssumption
    <3>3. MaxEntries * DataPerEntry <= (x \div DataPerEntry) * DataPerEntry
      BY <3>1, <3>2, TimesMonotonic, SizesAssumption
    <3>4. (x \div DataPerEntry) * DataPerEntry \in Nat
      BY <3>1, TimesMonotonic, SizesAssumption
    <3> QED
      BY <3>1, <3>3, <3>4, SizesAssumption
  <2>2. MaxEntries * DataPerEntry \in Nat
    BY SizesAssumption, TimesMonotonic
  <2> QED
    BY <1>1, <1>2, <2>1, <2>2 DEF Places
<1> QED
    BY <1>2, <1>4, <1>5

LEMMA GoOn_ReaderInv ==
    ASSUME TableInv, ReaderInv, NEW r \in Readers, reader[r].state \in {"tag", "data"},
           ~(IsKey(reader[r].place, reader[r].key) /\ tags[reader[r].place] = Tag[reader[r].key]),
           reader' = [reader EXCEPT ![r] = After(reader[r])],
           UNCHANGED <<numEntries, tags, data, seen>>
    PROVE  ReaderInv'
<1>1. PICK call : call = After(reader[r])
    OBVIOUS
<1>2. /\ call \in Gets /\ call.key = reader[r].key
      /\ call.place = reader[r].place + 1
      /\ call.state \in {"tag", "next"}
      /\ call.state = "tag" => call.place \in Places
    BY <1>1, AfterPlace DEF ReaderInv
<1>3. \A q \in Readers : reader'[q] = IF q = r THEN call ELSE reader[q]
    BY <1>1 DEF ReaderInv, ReaderTypes
<1>4. reader[r].place \in Nat \ {0} /\ Places \subseteq Nat /\ InCall(r)
    BY PlacesAreEntries DEF ReaderInv, ReaderTypes, InCall
<1>5. ReaderTypes'
    BY <1>1, <1>2, <1>3, <1>4 DEF ReaderInv, ReaderTypes, InCall
<1>6. HitInv'
    BY <1>2, <1>3, <1>4 DEF ReaderInv, HitInv, IsKey, InCall
<1>7. MissInv'
  <2>1. \A p \in Places : IsKey(p, reader[r].key) /\ tags[p] = Tag[reader[r].key]
            /\ reader[r].place <= p => call.place <= p
    <3>1. PICK x : x = reader[r].place
      OBVIOUS
    <3>2. \A p \in Places : IsKey(p, reader[r].key) /\ tags[p] = Tag[reader[r].key] => p # x
      BY <3>1 DEF IsKey
    <3> QED
      BY <1>2, <1>4, <3>1, <3>2
  <2> QED
    BY <1>2, <1>3, <1>4, <2>1 DEF ReaderInv, MissInv, IsKey, InCall
<1> QED
    BY <1>5, <1>6, <1>7 DEF ReaderInv

\* A call goes on at the place where it is.
LEMMA Stay_ReaderInv ==
    ASSUME TableInv, ReaderInv, NEW r \in Readers, InCall(r), NEW s \in {"tag", "data"},
           reader' = [reader EXCEPT ![r] = [reader[r] EXCEPT !.state = s]],
           reader[r].place \in Places,
           s = "data" => tags[reader[r].place] = Tag[reader[r].key] /\ reader[r].state = "tag",
           UNCHANGED <<numEntries, tags, data, seen>>
    PROVE  ReaderInv'
<1>1. PICK call : call = [reader[r] EXCEPT !.state = s]
    OBVIOUS
<1>2. reader[r] \in Gets
    BY CallOfReader DEF ReaderInv
<1>3. call \in Gets /\ call.state = s /\ call.key = reader[r].key /\ call.place = reader[r].place
    BY <1>1, <1>2 DEF Gets
<1>4. \A q \in Readers : reader'[q] = IF q = r THEN call ELSE reader[q]
    BY <1>1 DEF ReaderInv, ReaderTypes
<1>5. ReaderTypes'
    BY <1>1, <1>3, <1>4 DEF ReaderInv, ReaderTypes, InCall
<1>6. HitInv'
    BY <1>3, <1>4 DEF ReaderInv, HitInv, IsKey, InCall
<1>7. MissInv'
    BY <1>3, <1>4 DEF ReaderInv, MissInv, IsKey, InCall
<1> QED
    BY <1>5, <1>6, <1>7 DEF ReaderInv

LEMMA Return_ReaderInv ==
    ASSUME TableInv, ReaderInv, NEW r \in Readers, NEW v \in Values \cup {Null}, Return(r, v),
           UNCHANGED <<numEntries, tags, data>>
    PROVE  ReaderInv'
<1>1. PICK call : call = [state |-> "returned", value |-> v]
    OBVIOUS
<1>2. call \in Returns /\ call.state = "returned"
    BY <1>1 DEF Returns
<1>3. \A q \in Readers : /\ reader'[q] = IF q = r THEN call ELSE reader[q]
                         /\ seen'[q] = IF q = r THEN {} ELSE seen[q]
    BY <1>1 DEF Return, ReaderInv, ReaderTypes
<1>4. ReaderTypes'
    BY <1>1, <1>2, <1>3 DEF Return, ReaderInv, ReaderTypes, InCall
<1>5. HitInv' /\ MissInv'
    BY <1>2, <1>3 DEF ReaderInv, HitInv, MissInv, IsKey, InCall
<1> QED
    BY <1>4, <1>5 DEF ReaderInv

\* What a call returns is among what it has seen.
LEMMA HitIsSeen ==
    ASSUME TableInv, ReaderInv, NEW r \in Readers, reader[r].state = "data",
           IsKey(reader[r].place, reader[r].key)
    PROVE  data[reader[r].place].value \in seen[r] /\ data[reader[r].place].value \in Values
    BY DEF TableInv, StateInv, ReaderInv, ReaderTypes, HitInv, InCall, IsKey, Records

LEMMA MissIsSeen ==
    ASSUME TableInv, ReaderInv, NEW r \in Readers, reader[r].state = "next",
           ~(reader[r].place <= numEntries * DataPerEntry)
    PROVE  Null \in seen[r]
<1> SUFFICES ASSUME NEW p \in Places, IsKey(p, reader[r].key), reader[r].place <= p
             PROVE  FALSE
    BY DEF ReaderInv, MissInv, InCall
<1>1. reader[r].place \in Nat \ {0} /\ numEntries > 0 /\ numEntries \in Nat
    BY CallOfReader DEF ReaderInv, ReaderTypes, InCall, Gets, TableInv, StateInv
<1>2. p \in Nat \ {0} /\ numEntries * DataPerEntry \in Nat
    BY <1>1, PlacesAreEntries, TimesMonotonic, SizesAssumption
<1>3. ~(EntryOf(p) <= numEntries)
    BY <1>1, <1>2, EntryBound
<1> QED
    BY <1>1, <1>3 DEF TableInv, ChainInv, InChain, IsKey

-------------------------------------------------------------------------------
(* The refinement.                                                           *)

GetOf(call, values) ==
    CASE call.state = "idle" -> [state |-> "none"]
      [] call.state = "returned" -> call
      [] OTHER -> [state |-> "called", key |-> call.key, seen |-> values]

LEMMA GetOfCall ==
    ASSUME NEW call \in Gets \cup Returns \cup {Idle}, NEW values
    PROVE  /\ call \in Gets => GetOf(call, values) = [state |-> "called", key |-> call.key, seen |-> values]
           /\ call \in Returns => GetOf(call, values) = call
           /\ call = Idle => GetOf(call, values) = [state |-> "none"]
           /\ GetOf(call, values).state = "called" <=> call \in Gets
<1>1. CASE call \in Gets
    BY <1>1 DEF Gets, Returns, Idle, GetOf
<1>2. CASE call \in Returns
    BY <1>2 DEF Gets, Returns, Idle, GetOf
<1>3. CASE call = Idle
    BY <1>3 DEF Gets, Returns, Idle, GetOf
<1> QED
    BY <1>1, <1>2, <1>3

LEMMA GetIs ==
    /\ get = [r \in Readers |-> GetOf(reader[r], seen[r])]
    /\ get' = [r \in Readers |-> GetOf(reader'[r], seen'[r])]
    BY DEF get, GetOf

\* A value that is shown to the readers is shown to their callers.
LEMMA ShowIsPromised ==
    ASSUME ReaderTypes, NEW k, NEW v, Show(k, v), UNCHANGED reader
    PROVE  Promise!Show(k, v)
<1>1. ASSUME NEW r \in Readers
      PROVE  GetOf(reader[r], seen'[r]) =
                 IF get[r].state = "called" /\ get[r].key = k
                 THEN Promise!Call(k, get[r].seen \cup {v}) ELSE get[r]
  <2>1. get[r] = GetOf(reader[r], seen[r])
    BY GetIs
  <2>2. CASE reader[r] \in Gets
    <3>1. get[r] = [state |-> "called", key |-> reader[r].key, seen |-> seen[r]]
      BY <2>1, <2>2, GetOfCall
    <3>2. GetOf(reader[r], seen'[r]) = [state |-> "called", key |-> reader[r].key, seen |-> seen'[r]]
      BY <2>2, GetOfCall
    <3>3. seen'[r] = IF reader[r].key = k THEN seen[r] \cup {v} ELSE seen[r]
      BY <2>2 DEF Show, Gets
    <3> QED
      BY <3>1, <3>2, <3>3 DEF Promise!Call
  <2>3. CASE reader[r] \notin Gets
    <3>1. GetOf(reader[r], seen'[r]) = GetOf(reader[r], seen[r])
      BY <2>3, GetOfCall DEF ReaderTypes
    <3>2. get[r].state # "called"
      BY <2>1, <2>3, GetOfCall DEF ReaderTypes
    <3> QED
      BY <2>1, <3>1, <3>2
  <2> QED
    BY <2>2, <2>3
<1>2. get' = [r \in Readers |-> GetOf(reader[r], seen'[r])]
    BY GetIs
<1> QED
    BY <1>1, <1>2 DEF Promise!Show

\* An Add() or a Remove() takes effect in the map.
LEMMA SetIsPromised ==
    ASSUME NEW k \in Keys, NEW v \in Values \cup {Null},
           Coming(tags, data, k) \in {Null, v},
           Lookup(tags, data, k)' = v,
           Coming(tags, data, k)' = Null,
           \A j \in Keys \ {k} : /\ Lookup(tags, data, j)' = Lookup(tags, data, j)
                                 /\ Coming(tags, data, j)' = Coming(tags, data, j),
           Promise!Show(k, v)
    PROVE  Promise!Next
    BY DEF Promise!Next, Promise!Set

LEMMA OfferIsPromised ==
    ASSUME NEW k \in Keys, NEW v \in Values,
           Lookup(tags, data, k) = Null,
           Coming(tags, data, k) = Null,
           Lookup(tags, data, k)' = Null,
           Coming(tags, data, k)' = v,
           \A j \in Keys \ {k} : /\ Lookup(tags, data, j)' = Lookup(tags, data, j)
                                 /\ Coming(tags, data, j)' = Coming(tags, data, j),
           Promise!Show(k, v)
    PROVE  Promise!Next
    BY DEF Promise!Next, Promise!Offer

LEMMA UniqueKeys ==
    /\ TableInv => \A j \in Keys, p, q \in Places : HasKey(data, p, j) /\ HasKey(data, q, j) => p = q
    /\ TableInv' => \A j \in Keys, p, q \in Places : HasKey(data', p, j) /\ HasKey(data', q, j) => p = q
    BY DEF TableInv, OnePlacePerKey, HasKey

\* The step changes nothing at the place of key j.
Untouched(j) ==
    \A q \in Places : /\ HasKey(data, q, j) => HasKey(data', q, j)
                      /\ HasKey(data', q, j) => HasKey(data, q, j)
                      /\ HasKey(data, q, j) => data[q] = data'[q] /\ tags[q] = tags'[q]

LEMMA KeyUntouched ==
    ASSUME TableInv, NEW j \in Keys, Untouched(j)
    PROVE  Lookup(tags', data', j) = Lookup(tags, data, j) /\ Coming(tags', data', j) = Coming(tags, data, j)
<1>1. PICK t, d, u, e : t = tags /\ d = data /\ u = tags' /\ e = data'
    OBVIOUS
<1>2. \A p, q \in Places : HasKey(d, p, j) /\ HasKey(d, q, j) => p = q
    BY <1>1, UniqueKeys
<1>3. \A p \in Places : HasKey(d, p, j) <=> HasKey(e, p, j)
    BY <1>1 DEF Untouched
<1>4. \A p \in Places : HasKey(d, p, j) => d[p] = e[p] /\ t[p] = u[p]
    BY <1>1 DEF Untouched
<1>5. Lookup(u, e, j) = Lookup(t, d, j) /\ Coming(u, e, j) = Coming(t, d, j)
    BY <1>2, <1>3, <1>4, SamePlace
<1> QED
    BY <1>1, <1>5

LEMMA StoreData_Promise ==
    ASSUME TableInv, TableInv', ReaderInv, NEW w \in Writers, StoreData(w)
    PROVE  Promise!Next
<1>1. PICK p \in Places, k \in Keys, v \in Values :
          /\ \A q \in Places : data'[q] = IF q = p THEN [key |-> k, value |-> v] ELSE data[q]
          /\ \A q \in Places : HasKey(data, q, k) => q = p
          /\ data[p] = Null \/ HasKey(data, p, k)
          /\ tags[p] = IF data[p] = Null THEN 0 ELSE Tag[data[p].key]
          /\ Show(k, v)
          /\ UNCHANGED <<numEntries, tags, reader>>
    BY StoreData_Effect
<1>2. PICK record \in Records : record = [key |-> k, value |-> v]
    BY DEF Records
<1>3. record # Null /\ record.key = k /\ record.value = v
    BY <1>2, NullAssumption DEF Records
<1>4. \A q \in Places : data'[q] = IF q = p THEN record ELSE data[q]
    BY <1>1, <1>2
<1>5. Promise!Show(k, v)
    BY <1>1, ShowIsPromised DEF ReaderInv
<1>6. ASSUME NEW j \in Keys \ {k}
      PROVE  Lookup(tags, data, j)' = Lookup(tags, data, j) /\ Coming(tags, data, j)' = Coming(tags, data, j)
  <2>1. Untouched(j)
    BY <1>1, <1>3, <1>4 DEF Untouched, HasKey
  <2>2. Lookup(tags', data', j) = Lookup(tags, data, j) /\ Coming(tags', data', j) = Coming(tags, data, j)
    BY <2>1, KeyUntouched
  <2> QED
    BY <2>2
<1>7. IF tags'[p] = Tag[k]
      THEN Lookup(tags', data', k) = v /\ Coming(tags', data', k) = Null
      ELSE Lookup(tags', data', k) = Null /\ Coming(tags', data', k) = v
  <2>1. HasKey(data', p, k) /\ data'[p].value = v
    BY <1>3, <1>4 DEF HasKey
  <2> QED
    BY <2>1, UniqueKeys, PlaceDecides
<1>8. CASE tags[p] = Tag[k]
  <2>1. Coming(tags, data, k) = Null
    <3>1. CASE HasKey(data, p, k)
      BY <1>8, <3>1, UniqueKeys, PlaceDecides
    <3>2. CASE ~HasKey(data, p, k)
      BY <1>1, <3>2, UniqueKeys, PlaceDecides
    <3> QED
      BY <3>1, <3>2
  <2>2. Lookup(tags', data', k) = v /\ Coming(tags', data', k) = Null
    BY <1>1, <1>7, <1>8
  <2> QED
    BY <1>5, <1>6, <2>1, <2>2, SetIsPromised
<1>9. CASE tags[p] # Tag[k]
  <2>1. \A q \in Places : ~HasKey(data, q, k)
    BY <1>1, <1>9 DEF HasKey
  <2>2. Lookup(tags, data, k) = Null /\ Coming(tags, data, k) = Null
    BY <2>1, PlaceDecides
  <2>3. Lookup(tags', data', k) = Null /\ Coming(tags', data', k) = v
    BY <1>1, <1>7, <1>9
  <2> QED
    BY <1>5, <1>6, <2>2, <2>3, OfferIsPromised
<1> QED
    BY <1>8, <1>9

LEMMA StoreTag_Promise ==
    ASSUME TableInv, TableInv', ReaderInv, NEW w \in Writers, StoreTag(w)
    PROVE  Promise!Next
<1>1. PICK p \in Places, k \in Keys, v \in Values :
          /\ data[p] = [key |-> k, value |-> v]
          /\ \A q \in Places : tags'[q] = IF q = p THEN Tag[k] ELSE tags[q]
          /\ Show(k, v)
          /\ UNCHANGED <<numEntries, data, reader>>
    BY StoreTag_Effect
<1>2. HasKey(data, p, k) /\ HasKey(data', p, k) /\ data[p].value = v /\ data'[p].value = v
  <2>1. [key |-> k, value |-> v] # Null
    BY NullAssumption
  <2> QED
    BY <1>1, <2>1 DEF HasKey
<1>3. Promise!Show(k, v)
    BY <1>1, ShowIsPromised DEF ReaderInv
<1>4. ASSUME NEW j \in Keys \ {k}
      PROVE  Lookup(tags, data, j)' = Lookup(tags, data, j) /\ Coming(tags, data, j)' = Coming(tags, data, j)
  <2>1. Untouched(j)
    BY <1>1, <1>2 DEF Untouched, HasKey
  <2>2. Lookup(tags', data', j) = Lookup(tags, data, j) /\ Coming(tags', data', j) = Coming(tags, data, j)
    BY <2>1, KeyUntouched
  <2> QED
    BY <2>2
<1>5. Coming(tags, data, k) \in {Null, v}
    BY <1>2, UniqueKeys, PlaceDecides
<1>6. Lookup(tags', data', k) = v /\ Coming(tags', data', k) = Null
    BY <1>1, <1>2, UniqueKeys, PlaceDecides
<1> QED
    BY <1>3, <1>4, <1>5, <1>6, SetIsPromised

LEMMA EraseData_Promise ==
    ASSUME TableInv, TableInv', ReaderInv, NEW w \in Writers, EraseData(w)
    PROVE  Promise!Next
<1>1. PICK p \in Places, k \in Keys :
          /\ HasKey(data, p, k) /\ tags[p] = Tag[k]
          /\ \A q \in Places : data'[q] = IF q = p THEN Null ELSE data[q]
          /\ Show(k, Null)
          /\ UNCHANGED <<numEntries, tags, reader>>
    BY EraseData_Effect
<1>2. Promise!Show(k, Null)
    BY <1>1, ShowIsPromised DEF ReaderInv
<1>3. ASSUME NEW j \in Keys \ {k}
      PROVE  Lookup(tags, data, j)' = Lookup(tags, data, j) /\ Coming(tags, data, j)' = Coming(tags, data, j)
  <2>1. Untouched(j)
    BY <1>1 DEF Untouched, HasKey
  <2>2. Lookup(tags', data', j) = Lookup(tags, data, j) /\ Coming(tags', data', j) = Coming(tags, data, j)
    BY <2>1, KeyUntouched
  <2> QED
    BY <2>2
<1>4. Coming(tags, data, k) = Null
    BY <1>1, UniqueKeys, PlaceDecides
<1>5. \A q \in Places : ~HasKey(data', q, k)
    BY <1>1, UniqueKeys DEF HasKey
<1>6. Lookup(tags', data', k) = Null /\ Coming(tags', data', k) = Null
    BY <1>5, PlaceDecides
<1> QED
    BY <1>2, <1>3, <1>4, <1>6, SetIsPromised

\* The tag of a place without data is nothing to a reader.
LEMMA EraseTag_Promise ==
    ASSUME TableInv, TableInv', ReaderInv, NEW w \in Writers, EraseTag(w)
    PROVE  UNCHANGED Promise!vars
<1>1. PICK p \in Places :
          /\ data[p] = Null
          /\ \A q \in Places \ {p} : tags'[q] = tags[q]
          /\ UNCHANGED <<numEntries, data, reader, seen>>
    BY EraseTag_Effect
<1>2. ASSUME NEW j \in Keys
      PROVE  Lookup(tags, data, j)' = Lookup(tags, data, j) /\ Coming(tags, data, j)' = Coming(tags, data, j)
  <2>1. Untouched(j)
    BY <1>1 DEF Untouched, HasKey
  <2>2. Lookup(tags', data', j) = Lookup(tags, data, j) /\ Coming(tags', data', j) = Coming(tags, data, j)
    BY <2>1, KeyUntouched
  <2> QED
    BY <2>2
<1>3. get' = get
    BY <1>1, GetIs
<1> QED
    BY <1>2, <1>3 DEF Promise!vars

-------------------------------------------------------------------------------
(* Every step.                                                               *)

LEMMA Write_ReaderInv ==
    ASSUME TableInv, TableInv', ReaderInv, NEW w \in Writers, Write(w)
    PROVE  ReaderInv'
<1>1. ASSUME NEW k \in Keys, BeginRemove(w, k) PROVE ReaderInv'
    BY <1>1, Rest_ReaderInv DEF BeginRemove, TableInv, StateInv
<1>2. ASSUME NEW k \in Keys, NEW v \in Values, BeginAdd(w, k, v) PROVE ReaderInv'
  <2>1. numEntries' \in {numEntries, numEntries + 1} /\ numEntries \in Nat
    BY <1>2 DEF BeginAdd, ChainFor, TableInv, StateInv
  <2> QED
    BY <1>2, <2>1, Rest_ReaderInv DEF BeginAdd
<1>3. CASE EndAdd(w)
    BY <1>3, Rest_ReaderInv DEF EndAdd, TableInv, StateInv
<1>4. CASE EndRemove(w)
    BY <1>4, Rest_ReaderInv DEF EndRemove, TableInv, StateInv
<1> QED
    BY <1>1, <1>2, <1>3, <1>4, StoreData_ReaderInv, StoreTag_ReaderInv,
       EraseData_ReaderInv, EraseTag_ReaderInv DEF Write

\* What a reader that is in a call does next.
LEMMA ReadTag_Cases ==
    ASSUME ReaderInv, NEW r \in Readers, ReadTag(r)
    PROVE  /\ reader[r].state = "tag" /\ UNCHANGED <<numEntries, tags, data, seen>>
           /\ IF tags[reader[r].place] = Tag[reader[r].key]
              THEN reader' = [reader EXCEPT ![r] = [reader[r] EXCEPT !.state = "data"]]
              ELSE reader' = [reader EXCEPT ![r] = After(reader[r])]
    BY DEF ReadTag

LEMMA ReadData_Cases ==
    ASSUME ReaderInv, NEW r \in Readers, ReadData(r)
    PROVE  /\ reader[r].state = "data" /\ UNCHANGED <<numEntries, tags, data>>
           /\ IF IsKey(reader[r].place, reader[r].key)
              THEN Return(r, data[reader[r].place].value)
              ELSE reader' = [reader EXCEPT ![r] = After(reader[r])] /\ UNCHANGED seen
    BY DEF ReadData

LEMMA LoadNext_Cases ==
    ASSUME TableInv, ReaderInv, NEW r \in Readers, LoadNext(r)
    PROVE  /\ reader[r].state = "next" /\ UNCHANGED <<numEntries, tags, data>>
           /\ \/ /\ reader[r].place \in Places
                 /\ reader' = [reader EXCEPT ![r] = [reader[r] EXCEPT !.state = "tag"]]
                 /\ UNCHANGED seen
              \/ /\ ~(reader[r].place <= numEntries * DataPerEntry)
                 /\ Return(r, Null)
<1>1. reader[r] \in Gets /\ reader[r].place \in Nat \ {0}
    BY CallOfReader DEF LoadNext, ReaderInv, InCall, Gets
<1>2. ASSUME reader[r].place <= numEntries * DataPerEntry
      PROVE  reader[r].place \in Places
  <2>1. numEntries \in 0 .. MaxEntries
    BY DEF TableInv, StateInv
  <2>2. numEntries * DataPerEntry <= MaxEntries * DataPerEntry
    <3>1. numEntries = MaxEntries \/ numEntries < MaxEntries
      BY <2>1, SizesAssumption
    <3>2. /\ numEntries * DataPerEntry \in Nat /\ MaxEntries * DataPerEntry \in Nat
          /\ numEntries < MaxEntries => numEntries * DataPerEntry + DataPerEntry <= MaxEntries * DataPerEntry
      BY <2>1, SizesAssumption, TimesMonotonic
    <3> QED
      BY <3>1, <3>2, SizesAssumption
  <2>3. numEntries * DataPerEntry \in Nat /\ MaxEntries * DataPerEntry \in Nat
    BY <2>1, SizesAssumption, TimesMonotonic
  <2> QED
    BY <1>1, <1>2, <2>2, <2>3 DEF Places
<1> QED
    BY <1>2 DEF LoadNext

LEMMA Read_ReaderInv ==
    ASSUME TableInv, ReaderInv, NEW r \in Readers, Read(r)
    PROVE  ReaderInv'
<1>1. CASE ReadTag(r)
    BY <1>1, ReadTag_Cases, Stay_ReaderInv, GoOn_ReaderInv DEF ReaderInv, ReaderTypes, InCall
<1>2. CASE ReadData(r)
    BY <1>2, ReadData_Cases, HitIsSeen, Return_ReaderInv, GoOn_ReaderInv
<1>3. CASE LoadNext(r)
  <2>1. InCall(r)
    BY <1>3, LoadNext_Cases DEF InCall
  <2> QED
    BY <1>3, <2>1, LoadNext_Cases, Stay_ReaderInv, Return_ReaderInv
<1> QED
    BY <1>1, <1>2, <1>3, BeginGet_ReaderInv DEF Read

LEMMA Next_ReaderInv == TableInv /\ TableInv' /\ ReaderInv /\ [Next]_vars => ReaderInv'
<1> SUFFICES ASSUME TableInv, TableInv', ReaderInv, [Next]_vars PROVE ReaderInv'
    OBVIOUS
<1>1. CASE Destroy
    BY <1>1, Rest_ReaderInv DEF Destroy, InCall
<1>2. CASE UNCHANGED vars
    BY <1>2, Rest_ReaderInv DEF vars, TableInv, StateInv
<1> QED
    BY <1>1, <1>2, Write_ReaderInv, Read_ReaderInv DEF Next, Destroyed

LEMMA Init_ReaderInv == Init => ReaderInv
    BY DEF Init, ReaderInv, ReaderTypes, HitInv, MissInv, InCall, Idle

LEMMA ReaderInvariance == Spec => []ReaderInv
    BY Init_ReaderInv, Next_ReaderInv, TableInvariance, PTL DEF Spec

-------------------------------------------------------------------------------
(* Every step keeps the promise.                                             *)

LEMMA StutterIsPromised ==
    ASSUME UNCHANGED <<tags, data>>, get' = get
    PROVE  UNCHANGED Promise!vars
    BY DEF Promise!vars, Lookup, Coming

LEMMA BeginGet_Promise ==
    ASSUME ReaderInv, NEW r \in Readers, NEW k \in Keys, BeginGet(r, k)
    PROVE  Promise!Next
<1>1. PICK call : call = [state |-> "tag", key |-> k, place |-> 1]
    OBVIOUS
<1>2. PICK found : found = Lookup(tags, data, k)
    OBVIOUS
<1>3. call \in Gets /\ call.key = k
    BY <1>1 DEF Gets
<1>4. /\ \A q \in Readers : /\ reader'[q] = IF q = r THEN call ELSE reader[q]
                            /\ seen'[q] = IF q = r THEN {found} ELSE seen[q]
      /\ UNCHANGED <<tags, data>>
    BY <1>1, <1>2 DEF BeginGet, ReaderInv, ReaderTypes
<1>5. get[r].state # "called"
  <2>1. reader[r] \notin Gets /\ reader[r] \in Gets \cup Returns \cup {Idle}
    BY DEF BeginGet, ReaderInv, ReaderTypes, Gets
  <2> QED
    BY <2>1, GetIs, GetOfCall
<1>6. GetOf(reader'[r], seen'[r]) = Promise!Call(k, {found})
    BY <1>3, <1>4, GetOfCall DEF Promise!Call
<1>7. get' = [get EXCEPT ![r] = Promise!Call(k, {found})]
    BY <1>4, <1>6, GetIs
<1>8. UNCHANGED <<[j \in Keys |-> Lookup(tags, data, j)], [j \in Keys |-> Coming(tags, data, j)]>>
    BY <1>4 DEF Lookup, Coming
<1>9. Promise!BeginGet(r, k)
    BY <1>2, <1>5, <1>7, <1>8 DEF Promise!BeginGet
<1> QED
    BY <1>9 DEF Promise!Next

\* A call that goes on.
LEMMA GoOn_Promise ==
    ASSUME ReaderInv, NEW r \in Readers, InCall(r), NEW call \in Gets,
           call.key = reader[r].key, reader' = [reader EXCEPT ![r] = call],
           UNCHANGED <<tags, data, seen>>
    PROVE  UNCHANGED Promise!vars
<1>1. \A q \in Readers : reader'[q] = IF q = r THEN call ELSE reader[q]
    BY DEF ReaderInv, ReaderTypes
<1>2. reader[r] \in Gets
    BY CallOfReader DEF ReaderInv
<1>3. GetOf(reader'[r], seen'[r]) = GetOf(reader[r], seen[r])
    BY <1>1, <1>2, GetOfCall
<1>4. get' = get
    BY <1>1, <1>3, GetIs
<1> QED
    BY <1>4, StutterIsPromised

LEMMA Return_Promise ==
    ASSUME ReaderInv, NEW r \in Readers, InCall(r), NEW v \in seen[r], Return(r, v),
           UNCHANGED <<tags, data>>
    PROVE  Promise!Next
<1>1. PICK call : call = [state |-> "returned", value |-> v]
    OBVIOUS
<1>2. v \in Values \cup {Null}
    BY DEF ReaderInv, ReaderTypes
<1>3. call \in Returns
    BY <1>1, <1>2 DEF Returns
<1>4. \A q \in Readers : /\ reader'[q] = IF q = r THEN call ELSE reader[q]
                         /\ q # r => seen'[q] = seen[q]
    BY <1>1 DEF Return, ReaderInv, ReaderTypes
<1>5. reader[r] \in Gets
    BY CallOfReader DEF ReaderInv
<1>6. get[r] = [state |-> "called", key |-> reader[r].key, seen |-> seen[r]]
    BY <1>5, GetIs, GetOfCall
<1>7. GetOf(reader'[r], seen'[r]) = Promise!Return(v)
    BY <1>1, <1>3, <1>4, GetOfCall DEF Promise!Return
<1>8. get' = [get EXCEPT ![r] = Promise!Return(v)]
    BY <1>4, <1>7, GetIs
<1>9. UNCHANGED <<[j \in Keys |-> Lookup(tags, data, j)], [j \in Keys |-> Coming(tags, data, j)]>>
    BY DEF Lookup, Coming
<1>10. get[r].state = "called" /\ v \in get[r].seen
    BY <1>6
<1>11. \E u \in get[r].seen : get' = [get EXCEPT ![r] = Promise!Return(u)]
  <2> USE <1>10
  <2> WITNESS v \in get[r].seen
  <2> QED
    BY <1>8
<1>12. Promise!EndGet(r)
    BY <1>9, <1>10, <1>11 DEF Promise!EndGet
<1> QED
    BY <1>12 DEF Promise!Next

LEMMA Read_Promise ==
    ASSUME TableInv, ReaderInv, NEW r \in Readers, Read(r)
    PROVE  Promise!Next \/ UNCHANGED Promise!vars
<1>1. CASE ReadTag(r)
  <2>1. InCall(r) /\ reader[r] \in Gets
    BY <1>1, ReadTag_Cases, CallOfReader DEF ReaderInv, InCall
  <2>2. CASE reader' = [reader EXCEPT ![r] = [reader[r] EXCEPT !.state = "data"]]
    <3>1. PICK call : call = [reader[r] EXCEPT !.state = "data"]
      OBVIOUS
    <3>2. call \in Gets /\ call.key = reader[r].key
      BY <2>1, <3>1 DEF Gets
    <3> QED
      BY <1>1, <2>1, <2>2, <3>1, <3>2, ReadTag_Cases, GoOn_Promise
  <2>3. CASE reader' = [reader EXCEPT ![r] = After(reader[r])]
    <3>1. PICK call : call = After(reader[r])
      OBVIOUS
    <3>2. call \in Gets /\ call.key = reader[r].key
      BY <1>1, <3>1, ReadTag_Cases, AfterPlace DEF ReaderInv
    <3> QED
      BY <1>1, <2>1, <2>3, <3>1, <3>2, ReadTag_Cases, GoOn_Promise
  <2> QED
    BY <1>1, <2>2, <2>3, ReadTag_Cases
<1>2. CASE ReadData(r)
  <2>1. InCall(r) /\ reader[r].state = "data"
    BY <1>2, ReadData_Cases DEF InCall
  <2>2. CASE IsKey(reader[r].place, reader[r].key)
    BY <1>2, <2>1, <2>2, ReadData_Cases, HitIsSeen, Return_Promise
  <2>3. CASE ~IsKey(reader[r].place, reader[r].key)
    BY <1>2, <2>1, <2>3, ReadData_Cases, AfterPlace, GoOn_Promise DEF ReaderInv
  <2> QED
    BY <2>2, <2>3
<1>3. CASE LoadNext(r)
  <2>1. InCall(r) /\ reader[r] \in Gets /\ reader[r].state = "next"
    BY <1>3, LoadNext_Cases, CallOfReader DEF ReaderInv, InCall
  <2>2. PICK call : call = [reader[r] EXCEPT !.state = "tag"]
    OBVIOUS
  <2>3. call \in Gets /\ call.key = reader[r].key
    BY <2>1, <2>2 DEF Gets
  <2> QED
    BY <1>3, <2>1, <2>2, <2>3, LoadNext_Cases, MissIsSeen, GoOn_Promise, Return_Promise
<1> QED
    BY <1>1, <1>2, <1>3, BeginGet_Promise DEF Read

LEMMA Next_Promise ==
    TableInv /\ TableInv' /\ ReaderInv /\ [Next]_vars => [Promise!Next]_(Promise!vars)
<1> SUFFICES ASSUME TableInv, TableInv', ReaderInv, [Next]_vars
             PROVE  Promise!Next \/ UNCHANGED Promise!vars
    OBVIOUS
<1>1. ASSUME UNCHANGED <<tags, data, reader, seen>> PROVE UNCHANGED Promise!vars
  <2>1. get' = get
    BY <1>1, GetIs
  <2> QED
    BY <1>1, <2>1, StutterIsPromised
<1>2. ASSUME NEW w \in Writers, Write(w)
      PROVE  Promise!Next \/ UNCHANGED Promise!vars
  <2>1. ASSUME NEW k \in Keys, BeginRemove(w, k) PROVE UNCHANGED Promise!vars
    BY <1>1, <2>1 DEF BeginRemove
  <2>2. ASSUME NEW k \in Keys, NEW v \in Values, BeginAdd(w, k, v) PROVE UNCHANGED Promise!vars
    BY <1>1, <2>2 DEF BeginAdd
  <2>3. EndAdd(w) \/ EndRemove(w) => UNCHANGED Promise!vars
    BY <1>1 DEF EndAdd, EndRemove
  <2> QED
    BY <1>2, <2>1, <2>2, <2>3, StoreData_Promise, StoreTag_Promise,
       EraseData_Promise, EraseTag_Promise DEF Write
<1>3. CASE Destroy \/ UNCHANGED vars
    BY <1>1, <1>3 DEF Destroy, vars
<1> QED
    BY <1>2, <1>3, Read_Promise DEF Next, Destroyed

LEMMA Init_Promise == Init => Promise!Init
<1> SUFFICES ASSUME Init PROVE Promise!Init
    OBVIOUS
<1>1. \A k \in Keys, p \in Places : ~HasKey(data, p, k)
    BY DEF Init, HasKey
<1>2. \A k \in Keys : Lookup(tags, data, k) = Null /\ Coming(tags, data, k) = Null
    BY <1>1, PlaceDecides
<1>3. get = [r \in Readers |-> Promise!NoCall]
    BY DEF Init, get, Idle, Promise!NoCall
<1> QED
    BY <1>2, <1>3 DEF Promise!Init

\* Get() takes no lock, and yet it returns what the table had for its key at some
\* moment of the call or what a writer was about to tag (SharedHashTable.h:51-57),
\* whatever the number of threads and wherever they are in the chain.
THEOREM MapRefinement == Spec => ImplementsMap
    BY Init_Promise, Next_Promise, TableInvariance, ReaderInvariance, PTL
    DEF Spec, ImplementsMap, Promise!Spec

-------------------------------------------------------------------------------
(* The accounting: memory and counters.                                      *)

\* What a call has done to the table and has not reported yet.
Replaces(w) == writer[w].state \in {"storeTag", "perfAdd"} /\ writer[w].stat.oldValueSize # 0
Inserts(w) == writer[w].state \in {"storeTag", "perfAdd"} /\ writer[w].stat.oldValueSize = 0
Erases(w) == writer[w].state \in {"eraseTag", "perfRemove"}
Appends(w) ==
    writer[w].state \in {"storeData", "storeTag", "perfAdd"} /\ writer[w].stat.isNewEntryAdded

\* What a call knows, under the mutex, of the record at its place; and no call
\* outlives the table.
CallInv ==
    /\ numEntries = 0 => \A w \in Writers : writer[w] = Idle
    /\ \A w \in Writers :
           /\ writer[w].state = "storeData" =>
                  /\ writer[w].old = data[writer[w].place]
                  /\ writer[w].stat.keySize = KeySize[writer[w].key]
                  /\ writer[w].stat.valueSize = writer[w].value
                  /\ writer[w].stat.oldValueSize = ValueBytes(writer[w].place)
           /\ Appends(w) => writer[w].stat.oldValueSize = 0
           /\ writer[w].state = "eraseData" =>
                  /\ writer[w].stat.keySize = KeyBytes(writer[w].place)
                  /\ writer[w].stat.valueSize = ValueBytes(writer[w].place)

RecordDue(w) == IF Inserts(w) THEN 1 ELSE IF Erases(w) THEN -1 ELSE 0
KeyDue(w) ==
    IF Inserts(w) THEN writer[w].stat.keySize
    ELSE IF Erases(w) THEN 0 - writer[w].stat.keySize ELSE 0
ValueDue(w) ==
    IF Inserts(w) \/ Replaces(w) THEN writer[w].stat.valueSize - writer[w].stat.oldValueSize
    ELSE IF Erases(w) THEN 0 - writer[w].stat.valueSize ELSE 0
EntryDue(w) == IF Appends(w) THEN 1 ELSE 0

RecordsDue == SumFunctionOnSet([w \in Writers |-> RecordDue(w)], Writers)
KeysDue == SumFunctionOnSet([w \in Writers |-> KeyDue(w)], Writers)
ValuesDue == SumFunctionOnSet([w \in Writers |-> ValueDue(w)], Writers)
EntriesDue == SumFunctionOnSet([w \in Writers |-> EntryDue(w)], Writers)
InHands == SumFunctionOnSet([w \in Writers |-> Held(w)], Writers)

InTable == Cardinality(Linked)
BytesOfKeys == SumFunctionOnSet([p \in Places |-> KeyBytes(p)], Places)
BytesOfValues == SumFunctionOnSet([p \in Places |-> ValueBytes(p)], Places)
Occupied(p) == IF data[p] = Null THEN 0 ELSE 1

LEMMA WriterValues ==
    ASSUME StateInv, NEW w \in Writers
    PROVE  /\ Held(w) \in Nat /\ RecordDue(w) \in Int /\ KeyDue(w) \in Int
           /\ ValueDue(w) \in Int /\ EntryDue(w) \in Nat
<1>1. writer[w] \in AddCalls \cup RemoveCalls \cup {Idle}
    BY DEF StateInv, Calls
<1>2. writer[w].state # "idle" => writer[w].stat \in Stats
    BY <1>1 DEF AddCalls, RemoveCalls, Idle
<1>3. Held(w) \in Nat
    BY DEF Held
<1>4. RecordDue(w) \in Int /\ EntryDue(w) \in Nat
    BY DEF RecordDue, EntryDue
<1>5. KeyDue(w) \in Int
    BY <1>2 DEF KeyDue, Inserts, Erases, Stats
<1>6. ValueDue(w) \in Int
    BY <1>2 DEF ValueDue, Inserts, Replaces, Erases, Stats
<1> QED
    BY <1>3, <1>4, <1>5, <1>6

LEMMA PlaceValues ==
    ASSUME StateInv, NEW p \in Places
    PROVE  KeyBytes(p) \in Nat /\ ValueBytes(p) \in Nat /\ Occupied(p) \in {0, 1}
<1>1. data[p] \in Records \cup {Null}
    BY DEF StateInv
<1>2. data[p] # Null => data[p].key \in Keys /\ data[p].value \in Values
    BY <1>1 DEF Records
<1> QED
    BY <1>2, SizesAssumption DEF KeyBytes, ValueBytes, Occupied

LEMMA FinitePlaces == IsFiniteSet(Places) /\ IsFiniteSet(Linked) /\ InTable \in Nat
<1>1. MaxEntries * DataPerEntry \in Int
    BY SizesAssumption, TimesMonotonic
<1>2. IsFiniteSet(Places)
    BY <1>1, FS_Interval DEF Places
<1>3. IsFiniteSet(Linked)
    BY <1>2, FS_Subset DEF Linked
<1> QED
    BY <1>2, <1>3, FS_CardinalityType DEF InTable

LEMMA WriterTotals ==
    ASSUME StateInv
    PROVE  InHands \in Int /\ RecordsDue \in Int /\ KeysDue \in Int /\ ValuesDue \in Int /\ EntriesDue \in Int
<1> USE WriterValues, SumType, SizesAssumption
<1>1. InHands \in Int
    BY DEF InHands
<1>2. RecordsDue \in Int
    BY DEF RecordsDue
<1>3. KeysDue \in Int
    BY DEF KeysDue
<1>4. ValuesDue \in Int
    BY DEF ValuesDue
<1>5. EntriesDue \in Int
    BY DEF EntriesDue
<1> QED
    BY <1>1, <1>2, <1>3, <1>4, <1>5

LEMMA PlaceTotals ==
    ASSUME StateInv
    PROVE  BytesOfKeys \in Int /\ BytesOfValues \in Int
<1>1. BytesOfKeys \in Int
    BY PlaceValues, SumType, FinitePlaces DEF BytesOfKeys
<1>2. BytesOfValues \in Int
    BY PlaceValues, SumType, FinitePlaces DEF BytesOfValues
<1> QED
    BY <1>1, <1>2

\* One value of a sum changes, and the others stay.
LEMMA OneChange ==
    ASSUME NEW S, IsFiniteSet(S), NEW f \in [S -> Int], NEW g \in [S -> Int], NEW a \in S,
           \A x \in S \ {a} : g[x] = f[x]
    PROVE  SumFunctionOnSet(g, S) = SumFunctionOnSet(f, S) - f[a] + g[a]
    BY SumChange

WriterNumbers ==
    \A w \in Writers : Held(w) \in Int /\ RecordDue(w) \in Int /\ KeyDue(w) \in Int
                       /\ ValueDue(w) \in Int /\ EntryDue(w) \in Int
PlaceNumbers == \A p \in Places : KeyBytes(p) \in Int /\ ValueBytes(p) \in Int

LEMMA Numbers == StateInv => WriterNumbers /\ PlaceNumbers
    BY WriterValues, PlaceValues DEF WriterNumbers, PlaceNumbers

LEMMA NumbersNext == StateInv' => WriterNumbers' /\ PlaceNumbers'
    BY Numbers, PTL

LEMMA OneWriter ==
    ASSUME StateInv, StateInv', NEW w \in Writers, \A u \in Writers \ {w} : writer'[u] = writer[u]
    PROVE  /\ InHands' = InHands - Held(w) + Held(w)'
           /\ RecordsDue' = RecordsDue - RecordDue(w) + RecordDue(w)'
           /\ KeysDue' = KeysDue - KeyDue(w) + KeyDue(w)'
           /\ ValuesDue' = ValuesDue - ValueDue(w) + ValueDue(w)'
           /\ EntriesDue' = EntriesDue - EntryDue(w) + EntryDue(w)'
<1>1. WriterNumbers /\ WriterNumbers'
    BY Numbers, NumbersNext
<1>2. InHands' = InHands - Held(w) + Held(w)'
  <2> DEFINE f == [u \in Writers |-> Held(u)]
  <2>1. f \in [Writers -> Int] /\ f' \in [Writers -> Int] /\ \A u \in Writers \ {w} : f'[u] = f[u]
    BY <1>1 DEF WriterNumbers, Held
  <2>2. f[w] = Held(w) /\ f'[w] = Held(w)'
    OBVIOUS
  <2> HIDE DEF f
  <2>3. SumFunctionOnSet(f', Writers) = SumFunctionOnSet(f, Writers) - f[w] + f'[w]
    BY <2>1, OneChange, SizesAssumption
  <2> QED
    BY <2>2, <2>3 DEF InHands, f
<1>3. RecordsDue' = RecordsDue - RecordDue(w) + RecordDue(w)'
  <2> DEFINE f == [u \in Writers |-> RecordDue(u)]
  <2>1. f \in [Writers -> Int] /\ f' \in [Writers -> Int] /\ \A u \in Writers \ {w} : f'[u] = f[u]
    BY <1>1 DEF WriterNumbers, RecordDue, Inserts, Erases
  <2>2. f[w] = RecordDue(w) /\ f'[w] = RecordDue(w)'
    OBVIOUS
  <2> HIDE DEF f
  <2>3. SumFunctionOnSet(f', Writers) = SumFunctionOnSet(f, Writers) - f[w] + f'[w]
    BY <2>1, OneChange, SizesAssumption
  <2> QED
    BY <2>2, <2>3 DEF RecordsDue, f
<1>4. KeysDue' = KeysDue - KeyDue(w) + KeyDue(w)'
  <2> DEFINE f == [u \in Writers |-> KeyDue(u)]
  <2>1. f \in [Writers -> Int] /\ f' \in [Writers -> Int] /\ \A u \in Writers \ {w} : f'[u] = f[u]
    BY <1>1 DEF WriterNumbers, KeyDue, Inserts, Erases
  <2>2. f[w] = KeyDue(w) /\ f'[w] = KeyDue(w)'
    OBVIOUS
  <2> HIDE DEF f
  <2>3. SumFunctionOnSet(f', Writers) = SumFunctionOnSet(f, Writers) - f[w] + f'[w]
    BY <2>1, OneChange, SizesAssumption
  <2> QED
    BY <2>2, <2>3 DEF KeysDue, f
<1>5. ValuesDue' = ValuesDue - ValueDue(w) + ValueDue(w)'
  <2> DEFINE f == [u \in Writers |-> ValueDue(u)]
  <2>1. f \in [Writers -> Int] /\ f' \in [Writers -> Int] /\ \A u \in Writers \ {w} : f'[u] = f[u]
    BY <1>1 DEF WriterNumbers, ValueDue, Inserts, Replaces, Erases
  <2>2. f[w] = ValueDue(w) /\ f'[w] = ValueDue(w)'
    OBVIOUS
  <2> HIDE DEF f
  <2>3. SumFunctionOnSet(f', Writers) = SumFunctionOnSet(f, Writers) - f[w] + f'[w]
    BY <2>1, OneChange, SizesAssumption
  <2> QED
    BY <2>2, <2>3 DEF ValuesDue, f
<1>6. EntriesDue' = EntriesDue - EntryDue(w) + EntryDue(w)'
  <2> DEFINE f == [u \in Writers |-> EntryDue(u)]
  <2>1. f \in [Writers -> Int] /\ f' \in [Writers -> Int] /\ \A u \in Writers \ {w} : f'[u] = f[u]
    BY <1>1 DEF WriterNumbers, EntryDue, Appends
  <2>2. f[w] = EntryDue(w) /\ f'[w] = EntryDue(w)'
    OBVIOUS
  <2> HIDE DEF f
  <2>3. SumFunctionOnSet(f', Writers) = SumFunctionOnSet(f, Writers) - f[w] + f'[w]
    BY <2>1, OneChange, SizesAssumption
  <2> QED
    BY <2>2, <2>3 DEF EntriesDue, f
<1> QED
    BY <1>2, <1>3, <1>4, <1>5, <1>6

\* One place changes.
LEMMA OnePlace ==
    ASSUME StateInv, StateInv', NEW p \in Places, \A q \in Places \ {p} : data'[q] = data[q]
    PROVE  /\ InTable' = InTable - Occupied(p) + Occupied(p)'
           /\ BytesOfKeys' = BytesOfKeys - KeyBytes(p) + KeyBytes(p)'
           /\ BytesOfValues' = BytesOfValues - ValueBytes(p) + ValueBytes(p)'
<1>1. PlaceNumbers /\ PlaceNumbers' /\ IsFiniteSet(Places) /\ IsFiniteSet(Linked)
    BY Numbers, NumbersNext, FinitePlaces
<1>2. InTable' = InTable - Occupied(p) + Occupied(p)'
  <2> DEFINE Others == Linked \ {p}
  <2>1. IsFiniteSet(Others) /\ Cardinality(Others) \in Nat
    BY <1>1, FS_RemoveElement, FS_CardinalityType
  <2>2. Linked = IF data[p] = Null THEN Others ELSE Others \cup {p}
    BY DEF Linked
  <2>3. Linked' = IF data'[p] = Null THEN Others ELSE Others \cup {p}
    BY DEF Linked
  <2>4. Cardinality(Others \cup {p}) = Cardinality(Others) + 1
    BY <2>1, FS_AddElement
  <2> HIDE DEF Others
  <2>5. InTable = Cardinality(Others) + Occupied(p)
    BY <2>1, <2>2, <2>4 DEF InTable, Occupied
  <2>6. InTable' = Cardinality(Others) + Occupied(p)'
    BY <2>1, <2>3, <2>4 DEF InTable, Occupied
  <2> QED
    BY <2>1, <2>5, <2>6 DEF Occupied
<1>3. BytesOfKeys' = BytesOfKeys - KeyBytes(p) + KeyBytes(p)'
  <2> DEFINE f == [q \in Places |-> KeyBytes(q)]
  <2>1. f \in [Places -> Int] /\ f' \in [Places -> Int] /\ \A q \in Places \ {p} : f'[q] = f[q]
    BY <1>1 DEF PlaceNumbers, KeyBytes
  <2>2. f[p] = KeyBytes(p) /\ f'[p] = KeyBytes(p)'
    OBVIOUS
  <2> HIDE DEF f
  <2>3. SumFunctionOnSet(f', Places) = SumFunctionOnSet(f, Places) - f[p] + f'[p]
    BY <1>1, <2>1, OneChange
  <2> QED
    BY <2>2, <2>3 DEF BytesOfKeys, f
<1>4. BytesOfValues' = BytesOfValues - ValueBytes(p) + ValueBytes(p)'
  <2> DEFINE f == [q \in Places |-> ValueBytes(q)]
  <2>1. f \in [Places -> Int] /\ f' \in [Places -> Int] /\ \A q \in Places \ {p} : f'[q] = f[q]
    BY <1>1 DEF PlaceNumbers, ValueBytes
  <2>2. f[p] = ValueBytes(p) /\ f'[p] = ValueBytes(p)'
    OBVIOUS
  <2> HIDE DEF f
  <2>3. SumFunctionOnSet(f', Places) = SumFunctionOnSet(f, Places) - f[p] + f'[p]
    BY <1>1, <2>1, OneChange
  <2> QED
    BY <2>2, <2>3 DEF BytesOfValues, f
<1> QED
    BY <1>2, <1>3, <1>4

LEMMA GotoKeepsRecord ==
    ASSUME StateInv, NEW w \in Writers, writer[w] \in Calls, NEW s, Goto(w, s)
    PROVE  /\ writer'[w].state = s /\ writer'[w].place = writer[w].place
           /\ writer'[w].old = writer[w].old /\ writer'[w].stat = writer[w].stat
           /\ \A u \in Writers \ {w} : writer'[u] = writer[u]
<1>1. writer'[w] = [writer[w] EXCEPT !.state = s] /\ \A u \in Writers \ {w} : writer'[u] = writer[u]
    BY DEF Goto, StateInv
<1> QED
    BY <1>1 DEF Calls, AddCalls, RemoveCalls

\* What is in the table but not counted, and what is counted already, are what the
\* counters have; nothing is lost between the table and the hands of writers.
Balance == <<InTable - RecordsDue, BytesOfKeys - KeysDue, BytesOfValues - ValuesDue>>

LEMMA StoreData_Account ==
    ASSUME TableInv, TableInv', CallInv, NEW w \in Writers, StoreData(w)
    PROVE  /\ CallInv' /\ InTable' + InHands' = InTable + InHands
           /\ EntriesDue' = EntriesDue
           /\ 0 \notin Values => Balance' = Balance
           /\ \A u \in Writers : (Appends(u) <=> Appends(u)') /\ writer'[u].stat = writer[u].stat
<1>0. PICK c, p : c = writer[w] /\ p = c.place
    OBVIOUS
<1>1. c \in AddCalls /\ c.state = "storeData" /\ c \in Calls /\ p \in Places /\ c.key \in Keys
      /\ c.value \in Values /\ c.stat \in Stats
  <2>1. c \in AddCalls /\ c.state = "storeData"
    BY <1>0, CallOfState DEF StoreData, TableInv
  <2> QED
    BY <1>0, <2>1 DEF AddCalls, Calls
<1>2. /\ writer'[w].state = "storeTag" /\ writer'[w].place = p
      /\ writer'[w].old = c.old /\ writer'[w].stat = c.stat
      /\ \A u \in Writers \ {w} : writer'[u] = writer[u]
    BY <1>0, <1>1, GotoKeepsRecord DEF StoreData, TableInv
<1>3. PICK r : r = [key |-> c.key, value |-> c.value]
    OBVIOUS
<1>4. r # Null /\ r.key = c.key /\ r.value = c.value
    BY <1>0, <1>1, <1>3, NullAssumption
<1>5. data'[p] = r /\ \A q \in Places \ {p} : data'[q] = data[q]
    BY <1>0, <1>1, <1>3 DEF StoreData, TableInv, StateInv
<1>6. /\ c.old = data[p] /\ c.stat.keySize = KeySize[c.key] /\ c.stat.valueSize = c.value
      /\ c.stat.oldValueSize = ValueBytes(p) /\ (c.stat.isNewEntryAdded => c.stat.oldValueSize = 0)
    BY <1>0, <1>1 DEF CallInv, Appends
<1>7. data[p] = Null \/ (data[p] \in Records /\ data[p].key = c.key)
  <2>1. data[p] \in Records \cup {Null}
    BY <1>1 DEF TableInv, StateInv
  <2>2. data[p] = Null \/ IsKey(p, c.key)
    BY <1>0, <1>1 DEF TableInv, PlaceInv
  <2> QED
    BY <2>1, <2>2 DEF IsKey
<1>8. Occupied(p)' = 1 /\ KeyBytes(p)' = KeySize[c.key] /\ ValueBytes(p)' = c.value
    BY <1>4, <1>5 DEF Occupied, KeyBytes, ValueBytes
<1>9. Held(w) = 1 /\ RecordDue(w) = 0 /\ KeyDue(w) = 0 /\ ValueDue(w) = 0
    BY <1>0, <1>1 DEF Held, RecordDue, KeyDue, ValueDue, Inserts, Replaces, Erases
<1>10. Held(w)' = IF data[p] = Null THEN 0 ELSE 1
    BY <1>0, <1>2, <1>6 DEF Held
<1>11. Appends(w) <=> Appends(w)'
    BY <1>0, <1>1, <1>2 DEF Appends
<1>12. EntryDue(w) = EntryDue(w)'
    BY <1>11 DEF EntryDue
<1>13. CallInv'
  <2>1. numEntries' # 0
    BY <1>0, <1>1 DEF StoreData, CallInv, Idle
  <2>2. \A u \in Writers \ {w} : writer[u].state \notin {"storeData", "eraseData"}
    BY <1>0, <1>1, OwnerIsAlone
  <2> QED
    BY <1>0, <1>2, <1>6, <1>11, <2>1, <2>2 DEF CallInv, Appends
<1>14. ASSUME 0 \notin Values
       PROVE  /\ RecordDue(w)' = IF data[p] = Null THEN 1 ELSE 0
              /\ KeyDue(w)' = IF data[p] = Null THEN KeySize[c.key] ELSE 0
              /\ ValueDue(w)' = c.value - ValueBytes(p)
  <2>1. c.stat.oldValueSize = 0 <=> data[p] = Null
    BY <1>6, <1>7, <1>14 DEF ValueBytes, Records
  <2>2. Inserts(w)' <=> data[p] = Null
    BY <1>0, <1>2, <2>1 DEF Inserts
  <2>3. Inserts(w)' \/ Replaces(w)'
    BY <1>0, <1>2 DEF Inserts, Replaces
  <2>4. ~Erases(w)'
    BY <1>0, <1>2 DEF Erases
  <2> QED
    BY <1>0, <1>2, <1>6, <2>2, <2>3, <2>4 DEF RecordDue, KeyDue, ValueDue
<1>15. StateInv /\ StateInv'
    BY DEF TableInv
<1>16. /\ InTable \in Int /\ InHands \in Int /\ RecordsDue \in Int /\ KeysDue \in Int
       /\ ValuesDue \in Int /\ EntriesDue \in Int /\ BytesOfKeys \in Int /\ BytesOfValues \in Int
    BY <1>15, FinitePlaces, WriterTotals, PlaceTotals
<1>17. InTable' + InHands' = InTable + InHands
  <2>1. InTable' = InTable - Occupied(p) + 1
    BY <1>0, <1>1, <1>5, <1>8, <1>15, OnePlace
  <2>2. InHands' = InHands - 1 + Held(w)'
    BY <1>0, <1>2, <1>9, <1>15, OneWriter
  <2> QED
    BY <1>10, <1>16, <2>1, <2>2 DEF Occupied
<1>18. EntriesDue' = EntriesDue
  <2>1. EntriesDue' = EntriesDue - EntryDue(w) + EntryDue(w)'
    BY <1>0, <1>2, <1>15, OneWriter
  <2>2. EntryDue(w) \in Int
    BY <1>15, WriterValues
  <2> QED
    BY <1>12, <1>16, <2>1, <2>2
<1>19. ASSUME 0 \notin Values PROVE Balance' = Balance
  <2>1. /\ InTable' = InTable - Occupied(p) + 1
        /\ BytesOfKeys' = BytesOfKeys - KeyBytes(p) + KeySize[c.key]
        /\ BytesOfValues' = BytesOfValues - ValueBytes(p) + c.value
    BY <1>0, <1>1, <1>5, <1>8, <1>15, OnePlace
  <2>2. /\ RecordsDue' = RecordsDue - 0 + RecordDue(w)'
        /\ KeysDue' = KeysDue - 0 + KeyDue(w)'
        /\ ValuesDue' = ValuesDue - 0 + ValueDue(w)'
    BY <1>0, <1>2, <1>9, <1>15, OneWriter
  <2>3. KeySize[c.key] \in Int /\ c.value \in Int /\ ValueBytes(p) \in Int /\ KeyBytes(p) \in Int
    <3>1. c.value \in Nat /\ KeySize[c.key] \in Nat
      BY <1>1, SizesAssumption
    <3> QED
      BY <1>1, <1>15, <3>1, PlaceValues
  <2>4. KeyBytes(p) = IF data[p] = Null THEN 0 ELSE KeySize[c.key]
    BY <1>7 DEF KeyBytes
  <2>5. InTable' - RecordsDue' = InTable - RecordsDue
    BY <1>14, <1>16, <1>19, <2>1, <2>2 DEF Occupied
  <2>6. BytesOfKeys' - KeysDue' = BytesOfKeys - KeysDue
    BY <1>14, <1>16, <1>19, <2>1, <2>2, <2>3, <2>4
  <2>7. BytesOfValues' - ValuesDue' = BytesOfValues - ValuesDue
    BY <1>14, <1>16, <1>19, <2>1, <2>2, <2>3
  <2> QED
    BY <2>5, <2>6, <2>7 DEF Balance
<1> QED
    BY <1>0, <1>2, <1>11, <1>13, <1>17, <1>18, <1>19 DEF Appends

\* The tag is what nobody counts.
LEMMA Tag_Account ==
    ASSUME TableInv, TableInv', CallInv, NEW w \in Writers, StoreTag(w) \/ EraseTag(w)
    PROVE  /\ CallInv' /\ InTable' = InTable /\ InHands' = InHands
           /\ EntriesDue' = EntriesDue /\ Balance' = Balance
           /\ \A u \in Writers : (Appends(u) <=> Appends(u)') /\ writer'[u].stat = writer[u].stat
<1>1. /\ UNCHANGED <<numEntries, data>> /\ writer[w].state \in {"storeTag", "eraseTag"}
      /\ Goto(w, IF writer[w].state = "storeTag" THEN "perfAdd" ELSE "perfRemove")
    BY DEF StoreTag, EraseTag
<1>2. writer[w] \in Calls
    BY <1>1, CallOfState DEF Calls, TableInv
<1>3. /\ writer'[w].state = IF writer[w].state = "storeTag" THEN "perfAdd" ELSE "perfRemove"
      /\ writer'[w].old = writer[w].old /\ writer'[w].stat = writer[w].stat
      /\ \A u \in Writers \ {w} : writer'[u] = writer[u]
    BY <1>1, <1>2, GotoKeepsRecord DEF TableInv
<1>4. \A u \in Writers : (Appends(u) <=> Appends(u)') /\ writer'[u].stat = writer[u].stat
    BY <1>1, <1>3 DEF Appends
<1>5. CallInv'
  <2>1. numEntries' # 0
    BY <1>1 DEF CallInv, Idle
  <2>2. \A u \in Writers \ {w} : writer[u].state \notin {"storeData", "eraseData"}
    BY <1>1, OwnerIsAlone
  <2> QED
    BY <1>3, <1>4, <2>1, <2>2 DEF CallInv
<1>6. StateInv /\ StateInv'
    BY DEF TableInv
<1>7. InTable' = InTable /\ BytesOfKeys' = BytesOfKeys /\ BytesOfValues' = BytesOfValues
    BY <1>1 DEF InTable, Linked, BytesOfKeys, BytesOfValues, KeyBytes, ValueBytes
<1>8. (Inserts(w) <=> Inserts(w)') /\ (Replaces(w) <=> Replaces(w)') /\ (Erases(w) <=> Erases(w)')
    BY <1>1, <1>3 DEF Inserts, Replaces, Erases
<1>9. /\ Held(w)' = Held(w) /\ RecordDue(w)' = RecordDue(w) /\ KeyDue(w)' = KeyDue(w)
      /\ ValueDue(w)' = ValueDue(w) /\ EntryDue(w)' = EntryDue(w)
  <2>1. Held(w)' = Held(w)
    BY <1>1, <1>3 DEF Held
  <2> QED
    BY <1>3, <1>4, <1>8, <2>1 DEF RecordDue, KeyDue, ValueDue, EntryDue
<1>10. /\ InHands' = InHands /\ RecordsDue' = RecordsDue /\ KeysDue' = KeysDue
       /\ ValuesDue' = ValuesDue /\ EntriesDue' = EntriesDue
    BY <1>3, <1>6, <1>9, OneWriter, WriterTotals, WriterValues
<1> QED
    BY <1>4, <1>5, <1>7, <1>10 DEF Balance

\* The record of Add() is in the hands of the writer, and its entry in the chain.
LEMMA BeginAdd_Account ==
    ASSUME TableInv, TableInv', CallInv, NEW w \in Writers, NEW k \in Keys, NEW v \in Values,
           BeginAdd(w, k, v)
    PROVE  /\ CallInv' /\ InTable' + InHands' = InTable + InHands + 1
           /\ EntriesDue' = EntriesDue + (numEntries' - numEntries)
           /\ Balance' = Balance
           /\ ~Appends(w)
           /\ numEntries' \in {numEntries, numEntries + 1}
           /\ Appends(w)' <=> numEntries' # numEntries
           /\ Appends(w)' => writer'[w].stat.chainIndex = numEntries'
           /\ \A u \in Writers \ {w} : writer'[u] = writer[u]
<1>1. PICK p : p = PlaceFor(k)
    OBVIOUS
<1>2. PICK old : old = IF IsKey(p, k) THEN data[p] ELSE Null
    OBVIOUS
<1>3. PICK stat : stat = Stat([key |-> k, value |-> v], old, ChainFor(p), ChainFor(p) # numEntries)
    OBVIOUS
<1>4. /\ writer[w] = Idle /\ mutex = {} /\ numEntries > 0 /\ p \in Places
      /\ numEntries' = ChainFor(p) /\ UNCHANGED data
    BY <1>1 DEF BeginAdd
<1>5. PICK c : c = [state |-> "storeData", place |-> p, key |-> k, value |-> v,
                    old |-> data[p], stat |-> stat]
    OBVIOUS
<1>6. writer' = [writer EXCEPT ![w] = c]
    BY <1>1, <1>2, <1>3, <1>5 DEF BeginAdd
<1>7. writer'[w] = c /\ \A u \in Writers \ {w} : writer'[u] = writer[u]
    BY <1>6 DEF TableInv, StateInv
<1>8. /\ data[p] = Null \/ IsKey(p, k)
      /\ p \in Nat \ {0} /\ EntryOf(p) <= numEntries + 1
    BY <1>1, <1>4, ScanFindsPlace
<1>9. numEntries \in Nat /\ numEntries' \in {numEntries, numEntries + 1}
    BY <1>4 DEF TableInv, StateInv, ChainFor
<1>10. /\ stat.keySize = KeySize[k] /\ stat.valueSize = v
       /\ stat.oldValueSize = (IF old = Null THEN 0 ELSE old.value)
       /\ stat.isNewEntryAdded = (numEntries' # numEntries)
       /\ stat.isNewEntryAdded => stat.chainIndex = numEntries'
    BY <1>3, <1>4 DEF Stat
<1>11. stat.oldValueSize = ValueBytes(p)
    BY <1>2, <1>8, <1>10 DEF ValueBytes, IsKey
<1>12. numEntries' # numEntries => stat.oldValueSize = 0
  <2>1. SUFFICES ASSUME numEntries' # numEntries PROVE data[p] = Null
    BY <1>11 DEF ValueBytes
  <2>2. EntryOf(p) > numEntries
    BY <1>4, <2>1 DEF ChainFor
  <2>3. EntryOf(p) \in Nat
    BY <1>8, EntryBound
  <2>4. p \notin InChain
    BY <1>9, <2>2, <2>3 DEF InChain
  <2> QED
    BY <1>4, <2>4 DEF TableInv, ChainInv
<1>13. /\ c.state = "storeData" /\ c.place = p /\ c.key = k /\ c.value = v /\ c.old = data[p]
       /\ c.stat = stat
    BY <1>5
<1>14. writer[w].state = "idle"
    BY <1>4 DEF Idle
<1>15. ~Appends(w) /\ (Appends(w)' <=> numEntries' # numEntries)
    BY <1>7, <1>10, <1>13, <1>14 DEF Appends
<1>16. CallInv'
  <2>1. numEntries' # 0
    BY <1>4, <1>9
  <2>2. \A u \in Writers \ {w} : writer[u].state \notin {"storeData", "eraseData"}
    BY <1>4 DEF TableInv, MutexInv
  <2>3. KeyBytes(p)' = KeyBytes(p) /\ ValueBytes(p)' = ValueBytes(p)
    BY <1>4 DEF KeyBytes, ValueBytes
  <2>4. Appends(w)' => stat.oldValueSize = 0
    BY <1>12, <1>15
  <2>5. \A u \in Writers \ {w} : Appends(u)' => writer'[u].stat.oldValueSize = 0
    BY <1>7 DEF CallInv, Appends
  <2>6. writer'[w].stat.oldValueSize = ValueBytes(writer[w].place)'
    BY <1>7, <1>11, <1>13, <2>3
  <2> QED
    BY <1>4, <1>7, <1>10, <1>13, <2>1, <2>2, <2>4, <2>5, <2>6 DEF CallInv
<1>17. /\ Held(w) = 0 /\ RecordDue(w) = 0 /\ KeyDue(w) = 0 /\ ValueDue(w) = 0 /\ EntryDue(w) = 0
    BY <1>14, <1>15 DEF Held, RecordDue, KeyDue, ValueDue, EntryDue, Inserts, Replaces, Erases
<1>18. Held(w)' = 1 /\ RecordDue(w)' = 0 /\ KeyDue(w)' = 0 /\ ValueDue(w)' = 0
    BY <1>7, <1>13 DEF Held, RecordDue, KeyDue, ValueDue, Inserts, Replaces, Erases
<1>19. EntryDue(w)' = numEntries' - numEntries
  <2>1. CASE numEntries' = numEntries
    BY <1>9, <1>15, <2>1 DEF EntryDue
  <2>2. CASE numEntries' = numEntries + 1
    BY <1>9, <1>15, <2>2 DEF EntryDue
  <2> QED
    BY <1>9, <2>1, <2>2
<1>20. StateInv /\ StateInv'
    BY DEF TableInv
<1>21. /\ InHands' = InHands + 1 /\ RecordsDue' = RecordsDue /\ KeysDue' = KeysDue
       /\ ValuesDue' = ValuesDue /\ EntriesDue' = EntriesDue + (numEntries' - numEntries)
  <2>1. /\ InHands' = InHands - 0 + 1 /\ RecordsDue' = RecordsDue - 0 + 0 /\ KeysDue' = KeysDue - 0 + 0
        /\ ValuesDue' = ValuesDue - 0 + 0 /\ EntriesDue' = EntriesDue - 0 + (numEntries' - numEntries)
    BY <1>7, <1>17, <1>18, <1>19, <1>20, OneWriter
  <2> QED
    BY <1>9, <1>20, <2>1, WriterTotals
<1>22. InTable' = InTable /\ BytesOfKeys' = BytesOfKeys /\ BytesOfValues' = BytesOfValues
    BY <1>4 DEF InTable, Linked, BytesOfKeys, BytesOfValues, KeyBytes, ValueBytes
<1>23. InTable \in Int /\ InHands \in Int
    BY <1>20, WriterTotals, FinitePlaces
<1> QED
  <2>1. Balance' = Balance
    BY <1>21, <1>22 DEF Balance
  <2>2. InTable' + InHands' = InTable + InHands + 1
    BY <1>21, <1>22, <1>23
  <2>3. Appends(w)' => writer'[w].stat.chainIndex = numEntries'
    BY <1>7, <1>10, <1>13, <1>15
  <2> QED
    BY <1>7, <1>9, <1>15, <1>16, <1>21, <2>1, <2>2, <2>3

LEMMA BeginRemove_Account ==
    ASSUME TableInv, TableInv', CallInv, NEW w \in Writers, NEW k \in Keys, BeginRemove(w, k)
    PROVE  /\ CallInv' /\ InTable' = InTable /\ InHands' = InHands
           /\ EntriesDue' = EntriesDue /\ Balance' = Balance
           /\ ~Appends(w) /\ ~Appends(w)'
           /\ \A u \in Writers \ {w} : writer'[u] = writer[u]
<1>1. PICK p \in InChain :
          /\ IsKey(p, k)
          /\ writer' = [writer EXCEPT ![w] = [state |-> "eraseData", place |-> p,
                                             old |-> data[p], key |-> k,
                                             stat |-> Stat(data[p], Null, 0, FALSE)]]
    BY DEF BeginRemove
<1>2. PICK stat : stat = Stat(data[p], Null, 0, FALSE)
    OBVIOUS
<1>3. PICK c : c = [state |-> "eraseData", place |-> p, old |-> data[p], key |-> k, stat |-> stat]
    OBVIOUS
<1>4. writer' = [writer EXCEPT ![w] = c] /\ writer[w] = Idle /\ mutex = {}
      /\ UNCHANGED <<numEntries, data>>
    BY <1>1, <1>2, <1>3 DEF BeginRemove
<1>5. writer'[w] = c /\ \A u \in Writers \ {w} : writer'[u] = writer[u]
    BY <1>4 DEF TableInv, StateInv
<1>6. c.state = "eraseData" /\ c.place = p /\ c.stat = stat
    BY <1>3
<1>7. p \in InChain /\ data[p] # Null /\ stat.keySize = KeyBytes(p) /\ stat.valueSize = ValueBytes(p)
    BY <1>1, <1>2 DEF Stat, KeyBytes, ValueBytes, IsKey
<1>8. writer[w].state = "idle"
    BY <1>4 DEF Idle
<1>9. ~Appends(w) /\ ~Appends(w)'
    BY <1>5, <1>6, <1>8 DEF Appends
<1>10. CallInv'
  <2>1. numEntries' # 0
    <3>1. p \in Nat \ {0} /\ EntryOf(p) <= numEntries
      BY <1>7, PlacesAreEntries DEF InChain
    <3>2. EntryOf(p) \in Nat \ {0}
      BY <3>1, EntryBound
    <3> QED
      BY <1>4, <3>1, <3>2
  <2>2. \A u \in Writers \ {w} : writer[u].state \notin {"storeData", "eraseData"}
    BY <1>4 DEF TableInv, MutexInv
  <2>3. KeyBytes(p)' = KeyBytes(p) /\ ValueBytes(p)' = ValueBytes(p)
    BY <1>4 DEF KeyBytes, ValueBytes
  <2>4. \A u \in Writers \ {w} : Appends(u)' => writer'[u].stat.oldValueSize = 0
    BY <1>5 DEF CallInv, Appends
  <2>5. (KeyBytes(writer[w].place) = writer[w].stat.keySize)'
        /\ (ValueBytes(writer[w].place) = writer[w].stat.valueSize)'
    BY <1>5, <1>6, <1>7, <2>3
  <2> QED
    BY <1>5, <1>6, <1>9, <2>1, <2>2, <2>4, <2>5 DEF CallInv
<1>11. /\ Held(w) = 0 /\ RecordDue(w) = 0 /\ KeyDue(w) = 0 /\ ValueDue(w) = 0 /\ EntryDue(w) = 0
    BY <1>8 DEF Held, RecordDue, KeyDue, ValueDue, EntryDue, Inserts, Replaces, Erases, Appends
<1>12. /\ Held(w)' = 0 /\ RecordDue(w)' = 0 /\ KeyDue(w)' = 0 /\ ValueDue(w)' = 0 /\ EntryDue(w)' = 0
    BY <1>5, <1>6 DEF Held, RecordDue, KeyDue, ValueDue, EntryDue, Inserts, Replaces, Erases, Appends
<1>13. StateInv /\ StateInv'
    BY DEF TableInv
<1>14. /\ InHands' = InHands /\ RecordsDue' = RecordsDue /\ KeysDue' = KeysDue
       /\ ValuesDue' = ValuesDue /\ EntriesDue' = EntriesDue
    BY <1>5, <1>11, <1>12, <1>13, OneWriter, WriterTotals
<1>15. InTable' = InTable /\ BytesOfKeys' = BytesOfKeys /\ BytesOfValues' = BytesOfValues
    BY <1>4 DEF InTable, Linked, BytesOfKeys, BytesOfValues, KeyBytes, ValueBytes
<1> QED
    BY <1>5, <1>9, <1>10, <1>14, <1>15 DEF Balance

LEMMA EraseData_Account ==
    ASSUME TableInv, TableInv', CallInv, NEW w \in Writers, EraseData(w)
    PROVE  /\ CallInv' /\ InTable' + InHands' = InTable + InHands
           /\ EntriesDue' = EntriesDue /\ Balance' = Balance
           /\ ~Appends(w) /\ ~Appends(w)'
           /\ \A u \in Writers \ {w} : writer'[u] = writer[u]
<1>0. PICK c, p : c = writer[w] /\ p = c.place
    OBVIOUS
<1>1. c \in RemoveCalls /\ c.state = "eraseData" /\ c \in Calls /\ p \in Places
      /\ c.old \in Records /\ c.stat \in Stats
  <2>1. c \in RemoveCalls /\ c.state = "eraseData"
    BY <1>0, CallOfState DEF EraseData, TableInv
  <2> QED
    BY <1>0, <2>1 DEF RemoveCalls, Calls
<1>2. /\ writer'[w].state = "eraseTag" /\ writer'[w].place = p
      /\ writer'[w].old = c.old /\ writer'[w].stat = c.stat
      /\ \A u \in Writers \ {w} : writer'[u] = writer[u]
    BY <1>0, <1>1, GotoKeepsRecord DEF EraseData, TableInv
<1>3. data'[p] = Null /\ \A q \in Places \ {p} : data'[q] = data[q]
    BY <1>0, <1>1 DEF EraseData, TableInv, StateInv
<1>4. c.stat.keySize = KeyBytes(p) /\ c.stat.valueSize = ValueBytes(p)
    BY <1>0, <1>1 DEF CallInv
<1>5. data[p] # Null
    BY <1>0, <1>1 DEF TableInv, PlaceInv, IsKey
<1>6. c.old # Null
    BY <1>1, NullAssumption DEF Records
<1>7. ~Appends(w) /\ ~Appends(w)'
    BY <1>0, <1>1, <1>2 DEF Appends
<1>8. Occupied(p) = 1 /\ Occupied(p)' = 0 /\ KeyBytes(p)' = 0 /\ ValueBytes(p)' = 0
    BY <1>3, <1>5 DEF Occupied, KeyBytes, ValueBytes
<1>9. Held(w) = 0 /\ RecordDue(w) = 0 /\ KeyDue(w) = 0 /\ ValueDue(w) = 0 /\ EntryDue(w) = 0
    BY <1>0, <1>1 DEF Held, RecordDue, KeyDue, ValueDue, EntryDue, Inserts, Replaces, Erases, Appends
<1>10. Held(w)' = 1 /\ EntryDue(w)' = 0
    BY <1>2, <1>6, <1>7 DEF Held, EntryDue
<1>11. RecordDue(w)' = -1 /\ KeyDue(w)' = 0 - KeyBytes(p) /\ ValueDue(w)' = 0 - ValueBytes(p)
  <2>1. ~Inserts(w)' /\ ~Replaces(w)' /\ Erases(w)'
    BY <1>2 DEF Inserts, Replaces, Erases
  <2> QED
    BY <1>2, <1>4, <2>1 DEF RecordDue, KeyDue, ValueDue
<1>12. CallInv'
  <2>1. numEntries' # 0
    BY <1>0, <1>1 DEF EraseData, CallInv, Idle
  <2>2. \A u \in Writers \ {w} : writer[u].state \notin {"storeData", "eraseData"}
    BY <1>0, <1>1, OwnerIsAlone
  <2>3. \A u \in Writers \ {w} : Appends(u)' => writer'[u].stat.oldValueSize = 0
    BY <1>2 DEF CallInv, Appends
  <2> QED
    BY <1>2, <1>7, <2>1, <2>2, <2>3 DEF CallInv
<1>13. StateInv /\ StateInv'
    BY DEF TableInv
<1>14. /\ InTable \in Int /\ InHands \in Int /\ RecordsDue \in Int /\ KeysDue \in Int
       /\ ValuesDue \in Int /\ EntriesDue \in Int /\ BytesOfKeys \in Int /\ BytesOfValues \in Int
       /\ KeyBytes(p) \in Int /\ ValueBytes(p) \in Int
    BY <1>1, <1>13, FinitePlaces, WriterTotals, PlaceTotals, PlaceValues
<1>15. /\ InTable' = InTable - 1 + 0
       /\ BytesOfKeys' = BytesOfKeys - KeyBytes(p) + 0
       /\ BytesOfValues' = BytesOfValues - ValueBytes(p) + 0
    BY <1>1, <1>3, <1>8, <1>13, OnePlace
<1>16. /\ InHands' = InHands - 0 + 1
       /\ RecordsDue' = RecordsDue - 0 + (-1)
       /\ KeysDue' = KeysDue - 0 + (0 - KeyBytes(p))
       /\ ValuesDue' = ValuesDue - 0 + (0 - ValueBytes(p))
       /\ EntriesDue' = EntriesDue - 0 + 0
    BY <1>2, <1>9, <1>10, <1>11, <1>13, OneWriter
<1>17. InTable' + InHands' = InTable + InHands /\ EntriesDue' = EntriesDue
    BY <1>14, <1>15, <1>16
<1>18. /\ InTable' - RecordsDue' = InTable - RecordsDue
       /\ BytesOfKeys' - KeysDue' = BytesOfKeys - KeysDue
       /\ BytesOfValues' - ValuesDue' = BytesOfValues - ValuesDue
    BY <1>14, <1>15, <1>16
<1> QED
    BY <1>2, <1>7, <1>12, <1>17, <1>18 DEF Balance

\* A call ends: what was due is not due any more.
LEMMA End_Account ==
    ASSUME TableInv, TableInv', CallInv, NEW w \in Writers, EndAdd(w) \/ EndRemove(w)
    PROVE  /\ CallInv' /\ InTable' = InTable /\ InHands' = InHands - Held(w)
           /\ BytesOfKeys' = BytesOfKeys /\ BytesOfValues' = BytesOfValues
           /\ RecordsDue' = RecordsDue - RecordDue(w) /\ KeysDue' = KeysDue - KeyDue(w)
           /\ ValuesDue' = ValuesDue - ValueDue(w) /\ EntriesDue' = EntriesDue - EntryDue(w)
           /\ ~Appends(w)'
           /\ \A u \in Writers \ {w} : writer'[u] = writer[u]
<1>1. /\ writer' = [writer EXCEPT ![w] = Idle] /\ UNCHANGED <<numEntries, data>>
      /\ writer[w].state # "idle"
    BY DEF EndAdd, EndRemove
<1>2. /\ writer'[w] = Idle /\ writer'[w].state = "idle"
      /\ \A u \in Writers \ {w} : writer'[u] = writer[u]
    BY <1>1 DEF TableInv, StateInv, Idle
<1>3. ~Appends(w)'
    BY <1>2 DEF Appends
<1>4. CallInv'
  <2>1. numEntries' # 0
    BY <1>1 DEF CallInv, Idle
  <2>2. \A u \in Writers : Appends(u)' => writer'[u].stat.oldValueSize = 0
    BY <1>2, <1>3 DEF CallInv, Appends
  <2>3. \A p : KeyBytes(p)' = KeyBytes(p) /\ ValueBytes(p)' = ValueBytes(p)
    BY <1>1 DEF KeyBytes, ValueBytes
  <2> QED
    BY <1>1, <1>2, <2>1, <2>2, <2>3 DEF CallInv
<1>5. Held(w)' = 0 /\ RecordDue(w)' = 0 /\ KeyDue(w)' = 0 /\ ValueDue(w)' = 0 /\ EntryDue(w)' = 0
    BY <1>2, <1>3 DEF Held, RecordDue, KeyDue, ValueDue, EntryDue, Inserts, Replaces, Erases
<1>6. StateInv /\ StateInv'
    BY DEF TableInv
<1>7. /\ InHands' = InHands - Held(w) + 0 /\ RecordsDue' = RecordsDue - RecordDue(w) + 0
      /\ KeysDue' = KeysDue - KeyDue(w) + 0 /\ ValuesDue' = ValuesDue - ValueDue(w) + 0
      /\ EntriesDue' = EntriesDue - EntryDue(w) + 0
    BY <1>2, <1>5, <1>6, OneWriter
<1>8. InTable' = InTable /\ BytesOfKeys' = BytesOfKeys /\ BytesOfValues' = BytesOfValues
    BY <1>1 DEF InTable, Linked, BytesOfKeys, BytesOfValues, KeyBytes, ValueBytes
<1> QED
    BY <1>2, <1>3, <1>4, <1>6, <1>7, <1>8, WriterTotals, WriterValues

-------------------------------------------------------------------------------
(* Memory.                                                                   *)

MemoryInv ==
    allocated = IF numEntries = 0 THEN [records |-> 0, entries |-> 0]
                ELSE [records |-> InTable + InHands, entries |-> numEntries - 1]

LEMMA MemoryIsInv == MemoryIsAccounted <=> MemoryInv
    BY DEF MemoryIsAccounted, MemoryInv, InTable, InHands, SumFunction

LEMMA NoCallAtEnd ==
    ASSUME CallInv, NEW w \in Writers, writer[w].state # "idle"
    PROVE  numEntries # 0
    BY DEF CallInv, Idle

LEMMA BeginAdd_Memory ==
    ASSUME TableInv, TableInv', CallInv, MemoryInv,
           NEW w \in Writers, NEW k \in Keys, NEW v \in Values, BeginAdd(w, k, v)
    PROVE  CallInv' /\ MemoryInv'
<1>1. /\ CallInv' /\ InTable' + InHands' = InTable + InHands + 1
      /\ numEntries' \in {numEntries, numEntries + 1}
    BY BeginAdd_Account
<1>2. numEntries > 0 /\ numEntries \in Nat /\ numEntries' = ChainFor(PlaceFor(k))
    BY DEF BeginAdd, TableInv, StateInv
<1>3. allocated = [records |-> InTable + InHands, entries |-> numEntries - 1]
    BY <1>2 DEF MemoryInv
<1>4. allocated' = [records |-> allocated.records + 1,
                    entries |-> allocated.entries + numEntries' - numEntries]
    BY <1>2 DEF BeginAdd
<1>5. /\ allocated.records + 1 = InTable' + InHands'
      /\ allocated.entries + numEntries' - numEntries = numEntries' - 1
  <2>1. allocated.records = InTable + InHands /\ allocated.entries = numEntries - 1
    BY <1>3
  <2> QED
    BY <1>1, <1>2, <2>1
<1>6. numEntries' # 0
    BY <1>1, <1>2
<1> QED
    BY <1>1, <1>4, <1>5, <1>6 DEF MemoryInv

\* Between the start of a call and its end nothing is allocated or given away.
LEMMA Same_Memory ==
    ASSUME MemoryInv, InTable' + InHands' = InTable + InHands, UNCHANGED <<numEntries, allocated>>
    PROVE  MemoryInv'
    BY DEF MemoryInv

LEMMA End_Memory ==
    ASSUME TableInv, TableInv', CallInv, MemoryInv, NEW w \in Writers, EndAdd(w) \/ EndRemove(w)
    PROVE  CallInv' /\ MemoryInv'
<1>1. CallInv' /\ InTable' = InTable /\ InHands' = InHands - Held(w)
    BY End_Account
<1>2. /\ writer[w].state \in {"perfAdd", "perfRemove"} /\ numEntries' = numEntries
      /\ allocated' = IF writer[w].old = Null THEN allocated
                      ELSE [allocated EXCEPT !.records = allocated.records - 1]
    BY DEF EndAdd, EndRemove, ReleaseRecord
<1>3. numEntries # 0
    BY <1>2, NoCallAtEnd
<1>4. allocated = [records |-> InTable + InHands, entries |-> numEntries - 1]
    BY <1>3 DEF MemoryInv
<1>5. Held(w) = IF writer[w].old = Null THEN 0 ELSE 1
    BY <1>2 DEF Held
<1>6. InTable \in Int /\ InHands \in Int
    BY FinitePlaces, WriterTotals DEF TableInv
<1>7. allocated' = [records |-> InTable + InHands - Held(w), entries |-> numEntries - 1]
  <2>1. CASE writer[w].old = Null
    <3>1. allocated' = allocated /\ Held(w) = 0
      BY <1>2, <1>5, <2>1
    <3>2. InTable + InHands - 0 = InTable + InHands
      BY <1>6
    <3> QED
      BY <1>4, <3>1, <3>2
  <2>2. CASE writer[w].old # Null
    <3>1. allocated.records - 1 = InTable + InHands - Held(w)
      <4>1. allocated.records = InTable + InHands
        BY <1>4
      <4>2. Held(w) = 1
        BY <1>5, <2>2
      <4> QED
        BY <1>6, <4>1, <4>2
    <3>2. allocated' = [records |-> allocated.records - 1, entries |-> numEntries - 1]
      BY <1>2, <1>4, <2>2
    <3> QED
      BY <3>1, <3>2
  <2> QED
    BY <2>1, <2>2
<1>8. InTable' + InHands' = InTable + InHands - Held(w)
    BY <1>1, <1>5, <1>6
<1> QED
    BY <1>1, <1>2, <1>3, <1>7, <1>8 DEF MemoryInv

LEMMA NobodyHolds ==
    ASSUME \A w \in Writers : writer[w] = Idle
    PROVE  InHands = 0 /\ RecordsDue = 0 /\ KeysDue = 0 /\ ValuesDue = 0 /\ EntriesDue = 0
<1>1. \A w \in Writers : /\ Held(w) = 0 /\ RecordDue(w) = 0 /\ KeyDue(w) = 0
                         /\ ValueDue(w) = 0 /\ EntryDue(w) = 0
    BY DEF Held, RecordDue, KeyDue, ValueDue, EntryDue, Inserts, Replaces, Erases, Appends, Idle
<1>2. InHands = 0
    BY <1>1, SumZero, SizesAssumption DEF InHands
<1>3. RecordsDue = 0
    BY <1>1, SumZero, SizesAssumption DEF RecordsDue
<1>4. KeysDue = 0
    BY <1>1, SumZero, SizesAssumption DEF KeysDue
<1>5. ValuesDue = 0
    BY <1>1, SumZero, SizesAssumption DEF ValuesDue
<1>6. EntriesDue = 0
    BY <1>1, SumZero, SizesAssumption DEF EntriesDue
<1> QED
    BY <1>2, <1>3, <1>4, <1>5, <1>6

LEMMA Destroy_Memory ==
    ASSUME TableInv, CallInv, MemoryInv, Destroy
    PROVE  CallInv' /\ MemoryInv'
<1>1. /\ numEntries > 0 /\ numEntries' = 0 /\ numEntries \in Nat
      /\ UNCHANGED <<data, writer>> /\ \A w \in Writers : writer[w] = Idle
    BY DEF Destroy, TableInv, StateInv
<1>2. CallInv'
    BY <1>1 DEF CallInv, Appends, Idle
<1>3. InHands = 0
    BY <1>1, NobodyHolds
<1>4. {p \in InChain : data[p] # Null} = Linked
    BY <1>1 DEF TableInv, ChainInv, InChain, Linked
<1>5. Freed(InChain) = InTable
    BY <1>4 DEF Freed, InTable
<1>6. allocated.records = InTable + 0 /\ allocated.entries = numEntries - 1
    BY <1>1, <1>3 DEF MemoryInv
<1>7. allocated' = [records |-> allocated.records - InTable,
                    entries |-> allocated.entries - (numEntries - 1)]
    BY <1>5 DEF Destroy, Release
<1>8. allocated' = [records |-> 0, entries |-> 0]
    BY <1>1, <1>6, <1>7, FinitePlaces
<1> QED
    BY <1>1, <1>2, <1>8 DEF MemoryInv

\* Readers change nothing that is counted.
LEMMA Same_Account ==
    ASSUME CallInv, UNCHANGED <<numEntries, data, writer>>
    PROVE  /\ CallInv' /\ InTable' = InTable /\ InHands' = InHands
           /\ EntriesDue' = EntriesDue /\ Balance' = Balance
           /\ \A u \in Writers : (Appends(u) <=> Appends(u)') /\ writer'[u].stat = writer[u].stat
<1>1. CallInv'
    BY DEF CallInv, Appends, KeyBytes, ValueBytes
<1>2. InTable' = InTable /\ BytesOfKeys' = BytesOfKeys /\ BytesOfValues' = BytesOfValues
    BY DEF InTable, Linked, BytesOfKeys, BytesOfValues, KeyBytes, ValueBytes
<1>3. /\ InHands' = InHands /\ RecordsDue' = RecordsDue /\ KeysDue' = KeysDue
      /\ ValuesDue' = ValuesDue /\ EntriesDue' = EntriesDue
    BY DEF InHands, RecordsDue, KeysDue, ValuesDue, EntriesDue, Held, RecordDue, KeyDue, ValueDue,
           EntryDue, Inserts, Replaces, Erases, Appends
<1> QED
    BY <1>1, <1>2, <1>3 DEF Balance, Appends

LEMMA Next_Memory ==
    ASSUME TableInv, TableInv', CallInv, MemoryInv, [Next]_vars
    PROVE  CallInv' /\ MemoryInv'
<1>1. CASE UNCHANGED <<numEntries, data, writer, allocated>>
    BY <1>1, Same_Account, Same_Memory
<1>2. ASSUME NEW w \in Writers, StoreData(w) PROVE CallInv' /\ MemoryInv'
    BY <1>2, StoreData_Account, Same_Memory DEF StoreData
<1>3. ASSUME NEW w \in Writers, EraseData(w) PROVE CallInv' /\ MemoryInv'
    BY <1>3, EraseData_Account, Same_Memory DEF EraseData
<1>4. ASSUME NEW w \in Writers, StoreTag(w) \/ EraseTag(w) PROVE CallInv' /\ MemoryInv'
    BY <1>4, Tag_Account, Same_Memory DEF StoreTag, EraseTag
<1>5. ASSUME NEW w \in Writers, NEW k \in Keys, BeginRemove(w, k) PROVE CallInv' /\ MemoryInv'
    BY <1>5, BeginRemove_Account, Same_Memory DEF BeginRemove
<1>6. ASSUME NEW w \in Writers, Write(w) PROVE CallInv' /\ MemoryInv'
    BY <1>2, <1>3, <1>4, <1>5, <1>6, BeginAdd_Memory, End_Memory DEF Write
<1>7. ASSUME NEW r \in Readers, Read(r) PROVE CallInv' /\ MemoryInv'
    BY <1>1, <1>7 DEF Read, BeginGet, ReadTag, ReadData, LoadNext
<1> QED
    BY <1>1, <1>6, <1>7, Destroy_Memory DEF Next, Destroyed, vars

LEMMA Init_Totals ==
    ASSUME Init
    PROVE  /\ CallInv /\ InTable = 0 /\ BytesOfKeys = 0 /\ BytesOfValues = 0
           /\ InHands = 0 /\ RecordsDue = 0 /\ KeysDue = 0 /\ ValuesDue = 0 /\ EntriesDue = 0
<1>1. \A w \in Writers : writer[w] = Idle /\ writer[w].state = "idle"
    BY DEF Init, Idle
<1>2. CallInv
    BY <1>1 DEF Init, CallInv, Appends
<1>3. Linked = {} /\ InTable = 0
    BY FS_EmptySet DEF Init, Linked, InTable
<1>4. \A p \in Places : KeyBytes(p) = 0 /\ ValueBytes(p) = 0
    BY DEF Init, KeyBytes, ValueBytes
<1>5. BytesOfKeys = 0 /\ BytesOfValues = 0
    BY <1>4, FinitePlaces, SumZero DEF BytesOfKeys, BytesOfValues
<1> QED
    BY <1>1, <1>2, <1>3, <1>5, NobodyHolds

LEMMA MemoryInvariance == Spec => [](TableInv /\ CallInv /\ MemoryInv)
<1>1. Init => CallInv /\ MemoryInv
  <2>1. SUFFICES ASSUME Init PROVE CallInv /\ MemoryInv
    OBVIOUS
  <2>2. CallInv /\ InTable = 0 /\ InHands = 0
    BY <2>1, Init_Totals
  <2> QED
    BY <2>1, <2>2 DEF Init, MemoryInv
<1>2. TableInv /\ TableInv' /\ CallInv /\ MemoryInv /\ [Next]_vars => CallInv' /\ MemoryInv'
    BY Next_Memory
<1> QED
    BY <1>1, <1>2, Init_TableInv, Next_TableInv, PTL DEF Spec

\* Every record and every entry that a table allocates is freed, or given to the
\* epoch manager, once; a table that is destroyed leaves none (Add(), Remove(),
\* ReleaseRecord() and ~WritableHashTable(), HashTable.h:278-373, 404-414).
THEOREM NoMemoryIsLost == Spec => []MemoryIsAccounted
    BY MemoryInvariance, MemoryIsInv, PTL

-------------------------------------------------------------------------------
(* Counters.  Values that are empty are left out: a replacement of an empty  *)
(* value counts as a new record, which the run table_empty_value shows.      *)

CountInv ==
    /\ perfData \in [Counters -> Int]
    /\ numEntries > 0 =>
           /\ perfData["RecordsCount"] = InTable - RecordsDue
           /\ perfData["TotalKeySize"] = BytesOfKeys - KeysDue
           /\ perfData["TotalValueSize"] = BytesOfValues - ValuesDue
           /\ perfData["ChainingEntriesCount"] = numEntries - 1 - EntriesDue
           /\ perfData["TotalIndexSize"] = EmptyIndexSize + RecordOverhead * perfData["RecordsCount"]
                                              + EntrySize * perfData["ChainingEntriesCount"]

\* The longest chain: the last entry is counted, or will be by who appended it.
LengthInv ==
    numEntries > 0 =>
        /\ perfData["MaxBucketChainLength"] <= numEntries
        /\ \A w \in Writers : Appends(w) => writer[w].stat.chainIndex <= numEntries
        /\ \/ perfData["MaxBucketChainLength"] = numEntries
           \/ \E w \in Writers : Appends(w) /\ writer[w].stat.chainIndex = numEntries

PerfInv == CountInv /\ LengthInv

LEMMA Same_Perf ==
    ASSUME PerfInv, UNCHANGED <<numEntries, perfData>>, EntriesDue' = EntriesDue, Balance' = Balance,
           \A u \in Writers : (Appends(u) <=> Appends(u)') /\ (Appends(u) => writer'[u].stat = writer[u].stat)
    PROVE  PerfInv'
<1>1. InTable' - RecordsDue' = InTable - RecordsDue /\ BytesOfKeys' - KeysDue' = BytesOfKeys - KeysDue
      /\ BytesOfValues' - ValuesDue' = BytesOfValues - ValuesDue
    BY DEF Balance
<1>2. CountInv'
    BY <1>1 DEF PerfInv, CountInv
<1>3. LengthInv'
    BY DEF PerfInv, LengthInv
<1> QED
    BY <1>2, <1>3 DEF PerfInv

LEMMA BeginAdd_Perf ==
    ASSUME TableInv, TableInv', CallInv, PerfInv,
           NEW w \in Writers, NEW k \in Keys, NEW v \in Values, BeginAdd(w, k, v)
    PROVE  PerfInv'
<1>1. /\ EntriesDue' = EntriesDue + (numEntries' - numEntries)
      /\ Balance' = Balance
      /\ ~Appends(w)
      /\ numEntries' \in {numEntries, numEntries + 1}
      /\ Appends(w)' <=> numEntries' # numEntries
      /\ Appends(w)' => writer'[w].stat.chainIndex = numEntries'
      /\ \A u \in Writers \ {w} : writer'[u] = writer[u]
    BY BeginAdd_Account
<1>2. InTable' - RecordsDue' = InTable - RecordsDue /\ BytesOfKeys' - KeysDue' = BytesOfKeys - KeysDue
      /\ BytesOfValues' - ValuesDue' = BytesOfValues - ValuesDue
    BY <1>1 DEF Balance
<1>3. perfData' = perfData /\ numEntries > 0 /\ numEntries \in Nat
    BY DEF BeginAdd, TableInv, StateInv
<1>4. EntriesDue \in Int
    BY WriterTotals DEF TableInv
<1>5. numEntries' - 1 - EntriesDue' = numEntries - 1 - EntriesDue
    BY <1>1, <1>3, <1>4
<1>6. CountInv'
    BY <1>2, <1>3, <1>5 DEF PerfInv, CountInv
<1>7. \A u \in Writers \ {w} : Appends(u)' <=> Appends(u)
    BY <1>1 DEF Appends
<1>8. LengthInv'
  <2>1. perfData["MaxBucketChainLength"] \in Int
    BY DEF PerfInv, CountInv, Counters
  <2>2. /\ perfData["MaxBucketChainLength"] <= numEntries
        /\ \A u \in Writers : Appends(u) => writer[u].stat.chainIndex <= numEntries
        /\ \/ perfData["MaxBucketChainLength"] = numEntries
           \/ \E u \in Writers : Appends(u) /\ writer[u].stat.chainIndex = numEntries
    BY <1>3 DEF PerfInv, LengthInv
  <2>3. \A u \in Writers : writer[u].state # "idle" => writer[u].stat.chainIndex \in Nat
    BY DEF TableInv, StateInv, Calls, AddCalls, RemoveCalls, Stats, Idle
  <2>4. CASE numEntries' = numEntries
    BY <1>1, <1>3, <1>7, <2>2, <2>4 DEF LengthInv
  <2>5. CASE numEntries' = numEntries + 1
    <3>1. Appends(w)' /\ writer'[w].stat.chainIndex = numEntries'
      BY <1>1, <1>3, <2>5
    <3>2. \A u \in Writers \ {w} : Appends(u)' => writer'[u].stat.chainIndex <= numEntries'
      <4>1. TAKE u \in Writers \ {w}
      <4>2. HAVE Appends(u)'
      <4>3. Appends(u) /\ writer'[u] = writer[u]
        BY <1>1, <1>7, <4>2
      <4>4. writer[u].stat.chainIndex \in Nat /\ writer[u].stat.chainIndex <= numEntries
        BY <2>2, <2>3, <4>3 DEF Appends
      <4> QED
        BY <1>3, <2>5, <4>3, <4>4
    <3>3. perfData'["MaxBucketChainLength"] <= numEntries'
      BY <1>3, <2>1, <2>2, <2>5
    <3>4. writer'[w].stat.chainIndex <= numEntries'
      BY <1>3, <2>5, <3>1
    <3> QED
      BY <3>1, <3>2, <3>3, <3>4 DEF LengthInv
  <2> QED
    BY <1>1, <2>4, <2>5
<1> QED
    BY <1>6, <1>8 DEF PerfInv

\* What the two reports do to each of the counters.
LEMMA AddReport ==
    ASSUME perfData \in [Counters -> Int], NEW stat \in Stats,
           perfData' = UpdatePerfDataForAdd(stat), stat.isNewEntryAdded => stat.oldValueSize = 0
    PROVE  /\ perfData' \in [Counters -> Int]
           /\ perfData'["TotalValueSize"] = perfData["TotalValueSize"] + stat.valueSize - stat.oldValueSize
           /\ stat.oldValueSize # 0 => \A c \in Counters \ {"TotalValueSize"} : perfData'[c] = perfData[c]
           /\ stat.oldValueSize = 0 =>
                  /\ perfData'["RecordsCount"] = perfData["RecordsCount"] + 1
                  /\ perfData'["TotalKeySize"] = perfData["TotalKeySize"] + stat.keySize
                  /\ perfData'["TotalIndexSize"] = perfData["TotalIndexSize"] + RecordOverhead
                         + (IF stat.isNewEntryAdded THEN EntrySize ELSE 0)
                  /\ perfData'["ChainingEntriesCount"] = perfData["ChainingEntriesCount"]
                         + (IF stat.isNewEntryAdded THEN 1 ELSE 0)
                  /\ perfData'["MaxBucketChainLength"] =
                         IF stat.isNewEntryAdded /\ ~(perfData["MaxBucketChainLength"] > stat.chainIndex)
                         THEN stat.chainIndex ELSE perfData["MaxBucketChainLength"]
<1>1. /\ stat.keySize \in Nat /\ stat.valueSize \in Nat /\ stat.oldValueSize \in Nat
      /\ stat.chainIndex \in Nat /\ stat.isNewEntryAdded \in BOOLEAN
    BY DEF Stats
<1>2. RecordOverhead \in Nat /\ EntrySize \in Nat
    BY SizesAssumption
<1>3. CASE stat.oldValueSize # 0
    BY <1>1, <1>3 DEF UpdatePerfDataForAdd, Add, Counters
<1>4. CASE stat.oldValueSize = 0 /\ stat.isNewEntryAdded
    BY <1>1, <1>2, <1>4 DEF UpdatePerfDataForAdd, CountNewRecord, Add, Increment, RaiseTo, Counters
<1>5. CASE stat.oldValueSize = 0 /\ ~stat.isNewEntryAdded
    BY <1>1, <1>2, <1>5 DEF UpdatePerfDataForAdd, CountNewRecord, Add, Increment, RaiseTo, Counters
<1> QED
    BY <1>3, <1>4, <1>5

LEMMA RemoveReport ==
    ASSUME perfData \in [Counters -> Int], NEW stat \in Stats,
           perfData' = UpdatePerfDataForRemove(stat)
    PROVE  /\ perfData' \in [Counters -> Int]
           /\ perfData'["RecordsCount"] = perfData["RecordsCount"] - 1
           /\ perfData'["TotalKeySize"] = perfData["TotalKeySize"] - stat.keySize
           /\ perfData'["TotalValueSize"] = perfData["TotalValueSize"] - stat.valueSize
           /\ perfData'["TotalIndexSize"] = perfData["TotalIndexSize"] - RecordOverhead
           /\ perfData'["ChainingEntriesCount"] = perfData["ChainingEntriesCount"]
           /\ perfData'["MaxBucketChainLength"] = perfData["MaxBucketChainLength"]
<1>1. stat.keySize \in Nat /\ stat.valueSize \in Nat /\ RecordOverhead \in Nat
    BY SizesAssumption DEF Stats
<1> QED
    BY <1>1 DEF UpdatePerfDataForRemove, Subtract, Decrement, Counters

LEMMA EndAdd_Perf ==
    ASSUME TableInv, TableInv', CallInv, PerfInv, NEW w \in Writers, EndAdd(w)
    PROVE  PerfInv'
<1>0. PICK stat : stat = writer[w].stat
    OBVIOUS
<1>1. /\ InTable' = InTable /\ BytesOfKeys' = BytesOfKeys /\ BytesOfValues' = BytesOfValues
      /\ RecordsDue' = RecordsDue - RecordDue(w) /\ KeysDue' = KeysDue - KeyDue(w)
      /\ ValuesDue' = ValuesDue - ValueDue(w) /\ EntriesDue' = EntriesDue - EntryDue(w)
      /\ ~Appends(w)'
      /\ \A u \in Writers \ {w} : writer'[u] = writer[u]
    BY End_Account
<1>2. /\ writer[w].state = "perfAdd" /\ perfData' = UpdatePerfDataForAdd(stat)
      /\ numEntries' = numEntries
    BY <1>0 DEF EndAdd
<1>3. stat \in Stats /\ numEntries > 0
  <2>1. stat \in Stats
    BY <1>0, <1>2, CallOfState DEF AddCalls, TableInv
  <2>2. numEntries # 0 /\ numEntries \in Nat
    BY <1>2, NoCallAtEnd DEF TableInv, StateInv
  <2> QED
    BY <2>1, <2>2
<1>4. /\ stat.keySize \in Nat /\ stat.valueSize \in Nat /\ stat.oldValueSize \in Nat
      /\ stat.chainIndex \in Nat /\ stat.isNewEntryAdded \in BOOLEAN
    BY <1>3 DEF Stats
<1>5. /\ Appends(w) <=> stat.isNewEntryAdded
      /\ stat.isNewEntryAdded => stat.oldValueSize = 0
    BY <1>0, <1>2 DEF CallInv, Appends
<1>6. /\ RecordDue(w) = IF stat.oldValueSize = 0 THEN 1 ELSE 0
      /\ KeyDue(w) = IF stat.oldValueSize = 0 THEN stat.keySize ELSE 0
      /\ ValueDue(w) = stat.valueSize - stat.oldValueSize
      /\ EntryDue(w) = IF stat.isNewEntryAdded THEN 1 ELSE 0
    BY <1>0, <1>2, <1>5 DEF RecordDue, KeyDue, ValueDue, EntryDue, Inserts, Replaces, Erases
<1>7. perfData \in [Counters -> Int]
    BY DEF PerfInv, CountInv
<1>8. /\ perfData' \in [Counters -> Int]
      /\ perfData'["TotalValueSize"] = perfData["TotalValueSize"] + stat.valueSize - stat.oldValueSize
      /\ stat.oldValueSize # 0 => \A c \in Counters \ {"TotalValueSize"} : perfData'[c] = perfData[c]
      /\ stat.oldValueSize = 0 =>
             /\ perfData'["RecordsCount"] = perfData["RecordsCount"] + 1
             /\ perfData'["TotalKeySize"] = perfData["TotalKeySize"] + stat.keySize
             /\ perfData'["TotalIndexSize"] = perfData["TotalIndexSize"] + RecordOverhead
                    + (IF stat.isNewEntryAdded THEN EntrySize ELSE 0)
             /\ perfData'["ChainingEntriesCount"] = perfData["ChainingEntriesCount"]
                    + (IF stat.isNewEntryAdded THEN 1 ELSE 0)
             /\ perfData'["MaxBucketChainLength"] =
                    IF stat.isNewEntryAdded /\ ~(perfData["MaxBucketChainLength"] > stat.chainIndex)
                    THEN stat.chainIndex ELSE perfData["MaxBucketChainLength"]
    BY <1>2, <1>3, <1>5, <1>7, AddReport
<1>9. \A c \in Counters : perfData[c] \in Int
    BY <1>7
<1>10. /\ InTable \in Int /\ RecordsDue \in Int /\ KeysDue \in Int /\ ValuesDue \in Int
       /\ EntriesDue \in Int /\ BytesOfKeys \in Int /\ BytesOfValues \in Int /\ numEntries \in Nat
    BY FinitePlaces, WriterTotals, PlaceTotals DEF TableInv, StateInv
<1>11. CountInv'
  <2>1. /\ perfData["RecordsCount"] = InTable - RecordsDue
        /\ perfData["TotalKeySize"] = BytesOfKeys - KeysDue
        /\ perfData["TotalValueSize"] = BytesOfValues - ValuesDue
        /\ perfData["ChainingEntriesCount"] = numEntries - 1 - EntriesDue
        /\ perfData["TotalIndexSize"] = EmptyIndexSize + RecordOverhead * perfData["RecordsCount"]
                                              + EntrySize * perfData["ChainingEntriesCount"]
    BY <1>3 DEF PerfInv, CountInv
  <2>2. perfData["RecordsCount"] \in Int /\ perfData["ChainingEntriesCount"] \in Int
        /\ perfData["TotalIndexSize"] \in Int
    BY <1>9 DEF Counters
  <2>3. perfData'["RecordsCount"] = InTable' - RecordsDue'
    <3>1. stat.oldValueSize # 0 => perfData'["RecordsCount"] = perfData["RecordsCount"]
      BY <1>8 DEF Counters
    <3> QED
      BY <1>1, <1>6, <1>8, <1>10, <2>1, <3>1
  <2>4. perfData'["TotalKeySize"] = BytesOfKeys' - KeysDue'
    <3>1. stat.oldValueSize # 0 => perfData'["TotalKeySize"] = perfData["TotalKeySize"]
      BY <1>8 DEF Counters
    <3> QED
      BY <1>1, <1>4, <1>6, <1>8, <1>10, <2>1, <3>1
  <2>5. perfData'["TotalValueSize"] = BytesOfValues' - ValuesDue'
    BY <1>1, <1>4, <1>6, <1>8, <1>10, <2>1
  <2>6. perfData'["ChainingEntriesCount"] = numEntries' - 1 - EntriesDue'
    <3>1. stat.oldValueSize # 0 => perfData'["ChainingEntriesCount"] = perfData["ChainingEntriesCount"]
      BY <1>8 DEF Counters
    <3> QED
      BY <1>1, <1>2, <1>5, <1>6, <1>8, <1>10, <2>1, <3>1
  <2>7. perfData'["TotalIndexSize"] = EmptyIndexSize + RecordOverhead * perfData'["RecordsCount"]
                                              + EntrySize * perfData'["ChainingEntriesCount"]
    <3> DEFINE r == perfData["RecordsCount"]
               e == perfData["ChainingEntriesCount"]
    <3>1. EmptyIndexSize \in Int /\ RecordOverhead \in Int /\ EntrySize \in Int
      BY SizesAssumption
    <3>2. /\ RecordOverhead * (r + 1) = RecordOverhead * r + RecordOverhead
          /\ EntrySize * (e + 1) = EntrySize * e + EntrySize
          /\ RecordOverhead * r \in Int /\ EntrySize * e \in Int
      BY <2>2, <3>1
    <3>3. CASE stat.oldValueSize # 0
      BY <1>8, <2>1, <3>3 DEF Counters
    <3>4. CASE stat.oldValueSize = 0 /\ stat.isNewEntryAdded
      <4>1. perfData'["RecordsCount"] = r + 1 /\ perfData'["ChainingEntriesCount"] = e + 1
            /\ perfData'["TotalIndexSize"] = perfData["TotalIndexSize"] + RecordOverhead + EntrySize
        BY <1>8, <3>4
      <4>2. perfData["TotalIndexSize"] = EmptyIndexSize + RecordOverhead * r + EntrySize * e
        BY <2>1
      <4> HIDE DEF r, e
      <4> QED
        BY <3>1, <3>2, <4>1, <4>2
    <3>5. CASE stat.oldValueSize = 0 /\ ~stat.isNewEntryAdded
      <4>1. perfData'["RecordsCount"] = r + 1 /\ perfData'["ChainingEntriesCount"] = e
            /\ perfData'["TotalIndexSize"] = perfData["TotalIndexSize"] + RecordOverhead
        BY <1>8, <2>2, <3>1, <3>5
      <4>2. perfData["TotalIndexSize"] = EmptyIndexSize + RecordOverhead * r + EntrySize * e
        BY <2>1
      <4> HIDE DEF r, e
      <4> QED
        BY <3>1, <3>2, <4>1, <4>2
    <3> QED
      BY <3>3, <3>4, <3>5
  <2> QED
    BY <1>8, <2>3, <2>4, <2>5, <2>6, <2>7 DEF CountInv
<1>12. LengthInv'
  <2>1. /\ perfData["MaxBucketChainLength"] <= numEntries
        /\ \A u \in Writers : Appends(u) => writer[u].stat.chainIndex <= numEntries
        /\ \/ perfData["MaxBucketChainLength"] = numEntries
           \/ \E u \in Writers : Appends(u) /\ writer[u].stat.chainIndex = numEntries
    BY <1>3 DEF PerfInv, LengthInv
  <2>2. perfData["MaxBucketChainLength"] \in Int
    BY <1>9 DEF Counters
  <2>3. \A u \in Writers \ {w} : Appends(u)' <=> Appends(u)
    BY <1>1 DEF Appends
  <2>4. perfData'["MaxBucketChainLength"] =
            IF Appends(w) /\ ~(perfData["MaxBucketChainLength"] > stat.chainIndex)
            THEN stat.chainIndex ELSE perfData["MaxBucketChainLength"]
    BY <1>5, <1>8 DEF Counters
  <2>5. Appends(w) => stat.chainIndex <= numEntries
    BY <1>0, <2>1
  <2>6. perfData'["MaxBucketChainLength"] <= numEntries'
    BY <1>2, <1>4, <2>1, <2>2, <2>4, <2>5
  <2>7. \A u \in Writers : Appends(u)' => writer'[u].stat.chainIndex <= numEntries'
    BY <1>1, <1>2, <2>1, <2>3
  <2>8. \/ perfData'["MaxBucketChainLength"] = numEntries'
        \/ \E u \in Writers : Appends(u)' /\ writer'[u].stat.chainIndex = numEntries'
    <3>1. CASE perfData["MaxBucketChainLength"] = numEntries
      BY <1>2, <1>4, <1>10, <2>2, <2>4, <2>5, <3>1
    <3>2. CASE Appends(w) /\ stat.chainIndex = numEntries
      BY <1>2, <1>4, <1>10, <2>1, <2>2, <2>4, <3>2
    <3>3. ASSUME NEW u \in Writers \ {w}, Appends(u), writer[u].stat.chainIndex = numEntries
          PROVE  Appends(u)' /\ writer'[u].stat.chainIndex = numEntries'
      BY <1>1, <1>2, <2>3, <3>3
    <3> QED
      BY <1>0, <2>1, <3>1, <3>2, <3>3
  <2> QED
    BY <2>6, <2>7, <2>8 DEF LengthInv
<1> QED
    BY <1>11, <1>12 DEF PerfInv

LEMMA EndRemove_Perf ==
    ASSUME TableInv, TableInv', CallInv, PerfInv, NEW w \in Writers, EndRemove(w)
    PROVE  PerfInv'
<1>0. PICK stat : stat = writer[w].stat
    OBVIOUS
<1>1. /\ InTable' = InTable /\ BytesOfKeys' = BytesOfKeys /\ BytesOfValues' = BytesOfValues
      /\ RecordsDue' = RecordsDue - RecordDue(w) /\ KeysDue' = KeysDue - KeyDue(w)
      /\ ValuesDue' = ValuesDue - ValueDue(w) /\ EntriesDue' = EntriesDue - EntryDue(w)
      /\ ~Appends(w)'
      /\ \A u \in Writers \ {w} : writer'[u] = writer[u]
    BY End_Account
<1>2. /\ writer[w].state = "perfRemove" /\ perfData' = UpdatePerfDataForRemove(stat)
      /\ numEntries' = numEntries
    BY <1>0 DEF EndRemove
<1>3. stat \in Stats /\ numEntries > 0
  <2>1. stat \in Stats
    BY <1>0, <1>2, CallOfState DEF RemoveCalls, TableInv
  <2>2. numEntries # 0 /\ numEntries \in Nat
    BY <1>2, NoCallAtEnd DEF TableInv, StateInv
  <2> QED
    BY <2>1, <2>2
<1>4. stat.keySize \in Nat /\ stat.valueSize \in Nat
    BY <1>3 DEF Stats
<1>5. /\ RecordDue(w) = -1 /\ KeyDue(w) = 0 - stat.keySize /\ ValueDue(w) = 0 - stat.valueSize
      /\ EntryDue(w) = 0 /\ ~Appends(w)
    BY <1>0, <1>2 DEF RecordDue, KeyDue, ValueDue, EntryDue, Inserts, Replaces, Erases, Appends
<1>6. perfData \in [Counters -> Int] /\ \A c \in Counters : perfData[c] \in Int
    BY DEF PerfInv, CountInv
<1>7. /\ perfData' \in [Counters -> Int]
      /\ perfData'["RecordsCount"] = perfData["RecordsCount"] - 1
      /\ perfData'["TotalKeySize"] = perfData["TotalKeySize"] - stat.keySize
      /\ perfData'["TotalValueSize"] = perfData["TotalValueSize"] - stat.valueSize
      /\ perfData'["TotalIndexSize"] = perfData["TotalIndexSize"] - RecordOverhead
      /\ perfData'["ChainingEntriesCount"] = perfData["ChainingEntriesCount"]
      /\ perfData'["MaxBucketChainLength"] = perfData["MaxBucketChainLength"]
    BY <1>2, <1>3, <1>6, RemoveReport
<1>8. /\ InTable \in Int /\ RecordsDue \in Int /\ KeysDue \in Int /\ ValuesDue \in Int
      /\ EntriesDue \in Int /\ BytesOfKeys \in Int /\ BytesOfValues \in Int /\ numEntries \in Nat
    BY FinitePlaces, WriterTotals, PlaceTotals DEF TableInv, StateInv
<1>9. CountInv'
  <2>1. /\ perfData["RecordsCount"] = InTable - RecordsDue
        /\ perfData["TotalKeySize"] = BytesOfKeys - KeysDue
        /\ perfData["TotalValueSize"] = BytesOfValues - ValuesDue
        /\ perfData["ChainingEntriesCount"] = numEntries - 1 - EntriesDue
        /\ perfData["TotalIndexSize"] = EmptyIndexSize + RecordOverhead * perfData["RecordsCount"]
                                              + EntrySize * perfData["ChainingEntriesCount"]
    BY <1>3 DEF PerfInv, CountInv
  <2>2. /\ perfData'["RecordsCount"] = InTable' - RecordsDue'
        /\ perfData'["TotalKeySize"] = BytesOfKeys' - KeysDue'
        /\ perfData'["TotalValueSize"] = BytesOfValues' - ValuesDue'
        /\ perfData'["ChainingEntriesCount"] = numEntries' - 1 - EntriesDue'
    BY <1>1, <1>2, <1>4, <1>5, <1>7, <1>8, <2>1
  <2>3. perfData'["TotalIndexSize"] = EmptyIndexSize + RecordOverhead * perfData'["RecordsCount"]
                                              + EntrySize * perfData'["ChainingEntriesCount"]
    <3> DEFINE r == perfData["RecordsCount"]
               e == perfData["ChainingEntriesCount"]
    <3>1. EmptyIndexSize \in Int /\ RecordOverhead \in Int /\ EntrySize \in Int /\ r \in Int /\ e \in Int
      BY <1>6, SizesAssumption DEF Counters
    <3>2. /\ RecordOverhead * (r - 1) = RecordOverhead * r - RecordOverhead
          /\ RecordOverhead * r \in Int /\ EntrySize * e \in Int
      BY <3>1
    <3>3. /\ perfData'["RecordsCount"] = r - 1 /\ perfData'["ChainingEntriesCount"] = e
          /\ perfData'["TotalIndexSize"] = perfData["TotalIndexSize"] - RecordOverhead
      BY <1>7
    <3>4. perfData["TotalIndexSize"] = EmptyIndexSize + RecordOverhead * r + EntrySize * e
      BY <2>1
    <3> HIDE DEF r, e
    <3> QED
      BY <3>1, <3>2, <3>3, <3>4
  <2> QED
    BY <1>7, <2>2, <2>3 DEF CountInv
<1>10. \A u \in Writers \ {w} : Appends(u)' <=> Appends(u)
    BY <1>1 DEF Appends
<1>11. LengthInv'
    BY <1>1, <1>2, <1>3, <1>5, <1>7, <1>10 DEF PerfInv, LengthInv
<1> QED
    BY <1>9, <1>11 DEF PerfInv

LEMMA Next_Perf ==
    ASSUME 0 \notin Values, TableInv, TableInv', CallInv, PerfInv, [Next]_vars
    PROVE  PerfInv'
<1>1. CASE UNCHANGED <<numEntries, data, writer, perfData>>
    BY <1>1, Same_Account, Same_Perf
<1>2. ASSUME NEW w \in Writers, StoreData(w) PROVE PerfInv'
    BY <1>2, StoreData_Account, Same_Perf DEF StoreData
<1>3. ASSUME NEW w \in Writers, EraseData(w) PROVE PerfInv'
  <2>1. EntriesDue' = EntriesDue /\ Balance' = Balance /\ ~Appends(w) /\ ~Appends(w)'
        /\ \A u \in Writers \ {w} : writer'[u] = writer[u]
    BY <1>3, EraseData_Account
  <2>2. \A u \in Writers : (Appends(u) <=> Appends(u)') /\ (Appends(u) => writer'[u].stat = writer[u].stat)
    BY <2>1 DEF Appends
  <2> QED
    BY <1>3, <2>1, <2>2, Same_Perf DEF EraseData
<1>4. ASSUME NEW w \in Writers, StoreTag(w) \/ EraseTag(w) PROVE PerfInv'
    BY <1>4, Tag_Account, Same_Perf DEF StoreTag, EraseTag
<1>5. ASSUME NEW w \in Writers, NEW k \in Keys, BeginRemove(w, k) PROVE PerfInv'
  <2>1. EntriesDue' = EntriesDue /\ Balance' = Balance /\ ~Appends(w) /\ ~Appends(w)'
        /\ \A u \in Writers \ {w} : writer'[u] = writer[u]
    BY <1>5, BeginRemove_Account
  <2>2. \A u \in Writers : (Appends(u) <=> Appends(u)') /\ (Appends(u) => writer'[u].stat = writer[u].stat)
    BY <2>1 DEF Appends
  <2> QED
    BY <1>5, <2>1, <2>2, Same_Perf DEF BeginRemove
<1>6. ASSUME NEW w \in Writers, Write(w) PROVE PerfInv'
    BY <1>2, <1>3, <1>4, <1>5, <1>6, BeginAdd_Perf, EndAdd_Perf, EndRemove_Perf DEF Write
<1>7. ASSUME NEW r \in Readers, Read(r) PROVE PerfInv'
    BY <1>1, <1>7 DEF Read, BeginGet, ReadTag, ReadData, LoadNext
<1>8. CASE Destroy
    BY <1>8 DEF Destroy, PerfInv, CountInv, LengthInv
<1> QED
    BY <1>1, <1>6, <1>7, <1>8 DEF Next, Destroyed, vars

LEMMA Init_Perf == ASSUME Init PROVE PerfInv
<1>1. /\ InTable = 0 /\ BytesOfKeys = 0 /\ BytesOfValues = 0
      /\ RecordsDue = 0 /\ KeysDue = 0 /\ ValuesDue = 0 /\ EntriesDue = 0
    BY Init_Totals
<1>2. EmptyIndexSize \in Int /\ RecordOverhead \in Int /\ EntrySize \in Int
    BY SizesAssumption
<1>3. /\ perfData \in [Counters -> Int]
      /\ perfData["RecordsCount"] = 0 /\ perfData["TotalKeySize"] = 0 /\ perfData["TotalValueSize"] = 0
      /\ perfData["ChainingEntriesCount"] = 0 /\ perfData["MaxBucketChainLength"] = 1
      /\ perfData["TotalIndexSize"] = EmptyIndexSize
    BY <1>2 DEF Init, Set, InitialValue, Counters, Minima, Maxima
<1>4. numEntries = 1 /\ \A w \in Writers : writer[w].state = "idle"
    BY DEF Init, Idle
<1>5. CountInv
    BY <1>1, <1>2, <1>3, <1>4 DEF CountInv
<1>6. LengthInv
    BY <1>3, <1>4 DEF LengthInv, Appends
<1> QED
    BY <1>5, <1>6 DEF PerfInv

LEMMA ExactWhenIdle == TableInv /\ PerfInv => PerfDataIsExact
<1> SUFFICES ASSUME TableInv, PerfInv, numEntries > 0, \A w \in Writers : writer[w] = Idle
             PROVE  perfData =
                 [RecordsCount |-> Cardinality(Linked),
                  TotalKeySize |-> SumFunction([p \in Places |-> KeyBytes(p)]),
                  TotalValueSize |-> SumFunction([p \in Places |-> ValueBytes(p)]),
                  TotalIndexSize |-> EmptyIndexSize + RecordOverhead * Cardinality(Linked)
                                                    + EntrySize * (numEntries - 1),
                  ChainingEntriesCount |-> numEntries - 1,
                  MaxBucketChainLength |-> numEntries]
    BY DEF PerfDataIsExact
<1>1. RecordsDue = 0 /\ KeysDue = 0 /\ ValuesDue = 0 /\ EntriesDue = 0
    BY NobodyHolds
<1>2. /\ InTable \in Int /\ BytesOfKeys \in Int /\ BytesOfValues \in Int /\ numEntries \in Nat
    BY FinitePlaces, PlaceTotals DEF TableInv, StateInv
<1>3. /\ perfData["RecordsCount"] = InTable /\ perfData["TotalKeySize"] = BytesOfKeys
      /\ perfData["TotalValueSize"] = BytesOfValues
      /\ perfData["ChainingEntriesCount"] = numEntries - 1
    BY <1>1, <1>2 DEF PerfInv, CountInv
<1>4. perfData["TotalIndexSize"] = EmptyIndexSize + RecordOverhead * InTable
                                                    + EntrySize * (numEntries - 1)
    BY <1>3 DEF PerfInv, CountInv
<1>5. perfData["MaxBucketChainLength"] = numEntries
    BY DEF PerfInv, LengthInv, Appends, Idle
<1>6. /\ InTable = Cardinality(Linked) /\ BytesOfKeys = SumFunction([p \in Places |-> KeyBytes(p)])
      /\ BytesOfValues = SumFunction([p \in Places |-> ValueBytes(p)])
    BY DEF InTable, BytesOfKeys, BytesOfValues, SumFunction
<1>7. perfData = [c \in Counters |-> perfData[c]]
    BY DEF PerfInv, CountInv
<1> QED
    BY <1>3, <1>4, <1>5, <1>6, <1>7 DEF Counters

\* The counters are exact whenever no Add() and no Remove() is at work, however
\* they interleaved before, unless values are empty (UpdatePerfDataForAdd() and
\* UpdatePerfDataForRemove(), HashTable.h:416-461).
THEOREM ExactPerfData == 0 \notin Values => (Spec => []PerfDataIsExact)
<1>1. SUFFICES ASSUME 0 \notin Values PROVE Spec => []PerfDataIsExact
    OBVIOUS
<1>2. Init => PerfInv
    BY Init_Perf
<1>3. TableInv /\ TableInv' /\ CallInv /\ PerfInv /\ [Next]_vars => PerfInv'
    BY <1>1, Next_Perf
<1> QED
    BY <1>2, <1>3, MemoryInvariance, ExactWhenIdle, PTL DEF Spec
===============================================================================

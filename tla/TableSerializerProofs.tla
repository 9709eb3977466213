------------------------- MODULE TableSerializerProofs -------------------------
(***************************************************************************)
(* An iterator returns each record that stays in its table once, for all   *)
(* keys, hashes and lengths of chains and whatever writers do at the same  *)
(* time; and with it: what is loaded from a stream is what was saved, and  *)
(* a stream that was cut off is not taken for a whole one.                 *)
(***************************************************************************)
EXTENDS TableSerializer, FiniteSetTheorems, SequenceTheorems, WellFoundedInduction, TLAPS

-------------------------------------------------------------------------------
(* Places in a chain.                                                        *)

Places == Records \cup {Null}

\* A record with the key is at this place.
HasKey(chain, i, k) == chain[i] # Null /\ chain[i].key = k

\* A table whose records are in their buckets, with one place for each key.
IsTable(t) ==
    /\ t \in [Buckets -> Seq(Places)]
    /\ \A b \in Buckets : \A i \in DOMAIN t[b] : t[b][i] # Null => Bucket[t[b][i].key] = b
    /\ \A b \in Buckets : \A k \in Keys : \A i, j \in DOMAIN t[b] :
           HasKey(t[b], i, k) /\ HasKey(t[b], j, k) => i = j

\* c2 is c with the record in place p, which is a new one or one with its key.
PutAt(c, c2, p, record) ==
    /\ c2 \in Seq(Places) /\ Len(c2) \in {Len(c), Len(c) + DataPerEntry}
    /\ p \in DOMAIN c2 /\ c2[p] = record
    /\ \A i \in DOMAIN c2 \ {p} : c2[i] = IF i \in DOMAIN c THEN c[i] ELSE Null
    /\ \/ p \in DOMAIN c /\ HasKey(c, p, record.key)
       \/ /\ \A i \in DOMAIN c : ~HasKey(c, i, record.key)
          /\ p \in DOMAIN c => c[p] = Null

\* A table after a write to the bucket of the key.
WithRecord(t, record) == [t EXCEPT ![Bucket[record.key]] = Put(t[Bucket[record.key]], record)]

Without(t, k) == [t EXCEPT ![Bucket[k]] = [t[Bucket[k]] EXCEPT ![PlaceFor(t[Bucket[k]], k)] = Null]]

LEMMA FirstIs ==
    ASSUME NEW P, P \subseteq Nat, P # {}
    PROVE  First(P) \in P
<1>1. PICK p \in P : \A q \in P : <<q, p>> \notin OpToRel(<, Nat)
    BY NatLessThanWellFounded, WFMin
<1>2. ASSUME NEW q \in P PROVE p <= q
  <2>1. ASSUME q < p PROVE <<q, p>> \in OpToRel(<, Nat)
    BY <2>1, Zenon DEF OpToRel
  <2>2. q \in Nat /\ p \in Nat
    OBVIOUS
  <2>3. ~(q < p)
    BY <1>1, <2>1, Zenon
  <2> QED
    BY <2>2, <2>3
<1> QED
    BY <1>2 DEF First

LEMMA EntryIs ==
    /\ Entry \in Seq(Places) /\ Len(Entry) = DataPerEntry
    /\ \A i \in 1 .. DataPerEntry : Entry[i] = Null
    /\ DataPerEntry \in Nat /\ DataPerEntry > 0
    BY IteratorAssumption DEF Entry, Places

LEMMA PutIs ==
    ASSUME NEW c \in Seq(Places), NEW record \in Records
    PROVE  \E p \in Nat : PutAt(c, Put(c, record), p, record)
<1> DEFINE k == record.key
           mine == {i \in DOMAIN c : c[i] # Null /\ c[i].key = k}
           empty == {i \in DOMAIN c : c[i] = Null}
           p == PlaceFor(c, k)
<1>1. DOMAIN c = 1 .. Len(c) /\ Len(c) \in Nat /\ \A i \in DOMAIN c : c[i] \in Places
    OBVIOUS
<1>2. p = IF mine # {} THEN First(mine) ELSE IF empty # {} THEN First(empty) ELSE Len(c) + 1
    BY DEF PlaceFor
<1>3. mine \subseteq Nat /\ empty \subseteq Nat
    BY <1>1
<1>4. mine # {} => p \in mine
    BY <1>2, <1>3, FirstIs
<1>5. mine = {} /\ empty # {} => p \in empty
    BY <1>2, <1>3, FirstIs
<1>6. CASE p \in DOMAIN c
  <2>1. Put(c, record) = [c EXCEPT ![p] = record]
    BY <1>6 DEF Put
  <2>2. /\ Put(c, record) \in Seq(Places) /\ Len(Put(c, record)) = Len(c)
        /\ \A i \in DOMAIN c : Put(c, record)[i] = IF i = p THEN record ELSE c[i]
    BY <1>6, <2>1 DEF Places
  <2>3. \/ HasKey(c, p, k)
        \/ (\A i \in DOMAIN c : ~HasKey(c, i, k)) /\ c[p] = Null
    BY <1>1, <1>2, <1>4, <1>5, <1>6 DEF HasKey
  <2> QED
    BY <1>1, <1>6, <2>2, <2>3 DEF PutAt
<1>7. CASE p \notin DOMAIN c
  <2>1. mine = {} /\ empty = {} /\ p = Len(c) + 1
    BY <1>2, <1>4, <1>5, <1>7
  <2> DEFINE e == [Entry EXCEPT ![1] = record]
  <2>2. /\ e \in Seq(Places) /\ Len(e) = DataPerEntry
        /\ \A i \in 1 .. DataPerEntry : e[i] = IF i = 1 THEN record ELSE Null
    BY EntryIs DEF Places
  <2>3. Put(c, record) = c \o e
    BY <1>7 DEF Put
  <2>4. /\ Put(c, record) \in Seq(Places) /\ Len(Put(c, record)) = Len(c) + DataPerEntry
        /\ \A i \in 1 .. Len(c) + DataPerEntry : Put(c, record)[i] =
               IF i <= Len(c) THEN c[i] ELSE IF i = Len(c) + 1 THEN record ELSE Null
  <3> HIDE DEF e
  <3>1. /\ c \o e \in Seq(Places) /\ Len(c \o e) = Len(c) + Len(e)
        /\ \A i \in 1 .. Len(c) + Len(e) : (c \o e)[i] = IF i <= Len(c) THEN c[i] ELSE e[i - Len(c)]
    BY <2>2, ConcatProperties
  <3>2. ASSUME NEW i \in 1 .. Len(c) + DataPerEntry, i > Len(c)
        PROVE  e[i - Len(c)] = IF i = Len(c) + 1 THEN record ELSE Null
    <4>1. i - Len(c) \in 1 .. DataPerEntry
      BY <1>1, <3>2, EntryIs
    <4>2. i - Len(c) = 1 <=> i = Len(c) + 1
      BY <1>1
    <4> QED
      BY <2>2, <4>1, <4>2
  <3> QED
    BY <1>1, <2>2, <2>3, <3>1, <3>2, EntryIs
  <2>5. \A i \in DOMAIN c : ~HasKey(c, i, k)
    BY <2>1 DEF HasKey
  <2>6. DOMAIN Put(c, record) = 1 .. Len(c) + DataPerEntry
    BY <2>4
  <2> QED
    BY <1>1, <1>7, <2>1, <2>4, <2>5, <2>6, EntryIs DEF PutAt
<1> QED
    BY <1>6, <1>7

\* What a table has after a record was put into its bucket.
LEMMA PutInTable ==
    ASSUME NEW t, IsTable(t), NEW record \in Records
    PROVE  LET u == WithRecord(t, record)
               b == Bucket[record.key]
           IN  /\ IsTable(u) /\ b \in Buckets
               /\ \E p \in Nat : PutAt(t[b], u[b], p, record)
               /\ \A a \in Buckets \ {b} : u[a] = t[a]
<1> DEFINE u == WithRecord(t, record)
           b == Bucket[record.key]
<1>1. b \in Buckets /\ record.key \in Keys
    BY IteratorAssumption DEF Buckets, Records
<1>2. t[b] \in Seq(Places) /\ t \in [Buckets -> Seq(Places)]
    BY <1>1 DEF IsTable
<1>3. PICK p \in Nat : PutAt(t[b], Put(t[b], record), p, record)
    BY <1>2, PutIs
<1>4. u[b] = Put(t[b], record) /\ \A a \in Buckets \ {b} : u[a] = t[a]
    BY <1>1, <1>2 DEF WithRecord
<1>5. u \in [Buckets -> Seq(Places)]
    BY <1>1, <1>2, <1>3 DEF PutAt, WithRecord
<1>6. PutAt(t[b], u[b], p, record)
    BY <1>3, <1>4
<1> HIDE DEF u
<1>7. ASSUME NEW i \in DOMAIN u[b], u[b][i] # Null PROVE Bucket[u[b][i].key] = b
  <2>1. CASE i = p
    BY <1>6, <2>1 DEF PutAt
  <2>2. CASE i # p
    BY <1>1, <1>6, <1>7, <2>2 DEF PutAt, IsTable
  <2> QED
    BY <2>1, <2>2
<1>8. ASSUME NEW k \in Keys, NEW i \in DOMAIN u[b], NEW j \in DOMAIN u[b],
             HasKey(u[b], i, k), HasKey(u[b], j, k)
      PROVE  i = j
  <2>1. ASSUME NEW n \in DOMAIN u[b], n # p, HasKey(u[b], n, k)
        PROVE  n \in DOMAIN t[b] /\ HasKey(t[b], n, k)
    BY <1>6, <2>1 DEF PutAt, HasKey
  <2>2. \A m, n \in DOMAIN t[b] : HasKey(t[b], m, k) /\ HasKey(t[b], n, k) => m = n
    BY <1>1 DEF IsTable
  <2>3. ASSUME HasKey(u[b], p, k) PROVE record.key = k
    BY <1>6, <2>3 DEF PutAt, HasKey
  <2>4. CASE i = p /\ j # p
    BY <1>6, <1>8, <2>1, <2>2, <2>3, <2>4 DEF PutAt
  <2>5. CASE i # p /\ j = p
    BY <1>6, <1>8, <2>1, <2>2, <2>3, <2>5 DEF PutAt
  <2>6. CASE i # p /\ j # p
    BY <1>8, <2>1, <2>2, <2>6
  <2> QED
    BY <2>4, <2>5, <2>6
<1>9. IsTable(u)
  <2>1. \A a \in Buckets : \A i \in DOMAIN u[a] : u[a][i] # Null => Bucket[u[a][i].key] = a
    BY <1>4, <1>7 DEF IsTable
  <2>2. \A a \in Buckets : \A k \in Keys : \A i, j \in DOMAIN u[a] :
            HasKey(u[a], i, k) /\ HasKey(u[a], j, k) => i = j
    BY <1>4, <1>8 DEF IsTable
  <2> QED
    BY <1>5, <2>1, <2>2 DEF IsTable
<1> QED
    BY <1>1, <1>4, <1>6, <1>9 DEF u
\* What a table has after the record with key k was taken out of its bucket.
LEMMA RemovedFromTable ==
    ASSUME NEW t, IsTable(t), NEW k \in Keys, k \in KeysOf(t)
    PROVE  LET u == Without(t, k)
               b == Bucket[k]
           IN  /\ IsTable(u) /\ b \in Buckets
               /\ \A a \in Buckets \ {b} : u[a] = t[a]
               /\ Len(u[b]) = Len(t[b]) /\ DOMAIN u[b] = DOMAIN t[b]
               /\ \A i \in DOMAIN t[b] : u[b][i] = IF HasKey(t[b], i, k) THEN Null ELSE t[b][i]
<1> DEFINE u == Without(t, k)
           b == Bucket[k]
           c == t[b]
           mine == {i \in DOMAIN c : c[i] # Null /\ c[i].key = k}
           p == PlaceFor(c, k)
<1>1. b \in Buckets
    BY IteratorAssumption DEF Buckets
<1>2. t \in [Buckets -> Seq(Places)] /\ c \in Seq(Places)
    BY <1>1 DEF IsTable
<1>3. DOMAIN c = 1 .. Len(c) /\ Len(c) \in Nat
    BY <1>2
<1>4. mine # {}
  <2>1. PICK r \in Contents(t) : r.key = k
    BY DEF KeysOf
  <2>2. PICK i \in DOMAIN c : c[i] = r /\ r \in Records
    BY <2>1 DEF Contents
  <2>3. r # Null
    BY <2>2, IteratorAssumption DEF Records
  <2> QED
    BY <2>1, <2>2, <2>3
<1>5. p \in mine
  <2>1. p = First(mine)
    BY <1>4 DEF PlaceFor
  <2>2. mine \subseteq Nat
    BY <1>3
  <2> QED
    BY <1>4, <2>1, <2>2, FirstIs
<1>6. \A i \in DOMAIN c : HasKey(c, i, k) <=> i = p
    BY <1>1, <1>5 DEF IsTable, HasKey
<1>7. /\ u[b] = [c EXCEPT ![p] = Null]
      /\ \A a \in Buckets \ {b} : u[a] = t[a]
    BY <1>1, <1>2 DEF Without
<1>8. /\ u[b] \in Seq(Places) /\ Len(u[b]) = Len(c) /\ DOMAIN u[b] = DOMAIN c
      /\ \A i \in DOMAIN c : u[b][i] = IF HasKey(c, i, k) THEN Null ELSE c[i]
  <2>1. p \in DOMAIN c
    BY <1>5
  <2> HIDE DEF p, c, mine
  <2>2. [c EXCEPT ![p] = Null] \in Seq(Places) /\ Len([c EXCEPT ![p] = Null]) = Len(c)
    BY <1>2, <2>1 DEF Places
  <2>3. \A i \in DOMAIN c : [c EXCEPT ![p] = Null][i] = IF i = p THEN Null ELSE c[i]
    BY <1>2, <2>1
  <2> QED
    BY <1>6, <1>7, <2>2, <2>3
<1>9. u \in [Buckets -> Seq(Places)]
    BY <1>1, <1>2, <1>8 DEF Without
<1> HIDE DEF u
<1>10. \A i \in DOMAIN u[b] : u[b][i] # Null => u[b][i] = c[i]
    BY <1>8
<1>11. IsTable(u)
  <2>1. ASSUME NEW a \in Buckets, NEW i \in DOMAIN u[a], u[a][i] # Null
        PROVE  i \in DOMAIN t[a] /\ u[a][i] = t[a][i]
    BY <1>7, <1>8, <1>10, <2>1
  <2>2. \A a \in Buckets : \A i \in DOMAIN u[a] : u[a][i] # Null => Bucket[u[a][i].key] = a
    BY <2>1 DEF IsTable
  <2>3. \A a \in Buckets : \A key \in Keys : \A i, j \in DOMAIN u[a] :
            HasKey(u[a], i, key) /\ HasKey(u[a], j, key) => i = j
    BY <2>1 DEF IsTable, HasKey
  <2> QED
    BY <1>9, <2>2, <2>3 DEF IsTable
<1> QED
    BY <1>1, <1>7, <1>8, <1>11 DEF u

-------------------------------------------------------------------------------
(* The invariant of the iterator.                                            *)

\* A record with key k, not expired, is at place i of the bucket of k.
LiveAt(t, k, i) == HasKey(t[Bucket[k]], i, k) /\ ~IsExpired(t[Bucket[k]][i])

\* Chains are made of whole entries.
WholeEntries(t) == \A b \in Buckets : \E n \in Nat \ {0} : Len(t[b]) = n * DataPerEntry

\* What the variables of the iterator hold.
CursorType ==
    /\ it \in [state : {"start", "advance", "load", "valid", "end"}, bucket : Int,
               entry : Nat, index : 0 .. DataPerEntry - 1, record : Places]
    /\ touched \subseteq Keys
    /\ returned \in [Keys -> Nat]

\* The iterator is at an entry of a chain, or between two buckets.
CursorInv ==
    /\ it.bucket \in -1 .. NumBuckets
    /\ it.entry # 0 => it.bucket \in Buckets /\ it.entry * DataPerEntry <= Len(table[it.bucket])
    /\ it.state = "start" => /\ it.bucket = -1 /\ it.entry = 0
                             /\ touched = {} /\ \A k \in Keys : returned[k] = 0
    /\ it.state \in {"advance", "valid"} => it.entry # 0
    /\ it.state = "valid" => it.record \in Records
    /\ it.state = "load" => it.bucket < NumBuckets
    /\ it.state = "end" => it.bucket = NumBuckets /\ it.entry = 0

\* The place in its chain at which the iterator is, and the places behind it.
Position == (it.entry - 1) * DataPerEntry + it.index + 1

Passed(b, i) ==
    \/ b < it.bucket
    \/ b = it.bucket /\ it.entry = 0
    \/ b = it.bucket /\ i < Position
    \/ b = it.bucket /\ i = Position /\ it.state \in {"valid", "advance"}

\* It has stopped at the keys that stay and have been passed, and at no other.
WalkInv ==
    \A k \in Keys \ touched :
        /\ (\A i \in DOMAIN table[Bucket[k]] : ~LiveAt(table, k, i)) => returned[k] = 0
        /\ \A i \in DOMAIN table[Bucket[k]] :
               LiveAt(table, k, i) => returned[k] = IF Passed(Bucket[k], i) THEN 1 ELSE 0

IteratorInv == IsTable(table) /\ WholeEntries(table) /\ CursorType /\ CursorInv /\ WalkInv

\* The keys that are to be returned, by the places of their records.
LEMMA LiveKeysAre ==
    ASSUME NEW t, IsTable(t), NEW k \in Keys
    PROVE  k \in LiveKeys(t) <=> \E i \in DOMAIN t[Bucket[k]] : LiveAt(t, k, i)
<1>1. Bucket[k] \in Buckets
    BY IteratorAssumption DEF Buckets
<1>2. \A i \in DOMAIN t[Bucket[k]] : t[Bucket[k]][i] \in Places
    BY <1>1 DEF IsTable
<1>3. ASSUME k \in LiveKeys(t) PROVE \E i \in DOMAIN t[Bucket[k]] : LiveAt(t, k, i)
  <2>1. PICK r \in Contents(t) : ~IsExpired(r) /\ r.key = k
    BY <1>3 DEF LiveKeys
  <2>2. r # Null
    BY <2>1, IteratorAssumption DEF Contents, Records
  <2> QED
    BY <2>1, <2>2 DEF Contents, LiveAt, HasKey
<1>4. ASSUME NEW i \in DOMAIN t[Bucket[k]], LiveAt(t, k, i) PROVE k \in LiveKeys(t)
  <2> DEFINE r == t[Bucket[k]][i]
  <2>1. r \in Records /\ r.key = k /\ ~IsExpired(r)
    BY <1>2, <1>4 DEF LiveAt, HasKey, Places
  <2>2. r \in Contents(t)
    BY <2>1 DEF Contents
  <2> QED
    BY <2>1, <2>2 DEF LiveKeys
<1> QED
    BY <1>3, <1>4

\* What is in a chain of whole entries.
LEMMA EntriesAreWhole ==
    ASSUME NEW e \in Nat, NEW n \in Nat, NEW D \in Nat, D > 0
    PROVE  /\ e * D \in Nat /\ (e + 1) * D = e * D + D
           /\ e # 0 => (e - 1) * D = e * D - D /\ (e - 1) * D \in Nat
           /\ e * D < n * D => (e + 1) * D <= n * D
           /\ n # 0 => 1 * D <= n * D
<1>1. e * D \in Nat /\ n * D \in Nat /\ (e + 1) * D = e * D + D
    OBVIOUS
<1>2. ASSUME e # 0 PROVE (e - 1) * D = e * D - D /\ (e - 1) * D \in Nat
  <2>1. e - 1 \in Nat
    BY <1>2
  <2> QED
    BY <2>1
<1>3. ASSUME e * D < n * D PROVE (e + 1) * D <= n * D
  <2>1. ASSUME n <= e PROVE FALSE
    <3>1. e - n \in Nat
      BY <2>1
    <3>2. (e - n) * D \in Nat /\ e * D = n * D + (e - n) * D
      BY <3>1
    <3> QED
      BY <1>1, <1>3, <3>2
  <2>2. n - (e + 1) \in Nat
    BY <2>1
  <2>3. (n - (e + 1)) * D \in Nat /\ n * D = (e + 1) * D + (n - (e + 1)) * D
    BY <2>2
  <2>4. (e + 1) * D \in Nat
    OBVIOUS
  <2> QED
    BY <1>1, <2>3, <2>4
<1>4. ASSUME n # 0 PROVE 1 * D <= n * D
  <2>1. n - 1 \in Nat
    BY <1>4
  <2>2. (n - 1) * D \in Nat /\ n * D = D + (n - 1) * D
    BY <2>1
  <2> QED
    BY <2>2
<1> QED
    BY <1>1, <1>2, <1>3, <1>4
-------------------------------------------------------------------------------
(* Every step keeps it.                                                      *)

\* A write that only lets chains grow leaves the iterator where it is.
LEMMA WriteKeepsCursor ==
    ASSUME CursorType, CursorInv, IsTable(table), IsTable(table'),
           UNCHANGED <<it, returned>>,
           touched' = touched \/ (it.state # "start" /\ \E k \in Keys : touched' = touched \cup {k}),
           \A b \in Buckets : Len(table'[b]) >= Len(table[b])
    PROVE  CursorType' /\ CursorInv' /\ \A b, i : Passed(b, i)' <=> Passed(b, i)
<1>1. CursorType'
    BY DEF CursorType
<1>2. \A b, i : Passed(b, i)' <=> Passed(b, i)
    BY DEF Passed, Position
<1>3. it.state = "start" => touched' = touched
    OBVIOUS
<1>4. ASSUME it.entry # 0
      PROVE  it.bucket \in Buckets /\ it.entry * DataPerEntry <= Len(table'[it.bucket])
  <2>1. it.bucket \in Buckets /\ it.entry * DataPerEntry <= Len(table[it.bucket])
    BY <1>4 DEF CursorInv
  <2>2. Len(table[it.bucket]) \in Nat /\ Len(table'[it.bucket]) \in Nat
    BY <2>1 DEF IsTable
  <2>3. it.entry * DataPerEntry \in Nat
    BY EntryIs DEF CursorType
  <2> DEFINE n == it.entry * DataPerEntry
  <2> HIDE DEF n
  <2>4. n \in Nat /\ n <= Len(table[it.bucket])
    BY <2>1, <2>3 DEF n
  <2>5. n <= Len(table'[it.bucket])
    BY <2>1, <2>2, <2>4
  <2> QED
    BY <2>1, <2>5 DEF n
<1>5. CursorInv'
    BY <1>3, <1>4 DEF CursorInv
<1> QED
    BY <1>1, <1>2, <1>5

LEMMA Add_Iterator ==
    ASSUME IteratorInv, NEW r \in Records, Add(r)
    PROVE  IteratorInv'
<1> DEFINE b == Bucket[r.key]
<1> USE DEF IteratorInv
<1>1. /\ table' = WithRecord(table, r)
      /\ UNCHANGED <<it, returned>>
      /\ IsExpired(r) => it.state = "start"
      /\ IF r.key \in LiveKeys(table) THEN touched' = touched ELSE Touch(r.key)
    BY DEF Add, WithRecord
<1>2. /\ IsTable(table') /\ b \in Buckets /\ r.key \in Keys
      /\ \A a \in Buckets \ {b} : table'[a] = table[a]
    BY <1>1, PutInTable DEF Records
<1>3. PICK p \in Nat : PutAt(table[b], table'[b], p, r)
    BY <1>1, PutInTable
<1>4. Len(table[b]) \in Nat /\ DOMAIN table[b] = 1 .. Len(table[b]) /\ \A a \in Buckets : Len(table[a]) \in Nat
    BY <1>2 DEF IsTable
<1>5. \A a \in Buckets : Len(table'[a]) >= Len(table[a])
  <2>1. Len(table'[b]) \in {Len(table[b]), Len(table[b]) + DataPerEntry}
    BY <1>3 DEF PutAt
  <2>2. Len(table'[b]) >= Len(table[b])
    BY <1>4, <2>1, EntryIs
  <2> QED
    BY <1>2, <1>4, <2>2
<1>6. WholeEntries(table')
  <2>1. ASSUME NEW a \in Buckets PROVE \E n \in Nat \ {0} : Len(table'[a]) = n * DataPerEntry
    <3>1. PICK n \in Nat \ {0} : Len(table[a]) = n * DataPerEntry
      BY DEF WholeEntries
    <3>2. (n + 1) * DataPerEntry = Len(table[a]) + DataPerEntry
      BY <3>1, EntriesAreWhole, EntryIs
    <3>3. Len(table'[a]) \in {Len(table[a]), Len(table[a]) + DataPerEntry}
      BY <1>2, <1>3, EntryIs DEF PutAt
    <3> QED
      BY <3>1, <3>2, <3>3
  <2> QED
    BY <2>1 DEF WholeEntries
<1>7. touched' = touched \/ (it.state # "start" /\ touched' = touched \cup {r.key})
    BY <1>1 DEF Touch
<1>8. CursorType' /\ CursorInv' /\ \A a, i : Passed(a, i)' <=> Passed(a, i)
    BY <1>1, <1>2, <1>5, <1>7, WriteKeepsCursor
<1>9. ASSUME it.state = "start" PROVE WalkInv'
  <2>1. \A k \in Keys : returned'[k] = 0
    BY <1>1, <1>9 DEF CursorInv
  <2>2. \A k \in Keys : ~Passed(Bucket[k], 0) /\ \A i : ~Passed(Bucket[k], i)
    <3>1. \A k \in Keys : Bucket[k] \in Nat
      BY IteratorAssumption
    <3> QED
      BY <1>9, <3>1 DEF CursorInv, Passed
  <2> QED
    BY <1>8, <2>1, <2>2 DEF WalkInv
<1>10. ASSUME it.state # "start" PROVE WalkInv'
  <2> SUFFICES ASSUME NEW k \in Keys, k \notin touched'
              PROVE  /\ (\A i \in DOMAIN table'[Bucket[k]] : ~LiveAt(table', k, i)) => returned'[k] = 0
                     /\ \A i \in DOMAIN table'[Bucket[k]] : LiveAt(table', k, i) =>
                            returned'[k] = IF Passed(Bucket[k], i)' THEN 1 ELSE 0
    BY DEF WalkInv
  <2>1. k \notin touched /\ Bucket[k] \in Buckets
    BY <1>7, IteratorAssumption DEF Buckets
  <2>2. /\ (\A i \in DOMAIN table[Bucket[k]] : ~LiveAt(table, k, i)) => returned[k] = 0
        /\ \A i \in DOMAIN table[Bucket[k]] : LiveAt(table, k, i) =>
               returned[k] = IF Passed(Bucket[k], i) THEN 1 ELSE 0
    BY <2>1 DEF WalkInv
  <2> SUFFICES /\ \A i \in DOMAIN table'[Bucket[k]] : LiveAt(table', k, i) =>
                      i \in DOMAIN table[Bucket[k]] /\ LiveAt(table, k, i)
               /\ \A i \in DOMAIN table[Bucket[k]] : LiveAt(table, k, i) =>
                      i \in DOMAIN table'[Bucket[k]] /\ LiveAt(table', k, i)
    BY <1>1, <1>8, <2>2
  <2>3. CASE Bucket[k] # b
    BY <1>2, <2>1, <2>3 DEF LiveAt
  <2>4. CASE Bucket[k] = b /\ k # r.key
    <3>1. p \in DOMAIN table'[b] /\ table'[b][p] = r
      BY <1>3 DEF PutAt
    <3>2. DOMAIN table'[b] = 1 .. Len(table'[b]) /\ Len(table'[b]) >= Len(table[b]) /\ Len(table'[b]) \in Nat
      BY <1>2, <1>3, <1>5 DEF PutAt
    <3>3. DOMAIN table[b] \subseteq DOMAIN table'[b]
      BY <1>4, <3>2
    <3>4. \A i \in DOMAIN table'[b] \ {p} :
              table'[b][i] = IF i \in DOMAIN table[b] THEN table[b][i] ELSE Null
      BY <1>3 DEF PutAt
    <3>5. \A i \in DOMAIN table'[b] : HasKey(table'[b], i, k) =>
              i # p /\ i \in DOMAIN table[b] /\ table'[b][i] = table[b][i]
      BY <2>4, <3>1, <3>4 DEF HasKey
    <3>6. p \in DOMAIN table[b] => ~HasKey(table[b], p, k)
      BY <1>3, <2>4 DEF PutAt, HasKey
    <3>7. \A i \in DOMAIN table[b] : HasKey(table[b], i, k) => table'[b][i] = table[b][i]
      BY <3>3, <3>4, <3>6
    <3> QED
      BY <2>4, <3>3, <3>5, <3>7 DEF LiveAt, HasKey
  <2>5. CASE k = r.key
    <3>1. k \in LiveKeys(table)
      <4>1. ASSUME k \notin LiveKeys(table) PROVE k \in touched'
        BY <1>1, <1>10, <2>5, <4>1 DEF Touch
      <4> QED
        BY <4>1
    <3>2. PICK i \in DOMAIN table[b] : LiveAt(table, k, i)
      BY <2>5, <3>1, LiveKeysAre
    <3>3. HasKey(table[b], i, k)
      BY <2>5, <3>2 DEF LiveAt
    <3>4. p \in DOMAIN table[b] /\ HasKey(table[b], p, k)
      BY <1>3, <2>5, <3>3 DEF PutAt
    <3>5. \A j, l \in DOMAIN table[b] : HasKey(table[b], j, k) /\ HasKey(table[b], l, k) => j = l
      BY <1>2, <2>5 DEF IsTable
    <3>6. \A j \in DOMAIN table[b] : HasKey(table[b], j, k) <=> j = p
      BY <3>4, <3>5
    <3>7. LiveAt(table, k, p) /\ \A j \in DOMAIN table[b] : LiveAt(table, k, j) => j = p
      BY <2>5, <3>2, <3>3, <3>6 DEF LiveAt
    <3>8. p \in DOMAIN table'[b] /\ table'[b][p] = r /\ r # Null
      BY <1>3, IteratorAssumption DEF PutAt, Records
    <3>9. LiveAt(table', k, p)
      BY <1>1, <1>10, <2>5, <3>8 DEF LiveAt, HasKey
    <3>10. \A j \in DOMAIN table'[b] : HasKey(table'[b], j, k) => j = p
      BY <1>2, <2>5, <3>8, <3>9 DEF IsTable, LiveAt
    <3> QED
      BY <2>5, <3>4, <3>7, <3>8, <3>9, <3>10 DEF LiveAt
  <2> QED
    BY <2>3, <2>4, <2>5
<1> QED
    BY <1>2, <1>6, <1>8, <1>9, <1>10

LEMMA Remove_Iterator ==
    ASSUME IteratorInv, NEW key \in Keys, Remove(key)
    PROVE  IteratorInv'
<1> DEFINE b == Bucket[key]
<1> USE DEF IteratorInv
<1>1. /\ key \in KeysOf(table)
      /\ table' = Without(table, key)
      /\ UNCHANGED <<it, returned>>
      /\ Touch(key)
    BY DEF Remove, Without
<1>2. /\ IsTable(table') /\ b \in Buckets
      /\ \A a \in Buckets \ {b} : table'[a] = table[a]
      /\ Len(table'[b]) = Len(table[b]) /\ DOMAIN table'[b] = DOMAIN table[b]
      /\ \A i \in DOMAIN table[b] : table'[b][i] = IF HasKey(table[b], i, key) THEN Null ELSE table[b][i]
    BY <1>1, RemovedFromTable
<1>3. \A a \in Buckets : Len(table'[a]) = Len(table[a]) /\ Len(table[a]) \in Nat
  <2>1. \A a \in Buckets : table[a] \in Seq(Places)
    BY DEF IsTable
  <2> QED
    BY <1>2, <2>1
<1>4. WholeEntries(table')
    BY <1>3 DEF WholeEntries
<1>5. touched' = IF it.state = "start" THEN touched ELSE touched \cup {key}
    BY <1>1 DEF Touch
<1>6. CursorType' /\ CursorInv' /\ \A a, i : Passed(a, i)' <=> Passed(a, i)
    BY <1>1, <1>2, <1>3, <1>5, WriteKeepsCursor
<1>7. ASSUME it.state = "start" PROVE WalkInv'
  <2>1. \A k \in Keys : returned'[k] = 0
    BY <1>1, <1>7 DEF CursorInv
  <2>2. \A k \in Keys : \A i : ~Passed(Bucket[k], i)
    <3>1. \A k \in Keys : Bucket[k] \in Nat
      BY IteratorAssumption
    <3> QED
      BY <1>7, <3>1 DEF CursorInv, Passed
  <2> QED
    BY <1>6, <2>1, <2>2 DEF WalkInv
<1>8. ASSUME it.state # "start" PROVE WalkInv'
  <2> SUFFICES ASSUME NEW k \in Keys, k \notin touched'
              PROVE  /\ (\A i \in DOMAIN table'[Bucket[k]] : ~LiveAt(table', k, i)) => returned'[k] = 0
                     /\ \A i \in DOMAIN table'[Bucket[k]] : LiveAt(table', k, i) =>
                            returned'[k] = IF Passed(Bucket[k], i)' THEN 1 ELSE 0
    BY DEF WalkInv
  <2>1. k \notin touched /\ Bucket[k] \in Buckets /\ k # key
    BY <1>5, <1>8, IteratorAssumption DEF Buckets
  <2>2. /\ (\A i \in DOMAIN table[Bucket[k]] : ~LiveAt(table, k, i)) => returned[k] = 0
        /\ \A i \in DOMAIN table[Bucket[k]] : LiveAt(table, k, i) =>
               returned[k] = IF Passed(Bucket[k], i) THEN 1 ELSE 0
    BY <2>1 DEF WalkInv
  <2>3. /\ DOMAIN table'[Bucket[k]] = DOMAIN table[Bucket[k]]
        /\ \A i \in DOMAIN table[Bucket[k]] : LiveAt(table', k, i) <=> LiveAt(table, k, i)
    BY <1>2, <2>1 DEF LiveAt, HasKey
  <2> QED
    BY <1>1, <1>6, <2>2, <2>3
<1> QED
    BY <1>2, <1>4, <1>6, <1>7, <1>8
\* A step that stops nowhere keeps the invariant if it passes no record that is
\* to be returned.
LEMMA StepKeepsWalk ==
    ASSUME IteratorInv, UNCHANGED <<table, touched, returned>>,
           \A k \in Keys : \A i \in DOMAIN table[Bucket[k]] :
               LiveAt(table, k, i) => (Passed(Bucket[k], i)' <=> Passed(Bucket[k], i))
    PROVE  WalkInv'
<1>1. \A k, i : LiveAt(table', k, i) <=> LiveAt(table, k, i)
    BY DEF LiveAt
<1> QED
    BY <1>1 DEF IteratorInv, WalkInv

LEMMA BeginMoveNext_Iterator ==
    ASSUME IteratorInv, BeginMoveNext
    PROVE  IteratorInv'
<1> USE DEF IteratorInv
<1>1. /\ it.state \in {"start", "valid"}
      /\ it' = [it EXCEPT !.state = IF it.entry # 0 THEN "advance" ELSE "load"]
      /\ UNCHANGED <<table, touched, returned>>
    BY DEF BeginMoveNext
<1>2. IsTable(table') /\ WholeEntries(table')
    BY <1>1 DEF IsTable, WholeEntries
<1>3. CursorType'
    BY <1>1 DEF CursorType
<1>4. /\ it'.bucket = it.bucket /\ it'.entry = it.entry /\ it'.index = it.index
      /\ it.state = "start" => it'.state = "load" /\ it.bucket = -1
      /\ it.state = "valid" => it'.state = "advance" /\ it.entry # 0
    BY <1>1 DEF CursorType, CursorInv
<1>5. CursorInv'
  <2>1. NumBuckets \in Nat
    BY IteratorAssumption
  <2> QED
    BY <1>1, <1>4, <2>1 DEF CursorInv
<1>6. \A k \in Keys : \A i : Passed(Bucket[k], i)' <=> Passed(Bucket[k], i)
  <2>1. \A k \in Keys : Bucket[k] \in Nat
    BY IteratorAssumption
  <2>2. Position' = Position
    BY <1>4 DEF Position
  <2> QED
    BY <1>1, <1>4, <2>1, <2>2 DEF Passed
<1>7. WalkInv'
    BY <1>1, <1>6, StepKeepsWalk
<1> QED
    BY <1>2, <1>3, <1>5, <1>7

\* Where the iterator is while it is at an entry.
LEMMA PositionIs ==
    ASSUME IteratorInv, it.entry # 0
    PROVE  /\ it.bucket \in Buckets /\ table[it.bucket] \in Seq(Places)
           /\ Len(table[it.bucket]) \in Nat /\ DOMAIN table[it.bucket] = 1 .. Len(table[it.bucket])
           /\ it.entry * DataPerEntry \in Nat /\ it.entry * DataPerEntry <= Len(table[it.bucket])
           /\ it.entry * DataPerEntry < Len(table[it.bucket]) =>
                  (it.entry + 1) * DataPerEntry <= Len(table[it.bucket])
           /\ (it.entry + 1) * DataPerEntry = it.entry * DataPerEntry + DataPerEntry
           /\ (it.entry - 1) * DataPerEntry \in Nat
           /\ Position = it.entry * DataPerEntry - DataPerEntry + it.index + 1
           /\ Position \in DOMAIN table[it.bucket]
<1> USE DEF IteratorInv
<1>1. it.bucket \in Buckets /\ it.entry * DataPerEntry <= Len(table[it.bucket])
    BY DEF CursorInv
<1>2. table[it.bucket] \in Seq(Places)
    BY <1>1 DEF IsTable
<1>3. Len(table[it.bucket]) \in Nat /\ DOMAIN table[it.bucket] = 1 .. Len(table[it.bucket])
    BY <1>2
<1>4. PICK n \in Nat \ {0} : Len(table[it.bucket]) = n * DataPerEntry
    BY <1>1 DEF WholeEntries
<1>5. /\ it.entry * DataPerEntry \in Nat
      /\ (it.entry + 1) * DataPerEntry = it.entry * DataPerEntry + DataPerEntry
      /\ (it.entry - 1) * DataPerEntry = it.entry * DataPerEntry - DataPerEntry
      /\ (it.entry - 1) * DataPerEntry \in Nat
      /\ it.entry * DataPerEntry < n * DataPerEntry => (it.entry + 1) * DataPerEntry <= n * DataPerEntry
  <2>1. it.entry \in Nat
    BY DEF CursorType
  <2> QED
    BY <2>1, EntriesAreWhole, EntryIs
<1>6. it.index \in 0 .. DataPerEntry - 1
    BY DEF CursorType
<1> DEFINE a == it.entry * DataPerEntry
           c == (it.entry - 1) * DataPerEntry
<1>7. Position = c + it.index + 1
    BY DEF Position
<1> HIDE DEF a, c
<1>8. a \in Nat /\ c \in Nat /\ c = a - DataPerEntry /\ a <= Len(table[it.bucket])
    BY <1>1, <1>5 DEF a, c
<1>9. Position = a - DataPerEntry + it.index + 1 /\ Position \in 1 .. Len(table[it.bucket])
  <2>1. Position = a - DataPerEntry + it.index + 1
    BY <1>6, <1>7, <1>8, EntryIs
  <2>2. Position >= 1
    BY <1>6, <1>7, <1>8
  <2>3. Position <= a
    BY <1>6, <1>8, <2>1, EntryIs
  <2>4. Position \in Int
    BY <1>6, <1>8, <2>1, EntryIs
  <2> QED
    BY <1>3, <1>8, <2>1, <2>2, <2>3, <2>4
<1> QED
    BY <1>1, <1>2, <1>3, <1>4, <1>5, <1>9 DEF a

LEMMA MoveToNextData_Iterator ==
    ASSUME IteratorInv, MoveToNextData
    PROVE  IteratorInv'
<1> USE DEF IteratorInv
<1> DEFINE chain == table[it.bucket]
           entry == IF NextIndex # 0 THEN it.entry
                    ELSE IF it.entry * DataPerEntry < Len(chain) THEN it.entry + 1 ELSE 0
<1>1. /\ it.state = "advance"
      /\ it' = [it EXCEPT !.state = "load", !.index = NextIndex, !.entry = entry]
      /\ UNCHANGED <<table, touched, returned>>
    BY DEF MoveToNextData
<1>2. IsTable(table') /\ WholeEntries(table')
    BY <1>1 DEF IsTable, WholeEntries
<1>3. it.entry # 0
    BY <1>1 DEF CursorInv
<1>4. NextIndex \in 0 .. DataPerEntry - 1 /\ entry \in Nat
    BY EntryIs DEF CursorType, NextIndex
<1>5. CursorType'
    BY <1>1, <1>4 DEF CursorType
<1>6. it'.bucket = it.bucket /\ it'.entry = entry /\ it'.index = NextIndex /\ it'.state = "load"
    BY <1>1 DEF CursorType
<1>7. entry # 0 => entry * DataPerEntry <= Len(chain)
    BY <1>3, PositionIs
<1>8. CursorInv'
  <2>1. it.bucket \in Buckets /\ it.bucket < NumBuckets /\ it.bucket \in -1 .. NumBuckets
    BY <1>3, IteratorAssumption, PositionIs DEF Buckets
  <2>2. it'.bucket \in Buckets /\ it'.bucket < NumBuckets /\ it'.bucket \in -1 .. NumBuckets
    BY <1>6, <2>1
  <2>3. it'.entry # 0 => it'.entry * DataPerEntry <= Len(table'[it'.bucket])
    BY <1>1, <1>6, <1>7
  <2> QED
    BY <1>6, <2>2, <2>3 DEF CursorInv
<1>9. \A i \in DOMAIN chain : Passed(it.bucket, i)' <=> Passed(it.bucket, i)
  <2>1. it.bucket \in Nat /\ Len(chain) \in Nat /\ DOMAIN chain = 1 .. Len(chain)
    BY <1>3, PositionIs DEF Buckets
  <2>2. \A i \in DOMAIN chain : Passed(it.bucket, i) <=> i <= Position
    BY <1>1, <1>3, <2>1, PositionIs DEF Passed
  <2>3. CASE NextIndex # 0
    <3>1. NextIndex = it.index + 1
      BY <2>3 DEF NextIndex
    <3>2. Position' = Position + 1
      <4>1. it'.entry = it.entry /\ it'.index = it.index + 1
        BY <1>6, <2>3, <3>1
      <4>2. (it.entry - 1) * DataPerEntry \in Nat /\ it.index \in Nat
        BY <1>3, PositionIs, EntryIs DEF CursorType
      <4> QED
        BY <4>1, <4>2 DEF Position
    <3>3. Position \in Nat
      BY <1>3, <2>1, PositionIs
    <3>4. it'.entry # 0
      BY <1>3, <1>6, <2>3
    <3>5. \A i \in DOMAIN chain : Passed(it.bucket, i)' <=> i < Position + 1
      BY <1>6, <2>1, <3>2, <3>4 DEF Passed
    <3> QED
      BY <2>1, <2>2, <3>3, <3>5
  <2>4. CASE NextIndex = 0
    <3>1. it.index + 1 = DataPerEntry
      BY <2>4, EntryIs DEF NextIndex, CursorType
    <3>2. Position = it.entry * DataPerEntry
      <4> DEFINE a == it.entry * DataPerEntry
      <4>1. a \in Nat /\ Position = a - DataPerEntry + it.index + 1
        BY <1>3, PositionIs
      <4>2. it.index \in Nat
        BY EntryIs DEF CursorType
      <4> HIDE DEF a
      <4>3. Position = a
        BY <3>1, <4>1, <4>2, EntryIs
      <4> QED
        BY <4>3 DEF a
    <3>3. CASE it.entry * DataPerEntry < Len(chain)
      <4>1. it'.entry = it.entry + 1 /\ it'.index = 0 /\ it'.entry # 0
        BY <1>6, <2>4, <3>3 DEF CursorType
      <4>2. Position' = it.entry * DataPerEntry + 1
        <5>1. it'.entry - 1 = it.entry
          BY <4>1 DEF CursorType
        <5>2. it.entry * DataPerEntry \in Nat
          BY <1>3, PositionIs
        <5> QED
          BY <4>1, <5>1, <5>2 DEF Position
      <4>3. \A i \in DOMAIN chain : Passed(it.bucket, i)' <=> i < Position + 1
        BY <1>6, <2>1, <3>2, <4>1, <4>2 DEF Passed
      <4>4. Position \in Nat
        BY <1>3, <2>1, PositionIs
      <4> QED
        BY <2>1, <2>2, <4>3, <4>4
    <3>4. CASE ~(it.entry * DataPerEntry < Len(chain))
      <4>1. it'.entry = 0
        BY <1>6, <2>4, <3>4
      <4>2. \A i \in DOMAIN chain : Passed(it.bucket, i)'
        BY <1>6, <4>1 DEF Passed
      <4>3. \A i \in DOMAIN chain : i <= Position
        <5>1. Position \in Nat /\ ~(Position < Len(chain))
          BY <1>3, <2>1, <3>2, <3>4, PositionIs
        <5> QED
          BY <2>1, <5>1
      <4> QED
        BY <2>2, <4>2, <4>3
    <3> QED
      BY <3>3, <3>4
  <2> QED
    BY <2>3, <2>4
<1>10. \A b, i : b # it.bucket => (Passed(b, i)' <=> Passed(b, i))
    BY <1>6 DEF Passed
<1>11. WalkInv'
    BY <1>1, <1>9, <1>10, StepKeepsWalk
<1> QED
    BY <1>2, <1>5, <1>8, <1>11

LEMMA NextBucket_Iterator ==
    ASSUME IteratorInv, NextBucket
    PROVE  IteratorInv'
<1> USE DEF IteratorInv
<1> DEFINE b == it.bucket + 1
<1>1. /\ it.state = "load" /\ it.entry = 0
      /\ it' = [it EXCEPT !.bucket = b, !.index = 0,
                          !.entry = IF b = NumBuckets THEN 0 ELSE 1,
                          !.state = IF b = NumBuckets THEN "end" ELSE "load"]
      /\ UNCHANGED <<table, touched, returned>>
    BY DEF NextBucket
<1>2. IsTable(table') /\ WholeEntries(table')
    BY <1>1 DEF IsTable, WholeEntries
<1>3. NumBuckets \in Nat /\ it.bucket \in -1 .. NumBuckets - 1 /\ b \in 0 .. NumBuckets
    BY <1>1, IteratorAssumption DEF CursorInv
<1>4. CursorType'
  <2>1. /\ b \in Int /\ 0 \in 0 .. DataPerEntry - 1
        /\ (IF b = NumBuckets THEN 0 ELSE 1) \in Nat
        /\ (IF b = NumBuckets THEN "end" ELSE "load") \in {"start", "advance", "load", "valid", "end"}
    BY <1>3, EntryIs
  <2> HIDE DEF b
  <2> QED
    BY <1>1, <2>1 DEF CursorType
<1>5. /\ it'.bucket = b /\ it'.index = 0
      /\ it'.entry = IF b = NumBuckets THEN 0 ELSE 1
      /\ it'.state = IF b = NumBuckets THEN "end" ELSE "load"
    BY <1>1 DEF CursorType
<1>6. ASSUME b # NumBuckets PROVE b \in Buckets /\ 1 * DataPerEntry <= Len(table[b])
  <2>1. b \in Buckets
    BY <1>3, <1>6 DEF Buckets
  <2>2. PICK n \in Nat \ {0} : Len(table[b]) = n * DataPerEntry
    BY <2>1 DEF WholeEntries
  <2> QED
    BY <2>1, <2>2, EntriesAreWhole, EntryIs
<1>7. CursorInv'
  <2>1. b \in -1 .. NumBuckets /\ (b # NumBuckets => b < NumBuckets)
    BY <1>3
  <2> HIDE DEF b
  <2> QED
    BY <1>1, <1>5, <1>6, <2>1 DEF CursorInv
<1>8. \A a \in Buckets : \A i \in DOMAIN table[a] : Passed(a, i)' <=> Passed(a, i)
  <2> SUFFICES ASSUME NEW a \in Buckets, NEW i \in DOMAIN table[a]
              PROVE  Passed(a, i)' <=> Passed(a, i)
    OBVIOUS
  <2>1. a \in Nat /\ a < NumBuckets
    BY IteratorAssumption DEF Buckets
  <2>2. i \in Nat /\ i >= 1
  <3>1. table[a] \in Seq(Places)
    BY DEF IsTable
  <3> QED
    BY <3>1
  <2>3. Passed(a, i) <=> a <= it.bucket
    BY <1>1, <1>3, <2>1 DEF Passed
  <2>4. Passed(a, i)' <=> a < b
    <3>1. CASE b = NumBuckets
      BY <1>3, <1>5, <2>1, <3>1 DEF Passed
    <3>2. CASE b # NumBuckets
      <4>1. Position' = 1
        BY <1>5, <3>2, EntryIs DEF Position
      <4> QED
        BY <1>3, <1>5, <2>1, <2>2, <3>2, <4>1 DEF Passed
    <3> QED
      BY <3>1, <3>2
  <2> QED
    BY <1>3, <2>1, <2>3, <2>4
<1>9. \A k \in Keys : Bucket[k] \in Buckets
    BY IteratorAssumption DEF Buckets
<1>10. WalkInv'
    BY <1>1, <1>8, <1>9, StepKeepsWalk
<1> QED
    BY <1>2, <1>4, <1>7, <1>10
LEMMA LoadRecord_Iterator ==
    ASSUME IteratorInv, LoadRecord
    PROVE  IteratorInv'
<1> USE DEF IteratorInv
<1> DEFINE b == it.bucket
           stops == Here # Null /\ ~IsExpired(Here)
<1>1. /\ it.state = "load" /\ it.entry # 0
      /\ IF stops THEN Stop(Here)
         ELSE it' = [it EXCEPT !.state = "advance", !.record = Here] /\ UNCHANGED returned
      /\ UNCHANGED <<table, touched>>
    BY DEF LoadRecord
<1>2. IsTable(table') /\ WholeEntries(table')
    BY <1>1 DEF IsTable, WholeEntries
<1>3. /\ b \in Buckets /\ b \in Nat /\ table[b] \in Seq(Places) /\ DOMAIN table[b] = 1 .. Len(table[b])
      /\ Position \in DOMAIN table[b] /\ Position \in Nat
      /\ Len(table[b]) \in Nat
    BY <1>1, PositionIs DEF Buckets
<1>4. Here = table[b][Position] /\ Here \in Places
    BY <1>3 DEF Here, Position
<1>5. it' = [it EXCEPT !.state = IF stops THEN "valid" ELSE "advance", !.record = Here]
    BY <1>1 DEF Stop
<1>6. /\ it'.bucket = b /\ it'.entry = it.entry /\ it'.index = it.index /\ it'.record = Here
      /\ it'.state = IF stops THEN "valid" ELSE "advance"
    BY <1>5 DEF CursorType
<1>7. stops => Here \in Records /\ Here.key \in Keys
    BY <1>4 DEF Places, Records
<1>8. returned' = IF stops THEN [returned EXCEPT ![Here.key] = returned[Here.key] + 1] ELSE returned
    BY <1>1 DEF Stop
<1>9. CursorType'
  <2>1. it' \in [state : {"start", "advance", "load", "valid", "end"}, bucket : Int,
                 entry : Nat, index : 0 .. DataPerEntry - 1, record : Places]
    BY <1>4, <1>5 DEF CursorType
  <2>2. returned' \in [Keys -> Nat]
    BY <1>7, <1>8 DEF CursorType
  <2> QED
    BY <1>1, <2>1, <2>2 DEF CursorType
<1>10. CursorInv'
    BY <1>1, <1>6, <1>7 DEF CursorInv
<1>11. \A a \in Buckets : \A i \in DOMAIN table[a] :
           Passed(a, i)' <=> Passed(a, i) \/ (a = b /\ i = Position)
  <2>1. Position' = Position
    BY <1>6 DEF Position
  <2> QED
    BY <1>1, <1>3, <1>6, <2>1 DEF Passed
<1>12. ~Passed(b, Position)
    BY <1>1, <1>3 DEF Passed
<1>13. \A k \in Keys : Bucket[k] \in Buckets
    BY IteratorAssumption DEF Buckets
<1>14. \A k, i : LiveAt(table', k, i) <=> LiveAt(table, k, i)
    BY <1>1 DEF LiveAt
<1>15. CASE ~stops
  <2>1. \A k \in Keys : Bucket[k] = b => ~LiveAt(table, k, Position)
    BY <1>4, <1>15 DEF LiveAt, HasKey
  <2>2. \A k \in Keys : \A i \in DOMAIN table[Bucket[k]] :
            LiveAt(table, k, i) => (Passed(Bucket[k], i)' <=> Passed(Bucket[k], i))
    BY <1>11, <1>13, <2>1
  <2>3. WalkInv'
    BY <1>1, <1>8, <1>15, <2>2, StepKeepsWalk
  <2> QED
    BY <1>2, <1>9, <1>10, <2>3
<1>16. CASE stops
  <2> DEFINE key == Here.key
  <2>1. Bucket[key] = b /\ LiveAt(table, key, Position)
    BY <1>3, <1>4, <1>16 DEF IsTable, LiveAt, HasKey
  <2>2. \A i \in DOMAIN table[b] : LiveAt(table, key, i) => i = Position
    BY <1>3, <1>7, <1>16, <2>1 DEF IsTable, LiveAt
  <2>3. \A k \in Keys : Bucket[k] = b /\ LiveAt(table, k, Position) => k = key
    BY <1>4 DEF LiveAt, HasKey
  <2>4. \A k \in Keys : k # key => returned'[k] = returned[k]
    BY <1>8, <1>16 DEF CursorType
  <2>5. returned'[key] = returned[key] + 1
    BY <1>7, <1>8, <1>16 DEF CursorType
  <2> SUFFICES ASSUME NEW k \in Keys, k \notin touched
              PROVE  /\ (\A i \in DOMAIN table[Bucket[k]] : ~LiveAt(table, k, i)) => returned'[k] = 0
                     /\ \A i \in DOMAIN table[Bucket[k]] : LiveAt(table, k, i) =>
                            returned'[k] = IF Passed(Bucket[k], i)' THEN 1 ELSE 0
    BY <1>1, <1>2, <1>9, <1>10, <1>14 DEF WalkInv
  <2>6. /\ (\A i \in DOMAIN table[Bucket[k]] : ~LiveAt(table, k, i)) => returned[k] = 0
        /\ \A i \in DOMAIN table[Bucket[k]] : LiveAt(table, k, i) =>
               returned[k] = IF Passed(Bucket[k], i) THEN 1 ELSE 0
    BY DEF WalkInv
  <2>7. CASE k # key
    BY <1>11, <1>13, <2>3, <2>4, <2>6, <2>7
  <2>8. CASE k = key
    <3>1. returned[key] = 0
      BY <1>3, <1>12, <2>1, <2>6, <2>8
    <3>2. \A i \in DOMAIN table[Bucket[k]] : i = Position => Passed(Bucket[k], i)'
      BY <1>3, <1>11, <1>13, <2>1, <2>8
    <3> QED
      BY <1>3, <2>1, <2>2, <2>5, <2>8, <3>1, <3>2
  <2> QED
    BY <2>7, <2>8
<1> QED
    BY <1>15, <1>16

LEMMA Reset_Iterator ==
    ASSUME IteratorInv, Reset
    PROVE  IteratorInv'
<1> USE DEF IteratorInv
<1>1. /\ it' = [AtStart EXCEPT !.record = it.record] /\ touched' = {}
      /\ returned' = [k \in Keys |-> 0] /\ table' = table
    BY DEF Reset
<1>2. IsTable(table') /\ WholeEntries(table')
    BY <1>1 DEF IsTable, WholeEntries
<1>3. /\ it'.state = "start" /\ it'.bucket = -1 /\ it'.entry = 0
      /\ it' \in [state : {"start", "advance", "load", "valid", "end"}, bucket : Int,
                  entry : Nat, index : 0 .. DataPerEntry - 1, record : Places]
  <2>1. it.record \in Places /\ 0 \in 0 .. DataPerEntry - 1
    BY EntryIs DEF CursorType
  <2> QED
    BY <1>1, <2>1 DEF AtStart
<1>4. CursorType'
    BY <1>1, <1>3 DEF CursorType
<1>5. CursorInv'
  <2>1. -1 \in -1 .. NumBuckets /\ -1 < NumBuckets /\ NumBuckets # -1
    BY IteratorAssumption
  <2> QED
    BY <1>1, <1>3, <2>1 DEF CursorInv
<1>6. \A k \in Keys : \A i : ~Passed(Bucket[k], i)'
  <2>1. \A k \in Keys : Bucket[k] \in Nat
    BY IteratorAssumption
  <2> QED
    BY <1>3, <2>1 DEF Passed
<1>7. WalkInv'
    BY <1>1, <1>6 DEF WalkInv
<1> QED
    BY <1>2, <1>4, <1>5, <1>7

LEMMA Iterator_Init ==
    ASSUME IteratorInit
    PROVE  IteratorInv
<1>1. /\ table = EmptyTable /\ it = AtStart /\ touched = {} /\ returned = [k \in Keys |-> 0]
    BY DEF IteratorInit
<1>2. IsTable(table) /\ WholeEntries(table)
  <2>1. table \in [Buckets -> Seq(Places)] /\ \A b \in Buckets : table[b] = Entry
    BY <1>1, EntryIs DEF EmptyTable
  <2>2. \A b \in Buckets : \A i \in DOMAIN table[b] : table[b][i] = Null
    BY <2>1, EntryIs
  <2>3. IsTable(table)
    BY <2>1, <2>2 DEF IsTable, HasKey
  <2>4. Len(Entry) = 1 * DataPerEntry
    BY EntryIs
  <2> QED
    BY <2>1, <2>3, <2>4 DEF WholeEntries
<1>3. /\ it.state = "start" /\ it.bucket = -1 /\ it.entry = 0
      /\ it \in [state : {"start", "advance", "load", "valid", "end"}, bucket : Int,
                 entry : Nat, index : 0 .. DataPerEntry - 1, record : Places]
  <2>1. Null \in Places /\ 0 \in 0 .. DataPerEntry - 1
    BY EntryIs DEF Places
  <2> QED
    BY <1>1, <2>1 DEF AtStart
<1>4. CursorType
    BY <1>1, <1>3 DEF CursorType
<1>5. CursorInv
  <2>1. -1 \in -1 .. NumBuckets /\ -1 < NumBuckets /\ NumBuckets # -1
    BY IteratorAssumption
  <2> QED
    BY <1>1, <1>3, <2>1 DEF CursorInv
<1>6. \A k \in Keys : \A i : ~Passed(Bucket[k], i)
  <2>1. \A k \in Keys : Bucket[k] \in Nat
    BY IteratorAssumption
  <2> QED
    BY <1>3, <2>1 DEF Passed
<1>7. WalkInv
    BY <1>1, <1>6 DEF WalkInv
<1> QED
    BY <1>2, <1>4, <1>5, <1>7 DEF IteratorInv

LEMMA Iterator_Step ==
    ASSUME IteratorInv, IteratorNext \/ UNCHANGED iteratorVars
    PROVE  IteratorInv'
<1>1. CASE UNCHANGED iteratorVars
    BY <1>1 DEF iteratorVars, IteratorInv, IsTable, WholeEntries, CursorType, CursorInv, WalkInv,
        LiveAt, Passed, Position
<1>2. CASE Write
    BY <1>2, Add_Iterator, Remove_Iterator DEF Write
<1>3. CASE MoveNext
    BY <1>3, BeginMoveNext_Iterator, MoveToNextData_Iterator, NextBucket_Iterator, LoadRecord_Iterator
    DEF MoveNext
<1>4. CASE Reset
    BY <1>4, Reset_Iterator
<1> QED
    BY <1>1, <1>2, <1>3, <1>4 DEF IteratorNext

\* A key that stays is returned once.
LEMMA WalkIsComplete ==
    ASSUME IteratorInv
    PROVE  StableKeysOnce
<1> USE DEF IteratorInv
<1> SUFFICES ASSUME NEW k \in Keys, k \notin touched
            PROVE  /\ returned[k] <= IF k \in LiveKeys(table) THEN 1 ELSE 0
                   /\ it.state = "end" /\ k \in LiveKeys(table) => returned[k] = 1
    BY DEF StableKeysOnce
<1>1. /\ (\A i \in DOMAIN table[Bucket[k]] : ~LiveAt(table, k, i)) => returned[k] = 0
      /\ \A i \in DOMAIN table[Bucket[k]] : LiveAt(table, k, i) =>
             returned[k] = IF Passed(Bucket[k], i) THEN 1 ELSE 0
    BY DEF WalkInv
<1>2. k \in LiveKeys(table) <=> \E i \in DOMAIN table[Bucket[k]] : LiveAt(table, k, i)
    BY LiveKeysAre
<1>3. it.state = "end" => \A i : Passed(Bucket[k], i)
  <2>1. Bucket[k] < NumBuckets
    BY IteratorAssumption
  <2> QED
    BY <2>1 DEF CursorInv, Passed
<1> QED
    BY <1>1, <1>2, <1>3
-------------------------------------------------------------------------------
(* Serialize() and Deserialize() only move the iterator as it may move.      *)

LEMMA Next_IsIteratorStep ==
    ASSUME Next \/ UNCHANGED vars
    PROVE  IteratorNext \/ UNCHANGED iteratorVars
<1>1. CASE UNCHANGED vars
    BY <1>1 DEF vars
<1>2. CASE Fill
    BY <1>2 DEF Fill, IteratorNext
<1>3. CASE Iterate
    BY <1>3 DEF Iterate, IteratorNext
<1>4. CASE Save
    BY <1>4 DEF Save, BeginSave, Walk, SaveRecord, EndSave, IteratorNext, MoveNext
<1>5. CASE Arrive
    BY <1>5 DEF Arrive
<1>6. CASE Load
    BY <1>6 DEF Load, ReadVersion, ReadSetting, LoadNextRecord, EndLoad
<1>7. CASE Done
    BY <1>7 DEF Done, vars
<1> QED
    BY <1>1, <1>2, <1>3, <1>4, <1>5, <1>6, <1>7 DEF Next

\* An iterator returns every record that stays in its table and has not expired
\* once, and no other, however writers add, replace and remove records while it
\* walks (the Iterators of ReadWrite/HashTable.h:113 and Cache/HashTable.h:91).
THEOREM NoneMissedOrTwice == Spec => []StableKeysOnce
<1>1. Init => IteratorInv
    BY Iterator_Init DEF Init
<1>2. IteratorInv /\ [Next]_vars => IteratorInv'
    BY Iterator_Step, Next_IsIteratorStep
<1>3. IteratorInv => StableKeysOnce
    BY WalkIsComplete
<1> QED
    BY <1>1, <1>2, <1>3, PTL DEF Spec
-------------------------------------------------------------------------------
(* What is in a stream, and what is left of it.                              *)

Items == [kind : {"version", "setting", "flag", "record"},
          value : {c_version} \cup OtherVersions \cup Nat \cup BOOLEAN \cup Records]

\* The record that was written as the j-th.
Saved(j) == stream[2 * j + 2].value

\* The serializer writes a record and a flag before it by turns.
StreamInv ==
    /\ phase \in {"filling", "saving", "saved", "version", "setting", "loading", "loaded", "failed"}
    /\ phase \in {"filling", "saving", "saved"} <=> arrived = "no"
    /\ recordsSaved \in Nat
    /\ stream \in Seq(Items) /\ input \in Seq(Items)
    /\ phase = "filling" => stream = <<>>
    /\ phase # "filling" =>
           /\ Len(stream) = 2 * recordsSaved + (IF phase = "saving" THEN 2 ELSE 3)
           /\ stream[1] = Version(c_version) /\ stream[2] = Setting(NumBuckets)
           /\ \A j \in 1 .. recordsSaved :
                  stream[2 * j + 1] = Flag(TRUE) /\ stream[2 * j + 2] = Record(Saved(j)) /\ Saved(j) \in Records
    /\ phase \notin {"filling", "saving"} => stream[2 * recordsSaved + 3] = Flag(FALSE)

\* All flags that are left of a stream without its end are TRUE.
CutInv ==
    /\ arrived = "other" => phase \in {"version", "failed"} /\ (phase = "version" => Deserialize(1, 0) # c_version)
    /\ arrived = "cut" =>
           /\ phase # "loaded"
           /\ phase \in {"version", "setting"} =>
                  /\ Len(input) >= 3
                  /\ \A j \in Nat : j >= 1 /\ 2 * j + 1 <= Len(input) => input[2 * j + 1] = Flag(TRUE)
           /\ phase = "loading" =>
                  /\ hasMoreData = TRUE
                  /\ \A j \in Nat : j >= 1 /\ 2 * j <= Len(input) => input[2 * j] = Flag(TRUE)

LEMMA ItemsAre ==
    /\ Version(c_version) \in Items /\ Setting(NumBuckets) \in Items
    /\ Flag(TRUE) \in Items /\ Flag(FALSE) \in Items
    /\ \A r \in Records : Record(r) \in Items
    /\ \A v \in OtherVersions : Version(v) \in Items
    /\ \A r : Record(r).kind = "record" /\ Record(r).value = r
    /\ \A f : Flag(f).kind = "flag" /\ Flag(f).value = f
    /\ \A v : Version(v).kind = "version" /\ Version(v).value = v
    /\ \A n : Setting(n).kind = "setting" /\ Setting(n).value = n
    BY IteratorAssumption DEF Items, Version, Setting, Flag, Record

\* What a stream of pairs has behind its first two items.
LEMMA StreamParts ==
    ASSUME StreamInv, phase # "filling"
    PROVE  /\ recordsSaved \in Nat /\ Len(stream) \in Nat /\ DOMAIN stream = 1 .. Len(stream)
           /\ phase = "saving" => Len(stream) = 2 * recordsSaved + 2
           /\ phase # "saving" => Len(stream) = 2 * recordsSaved + 3 /\ stream[Len(stream)] = Flag(FALSE)
           /\ stream[1] = Version(c_version) /\ stream[2] = Setting(NumBuckets)
           /\ \A j \in 1 .. recordsSaved :
                  stream[2 * j + 1] = Flag(TRUE) /\ stream[2 * j + 2] = Record(Saved(j)) /\ Saved(j) \in Records
<1>1. stream \in Seq(Items) /\ recordsSaved \in Nat
    BY DEF StreamInv
<1>2. Len(stream) \in Nat /\ DOMAIN stream = 1 .. Len(stream)
    BY <1>1
<1>3. ASSUME phase # "saving" PROVE Len(stream) = 2 * recordsSaved + 3 /\ stream[Len(stream)] = Flag(FALSE)
    BY <1>3 DEF StreamInv
<1>4. phase = "saving" => Len(stream) = 2 * recordsSaved + 2
    BY DEF StreamInv
<1> QED
    BY <1>1, <1>2, <1>3, <1>4 DEF StreamInv

LEMMA TuplesAre ==
    /\ \A f \in Items : <<f>> \in Seq(Items) /\ Len(<<f>>) = 1 /\ <<f>>[1] = f
    /\ \A f, g \in Items :
           <<f, g>> \in Seq(Items) /\ Len(<<f, g>>) = 2 /\ <<f, g>>[1] = f /\ <<f, g>>[2] = g
    OBVIOUS

LEMMA Stream_Unchanged ==
    ASSUME StreamInv, UNCHANGED <<phase, stream, recordsSaved, input, arrived>>
    PROVE  StreamInv'
    BY DEF StreamInv, Saved

LEMMA BeginSave_Stream ==
    ASSUME StreamInv, BeginSave
    PROVE  StreamInv'
<1>1. /\ phase = "filling" /\ phase' = "saving" /\ recordsSaved' = 0
      /\ stream' = stream \o <<Version(c_version), Setting(NumBuckets)>>
      /\ UNCHANGED <<input, arrived>>
    BY DEF BeginSave, Serialize, loadVars
<1>2. stream = <<>> /\ arrived = "no" /\ input \in Seq(Items)
    BY <1>1 DEF StreamInv
<1>3. stream' = <<Version(c_version), Setting(NumBuckets)>>
    BY <1>1, <1>2
<1>4. stream' \in Seq(Items) /\ Len(stream') = 2 /\ stream'[1] = Version(c_version) /\ stream'[2] = Setting(NumBuckets)
    BY <1>3, ItemsAre
<1> QED
    BY <1>1, <1>2, <1>4 DEF StreamInv

LEMMA SaveRecord_Stream ==
    ASSUME StreamInv, CursorInv, SaveRecord
    PROVE  /\ StreamInv' /\ recordsSaved' = recordsSaved + 1
           /\ \A j \in 1 .. recordsSaved : Saved(j)' = Saved(j)
           /\ \A j \in Nat : j = recordsSaved + 1 => Saved(j)' = it.record
<1> DEFINE items == <<Flag(TRUE), Record(it.record)>>
<1>1. /\ phase = "saving" /\ it.state = "valid" /\ recordsSaved' = recordsSaved + 1
      /\ stream' = stream \o items
      /\ UNCHANGED <<phase, input, arrived>>
    BY DEF SaveRecord, Serialize, loadVars
<1>2. it.record \in Records
    BY <1>1 DEF CursorInv
<1>3. items \in Seq(Items) /\ Len(items) = 2 /\ items[1] = Flag(TRUE) /\ items[2] = Record(it.record)
  <2>1. Flag(TRUE) \in Items /\ Record(it.record) \in Items
    BY <1>2, ItemsAre
  <2> QED
    BY <2>1, TuplesAre
<1>4. /\ stream \in Seq(Items) /\ input \in Seq(Items) /\ recordsSaved \in Nat /\ arrived = "no"
      /\ Len(stream) = 2 * recordsSaved + 2
      /\ stream[1] = Version(c_version) /\ stream[2] = Setting(NumBuckets)
      /\ \A j \in 1 .. recordsSaved :
             stream[2 * j + 1] = Flag(TRUE) /\ stream[2 * j + 2] = Record(Saved(j)) /\ Saved(j) \in Records
    BY <1>1 DEF StreamInv
<1> HIDE DEF items
<1>5. /\ stream' \in Seq(Items) /\ Len(stream') = Len(stream) + 2
      /\ \A i \in 1 .. Len(stream) + 2 : stream'[i] = IF i <= Len(stream) THEN stream[i] ELSE items[i - Len(stream)]
  <2>1. /\ stream \o items \in Seq(Items) /\ Len(stream \o items) = Len(stream) + Len(items)
        /\ \A i \in 1 .. Len(stream) + Len(items) :
               (stream \o items)[i] = IF i <= Len(stream) THEN stream[i] ELSE items[i - Len(stream)]
    BY <1>3, <1>4, ConcatProperties
  <2> QED
    BY <1>1, <1>3, <2>1
<1>6. \A i \in 1 .. Len(stream) : stream'[i] = stream[i]
    BY <1>4, <1>5
<1>7. stream'[Len(stream) + 1] = Flag(TRUE) /\ stream'[Len(stream) + 2] = Record(it.record)
  <2> DEFINE n == Len(stream)
  <2>1. n \in Nat
    BY <1>4
  <2> HIDE DEF n
  <2>2. /\ n + 1 \in 1 .. n + 2 /\ n + 2 \in 1 .. n + 2
        /\ (n + 1) - n = 1 /\ (n + 2) - n = 2 /\ ~(n + 1 <= n) /\ ~(n + 2 <= n)
    BY <2>1
  <2>3. \A i \in 1 .. n + 2 : stream'[i] = IF i <= n THEN stream[i] ELSE items[i - n]
    BY <1>5 DEF n
  <2>4. stream'[n + 1] = items[1] /\ stream'[n + 2] = items[2]
    BY <2>2, <2>3
  <2> QED
    BY <1>3, <2>4 DEF n
<1>8. \A j \in 1 .. recordsSaved :
          stream'[2 * j + 1] = stream[2 * j + 1] /\ stream'[2 * j + 2] = stream[2 * j + 2]
  <2> SUFFICES ASSUME NEW j \in 1 .. recordsSaved
              PROVE  2 * j + 1 \in 1 .. Len(stream) /\ 2 * j + 2 \in 1 .. Len(stream)
    BY <1>6
  <2> QED
    BY <1>4
<1>9. \A j \in 1 .. recordsSaved : Saved(j)' = Saved(j)
    BY <1>8 DEF Saved
<1>10. \A j \in Nat : j = recordsSaved + 1 =>
           stream'[2 * j + 1] = Flag(TRUE) /\ stream'[2 * j + 2] = Record(it.record)
  <2> SUFFICES ASSUME NEW j \in Nat, j = recordsSaved + 1
              PROVE  2 * j + 1 = Len(stream) + 1 /\ 2 * j + 2 = Len(stream) + 2
    BY <1>7
  <2> QED
    BY <1>4
<1>11. \A j \in Nat : j = recordsSaved + 1 => Saved(j)' = it.record
    BY <1>10, ItemsAre DEF Saved
<1>12. \A j \in 1 .. recordsSaved' :
           stream'[2 * j + 1] = Flag(TRUE) /\ stream'[2 * j + 2] = Record(Saved(j)') /\ Saved(j)' \in Records
  <2> SUFFICES ASSUME NEW j \in 1 .. recordsSaved + 1
              PROVE  stream'[2 * j + 1] = Flag(TRUE) /\ stream'[2 * j + 2] = Record(Saved(j)') /\ Saved(j)' \in Records
    BY <1>1
  <2>1. CASE j = recordsSaved + 1
    <3>1. j \in Nat
      OBVIOUS
    <3> QED
      BY <1>2, <1>10, <1>11, <2>1, <3>1
  <2>2. CASE j # recordsSaved + 1
    <3>1. j \in 1 .. recordsSaved
      BY <1>4, <2>2
    <3> QED
      BY <1>4, <1>8, <1>9, <3>1
  <2> QED
    BY <2>1, <2>2
<1>13. stream'[1] = stream[1] /\ stream'[2] = stream[2]
    BY <1>4, <1>6
<1>14. Len(stream') = 2 * recordsSaved' + 2 /\ recordsSaved' \in Nat
    BY <1>1, <1>4, <1>5
<1>15. StreamInv'
    BY <1>1, <1>4, <1>5, <1>12, <1>13, <1>14 DEF StreamInv
<1> QED
    BY <1>1, <1>9, <1>11, <1>15

LEMMA EndSave_Stream ==
    ASSUME StreamInv, EndSave
    PROVE  StreamInv' /\ \A j \in 1 .. recordsSaved : Saved(j)' = Saved(j)
<1> DEFINE items == <<Flag(FALSE)>>
<1>1. /\ phase = "saving" /\ phase' = "saved" /\ stream' = stream \o items
      /\ UNCHANGED <<recordsSaved, input, arrived>>
    BY DEF EndSave, Serialize, loadVars
<1>2. items \in Seq(Items) /\ Len(items) = 1 /\ items[1] = Flag(FALSE)
  <2>1. Flag(FALSE) \in Items
    BY ItemsAre
  <2> QED
    BY <2>1, TuplesAre
<1>3. /\ stream \in Seq(Items) /\ input \in Seq(Items) /\ recordsSaved \in Nat /\ arrived = "no"
      /\ Len(stream) = 2 * recordsSaved + 2
      /\ stream[1] = Version(c_version) /\ stream[2] = Setting(NumBuckets)
      /\ \A j \in 1 .. recordsSaved :
             stream[2 * j + 1] = Flag(TRUE) /\ stream[2 * j + 2] = Record(Saved(j)) /\ Saved(j) \in Records
    BY <1>1 DEF StreamInv
<1> HIDE DEF items
<1>4. /\ stream' \in Seq(Items) /\ Len(stream') = Len(stream) + 1
      /\ \A i \in 1 .. Len(stream) + 1 : stream'[i] = IF i <= Len(stream) THEN stream[i] ELSE items[i - Len(stream)]
  <2>1. /\ stream \o items \in Seq(Items) /\ Len(stream \o items) = Len(stream) + Len(items)
        /\ \A i \in 1 .. Len(stream) + Len(items) :
               (stream \o items)[i] = IF i <= Len(stream) THEN stream[i] ELSE items[i - Len(stream)]
    BY <1>2, <1>3, ConcatProperties
  <2> QED
    BY <1>1, <1>2, <2>1
<1>5. \A i \in 1 .. Len(stream) : stream'[i] = stream[i]
    BY <1>3, <1>4
<1>6. stream'[2 * recordsSaved + 3] = Flag(FALSE) /\ Len(stream') = 2 * recordsSaved + 3
  <2> DEFINE n == Len(stream)
  <2>1. n \in Nat
    BY <1>3
  <2> HIDE DEF n
  <2>2. n + 1 \in 1 .. n + 1 /\ (n + 1) - n = 1 /\ ~(n + 1 <= n)
    BY <2>1
  <2>3. \A i \in 1 .. n + 1 : stream'[i] = IF i <= n THEN stream[i] ELSE items[i - n]
    BY <1>4 DEF n
  <2>4. stream'[n + 1] = Flag(FALSE)
    BY <1>2, <2>2, <2>3
  <2>5. n + 1 = 2 * recordsSaved + 3
    BY <1>3 DEF n
  <2> QED
    BY <1>4, <2>4, <2>5 DEF n
<1>7. \A j \in 1 .. recordsSaved :
          stream'[2 * j + 1] = stream[2 * j + 1] /\ stream'[2 * j + 2] = stream[2 * j + 2]
  <2> SUFFICES ASSUME NEW j \in 1 .. recordsSaved
              PROVE  2 * j + 1 \in 1 .. Len(stream) /\ 2 * j + 2 \in 1 .. Len(stream)
    BY <1>5
  <2> QED
    BY <1>3
<1>8. \A j \in 1 .. recordsSaved : Saved(j)' = Saved(j)
    BY <1>7 DEF Saved
<1>9. stream'[1] = stream[1] /\ stream'[2] = stream[2]
    BY <1>3, <1>5
<1>10. StreamInv'
    BY <1>1, <1>3, <1>4, <1>6, <1>7, <1>8, <1>9 DEF StreamInv
<1> QED
    BY <1>8, <1>10
\* What a part of a sequence of items is.
LEMMA PartOfItems ==
    ASSUME NEW s \in Seq(Items), NEW m \in Nat \ {0}, NEW n \in Nat, n <= Len(s)
    PROVE  /\ SubSeq(s, m, n) \in Seq(Items)
           /\ Len(SubSeq(s, m, n)) = IF m <= n THEN n - m + 1 ELSE 0
           /\ \A i \in 1 .. n - m + 1 : SubSeq(s, m, n)[i] = s[m + i - 1]
<1>1. \A i \in m .. n : s[i] \in Items
  <2>1. \A i \in 1 .. Len(s) : s[i] \in Items
    OBVIOUS
  <2>2. Len(s) \in Nat
    OBVIOUS
  <2> QED
    BY <2>1, <2>2
<1> QED
    BY <1>1, SubSeqProperties

LEMMA BehindIs ==
    ASSUME input \in Seq(Items), NEW n \in Nat
    PROVE  /\ Behind(n) \in Seq(Items)
           /\ Len(Behind(n)) = IF n <= Len(input) THEN Len(input) - n ELSE 0
           /\ \A i \in 1 .. Len(input) - n : Behind(n)[i] = input[n + i]
<1> DEFINE l == Len(input)
           m == n + 1
<1>1. l \in Nat /\ m \in Nat \ {0}
    OBVIOUS
<1>2. Behind(n) = SubSeq(input, m, l)
    BY DEF Behind
<1>3. /\ SubSeq(input, m, l) \in Seq(Items)
      /\ Len(SubSeq(input, m, l)) = IF m <= l THEN l - m + 1 ELSE 0
      /\ \A i \in 1 .. l - m + 1 : SubSeq(input, m, l)[i] = input[m + i - 1]
  <2>1. l <= Len(input)
    BY <1>1
  <2> HIDE DEF m
  <2> QED
    BY <1>1, <2>1, PartOfItems
<1>4. /\ (IF m <= l THEN l - m + 1 ELSE 0) = IF n <= l THEN l - n ELSE 0
      /\ l - m + 1 = l - n
      /\ \A i \in 1 .. l - n : m + i - 1 = n + i
    BY <1>1
<1> QED
    BY <1>2, <1>3, <1>4

\* What may arrive.
LEMMA ArriveIs ==
    ASSUME StreamInv, Arrive
    PROVE  /\ phase = "saved" /\ phase' = "version" /\ arrived' \in {"whole", "other", "head", "cut"}
           /\ input' \in Seq(Items)
           /\ arrived' = "whole" => input' = stream
           /\ arrived' = "other" =>
                  input' = <<>> \/ \E v \in OtherVersions : Len(input') >= 1 /\ input'[1] = Version(v)
           /\ arrived' = "cut" =>
                  \E n \in 3 .. Len(stream) - 1 :
                      /\ Len(input') \in {n, n + 1} /\ \A i \in 1 .. n : input'[i] = stream[i]
                      /\ Len(input') = n + 1 => stream[n + 1].kind = "record"
<1>1. phase = "saved" /\ phase' = "version"
    BY DEF Arrive
<1>2. /\ stream \in Seq(Items) /\ Len(stream) \in Nat /\ Len(stream) >= 3
      /\ stream[1] = Version(c_version)
    BY <1>1, StreamParts DEF StreamInv
<1>3. CASE arrived' = "whole" /\ input' = stream
    BY <1>1, <1>2, <1>3
<1>4. CASE arrived' = "other" /\ \E v \in OtherVersions : input' = <<Version(v)>> \o Tail(stream)
  <2>1. PICK v \in OtherVersions : input' = <<Version(v)>> \o Tail(stream)
    BY <1>4
  <2>2. Tail(stream) \in Seq(Items) /\ Len(Tail(stream)) \in Nat
  <3>1. stream # <<>>
    BY <1>2
  <3>2. Tail(stream) \in Seq(Items)
    BY <1>2, <3>1, HeadTailProperties
  <3> QED
    BY <3>2
  <2> DEFINE head == <<Version(v)>>
  <2>3. head \in Seq(Items) /\ Len(head) = 1 /\ head[1] = Version(v)
    BY ItemsAre, TuplesAre
  <2> HIDE DEF head
  <2>4. /\ head \o Tail(stream) \in Seq(Items) /\ Len(head \o Tail(stream)) = Len(head) + Len(Tail(stream))
        /\ \A i \in 1 .. Len(head) + Len(Tail(stream)) :
               (head \o Tail(stream))[i] = IF i <= Len(head) THEN head[i] ELSE Tail(stream)[i - Len(head)]
    BY <2>2, <2>3, ConcatProperties
  <2>5. input' \in Seq(Items) /\ Len(input') >= 1 /\ input'[1] = Version(v)
    BY <2>1, <2>2, <2>3, <2>4 DEF head
  <2> QED
    BY <1>1, <1>4, <2>5
<1>5. CASE \E n \in 0 .. Len(stream) - 1 :
              /\ arrived' = IF n = 0 THEN "other" ELSE IF n <= 2 THEN "head" ELSE "cut"
              /\ \/ input' = SubSeq(stream, 1, n)
                 \/ /\ stream[n + 1].kind = "record"
                    /\ \E k \in Keys :
                           input' = SubSeq(stream, 1, n) \o <<Record([key |-> k, value |-> EmptyValue])>>
  <2>1. PICK n \in 0 .. Len(stream) - 1 :
              /\ arrived' = IF n = 0 THEN "other" ELSE IF n <= 2 THEN "head" ELSE "cut"
              /\ \/ input' = SubSeq(stream, 1, n)
                 \/ /\ stream[n + 1].kind = "record"
                    /\ \E k \in Keys :
                           input' = SubSeq(stream, 1, n) \o <<Record([key |-> k, value |-> EmptyValue])>>
    BY <1>5
  <2> DEFINE part == SubSeq(stream, 1, n)
  <2>2. n \in Nat /\ n <= Len(stream)
    BY <1>2
  <2>3. part \in Seq(Items) /\ Len(part) = n /\ \A i \in 1 .. n : part[i] = stream[i]
  <3>1. /\ part \in Seq(Items) /\ Len(part) = IF 1 <= n THEN n - 1 + 1 ELSE 0
        /\ \A i \in 1 .. n - 1 + 1 : part[i] = stream[1 + i - 1]
    BY <1>2, <2>2, PartOfItems
  <3>2. n - 1 + 1 = n /\ (IF 1 <= n THEN n ELSE 0) = n /\ \A i \in 1 .. n : 1 + i - 1 = i
    BY <2>2
  <3> QED
    BY <3>1, <3>2
  <2> HIDE DEF part
  <2>4. /\ input' \in Seq(Items) /\ Len(input') \in {n, n + 1}
        /\ \A i \in 1 .. n : input'[i] = stream[i]
        /\ Len(input') = n + 1 => stream[n + 1].kind = "record"
  <3>1. CASE input' = part
    BY <2>2, <2>3, <3>1
  <3>2. CASE input' # part
    <4>1. PICK k \in Keys : input' = part \o <<Record([key |-> k, value |-> EmptyValue])>>
      BY <2>1, <3>2 DEF part
    <4> DEFINE last == <<Record([key |-> k, value |-> EmptyValue])>>
    <4>2. last \in Seq(Items) /\ Len(last) = 1
      <5>1. [key |-> k, value |-> EmptyValue] \in Records
        BY SerializerAssumption DEF Records
      <5> QED
        BY <5>1, ItemsAre, TuplesAre
    <4> HIDE DEF last
    <4>3. /\ part \o last \in Seq(Items) /\ Len(part \o last) = Len(part) + Len(last)
          /\ \A i \in 1 .. Len(part) + Len(last) :
                 (part \o last)[i] = IF i <= Len(part) THEN part[i] ELSE last[i - Len(part)]
      BY <2>3, <4>2, ConcatProperties
    <4>4. \A i \in 1 .. n : i \in 1 .. n + 1 /\ i <= n
      BY <2>2
    <4>5. stream[n + 1].kind = "record"
      BY <2>1, <3>2 DEF part
    <4> QED
      BY <2>3, <4>1, <4>2, <4>3, <4>4, <4>5 DEF last
  <3> QED
    BY <3>1, <3>2
  <2>5. CASE n = 0
    <3>1. stream[n + 1].kind # "record"
      BY <1>2, <2>5, ItemsAre
    <3>2. Len(input') = 0
      BY <2>4, <2>5, <3>1
    <3>3. input' = <<>>
      BY <2>4, <3>2
    <3> QED
      BY <1>1, <2>1, <2>4, <2>5, <3>3
  <2>6. CASE n # 0 /\ n <= 2
    BY <1>1, <2>1, <2>4, <2>6
  <2>7. CASE n >= 3
    <3>1. n \in 3 .. Len(stream) - 1 /\ arrived' = "cut"
      BY <1>2, <2>1, <2>2, <2>7
    <3> QED
      BY <1>1, <2>4, <3>1
  <2> QED
    BY <2>2, <2>5, <2>6, <2>7
<1> QED
    BY <1>3, <1>4, <1>5 DEF Arrive
LEMMA Next_Stream ==
    ASSUME StreamInv, CursorInv, Next \/ UNCHANGED vars
    PROVE  StreamInv'
<1>1. CASE UNCHANGED vars
    BY <1>1, Stream_Unchanged DEF vars, saveVars, loadVars
<1>2. CASE Fill
    BY <1>2, Stream_Unchanged DEF Fill, saveVars, loadVars
<1>3. CASE Iterate
    BY <1>3, Stream_Unchanged DEF Iterate, saveVars, loadVars
<1>4. CASE BeginSave
    BY <1>4, BeginSave_Stream
<1>5. CASE Walk
    BY <1>5, Stream_Unchanged DEF Walk, saveVars, loadVars
<1>6. CASE SaveRecord
    BY <1>6, SaveRecord_Stream
<1>7. CASE EndSave
    BY <1>7, EndSave_Stream
<1>8. CASE Arrive
  <2>1. phase = "saved" /\ phase' = "version" /\ arrived' # "no" /\ input' \in Seq(Items)
    BY <1>8, ArriveIs
  <2>2. UNCHANGED <<stream, recordsSaved>>
    BY <1>8 DEF Arrive, saveVars
  <2> QED
    BY <2>1, <2>2 DEF StreamInv, Saved
<1>9. CASE ReadVersion
  <2>1. phase = "version" /\ phase' \in {"setting", "failed"} /\ UNCHANGED <<stream, recordsSaved, input, arrived>>
    BY <1>9 DEF ReadVersion, saveVars, loadVars
  <2> QED
    BY <2>1 DEF StreamInv, Saved
<1>10. CASE ReadSetting
  <2>1. phase = "setting" /\ phase' = "loading" /\ input' = Behind(3) /\ UNCHANGED <<stream, recordsSaved, arrived>>
    BY <1>10 DEF ReadSetting, saveVars
  <2>2. input' \in Seq(Items)
    BY <2>1, BehindIs DEF StreamInv
  <2> QED
    BY <2>1, <2>2 DEF StreamInv, Saved
<1>11. CASE LoadNextRecord
  <2>1. /\ phase = "loading" /\ phase' \in {"loading", "failed"} /\ UNCHANGED <<stream, recordsSaved, arrived>>
        /\ input' = input \/ input' = Behind(2)
    BY <1>11 DEF LoadNextRecord, saveVars
  <2>2. input' \in Seq(Items)
    BY <2>1, BehindIs DEF StreamInv
  <2> QED
    BY <2>1, <2>2 DEF StreamInv, Saved
<1>12. CASE EndLoad
  <2>1. phase = "loading" /\ phase' = "loaded" /\ UNCHANGED <<stream, recordsSaved, input, arrived>>
    BY <1>12 DEF EndLoad, saveVars, loadVars
  <2> QED
    BY <2>1 DEF StreamInv, Saved
<1>13. CASE Done
    BY <1>13, Stream_Unchanged DEF Done, vars, saveVars, loadVars
<1> QED
    BY <1>1, <1>2, <1>3, <1>4, <1>5, <1>6, <1>7, <1>8, <1>9, <1>10, <1>11, <1>12, <1>13 DEF Next, Save, Load

-------------------------------------------------------------------------------
(* A stream without its end.                                                 *)

LEMMA Cut_Unchanged ==
    ASSUME CutInv, UNCHANGED <<phase, input, arrived, hasMoreData>>
    PROVE  CutInv'
    BY DEF CutInv, Deserialize

LEMMA Arrive_Cut ==
    ASSUME StreamInv, Arrive
    PROVE  CutInv'
<1>1. phase' = "version" /\ phase = "saved" /\ input' \in Seq(Items)
    BY ArriveIs
<1>2. ASSUME arrived' = "other" PROVE (IF 1 \in DOMAIN input' THEN input'[1].value ELSE 0) # c_version
  <2>1. CASE input' = <<>>
    BY <2>1 DEF c_version
  <2>2. ASSUME NEW v \in OtherVersions, Len(input') >= 1, input'[1] = Version(v)
        PROVE  (IF 1 \in DOMAIN input' THEN input'[1].value ELSE 0) # c_version
    BY <1>1, <2>2, SerializerAssumption, ItemsAre DEF c_version
  <2> QED
    BY <1>2, <2>1, <2>2, ArriveIs
<1>3. ASSUME arrived' = "cut"
      PROVE  /\ Len(input') >= 3
             /\ \A j \in Nat : j >= 1 /\ 2 * j + 1 <= Len(input') => input'[2 * j + 1] = Flag(TRUE)
  <2>1. PICK n \in 3 .. Len(stream) - 1 :
            /\ Len(input') \in {n, n + 1} /\ \A i \in 1 .. n : input'[i] = stream[i]
            /\ Len(input') = n + 1 => stream[n + 1].kind = "record"
    BY <1>3, ArriveIs
  <2>2. /\ recordsSaved \in Nat /\ Len(stream) = 2 * recordsSaved + 3
        /\ \A j \in 1 .. recordsSaved : stream[2 * j + 1] = Flag(TRUE)
        /\ stream[Len(stream)] = Flag(FALSE)
    BY <1>1, StreamParts
  <2>3. n \in Nat /\ n >= 3 /\ n + 1 <= 2 * recordsSaved + 3
    BY <2>1, <2>2
  <2>4. ASSUME NEW j \in Nat, j >= 1, 2 * j + 1 <= Len(input') PROVE input'[2 * j + 1] = Flag(TRUE)
    <3>1. CASE 2 * j + 1 <= n
      <4>1. j \in 1 .. recordsSaved /\ 2 * j + 1 \in 1 .. n
        BY <2>2, <2>3, <2>4, <3>1
      <4> QED
        BY <2>1, <2>2, <4>1
    <3>2. CASE ~(2 * j + 1 <= n)
      <4>1. 2 * j + 1 = n + 1 /\ Len(input') = n + 1
        BY <2>1, <2>3, <2>4, <3>2
      <4>2. stream[2 * j + 1].kind = "flag"
        <5>1. CASE j <= recordsSaved
          <6>1. j \in 1 .. recordsSaved
            BY <2>2, <2>4, <5>1
          <6>2. stream[2 * j + 1] = Flag(TRUE)
            BY <2>2, <6>1
          <6> QED
            BY <6>2, ItemsAre
        <5>2. CASE ~(j <= recordsSaved)
          <6>1. 2 * j + 1 = Len(stream)
            BY <2>2, <2>3, <2>4, <4>1, <5>2
          <6>2. stream[2 * j + 1] = Flag(FALSE)
            BY <2>2, <6>1
          <6> QED
            BY <6>2, ItemsAre
        <5> QED
          BY <5>1, <5>2
      <4> QED
        BY <2>1, <4>1, <4>2
    <3> QED
      BY <3>1, <3>2
  <2>5. Len(input') >= 3
    BY <2>1, <2>3
  <2> QED
    BY <2>4, <2>5
<1>4. Deserialize(1, 0)' = IF 1 \in DOMAIN input' THEN input'[1].value ELSE 0
    BY DEF Deserialize
<1>5. c_version' = c_version
    BY DEF c_version
<1> QED
    BY <1>1, <1>2, <1>3, <1>4, <1>5 DEF CutInv

LEMMA ReadSetting_Cut ==
    ASSUME StreamInv, CutInv, ReadSetting
    PROVE  CutInv'
<1>1. /\ phase = "setting" /\ phase' = "loading" /\ input' = Behind(3) /\ arrived' = arrived
      /\ hasMoreData' = Deserialize(3, FALSE)
    BY DEF ReadSetting
<1>2. arrived # "other"
    BY <1>1 DEF CutInv
<1>3. ASSUME arrived = "cut"
      PROVE  /\ hasMoreData' = TRUE
             /\ \A j \in Nat : j >= 1 /\ 2 * j <= Len(input') => input'[2 * j] = Flag(TRUE)
  <2>1. /\ Len(input) >= 3
        /\ \A j \in Nat : j >= 1 /\ 2 * j + 1 <= Len(input) => input[2 * j + 1] = Flag(TRUE)
    BY <1>1, <1>3 DEF CutInv
  <2>2. input \in Seq(Items) /\ Len(input) \in Nat /\ DOMAIN input = 1 .. Len(input)
    BY DEF StreamInv
  <2>3. input[3] = Flag(TRUE)
    <3> DEFINE one == 1
    <3>1. one \in Nat /\ one >= 1 /\ 2 * one + 1 = 3
      OBVIOUS
    <3> HIDE DEF one
    <3> QED
      BY <2>1, <3>1
  <2>4. hasMoreData' = TRUE
    <3>1. 3 \in DOMAIN input
      BY <2>1, <2>2
    <3>2. input[3].value = TRUE
      BY <2>3, ItemsAre
    <3> QED
      BY <1>1, <3>1, <3>2 DEF Deserialize
  <2>5. ASSUME NEW j \in Nat, j >= 1, 2 * j <= Len(input') PROVE input'[2 * j] = Flag(TRUE)
    <3>1. /\ Len(input') = Len(input) - 3
          /\ \A i \in 1 .. Len(input) - 3 : input'[i] = input[3 + i]
      BY <1>1, <2>1, <2>2, BehindIs
    <3>2. 2 * j \in 1 .. Len(input) - 3 /\ 3 + 2 * j = 2 * (j + 1) + 1 /\ j + 1 \in Nat
          /\ j + 1 >= 1 /\ 2 * (j + 1) + 1 <= Len(input)
      BY <2>2, <2>5, <3>1
    <3>3. input[2 * (j + 1) + 1] = Flag(TRUE)
      BY <2>1, <3>2
    <3> QED
      BY <3>1, <3>2, <3>3
  <2> QED
    BY <2>4, <2>5
<1> QED
    BY <1>1, <1>2, <1>3 DEF CutInv

LEMMA LoadNextRecord_Cut ==
    ASSUME StreamInv, CutInv, LoadNextRecord
    PROVE  CutInv'
<1>1. /\ phase = "loading" /\ arrived' = arrived
      /\ \/ phase' = "failed"
         \/ phase' = phase /\ hasMoreData' = FlagAfter(2) /\ input' = Behind(2)
    BY DEF LoadNextRecord
<1>2. arrived # "other"
    BY <1>1 DEF CutInv
<1>3. ASSUME arrived = "cut", phase' = phase, hasMoreData' = FlagAfter(2), input' = Behind(2)
      PROVE  /\ hasMoreData' = TRUE
             /\ \A j \in Nat : j >= 1 /\ 2 * j <= Len(input') => input'[2 * j] = Flag(TRUE)
  <2>1. /\ hasMoreData = TRUE
        /\ \A j \in Nat : j >= 1 /\ 2 * j <= Len(input) => input[2 * j] = Flag(TRUE)
    BY <1>1, <1>3 DEF CutInv
  <2>2. input \in Seq(Items) /\ Len(input) \in Nat /\ DOMAIN input = 1 .. Len(input)
    BY DEF StreamInv
  <2>3. 2 \in DOMAIN input => input[2] = Flag(TRUE)
    <3> DEFINE one == 1
    <3>1. one \in Nat /\ one >= 1 /\ 2 * one = 2
      OBVIOUS
    <3>2. 2 \in DOMAIN input => 2 <= Len(input)
      BY <2>2
    <3> HIDE DEF one
    <3> QED
      BY <2>1, <3>1, <3>2
  <2>4. hasMoreData' = TRUE
    BY <1>3, <2>1, <2>3, ItemsAre DEF FlagAfter, Deserialize
  <2>5. ASSUME NEW j \in Nat, j >= 1, 2 * j <= Len(input') PROVE input'[2 * j] = Flag(TRUE)
    <3>1. /\ Len(input') = IF 2 <= Len(input) THEN Len(input) - 2 ELSE 0
          /\ \A i \in 1 .. Len(input) - 2 : input'[i] = input[2 + i]
      BY <1>3, <2>2, BehindIs
    <3>2. 2 * j \in 1 .. Len(input) - 2 /\ 2 + 2 * j = 2 * (j + 1) /\ j + 1 \in Nat
          /\ j + 1 >= 1 /\ 2 * (j + 1) <= Len(input)
      <4>1. 2 <= Len(input) /\ 2 * j <= Len(input) - 2
        <5> DEFINE l == Len(input)
                   m == Len(input')
        <5>1. l \in Nat /\ m = (IF 2 <= l THEN l - 2 ELSE 0) /\ 2 * j <= m
          BY <2>2, <2>5, <3>1
        <5> HIDE DEF l, m
        <5>2. 2 <= l /\ 2 * j <= l - 2
          BY <2>5, <5>1
        <5> QED
          BY <5>2 DEF l
      <4> QED
        BY <2>2, <2>5, <4>1
    <3>3. input[2 * (j + 1)] = Flag(TRUE)
      BY <2>1, <3>2
    <3> QED
      BY <3>1, <3>2, <3>3
  <2> QED
    BY <2>4, <2>5
<1>4. CASE phase' = "failed"
    BY <1>1, <1>2, <1>4 DEF CutInv
<1>5. CASE phase' = phase /\ hasMoreData' = FlagAfter(2) /\ input' = Behind(2)
    BY <1>1, <1>2, <1>3, <1>5 DEF CutInv
<1> QED
    BY <1>1, <1>4, <1>5

LEMMA Next_Cut ==
    ASSUME StreamInv, CutInv, Next \/ UNCHANGED vars
    PROVE  CutInv'
<1>1. ASSUME phase \in {"filling", "saving", "saved"}, phase' \in {"filling", "saving", "saved"}, arrived' = arrived
      PROVE  CutInv'
    BY <1>1 DEF CutInv, StreamInv
<1>2. CASE UNCHANGED vars \/ Done
    BY <1>2, Cut_Unchanged DEF Done, vars, loadVars
<1>3. CASE Fill \/ Iterate \/ Save
    BY <1>1, <1>3 DEF Fill, Iterate, Save, BeginSave, Walk, SaveRecord, EndSave, loadVars
<1>4. CASE Arrive
    BY <1>4, Arrive_Cut
<1>5. CASE ReadVersion
  <2>1. /\ phase = "version" /\ phase' = IF Deserialize(1, 0) = c_version THEN "setting" ELSE "failed"
        /\ UNCHANGED <<input, arrived, hasMoreData>>
    BY <1>5 DEF ReadVersion, loadVars
  <2> QED
    BY <2>1 DEF CutInv
<1>6. CASE ReadSetting
    BY <1>6, ReadSetting_Cut
<1>7. CASE LoadNextRecord
    BY <1>7, LoadNextRecord_Cut
<1>8. CASE EndLoad
  <2>1. phase = "loading" /\ ~hasMoreData /\ arrived' = arrived
    BY <1>8 DEF EndLoad, loadVars
  <2>2. arrived \notin {"other", "cut"}
    BY <2>1 DEF CutInv
  <2> QED
    BY <2>1, <2>2 DEF CutInv
<1> QED
    BY <1>2, <1>3, <1>4, <1>5, <1>6, <1>7, <1>8 DEF Next, Load

LEMMA Init_Stream ==
    ASSUME Init
    PROVE  StreamInv /\ CutInv
    BY DEF Init, StreamInv, CutInv

\* A stream of an unknown version is not loaded, and none that was cut off behind
\* its first flag is taken for a whole one, wherever it was cut and whatever was
\* read of the record there: the loop over the records (ReadWrite/Serializer.h:116) ends
\* only at a flag that is FALSE, and a key that comes twice makes it throw (:157).
THEOREM NoTruncatedTable == Spec => []CutIsNoticed
<1>1. Init => IteratorInv /\ StreamInv /\ CutInv
    BY Iterator_Init, Init_Stream DEF Init
<1>2. IteratorInv /\ StreamInv /\ CutInv /\ [Next]_vars => (IteratorInv /\ StreamInv /\ CutInv)'
    BY Iterator_Step, Next_IsIteratorStep, Next_Stream, Next_Cut DEF IteratorInv
<1>3. CutInv => CutIsNoticed
    BY DEF CutInv, CutIsNoticed
<1> QED
    BY <1>1, <1>2, <1>3, PTL DEF Spec
-------------------------------------------------------------------------------
(* What is in a table before and after a write.                              *)

LEMMA ContentsAreUnique ==
    ASSUME NEW t, IsTable(t), NEW r \in Contents(t)
    PROVE  /\ r \in Records /\ r # Null /\ r.key \in Keys /\ Bucket[r.key] \in Buckets
           /\ \A s \in Contents(t) : s.key = r.key => s = r
<1>1. /\ r \in Records /\ r # Null /\ r.key \in Keys /\ Bucket[r.key] \in Buckets
    BY IteratorAssumption DEF Contents, Records, Buckets
<1>2. ASSUME NEW s \in Contents(t), s.key = r.key PROVE s = r
  <2>1. PICK i \in DOMAIN t[Bucket[r.key]] : t[Bucket[r.key]][i] = r
    BY DEF Contents
  <2>2. PICK j \in DOMAIN t[Bucket[r.key]] : t[Bucket[r.key]][j] = s
    BY <1>2 DEF Contents
  <2>3. s # Null
    BY IteratorAssumption DEF Contents, Records
  <2>4. i = j
    BY <1>1, <1>2, <2>1, <2>2, <2>3 DEF IsTable, HasKey
  <2> QED
    BY <2>1, <2>2, <2>4
<1> QED
    BY <1>1, <1>2

LEMMA KeyIsFound ==
    ASSUME NEW t, IsTable(t), NEW k \in Keys
    PROVE  (\E i \in DOMAIN t[Bucket[k]] : HasKey(t[Bucket[k]], i, k)) <=> k \in KeysOf(t)
<1>1. Bucket[k] \in Buckets
    BY IteratorAssumption DEF Buckets
<1>2. \A i \in DOMAIN t[Bucket[k]] : t[Bucket[k]][i] \in Places
    BY <1>1 DEF IsTable
<1>3. ASSUME NEW i \in DOMAIN t[Bucket[k]], HasKey(t[Bucket[k]], i, k) PROVE k \in KeysOf(t)
  <2>1. t[Bucket[k]][i] \in Records /\ t[Bucket[k]][i].key = k
    BY <1>2, <1>3 DEF HasKey, Places
  <2>2. t[Bucket[k]][i] \in Contents(t)
    BY <2>1 DEF Contents
  <2> QED
    BY <2>1, <2>2 DEF KeysOf
<1>4. ASSUME k \in KeysOf(t) PROVE \E i \in DOMAIN t[Bucket[k]] : HasKey(t[Bucket[k]], i, k)
  <2>1. PICK r \in Contents(t) : r.key = k
    BY <1>4 DEF KeysOf
  <2> QED
    BY <2>1, ContentsAreUnique DEF Contents, HasKey
<1> QED
    BY <1>3, <1>4

LEMMA ContentsWithRecord ==
    ASSUME NEW t, IsTable(t), NEW record \in Records
    PROVE  Contents(WithRecord(t, record)) = {s \in Contents(t) : s.key # record.key} \cup {record}
<1> DEFINE u == WithRecord(t, record)
           b == Bucket[record.key]
<1>1. /\ IsTable(u) /\ b \in Buckets
      /\ \A a \in Buckets \ {b} : u[a] = t[a]
    BY PutInTable
<1>2. PICK p \in Nat : PutAt(t[b], u[b], p, record)
    BY PutInTable
<1>3. /\ DOMAIN t[b] = 1 .. Len(t[b]) /\ Len(t[b]) \in Nat
      /\ DOMAIN u[b] = 1 .. Len(u[b]) /\ Len(u[b]) \in Nat
    BY <1>1 DEF IsTable
<1>4. record # Null /\ Null \notin Records /\ record.key \in Keys
    BY IteratorAssumption DEF Records
<1> HIDE DEF u
<1>5. p \in DOMAIN u[b] /\ u[b][p] = record
    BY <1>2 DEF PutAt
<1>6. \A i \in DOMAIN u[b] \ {p} : u[b][i] = IF i \in DOMAIN t[b] THEN t[b][i] ELSE Null
    BY <1>2 DEF PutAt
<1>7. DOMAIN t[b] \subseteq DOMAIN u[b]
  <2>1. Len(u[b]) >= Len(t[b])
    BY <1>2, <1>3, EntryIs DEF PutAt
  <2> QED
    BY <1>3, <2>1
<1>8. \A r \in Records : Bucket[r.key] \in Buckets
    BY IteratorAssumption DEF Records, Buckets
<1>9. record \in Contents(u)
    BY <1>5 DEF Contents
<1>10. ASSUME NEW r \in Contents(u), r # record PROVE r \in Contents(t) /\ r.key # record.key
  <2>1. PICK i \in DOMAIN u[Bucket[r.key]] : u[Bucket[r.key]][i] = r /\ r \in Records
    BY DEF Contents
  <2>2. r.key # record.key
    BY <1>1, <1>9, <1>10, ContentsAreUnique
  <2>3. CASE Bucket[r.key] # b
    BY <1>1, <1>8, <2>1, <2>2, <2>3 DEF Contents
  <2>4. CASE Bucket[r.key] = b
    <3>1. i # p /\ r # Null
      BY <1>4, <1>5, <1>10, <2>1, <2>4
    <3>2. i \in DOMAIN t[b] /\ t[b][i] = r
      BY <1>6, <2>1, <2>4, <3>1
    <3> QED
      BY <2>1, <2>2, <2>4, <3>2 DEF Contents
  <2> QED
    BY <2>3, <2>4
<1>11. ASSUME NEW r \in Contents(t), r.key # record.key PROVE r \in Contents(u)
  <2>1. PICK i \in DOMAIN t[Bucket[r.key]] : t[Bucket[r.key]][i] = r /\ r \in Records
    BY DEF Contents
  <2>2. CASE Bucket[r.key] # b
    BY <1>1, <1>8, <2>1, <2>2 DEF Contents
  <2>3. CASE Bucket[r.key] = b
    <3>1. i # p
      BY <1>2, <1>4, <1>11, <2>1, <2>3 DEF PutAt, HasKey
    <3>2. i \in DOMAIN u[b] /\ u[b][i] = r
      BY <1>6, <1>7, <2>1, <2>3, <3>1
    <3> QED
      BY <2>1, <2>3, <3>2 DEF Contents
  <2> QED
    BY <2>2, <2>3
<1>12. Contents(u) = {s \in Contents(t) : s.key # record.key} \cup {record}
    BY <1>9, <1>10, <1>11
<1> QED
    BY <1>12 DEF u

LEMMA ContentsWithout ==
    ASSUME NEW t, IsTable(t), NEW k \in Keys, k \in KeysOf(t)
    PROVE  Contents(Without(t, k)) \subseteq Contents(t)
<1> DEFINE u == Without(t, k)
           b == Bucket[k]
<1>1. /\ b \in Buckets /\ DOMAIN u[b] = DOMAIN t[b]
      /\ \A a \in Buckets \ {b} : u[a] = t[a]
      /\ \A i \in DOMAIN t[b] : u[b][i] = IF HasKey(t[b], i, k) THEN Null ELSE t[b][i]
    BY RemovedFromTable
<1> HIDE DEF u
<1>2. ASSUME NEW r \in Contents(u) PROVE r \in Contents(t)
  <2>1. PICK i \in DOMAIN u[Bucket[r.key]] : u[Bucket[r.key]][i] = r /\ r \in Records
    BY DEF Contents
  <2>2. r # Null /\ Bucket[r.key] \in Buckets
    BY <2>1, IteratorAssumption DEF Records, Buckets
  <2> QED
    BY <1>1, <2>1, <2>2 DEF Contents
<1> QED
    BY <1>2 DEF u

-------------------------------------------------------------------------------
(* What is saved.                                                            *)

\* What is expired is found in caches only.
ExpiredInv == \A r \in Contents(table) : IsExpired(r) => isCache

\* The keys that were returned and have stayed are in the stream, or about to be;
\* if no one writes, that is what the table has, each of it once.
CopyInv ==
    phase # "filling" =>
        /\ ~isCache /\ it.state # "start"
        /\ phase # "saving" => it.state = "end"
        /\ \A k \in Keys \ touched : returned[k] > 0 =>
               \/ it.state = "valid" /\ it.record.key = k
               \/ \E j \in 1 .. recordsSaved : Saved(j).key = k
        /\ ~writersGoOn =>
               /\ touched = {}
               /\ it.state = "valid" => /\ it.record \in Contents(table) /\ returned[it.record.key] > 0
                                        /\ \A j \in 1 .. recordsSaved : Saved(j).key # it.record.key
               /\ \A j \in 1 .. recordsSaved : Saved(j) \in Contents(table) /\ returned[Saved(j).key] > 0
               /\ \A i, j \in 1 .. recordsSaved : Saved(i).key = Saved(j).key => i = j

LEMMA Next_Expired ==
    ASSUME IteratorInv, ExpiredInv, Next \/ UNCHANGED vars
    PROVE  ExpiredInv'
<1>1. IteratorNext \/ UNCHANGED iteratorVars
    BY Next_IsIteratorStep
<1>2. ASSUME table' = table, isCache' = isCache PROVE ExpiredInv'
    BY <1>2 DEF ExpiredInv, Contents
<1>3. ASSUME NEW r \in Records, Add(r) PROVE ExpiredInv'
  <2>1. table' = WithRecord(table, r) /\ (IsExpired(r) => isCache) /\ isCache' = isCache
    BY <1>3 DEF Add, WithRecord
  <2>2. Contents(table') \subseteq Contents(table) \cup {r}
    BY <2>1, ContentsWithRecord DEF IteratorInv
  <2> QED
    BY <2>1, <2>2 DEF ExpiredInv
<1>4. ASSUME NEW k \in Keys, Remove(k) PROVE ExpiredInv'
  <2>1. table' = Without(table, k) /\ k \in KeysOf(table) /\ isCache' = isCache
    BY <1>4 DEF Remove, Without
  <2>2. Contents(table') \subseteq Contents(table)
    BY <2>1, ContentsWithout DEF IteratorInv
  <2> QED
    BY <2>1, <2>2 DEF ExpiredInv
<1> QED
    BY <1>1, <1>2, <1>3, <1>4 DEF iteratorVars, IteratorNext, Write, MoveNext, BeginMoveNext, MoveToNextData,
        NextBucket, LoadRecord, Reset

\* Where the iterator stops is a record that it has not returned yet.
LEMMA StopIs ==
    ASSUME IteratorInv, LoadRecord
    PROVE  /\ it.state = "load" /\ UNCHANGED <<isCache, table, touched>>
           /\ \/ it'.state = "advance" /\ returned' = returned
              \/ /\ it'.state = "valid"
                 /\ \E r \in Contents(table) :
                        /\ it'.record = r /\ r.key \in Keys
                        /\ returned' = [returned EXCEPT ![r.key] = returned[r.key] + 1]
                        /\ r.key \notin touched => returned[r.key] = 0
<1> USE DEF IteratorInv
<1>1. /\ it.state = "load" /\ it.entry # 0
      /\ IF Here # Null /\ ~IsExpired(Here) THEN Stop(Here)
         ELSE it' = [it EXCEPT !.state = "advance", !.record = Here] /\ UNCHANGED returned
      /\ UNCHANGED <<isCache, table, touched>>
    BY DEF LoadRecord
<1>2. CASE ~(Here # Null /\ ~IsExpired(Here))
    BY <1>1, <1>2 DEF CursorType
<1>3. CASE Here # Null /\ ~IsExpired(Here)
  <2>1. /\ it.bucket \in Buckets /\ it.bucket \in Nat /\ Position \in DOMAIN table[it.bucket] /\ Position \in Nat
        /\ table[it.bucket] \in Seq(Places)
    BY <1>1, PositionIs DEF Buckets
  <2>2. Here = table[it.bucket][Position] /\ Here \in Records
    BY <1>3, <2>1 DEF Here, Position, Places
  <2>3. Bucket[Here.key] = it.bucket
    BY <1>3, <2>1, <2>2 DEF IsTable
  <2>4. Here \in Contents(table) /\ Here.key \in Keys
    BY <2>1, <2>2, <2>3 DEF Contents, Records
  <2>5. LiveAt(table, Here.key, Position)
    BY <1>3, <2>2, <2>3 DEF LiveAt, HasKey
  <2>6. ~Passed(it.bucket, Position)
    BY <1>1, <2>1 DEF Passed
  <2>7. Here.key \notin touched => returned[Here.key] = 0
    BY <2>1, <2>3, <2>4, <2>5, <2>6 DEF WalkInv
  <2>8. it' = [it EXCEPT !.state = "valid", !.record = Here]
        /\ returned' = [returned EXCEPT ![Here.key] = returned[Here.key] + 1]
    BY <1>1, <1>3 DEF Stop
  <2>9. it'.state = "valid" /\ it'.record = Here
    BY <2>8 DEF CursorType
  <2> QED
    BY <1>1, <2>4, <2>7, <2>8, <2>9
<1> QED
    BY <1>2, <1>3
\* A step of another kind: what was saved and where the iterator is stays.
LEMMA Copy_Unchanged ==
    ASSUME CopyInv, UNCHANGED <<iteratorVars, saveVars>>,
           phase # "filling", phase = "saving" => phase' = "saving" \/ it.state = "end"
    PROVE  CopyInv'
<1>1. UNCHANGED <<isCache, table, it, touched, returned, writersGoOn, stream, recordsSaved>>
    BY DEF iteratorVars, saveVars
<1>2. \A j : Saved(j)' = Saved(j)
    BY <1>1 DEF Saved
<1>3. Contents(table)' = Contents(table)
    BY <1>1
<1> QED
    BY <1>1, <1>2, <1>3 DEF CopyInv

LEMMA Fill_Copy ==
    ASSUME CopyInv, Fill
    PROVE  CopyInv'
<1>1. /\ phase = "filling" \/ (phase = "saving" /\ writersGoOn)
      /\ UNCHANGED <<phase, writersGoOn, stream, recordsSaved>>
    BY DEF Fill, saveVars
<1>2. CASE phase = "filling"
    BY <1>1, <1>2 DEF CopyInv
<1>3. CASE phase = "saving" /\ writersGoOn
  <2>1. UNCHANGED <<isCache, it, returned>> /\ touched \subseteq touched'
    BY DEF Fill, Write, Add, Remove, Touch
  <2>2. \A j : Saved(j)' = Saved(j)
    BY <1>1 DEF Saved
  <2> QED
    BY <1>1, <1>3, <2>1, <2>2 DEF CopyInv
<1> QED
    BY <1>1, <1>2, <1>3

LEMMA BeginSave_Copy ==
    ASSUME CursorType, CursorInv, BeginSave
    PROVE  CopyInv'
<1>1. /\ ~isCache /\ it.state = "start" /\ phase' = "saving" /\ recordsSaved' = 0
      /\ it' = [it EXCEPT !.state = IF it.entry # 0 THEN "advance" ELSE "load"]
      /\ UNCHANGED <<isCache, touched, returned>>
    BY DEF BeginSave, BeginMoveNext
<1>2. touched = {} /\ \A k \in Keys : returned[k] = 0
    BY <1>1 DEF CursorInv
<1>3. it'.state \in {"advance", "load"}
    BY <1>1 DEF CursorType
<1>4. \A j \in 1 .. recordsSaved' : FALSE
    BY <1>1
<1>5. \A k \in Keys : ~(returned'[k] > 0)
    BY <1>1, <1>2
<1> QED
    BY <1>1, <1>2, <1>3, <1>4, <1>5 DEF CopyInv

LEMMA Walk_Copy ==
    ASSUME IteratorInv, CopyInv, Walk
    PROVE  CopyInv'
<1>1. phase = "saving" /\ UNCHANGED <<phase, writersGoOn, stream, recordsSaved>>
    BY DEF Walk, saveVars
<1>2. \A j : Saved(j)' = Saved(j)
    BY <1>1 DEF Saved
<1>3. CASE MoveToNextData \/ NextBucket
  <2>1. UNCHANGED <<isCache, table, touched, returned>> /\ it.state # "valid" /\ it'.state \in {"load", "end"}
    BY <1>3 DEF MoveToNextData, NextBucket, IteratorInv, CursorType
  <2>2. Contents(table)' = Contents(table)
    BY <2>1
  <2> QED
    BY <1>1, <1>2, <2>1, <2>2 DEF CopyInv
<1>4. CASE LoadRecord
  <2>1. /\ it.state = "load" /\ UNCHANGED <<isCache, table, touched>>
        /\ \/ it'.state = "advance" /\ returned' = returned
           \/ /\ it'.state = "valid"
              /\ \E r \in Contents(table) :
                     /\ it'.record = r /\ r.key \in Keys
                     /\ returned' = [returned EXCEPT ![r.key] = returned[r.key] + 1]
                     /\ r.key \notin touched => returned[r.key] = 0
    BY <1>4, StopIs
  <2>2. Contents(table)' = Contents(table)
    BY <2>1
  <2>3. CASE it'.state = "advance" /\ returned' = returned
    BY <1>1, <1>2, <2>1, <2>2, <2>3 DEF CopyInv
  <2>4. ASSUME it'.state = "valid", NEW r \in Contents(table), it'.record = r, r.key \in Keys,
               returned' = [returned EXCEPT ![r.key] = returned[r.key] + 1],
               r.key \notin touched => returned[r.key] = 0
        PROVE  CopyInv'
    <3>1. returned'[r.key] = returned[r.key] + 1 /\ \A k \in Keys : k # r.key => returned'[k] = returned[k]
      BY <2>4 DEF IteratorInv, CursorType
    <3>2. returned'[r.key] > 0 /\ \A k \in Keys : returned[k] > 0 => returned'[k] > 0
      BY <2>4, <3>1 DEF IteratorInv, CursorType
    <3>3. \A k \in Keys \ touched : returned'[k] > 0 =>
              \/ it'.state = "valid" /\ it'.record.key = k
              \/ \E j \in 1 .. recordsSaved : Saved(j).key = k
      BY <1>1, <2>1, <2>4, <3>1 DEF CopyInv
    <3>4. ASSUME ~writersGoOn
          PROVE  /\ touched = {} /\ returned[r.key] = 0
                 /\ \A j \in 1 .. recordsSaved : Saved(j) \in Contents(table) /\ returned[Saved(j).key] > 0
                 /\ \A i, j \in 1 .. recordsSaved : Saved(i).key = Saved(j).key => i = j
      BY <1>1, <2>4, <3>4 DEF CopyInv
    <3>5. ASSUME ~writersGoOn, NEW j \in 1 .. recordsSaved
          PROVE  Saved(j).key # r.key /\ returned'[Saved(j).key] > 0
      <4>1. Saved(j) \in Contents(table) /\ returned[Saved(j).key] > 0 /\ returned[r.key] = 0
        BY <3>4, <3>5
      <4>2. Saved(j).key \in Keys
        BY <4>1, ContentsAreUnique DEF IteratorInv
      <4> QED
        BY <3>2, <4>1, <4>2
    <3>6. ~isCache /\ phase' = "saving"
      BY <1>1 DEF CopyInv
    <3> QED
      BY <1>1, <1>2, <2>1, <2>2, <2>4, <3>2, <3>3, <3>4, <3>5, <3>6 DEF CopyInv
  <2> QED
    BY <2>1, <2>3, <2>4
<1> QED
    BY <1>3, <1>4 DEF Walk

LEMMA SaveRecord_Copy ==
    ASSUME IteratorInv, StreamInv, CopyInv, SaveRecord
    PROVE  CopyInv'
<1>1. /\ phase = "saving" /\ it.state = "valid"
      /\ it' = [it EXCEPT !.state = IF it.entry # 0 THEN "advance" ELSE "load"]
      /\ UNCHANGED <<phase, isCache, table, touched, returned, writersGoOn>>
    BY DEF SaveRecord, BeginMoveNext
<1>2. /\ recordsSaved' = recordsSaved + 1 /\ recordsSaved \in Nat
      /\ \A j \in 1 .. recordsSaved : Saved(j)' = Saved(j)
      /\ \A j \in Nat : j = recordsSaved + 1 => Saved(j)' = it.record
    BY SaveRecord_Stream DEF IteratorInv, StreamInv
<1>3. it'.state \in {"advance", "load"}
    BY <1>1 DEF IteratorInv, CursorType
<1>4. Contents(table)' = Contents(table)
    BY <1>1
<1>5. \A j \in 1 .. recordsSaved' :
          \/ j \in 1 .. recordsSaved /\ Saved(j)' = Saved(j)
          \/ j = recordsSaved + 1 /\ j \in Nat /\ Saved(j)' = it.record
    BY <1>2
<1>6. \A j \in 1 .. recordsSaved : j \in 1 .. recordsSaved'
    BY <1>2
<1>7. \E j \in 1 .. recordsSaved' : Saved(j)' = it.record
  <2>1. \A j \in Nat : j = recordsSaved + 1 => j \in 1 .. recordsSaved'
    BY <1>2
  <2>2. \E j \in Nat : j = recordsSaved + 1
    BY <1>2
  <2> QED
    BY <1>2, <2>1, <2>2
<1>8. ASSUME NEW k \in Keys \ touched, returned[k] > 0
      PROVE  \E j \in 1 .. recordsSaved' : Saved(j)'.key = k
  <2>1. CASE it.record.key = k
    BY <1>7, <2>1
  <2>2. CASE it.record.key # k
    <3>1. PICK j \in 1 .. recordsSaved : Saved(j).key = k
      BY <1>1, <1>8, <2>2 DEF CopyInv
    <3> QED
      BY <1>2, <1>6, <3>1
  <2> QED
    BY <2>1, <2>2
<1>9. ASSUME ~writersGoOn
      PROVE  /\ touched = {}
             /\ \A j \in 1 .. recordsSaved' : Saved(j)' \in Contents(table) /\ returned[Saved(j)'.key] > 0
             /\ \A i, j \in 1 .. recordsSaved' : Saved(i)'.key = Saved(j)'.key => i = j
  <2>1. /\ touched = {}
        /\ it.record \in Contents(table) /\ returned[it.record.key] > 0
        /\ \A j \in 1 .. recordsSaved : Saved(j).key # it.record.key
        /\ \A j \in 1 .. recordsSaved : Saved(j) \in Contents(table) /\ returned[Saved(j).key] > 0
        /\ \A i, j \in 1 .. recordsSaved : Saved(i).key = Saved(j).key => i = j
    BY <1>1, <1>9 DEF CopyInv
  <2>2. \A j \in 1 .. recordsSaved' : Saved(j)' \in Contents(table) /\ returned[Saved(j)'.key] > 0
    BY <1>5, <2>1
  <2>3. \A i, j \in 1 .. recordsSaved' : Saved(i)'.key = Saved(j)'.key => i = j
    BY <1>5, <2>1
  <2> QED
    BY <2>1, <2>2, <2>3
<1>10. ~isCache
    BY <1>1 DEF CopyInv
<1> QED
    BY <1>1, <1>3, <1>4, <1>8, <1>9, <1>10 DEF CopyInv

LEMMA EndSave_Copy ==
    ASSUME StreamInv, CopyInv, EndSave
    PROVE  CopyInv'
<1>1. /\ phase = "saving" /\ it.state = "end"
      /\ UNCHANGED <<isCache, table, it, touched, returned, writersGoOn, recordsSaved>>
    BY DEF EndSave, iteratorVars
<1>2. \A j \in 1 .. recordsSaved : Saved(j)' = Saved(j)
    BY EndSave_Stream
<1>3. Contents(table)' = Contents(table)
    BY <1>1
<1> QED
    BY <1>1, <1>2, <1>3 DEF CopyInv

LEMMA Next_Copy ==
    ASSUME IteratorInv, StreamInv, CopyInv, Next \/ UNCHANGED vars
    PROVE  CopyInv'
<1>1. CASE UNCHANGED vars \/ Done
  <2>1. UNCHANGED <<phase, iteratorVars, saveVars>>
    BY <1>1 DEF Done, vars
  <2>2. CASE phase = "filling"
    BY <2>1, <2>2 DEF CopyInv
  <2>3. CASE phase # "filling"
    BY <2>1, <2>3, Copy_Unchanged
  <2> QED
    BY <2>2, <2>3
<1>2. CASE Fill
    BY <1>2, Fill_Copy
<1>3. CASE Iterate
    BY <1>3 DEF Iterate, CopyInv
<1>4. CASE Save
    BY <1>4, BeginSave_Copy, Walk_Copy, SaveRecord_Copy, EndSave_Copy DEF Save, IteratorInv
<1>5. CASE Arrive
    BY <1>5, Copy_Unchanged DEF Arrive
<1>6. CASE Load
    BY <1>6, Copy_Unchanged DEF Load, ReadVersion, ReadSetting, LoadNextRecord, EndLoad
<1> QED
    BY <1>1, <1>2, <1>3, <1>4, <1>5, <1>6 DEF Next
-------------------------------------------------------------------------------
(* What is loaded.                                                           *)

\* What was loaded is the first part of what was saved, and what is left to be
\* read is the rest of it.
LoadInv ==
    /\ recordsLoaded \in Nat
    /\ phase \in {"filling", "saving", "saved", "version", "setting"} => recordsLoaded = 0
    /\ arrived = "whole" =>
           /\ phase \in {"version", "setting"} => input = stream
           /\ phase = "failed" => writersGoOn
           /\ phase \in {"loading", "loaded"} =>
                  /\ recordsLoaded <= recordsSaved
                  /\ hasMoreData = (recordsLoaded < recordsSaved)
                  /\ Len(input) = 2 * (recordsSaved - recordsLoaded)
                  /\ \A i \in 1 .. Len(input) : input[i] = stream[2 * recordsLoaded + 3 + i]
                  /\ IsTable(loaded)
                  /\ Contents(loaded) = {Saved(j) : j \in 1 .. recordsLoaded}
                  /\ IsFiniteSet(Contents(loaded)) /\ Cardinality(Contents(loaded)) = recordsLoaded
           /\ phase = "loaded" => recordsLoaded = recordsSaved

LEMMA EmptyTableIs ==
    IsTable(EmptyTable) /\ Contents(EmptyTable) = {}
<1>1. EmptyTable \in [Buckets -> Seq(Places)] /\ \A b \in Buckets : EmptyTable[b] = Entry
    BY EntryIs DEF EmptyTable
<1>2. \A b \in Buckets : \A i \in DOMAIN EmptyTable[b] : EmptyTable[b][i] = Null
    BY <1>1, EntryIs
<1>3. IsTable(EmptyTable)
    BY <1>1, <1>2 DEF IsTable, HasKey
<1>4. ASSUME NEW r \in Contents(EmptyTable) PROVE FALSE
  <2>1. r # Null /\ Bucket[r.key] \in Buckets
    BY <1>3, ContentsAreUnique
  <2> QED
    BY <1>2, <1>4, <2>1 DEF Contents
<1> QED
    BY <1>3, <1>4

LEMMA Load_Unchanged ==
    ASSUME LoadInv, UNCHANGED <<phase, writersGoOn, stream, recordsSaved, loadVars>>
    PROVE  LoadInv'
<1>1. UNCHANGED <<input, arrived, hasMoreData, loaded, recordsLoaded>>
    BY DEF loadVars
<1>2. \A j : Saved(j)' = Saved(j)
    BY DEF Saved
<1>3. Contents(loaded)' = Contents(loaded) /\ (IsTable(loaded)' <=> IsTable(loaded))
    BY <1>1
<1> QED
    BY <1>1, <1>2, <1>3 DEF LoadInv

LEMMA ReadVersion_Load ==
    ASSUME StreamInv, LoadInv, ReadVersion
    PROVE  LoadInv'
<1>1. /\ phase = "version" /\ phase' = IF Deserialize(1, 0) = c_version THEN "setting" ELSE "failed"
      /\ UNCHANGED <<stream, recordsSaved, writersGoOn, input, arrived, hasMoreData, loaded, recordsLoaded>>
    BY DEF ReadVersion, saveVars, loadVars
<1>2. ASSUME arrived = "whole" PROVE phase' = "setting"
  <2>1. input = stream
    BY <1>1, <1>2 DEF LoadInv
  <2>2. 1 \in DOMAIN stream /\ stream[1] = Version(c_version)
    BY <1>1, StreamParts
  <2> QED
    BY <1>1, <2>1, <2>2, ItemsAre DEF Deserialize
<1> QED
    BY <1>1, <1>2 DEF LoadInv

LEMMA ReadSetting_Load ==
    ASSUME StreamInv, LoadInv, ReadSetting
    PROVE  LoadInv'
<1>1. /\ phase = "setting" /\ phase' = "loading" /\ input' = Behind(3)
      /\ loaded' = [b \in 0 .. Deserialize(2, 1) - 1 |-> Entry]
      /\ hasMoreData' = Deserialize(3, FALSE)
      /\ UNCHANGED <<stream, recordsSaved, writersGoOn, arrived, recordsLoaded>>
    BY DEF ReadSetting, saveVars
<1>2. recordsLoaded = 0 /\ recordsLoaded' = 0
    BY <1>1 DEF LoadInv
<1>3. ASSUME arrived = "whole"
      PROVE  /\ recordsLoaded <= recordsSaved
             /\ hasMoreData' = (recordsLoaded < recordsSaved)
             /\ Len(input') = 2 * (recordsSaved - recordsLoaded)
             /\ \A i \in 1 .. Len(input') : input'[i] = stream[2 * recordsLoaded + 3 + i]
             /\ IsTable(loaded')
             /\ Contents(loaded') = {Saved(j)' : j \in 1 .. recordsLoaded}
             /\ IsFiniteSet(Contents(loaded')) /\ Cardinality(Contents(loaded')) = recordsLoaded
  <2>1. input = stream
    BY <1>1, <1>3 DEF LoadInv
  <2>2. /\ recordsSaved \in Nat /\ Len(stream) = 2 * recordsSaved + 3 /\ DOMAIN stream = 1 .. Len(stream)
        /\ stream[Len(stream)] = Flag(FALSE) /\ stream[2] = Setting(NumBuckets)
        /\ \A j \in 1 .. recordsSaved : stream[2 * j + 1] = Flag(TRUE)
    BY <1>1, StreamParts
  <2>3. 2 \in DOMAIN stream /\ 3 \in DOMAIN stream
    BY <2>2
  <2>4. loaded' = EmptyTable
    <3>1. Deserialize(2, 1) = NumBuckets
      BY <2>1, <2>2, <2>3, ItemsAre DEF Deserialize
    <3> QED
      BY <1>1, <3>1 DEF EmptyTable, Buckets
  <2>5. hasMoreData' = (0 < recordsSaved)
    <3>1. hasMoreData' = stream[3].value
      BY <1>1, <2>1, <2>3 DEF Deserialize
    <3>2. CASE recordsSaved = 0
      <4>1. Len(stream) = 3 /\ ~(0 < recordsSaved)
        BY <2>2, <3>2
      <4>2. stream[3] = Flag(FALSE)
        BY <2>2, <4>1
      <4>3. stream[3].value = FALSE
        BY <4>2, ItemsAre
      <4>4. (0 < recordsSaved) = FALSE
        BY <4>1
      <4> QED
        BY <3>1, <4>3, <4>4
    <3>3. CASE recordsSaved # 0
      <4> DEFINE one == 1
      <4>1. one \in 1 .. recordsSaved /\ 2 * one + 1 = 3
        BY <2>2, <3>3
      <4> HIDE DEF one
      <4>2. stream[3] = Flag(TRUE)
        BY <2>2, <4>1
      <4>3. 0 < recordsSaved
        BY <2>2, <3>3
      <4>4. stream[3].value = TRUE
        BY <4>2, ItemsAre
      <4>5. (0 < recordsSaved) = TRUE
        BY <4>3
      <4> QED
        BY <3>1, <4>4, <4>5
    <3> QED
      BY <3>2, <3>3
  <2>6. Len(input') = 2 * recordsSaved /\ \A i \in 1 .. 2 * recordsSaved : input'[i] = stream[3 + i]
    <3>1. input \in Seq(Items)
      BY DEF StreamInv
    <3>2. /\ Len(Behind(3)) = IF 3 <= Len(input) THEN Len(input) - 3 ELSE 0
          /\ \A i \in 1 .. Len(input) - 3 : Behind(3)[i] = input[3 + i]
      BY <3>1, BehindIs
    <3>3. Len(input) = 2 * recordsSaved + 3 /\ 3 <= Len(input) /\ Len(input) - 3 = 2 * recordsSaved
      BY <2>1, <2>2
    <3> QED
      BY <1>1, <2>1, <3>2, <3>3
  <2>7. IsTable(loaded') /\ Contents(loaded') = {}
    BY <2>4, EmptyTableIs
  <2>8. IsFiniteSet({}) /\ Cardinality({}) = 0
    BY FS_EmptySet
  <2>9. 2 * recordsLoaded + 3 = 3 /\ recordsSaved - recordsLoaded = recordsSaved /\ 0 <= recordsSaved
    BY <1>2, <2>2
  <2>10. {Saved(j)' : j \in 1 .. recordsLoaded} = {}
    BY <1>2
  <2> QED
    BY <1>2, <2>2, <2>5, <2>6, <2>7, <2>8, <2>9, <2>10
<1> QED
    BY <1>1, <1>2, <1>3 DEF LoadInv
\* The next record that is read is the next one that was written.
LEMMA NextIs ==
    ASSUME StreamInv, LoadInv, phase = "loading", arrived = "whole", hasMoreData
    PROVE  /\ recordsLoaded + 1 \in 1 .. recordsSaved /\ recordsLoaded \in Nat
           /\ 1 \in DOMAIN input /\ input[1] = Record(Saved(recordsLoaded + 1))
           /\ Saved(recordsLoaded + 1) \in Records
           /\ 2 \in DOMAIN input /\ input[2] = Flag(recordsLoaded + 1 < recordsSaved)
           /\ Len(input) >= 2
<1> DEFINE n == recordsLoaded
           m == n + 1
<1>1. /\ recordsSaved \in Nat /\ Len(stream) = 2 * recordsSaved + 3
      /\ stream[Len(stream)] = Flag(FALSE)
      /\ \A j \in 1 .. recordsSaved :
             stream[2 * j + 1] = Flag(TRUE) /\ stream[2 * j + 2] = Record(Saved(j)) /\ Saved(j) \in Records
    BY StreamParts
<1>2. /\ n \in Nat /\ n < recordsSaved
      /\ Len(input) = 2 * (recordsSaved - n)
      /\ \A i \in 1 .. Len(input) : input[i] = stream[2 * n + 3 + i]
    BY DEF LoadInv
<1>3. m \in 1 .. recordsSaved /\ m \in Nat
    BY <1>1, <1>2
<1>4. Len(input) >= 2 /\ Len(input) \in Nat
    BY <1>1, <1>2
<1>5. DOMAIN input = 1 .. Len(input)
    BY DEF StreamInv
<1>6. 1 \in 1 .. Len(input) /\ 2 \in 1 .. Len(input)
    BY <1>4
<1>7. input[1] = Record(Saved(m)) /\ Saved(m) \in Records
  <2>1. 2 * n + 3 + 1 = 2 * m + 2
    BY <1>2
  <2>2. input[1] = stream[2 * m + 2]
    BY <1>2, <1>6, <2>1
  <2> HIDE DEF m
  <2> QED
    BY <1>1, <1>3, <2>2
<1>8. input[2] = Flag(m < recordsSaved)
  <2>1. input[2] = stream[2 * n + 3 + 2]
    BY <1>2, <1>6
  <2>2. CASE m < recordsSaved
    <3> DEFINE l == m + 1
    <3>1. l \in 1 .. recordsSaved /\ 2 * n + 3 + 2 = 2 * l + 1
      BY <1>1, <1>2, <1>3, <2>2
    <3> HIDE DEF l
    <3>2. input[2] = Flag(TRUE)
      BY <1>1, <2>1, <3>1
    <3>3. (m < recordsSaved) = TRUE
      BY <2>2
    <3> QED
      BY <3>2, <3>3
  <2>3. CASE ~(m < recordsSaved)
    <3>1. 2 * n + 3 + 2 = Len(stream)
      BY <1>1, <1>2, <1>3, <2>3
    <3>2. input[2] = Flag(FALSE)
      BY <1>1, <2>1, <3>1
    <3>3. (m < recordsSaved) = FALSE
      BY <2>3
    <3> QED
      BY <3>2, <3>3
  <2> QED
    BY <2>2, <2>3
<1> QED
    BY <1>2, <1>3, <1>4, <1>5, <1>6, <1>7, <1>8

LEMMA LoadNextRecord_Load ==
    ASSUME StreamInv, CopyInv, LoadInv, LoadNextRecord
    PROVE  LoadInv'
<1> DEFINE r == Deserialize(1, [key |-> EmptyKey, value |-> EmptyValue])
           b == Bucket[r.key] % Cardinality(DOMAIN loaded)
           isThere == \E i \in DOMAIN loaded[b] : loaded[b][i] # Null /\ loaded[b][i].key = r.key
<1>1. /\ phase = "loading" /\ hasMoreData
      /\ loaded' = [loaded EXCEPT ![b] = Put(loaded[b], r)]
      /\ IF isThere
         THEN phase' = "failed" /\ UNCHANGED <<hasMoreData, input, recordsLoaded>>
         ELSE hasMoreData' = FlagAfter(2) /\ input' = Behind(2) /\ recordsLoaded' = recordsLoaded + 1 /\ phase' = phase
      /\ UNCHANGED <<stream, recordsSaved, writersGoOn, arrived>>
    BY DEF LoadNextRecord, saveVars
<1>2. recordsLoaded' \in Nat /\ phase' \in {"loading", "failed"}
  <2>1. recordsLoaded \in Nat
    BY DEF LoadInv
  <2> HIDE DEF isThere, r, b
  <2>2. CASE isThere
    BY <1>1, <2>1, <2>2
  <2>3. CASE ~isThere
    BY <1>1, <2>1, <2>3
  <2> QED
    BY <2>2, <2>3
<1>3. ASSUME arrived = "whole"
      PROVE  /\ phase' = "failed" => writersGoOn
             /\ phase' = "loading" =>
                    /\ recordsLoaded' <= recordsSaved
                    /\ hasMoreData' = (recordsLoaded' < recordsSaved)
                    /\ Len(input') = 2 * (recordsSaved - recordsLoaded')
                    /\ \A i \in 1 .. Len(input') : input'[i] = stream[2 * recordsLoaded' + 3 + i]
                    /\ IsTable(loaded')
                    /\ Contents(loaded') = {Saved(j) : j \in 1 .. recordsLoaded'}
                    /\ IsFiniteSet(Contents(loaded')) /\ Cardinality(Contents(loaded')) = recordsLoaded'
  <2> DEFINE n == recordsLoaded
             m == n + 1
  <2>1. /\ m \in 1 .. recordsSaved /\ n \in Nat /\ recordsSaved \in Nat
        /\ 1 \in DOMAIN input /\ input[1] = Record(Saved(m))
        /\ Saved(m) \in Records
        /\ 2 \in DOMAIN input /\ input[2] = Flag(m < recordsSaved)
        /\ Len(input) >= 2
    BY <1>1, <1>3, NextIs DEF StreamInv
  <2>2. /\ Len(input) = 2 * (recordsSaved - n)
        /\ \A i \in 1 .. Len(input) : input[i] = stream[2 * n + 3 + i]
        /\ IsTable(loaded)
        /\ Contents(loaded) = {Saved(j) : j \in 1 .. n}
        /\ IsFiniteSet(Contents(loaded)) /\ Cardinality(Contents(loaded)) = n
    BY <1>1, <1>3 DEF LoadInv
  <2>3. r = Saved(m) /\ r \in Records
    BY <2>1, ItemsAre DEF Deserialize
  <2>4. b = Bucket[r.key] /\ r.key \in Keys
    <3>1. r.key \in Keys /\ Bucket[r.key] \in 0 .. NumBuckets - 1 /\ NumBuckets \in Nat \ {0}
      BY <2>3, IteratorAssumption DEF Records
    <3>2. DOMAIN loaded = 0 .. NumBuckets - 1
      BY <2>2 DEF IsTable, Buckets
    <3>3. Cardinality(0 .. NumBuckets - 1) = NumBuckets
      <4>1. 0 \in Int /\ NumBuckets - 1 \in Int /\ ~(0 > NumBuckets - 1) /\ NumBuckets - 1 - 0 + 1 = NumBuckets
        BY <3>1
      <4> QED
        BY <4>1, FS_Interval
    <3>4. \A x \in 0 .. NumBuckets - 1 : x % NumBuckets = x
      BY <3>1
    <3> QED
      BY <3>1, <3>2, <3>3, <3>4
  <2> HIDE DEF r, b
  <2>5. loaded' = WithRecord(loaded, r)
    BY <1>1, <2>4 DEF WithRecord
  <2>6. isThere <=> r.key \in KeysOf(loaded)
    <3>1. isThere <=> \E i \in DOMAIN loaded[Bucket[r.key]] : HasKey(loaded[Bucket[r.key]], i, r.key)
      BY <2>4 DEF HasKey
    <3> HIDE DEF isThere
    <3> QED
      BY <2>2, <2>4, <3>1, KeyIsFound
  <2>7. CASE isThere
    <3>1. PICK j \in 1 .. n : Saved(j).key = Saved(m).key
      BY <2>2, <2>3, <2>6, <2>7 DEF KeysOf
    <3>2. j \in 1 .. recordsSaved /\ j # m
      BY <2>1
    <3>3. writersGoOn
      BY <1>1, <2>1, <3>1, <3>2 DEF CopyInv
    <3> QED
      BY <1>1, <2>7, <3>3
  <2>8. CASE ~isThere
    <3>1. recordsLoaded' = m /\ phase' = "loading" /\ hasMoreData' = FlagAfter(2) /\ input' = Behind(2)
      BY <1>1, <2>8
    <3>2. hasMoreData' = (m < recordsSaved)
      BY <2>1, <3>1, ItemsAre DEF FlagAfter, Deserialize
    <3>3. Len(input') = 2 * (recordsSaved - m) /\ \A i \in 1 .. Len(input') : input'[i] = stream[2 * m + 3 + i]
      <4>1. /\ Len(input') = IF 2 <= Len(input) THEN Len(input) - 2 ELSE 0
            /\ \A i \in 1 .. Len(input) - 2 : input'[i] = input[2 + i]
        BY <3>1, BehindIs DEF StreamInv
      <4>2. Len(input') = Len(input) - 2 /\ Len(input) - 2 = 2 * (recordsSaved - m)
        BY <2>1, <2>2, <4>1
      <4>3. ASSUME NEW i \in 1 .. Len(input') PROVE input'[i] = stream[2 * m + 3 + i]
        <5>1. i \in 1 .. Len(input) - 2 /\ 2 + i \in 1 .. Len(input) /\ 2 * n + 3 + (2 + i) = 2 * m + 3 + i
          BY <2>1, <2>2, <4>2
        <5> QED
          BY <2>2, <4>1, <5>1
      <4> QED
        BY <4>2, <4>3
    <3>4. IsTable(loaded')
      BY <2>2, <2>3, <2>5, PutInTable
    <3>5. r \notin Contents(loaded) /\ Contents(loaded') = Contents(loaded) \cup {r}
      <4>1. \A s \in Contents(loaded) : s.key # r.key
        BY <2>6, <2>8 DEF KeysOf
      <4>2. Contents(loaded') = {s \in Contents(loaded) : s.key # r.key} \cup {r}
        BY <2>2, <2>3, <2>5, ContentsWithRecord
      <4> QED
        BY <4>1, <4>2
    <3>6. Contents(loaded') = {Saved(j) : j \in 1 .. m}
      <4>1. \A j : j \in 1 .. m <=> j \in 1 .. n \/ j = m
        BY <2>1
      <4> HIDE DEF m
      <4> QED
        BY <2>2, <2>3, <3>5, <4>1
    <3>7. IsFiniteSet(Contents(loaded')) /\ Cardinality(Contents(loaded')) = m
      BY <2>2, <3>5, FS_AddElement
    <3> QED
      BY <2>1, <3>1, <3>2, <3>3, <3>4, <3>6, <3>7
  <2> QED
    BY <2>7, <2>8
<1>4. \A j : Saved(j)' = Saved(j)
    BY <1>1 DEF Saved
<1>5. {Saved(j)' : j \in 1 .. recordsLoaded'} = {Saved(j) : j \in 1 .. recordsLoaded'}
    BY <1>4
<1>6. arrived' = arrived /\ recordsSaved' = recordsSaved /\ stream' = stream /\ writersGoOn' = writersGoOn
    BY <1>1
<1> HIDE DEF isThere, r, b
<1> QED
    BY <1>2, <1>3, <1>5, <1>6 DEF LoadInv

LEMMA Next_Load ==
    ASSUME StreamInv, CopyInv, LoadInv, Next \/ UNCHANGED vars
    PROVE  LoadInv'
<1>1. ASSUME phase \in {"filling", "saving", "saved"}, phase' \in {"filling", "saving", "saved"},
             UNCHANGED <<arrived, recordsLoaded>>
      PROVE  LoadInv'
    BY <1>1 DEF LoadInv, StreamInv
<1>2. CASE UNCHANGED vars \/ Done
    BY <1>2, Load_Unchanged DEF Done, vars, saveVars
<1>3. CASE Fill \/ Iterate \/ Save
    BY <1>1, <1>3 DEF Fill, Iterate, Save, BeginSave, Walk, SaveRecord, EndSave, loadVars
<1>4. CASE Arrive
  <2>1. phase = "saved" /\ phase' = "version" /\ (arrived' = "whole" => input' = stream)
    BY <1>4, ArriveIs
  <2>2. UNCHANGED <<stream, recordsLoaded>>
    BY <1>4 DEF Arrive, saveVars
  <2> QED
    BY <2>1, <2>2 DEF LoadInv
<1>5. CASE ReadVersion
    BY <1>5, ReadVersion_Load
<1>6. CASE ReadSetting
    BY <1>6, ReadSetting_Load
<1>7. CASE LoadNextRecord
    BY <1>7, LoadNextRecord_Load
<1>8. CASE EndLoad
  <2>1. /\ phase = "loading" /\ ~hasMoreData /\ phase' = "loaded"
        /\ UNCHANGED <<stream, recordsSaved, writersGoOn, input, arrived, hasMoreData, loaded, recordsLoaded>>
    BY <1>8 DEF EndLoad, saveVars, loadVars
  <2>2. \A j : Saved(j)' = Saved(j)
    BY <2>1 DEF Saved
  <2>3. arrived = "whole" => recordsLoaded = recordsSaved
    <3> SUFFICES ASSUME arrived = "whole" PROVE recordsLoaded = recordsSaved
      OBVIOUS
    <3>1. hasMoreData = (recordsLoaded < recordsSaved) /\ recordsLoaded <= recordsSaved
      BY <2>1 DEF LoadInv
    <3>2. ~(recordsLoaded < recordsSaved)
      BY <2>1, <3>1, Zenon
    <3>3. recordsLoaded \in Nat /\ recordsSaved \in Nat
      BY DEF LoadInv, StreamInv
    <3> QED
      BY <3>1, <3>2, <3>3
  <2>4. Contents(loaded)' = Contents(loaded) /\ (IsTable(loaded)' <=> IsTable(loaded))
    BY <2>1
  <2> QED
    BY <2>1, <2>2, <2>3, <2>4 DEF LoadInv
<1> QED
    BY <1>2, <1>3, <1>4, <1>5, <1>6, <1>7, <1>8 DEF Next, Load
-------------------------------------------------------------------------------
(* What comes back.                                                          *)

LEMMA TripIsComplete ==
    ASSUME IteratorInv, ExpiredInv, StreamInv, CopyInv, LoadInv
    PROVE  RoundTrip
<1> SUFFICES ASSUME arrived = "whole", phase = "loaded"
            PROVE  /\ DOMAIN loaded = Buckets
                   /\ recordsSaved = recordsLoaded /\ recordsLoaded = Cardinality(Contents(loaded))
                   /\ KeysOf(table) \ touched \subseteq KeysOf(loaded)
                   /\ ~writersGoOn => Contents(loaded) = Contents(table)
  <2>1. arrived = "whole" /\ ~writersGoOn => phase # "failed"
    BY DEF LoadInv
  <2> QED
    BY <2>1 DEF RoundTrip
<1>1. /\ IsTable(loaded) /\ recordsLoaded = recordsSaved
      /\ Contents(loaded) = {Saved(j) : j \in 1 .. recordsSaved}
      /\ Cardinality(Contents(loaded)) = recordsLoaded
    BY DEF LoadInv
<1>2. DOMAIN loaded = Buckets
    BY <1>1 DEF IsTable
<1>3. ~isCache /\ it.state = "end"
    BY DEF CopyInv
<1>4. ASSUME NEW r \in Contents(table), r.key \notin touched
      PROVE  \E j \in 1 .. recordsSaved : Saved(j).key = r.key
  <2>1. r.key \in Keys /\ ~IsExpired(r)
    BY <1>3, ContentsAreUnique DEF ExpiredInv, IteratorInv
  <2>2. r.key \in LiveKeys(table)
    BY <2>1 DEF LiveKeys
  <2>3. returned[r.key] = 1
    BY <1>3, <1>4, <2>1, <2>2, WalkIsComplete DEF StableKeysOnce
  <2>4. returned[r.key] > 0
    BY <2>3
  <2> QED
    BY <1>3, <1>4, <2>1, <2>4 DEF CopyInv
<1>5. KeysOf(table) \ touched \subseteq KeysOf(loaded)
  <2> SUFFICES ASSUME NEW k \in KeysOf(table), k \notin touched
              PROVE  k \in KeysOf(loaded)
    OBVIOUS
  <2>1. PICK r \in Contents(table) : r.key = k
    BY DEF KeysOf
  <2>2. PICK j \in 1 .. recordsSaved : Saved(j).key = k
    BY <1>4, <2>1
  <2>3. Saved(j) \in Contents(loaded)
    BY <1>1
  <2> QED
    BY <2>2, <2>3 DEF KeysOf
<1>6. ASSUME ~writersGoOn PROVE Contents(loaded) = Contents(table)
  <2>1. touched = {} /\ \A j \in 1 .. recordsSaved : Saved(j) \in Contents(table)
    BY <1>6 DEF CopyInv
  <2>2. Contents(loaded) \subseteq Contents(table)
    BY <1>1, <2>1
  <2>3. ASSUME NEW r \in Contents(table) PROVE r \in Contents(loaded)
    <3>1. PICK j \in 1 .. recordsSaved : Saved(j).key = r.key
      BY <1>4, <2>1
    <3>2. Saved(j) = r
      BY <2>1, <3>1, ContentsAreUnique DEF IteratorInv
    <3> QED
      BY <1>1, <3>2
  <2> QED
    BY <2>2, <2>3
<1> QED
    BY <1>1, <1>2, <1>5, <1>6

\* A table that no one writes while it is saved comes back as it was, and one
\* that is written comes back with all keys that stayed in it, each once; the
\* counters RecordsCountSavedFromSerializer and RecordsCountLoadedFromSerializer
\* agree with what is in it (ReadWrite/Serializer.h:69 and :135).
THEOREM NothingIsLostOnTheWay == Spec => []RoundTrip
<1> DEFINE Inv == IteratorInv /\ ExpiredInv /\ StreamInv /\ CopyInv /\ LoadInv
<1>1. Init => Inv
  <2> SUFFICES ASSUME Init PROVE Inv
    OBVIOUS
  <2>1. IteratorInv /\ StreamInv
    BY Iterator_Init, Init_Stream DEF Init
  <2>2. ExpiredInv
    BY EmptyTableIs DEF Init, IteratorInit, ExpiredInv
  <2>3. CopyInv /\ LoadInv
    BY DEF Init, CopyInv, LoadInv
  <2> QED
    BY <2>1, <2>2, <2>3
<1>2. Inv /\ [Next]_vars => Inv'
  <2> SUFFICES ASSUME Inv, Next \/ UNCHANGED vars PROVE Inv'
    OBVIOUS
  <2>1. IteratorInv' /\ StreamInv'
    BY Iterator_Step, Next_IsIteratorStep, Next_Stream DEF IteratorInv
  <2>2. ExpiredInv' /\ CopyInv' /\ LoadInv'
    BY Next_Expired, Next_Copy, Next_Load
  <2> QED
    BY <2>1, <2>2
<1>3. Inv => RoundTrip
    BY TripIsComplete
<1> QED
    BY <1>1, <1>2, <1>3, PTL DEF Spec
===============================================================================

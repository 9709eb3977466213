--------------------------- MODULE HashTableManager ---------------------------
(***************************************************************************)
(* The tables of a service (inc/L4/LocalMemory/HashTableManager.h), which  *)
(* are found by name or by the index that Add() has returned.  Add() fills *)
(* three containers one after the other; any of the steps may throw, and   *)
(* the client may try again.  Lookups of other threads during Add() are    *)
(* left out: the containers have no lock, so they must not happen.  Module *)
(* HashTableService says when Add() is called.                             *)
(***************************************************************************)
EXTENDS Integers, Sequences, FiniteSets

CONSTANTS
    Names,
    UpperCase,      \* each name in upper case
    Configs,        \* what Add() is called with
    StreamSetting,  \* the setting that is read from a stream
    MaxTables,      \* bound: calls of Add() that get as far as a table
    Null            \* an option that is not given

Options == Nat \cup {Null}

\* SharedHashTable::Setting.
Settings == [numBuckets : Nat \ {0}, numBucketsPerMutex : Nat \ {0},
             fixedKeySize : Nat, fixedValueSize : Nat]

\* HashTableConfig, with the assertion of its constructor.
IsConfig(c) ==
    /\ c \in [name : Names, cache : BOOLEAN, serializer : {"none", "noStream", "stream"},
              setting : [numBuckets : Nat, numBucketsPerMutex : Options,
                         fixedKeySize : Options, fixedValueSize : Options]]
    /\ c.setting.numBuckets > 0 \/ c.serializer = "stream"

ASSUME ManagerAssumption ==
    /\ MaxTables \in Nat
    /\ Null \notin Nat
    /\ UpperCase \in [Names -> Names]
    /\ \A c \in Configs : IsConfig(c)
    /\ StreamSetting \in Settings

VARIABLES
    internalHashTables,  \* m_internalHashTables: the memory of the tables
    hashTables,          \* m_hashTables: of each, its name (history), whether
                         \* it is a cache, and what it works on
    nameToIndex,         \* m_hashTableNameToIndex, for names in upper case
    adding,              \* the call of Add(): its config, its table, and where it is
    numTables,           \* tables made (history)
    given                \* the config and index of each call that returned (history)

managerVars == <<internalHashTables, hashTables, nameToIndex, adding, numTables, given>>

Tables == 1 .. MaxTables
Memories == [table : Tables, setting : Settings]
HashTables == [name : Names, isCache : BOOLEAN, internal : Tables]

Idle == [state |-> "idle"]

ManagerTypeOK ==
    /\ internalHashTables \in Seq(Memories)
    /\ hashTables \in Seq(HashTables)
    /\ nameToIndex \in [Names -> (0 .. Len(hashTables) - 1) \cup {Null}]
    /\ adding.state \in {"idle", "table", "internal", "hashTable"}
    /\ numTables \in 0 .. MaxTables
    /\ given \subseteq Configs \X Nat

ManagerInit ==
    /\ internalHashTables = <<>>
    /\ hashTables = <<>>
    /\ nameToIndex = [n \in Names |-> Null]
    /\ adding = Idle
    /\ numTables = 0
    /\ given = {}

\* The map hashes and compares names without regard to case.
KeyOf(name) == UpperCase[name]

IsFree(name) == nameToIndex[KeyOf(name)] = Null

ValueOr(option, default) == IF option = Null THEN default ELSE option

\* SettingAdapter::Convert()
Convert(from) ==
    [numBuckets |-> from.numBuckets,
     numBucketsPerMutex |-> IF ValueOr(from.numBucketsPerMutex, 1) = 0 THEN 1
                            ELSE ValueOr(from.numBucketsPerMutex, 1),
     fixedKeySize |-> ValueOr(from.fixedKeySize, 0),
     fixedValueSize |-> ValueOr(from.fixedValueSize, 0)]

\* A table that is loaded has the setting of the table that was saved.
SettingOf(config) ==
    IF config.serializer = "stream" THEN StreamSetting ELSE Convert(config.setting)

\* Constructs the table, or loads it, and a hash table on it.  Add() throws
\* before if the name is taken, or if a cache is to be loaded.
MakeTable(config) ==
    /\ adding = Idle
    /\ IsFree(config.name)
    /\ ~(config.cache /\ config.serializer # "none")
    /\ numTables < MaxTables
    /\ numTables' = numTables + 1
    /\ adding' = [state |-> "table", config |-> config, table |-> numTables + 1]
    /\ UNCHANGED <<internalHashTables, hashTables, nameToIndex, given>>

AddInternal ==
    /\ adding.state = "table"
    /\ internalHashTables' = Append(internalHashTables,
           [table |-> adding.table, setting |-> SettingOf(adding.config)])
    /\ adding' = [adding EXCEPT !.state = "internal"]
    /\ UNCHANGED <<hashTables, nameToIndex, numTables, given>>

AddTable ==
    /\ adding.state = "internal"
    /\ hashTables' = Append(hashTables,
           [name |-> KeyOf(adding.config.name), isCache |-> adding.config.cache,
            internal |-> adding.table])
    /\ adding' = [adding EXCEPT !.state = "hashTable"]
    /\ UNCHANGED <<internalHashTables, nameToIndex, numTables, given>>

\* Mistake: the index is that of the memory.
NewIndex_OfMemory == Len(internalHashTables) - 1

NewIndex == Len(hashTables) - 1

AddName ==
    /\ adding.state = "hashTable"
    /\ nameToIndex' = [nameToIndex EXCEPT ![KeyOf(adding.config.name)] = NewIndex]
    /\ given' = given \cup {<<adding.config, NewIndex>>}
    /\ adding' = Idle
    /\ UNCHANGED <<internalHashTables, hashTables, numTables>>

\* Mistake: the memory is given back, the table is not.
Throw_RollsBackHalf ==
    /\ adding # Idle
    /\ adding' = Idle
    /\ internalHashTables' = SubSeq(internalHashTables, 1, Len(internalHashTables) -
                                   IF adding.state = "table" THEN 0 ELSE 1)
    /\ UNCHANGED <<hashTables, nameToIndex, numTables, given>>

\* A step throws: what is in the containers stays there.
Throw ==
    /\ adding # Idle
    /\ adding' = Idle
    /\ UNCHANGED <<internalHashTables, hashTables, nameToIndex, numTables, given>>

ManagerNext ==
    \/ \E c \in Configs : MakeTable(c)
    \/ AddInternal \/ AddTable \/ AddName \/ Throw

\* ~HashTableManager(): the indices that Add() has returned mean nothing any more.
DestroyManager ==
    /\ internalHashTables' = <<>>
    /\ hashTables' = <<>>
    /\ nameToIndex' = [n \in Names |-> Null]
    /\ given' = {}
    /\ UNCHANGED <<adding, numTables>>

-------------------------------------------------------------------------------
\* GetHashTable(): indices begin with 0.
IsTableOf(config, index) ==
    /\ index < Len(hashTables)
    /\ hashTables[index + 1].name = KeyOf(config.name)
    /\ hashTables[index + 1].isCache = config.cache

\* What Add() has returned stays an index of the table that was asked for, and
\* the one that its name leads to in any case of letters, though calls that
\* threw may have left tables without a name behind (HashTableManager.h:75).
IndicesStayTrue ==
    \A g \in given : IsTableOf(g[1], g[2]) /\ nameToIndex[KeyOf(g[1].name)] = g[2]

HasMemory(table, memories) ==
    \E j \in DOMAIN memories :
        /\ memories[j].table = table
        /\ memories[j].setting.numBuckets > 0
        /\ memories[j].setting.numBucketsPerMutex > 0

\* The memory that a table works on is there as long as the table is, and has
\* a bucket and a mutex for each of its keys, which are found by a remainder.
MemoryIsKept ==
    \A i \in DOMAIN hashTables : HasMemory(hashTables[i].internal, internalHashTables)
===============================================================================

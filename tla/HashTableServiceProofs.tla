------------------------ MODULE HashTableServiceProofs ------------------------
(***************************************************************************)
(* No action runs on a destroyed table, for every set of records: the      *)
(* order in which the members of the service and of its epoch manager are  *)
(* destroyed stops the thread first.  And the index of a table stays       *)
(* right, whatever calls of Add() have thrown.                             *)
(***************************************************************************)
EXTENDS HashTableService, TLAPS

\* Only an iteration of the thread has collected actions; the queues go after
\* the thread, and the tables after the queues.
Inv ==
    /\ ServiceTypeOK
    /\ In("collected") # {} => runState = "core"
    /\ stopState = "joined" => runState = "exited"
    /\ ~actions => stopState = "joined"
    /\ ~tables => ~actions

LEMMA Init_Inv == Init => Inv
    BY DEF Init, ThreadInit, Inv, ServiceTypeOK, ThreadTypeOK, RecordStates, In

\* Putting some records elsewhere keeps the type of the others.
LEMMA PutTyped ==
    ASSUME ServiceTypeOK, NEW R, NEW s \in RecordStates, Put(R, s)
    PROVE  recordState' \in [Records -> RecordStates]
    BY DEF ServiceTypeOK, Put

LEMMA Next_Inv == Inv /\ [Next]_vars => Inv'
<1> SUFFICES ASSUME Inv, [Next]_vars PROVE Inv'
    OBVIOUS
<1> USE DEF Inv, threadVars, serviceVars, ThreadTypeOK
<1>1. CASE UNCHANGED vars
    BY <1>1 DEF vars, ServiceTypeOK, In
<1>2. ASSUME NEW r \in Records, Retire(r) PROVE Inv'
  <2>1. recordState' \in [Records -> RecordStates]
    BY <1>2, PutTyped DEF Retire, RecordStates
  <2>2. In("collected")' \subseteq In("collected")
    BY <1>2 DEF Retire, Put, In
  <2> QED
    BY <1>2, <2>1, <2>2 DEF Retire, ServiceTypeOK
<1>3. CASE Step
    BY <1>3 DEF Step, StoreTrue, Prepare, Exit, WakeUp, Go, ServiceTypeOK, In
<1>4. ASSUME NEW R \in SUBSET In("pending"), Collect(R) PROVE Inv'
  <2>1. recordState' \in [Records -> RecordStates]
    BY <1>4, PutTyped DEF Collect, RecordStates
  <2> QED
    BY <1>4, <2>1 DEF Collect, BeginCore, Go, ServiceTypeOK
<1>5. ASSUME NEW r \in Records, Perform(r) PROVE Inv'
  <2>1. recordState' \in [Records -> RecordStates]
    BY <1>5, PutTyped DEF Perform, RecordStates
  <2> QED
    BY <1>5, <2>1 DEF Perform, ServiceTypeOK
<1>6. CASE Return
    BY <1>6 DEF Return, EndCore, Go, ServiceTypeOK, In
<1>7. CASE BeginDestroy \/ JoinThread
    BY <1>7 DEF BeginDestroy, JoinThread, StoreFalse, Join, ServiceTypeOK, In
<1>8. CASE DestroyActions
  <2>1. recordState' \in [Records -> RecordStates]
    BY <1>8, PutTyped DEF DestroyActions, RecordStates
  <2>2. In("collected")' = {}
    BY <1>8 DEF DestroyActions, Put, In
  <2> QED
    BY <1>8, <2>1, <2>2 DEF DestroyActions, ServiceTypeOK
<1>10. CASE AddHashTable
    BY <1>10 DEF AddHashTable, serviceVars, ServiceTypeOK, In
<1>9. CASE DestroyTables
  <2>1. recordState' \in [Records -> RecordStates]
    BY <1>9, PutTyped DEF DestroyTables, RecordStates
  <2>2. In("collected")' = {}
    BY <1>9 DEF DestroyTables, Put, In
  <2> QED
    BY <1>9, <2>1, <2>2 DEF DestroyTables, ServiceTypeOK
<1> QED
    BY <1>1, <1>2, <1>3, <1>4, <1>5, <1>6, <1>7, <1>8, <1>9, <1>10
       DEF Next, Thread, Destroy, Terminated

\* The actions of a service never run on a table or out of a queue that was
\* destroyed (HashTableService.h:30-35, EpochManager.h:116-118).
THEOREM SafeShutdown == Spec => []ActionsRunOnLiveTables
<1>1. Inv => ActionsRunOnLiveTables
    BY DEF Inv, ActionsRunOnLiveTables
<1> QED
    BY <1>1, Init_Inv, Next_Inv, PTL DEF Spec

\* What is destroyed has given up its records: the tables what they link, the
\* queues what was pending.
LeakInv ==
    /\ ~actions => In("pending") = {}
    /\ ~tables => In("linked") = {}

LEMMA Next_LeakInv == Inv /\ LeakInv /\ [Next]_vars => LeakInv'
<1> SUFFICES ASSUME Inv, LeakInv, [Next]_vars PROVE LeakInv'
    OBVIOUS
<1> USE DEF Inv, LeakInv, In
<1>1. CASE UNCHANGED <<recordState, tables, actions>>
    BY <1>1
<1>2. ASSUME NEW r \in Records, Retire(r) \/ Perform(r) PROVE LeakInv'
    BY <1>2 DEF Retire, Perform, Put
<1>3. ASSUME NEW R \in SUBSET In("pending"), Collect(R) PROVE LeakInv'
    BY <1>3 DEF Collect, BeginCore, Go, Put
<1>4. CASE DestroyActions
    BY <1>4 DEF DestroyActions, Put
<1>5. CASE DestroyTables
    BY <1>5 DEF DestroyTables, Put
<1> QED
    BY <1>1, <1>2, <1>3, <1>4, <1>5
       DEF Next, vars, serviceVars, AddHashTable, Thread, Step, Return, BeginDestroy, Destroy,
           JoinThread, Terminated

\* The destructor frees each record through its table or through its action, but
\* for those whose actions were pending when the thread stopped: no order of its
\* steps loses another one (HashTableService.h:30-35).
THEOREM OthersAreFreed == Spec => []OnlyPendingLeaks
<1>1. Init => LeakInv
    BY DEF Init, LeakInv
<1>2. Inv /\ LeakInv => OnlyPendingLeaks
    BY DEF Inv, ServiceTypeOK, LeakInv, OnlyPendingLeaks, Destroyed, RecordStates, In
<1> QED
    BY <1>1, <1>2, Init_Inv, Next_Inv, Next_LeakInv, PTL DEF Spec

-------------------------------------------------------------------------------
(* The tables of the service.                                                *)

Addings == [state : {"table", "internal", "hashTable"}, config : Configs, table : Tables]

\* The name that is being added leads nowhere yet; the table that was added last
\* is the one that gets the name; and what it works on came before it.
ManagerInv ==
    /\ internalHashTables \in Seq(Memories)
    /\ hashTables \in Seq(HashTables)
    /\ nameToIndex \in [Names -> Nat \cup {Null}]
    /\ adding \in Addings \cup {Idle}
    /\ numTables \in 0 .. MaxTables
    /\ given \subseteq Configs \X Nat
    /\ IndicesStayTrue
    /\ MemoryIsKept
    /\ stopState # "alive" => adding = Idle
    /\ adding.state # "idle" => nameToIndex[KeyOf(adding.config.name)] = Null
    /\ adding.state = "internal" => HasMemory(adding.table, internalHashTables)
    /\ adding.state = "hashTable" =>
           /\ Len(hashTables) > 0
           /\ hashTables[Len(hashTables)].name = KeyOf(adding.config.name)
           /\ hashTables[Len(hashTables)].isCache = adding.config.cache

LEMMA Init_ManagerInv == Init => ManagerInv
    BY ManagerAssumption
       DEF Init, ThreadInit, ManagerInit, ManagerInv, IndicesStayTrue, MemoryIsKept, Idle

\* What Add() reads from a config (HashTable/Config.h:70-72).
LEMMA ConfigTyped ==
    ASSUME NEW c \in Configs
    PROVE  KeyOf(c.name) \in Names /\ c.cache \in BOOLEAN
    BY ManagerAssumption DEF IsConfig, KeyOf

\* The setting of a config that names no stream, or of the stream, is one that a
\* table can have (HashTableManager.h:53-60).
LEMMA SettingTyped ==
    ASSUME NEW c \in Configs
    PROVE  SettingOf(c) \in Settings
<1>1. IsConfig(c)
    BY ManagerAssumption
<1>2. CASE c.serializer = "stream"
    BY <1>2, ManagerAssumption DEF SettingOf
<1>3. CASE c.serializer # "stream"
  <2>1. c.setting.numBuckets \in Nat \ {0}
    BY <1>1, <1>3 DEF IsConfig
  <2>2. /\ c.setting.numBucketsPerMutex \in Options
        /\ c.setting.fixedKeySize \in Options /\ c.setting.fixedValueSize \in Options
    BY <1>1 DEF IsConfig
  <2>3. SettingOf(c) = Convert(c.setting)
    BY <1>3 DEF SettingOf
  <2> QED
    BY <2>1, <2>2, <2>3 DEF Convert, ValueOr, Options, Settings
<1> QED
    BY <1>2, <1>3

\* Each step of Add(), a step that throws, and the destructor keep the invariant.
LEMMA Next_ManagerInv == Inv /\ ManagerInv /\ [Next]_vars => ManagerInv'
<1> SUFFICES ASSUME Inv, ManagerInv, [Next]_vars PROVE ManagerInv'
    OBVIOUS
<1> USE DEF ManagerInv, Addings, Idle
<1>0. AddHashTable => stopState = "alive" /\ stopState' = "alive"
    BY DEF AddHashTable, threadVars
<1>1. ASSUME NEW c \in Configs, AddHashTable, MakeTable(c) PROVE ManagerInv'
  <2>1. numTables + 1 \in Tables /\ numTables' \in 0 .. MaxTables
    BY <1>1, ManagerAssumption DEF MakeTable, Tables
  <2>2. adding' = [state |-> "table", config |-> c, table |-> numTables + 1]
    BY <1>1 DEF MakeTable
  <2> QED
    BY <1>0, <1>1, <2>1, <2>2 DEF MakeTable, IsFree, IndicesStayTrue, IsTableOf, MemoryIsKept
<1>2. CASE AddHashTable /\ AddInternal
  <2>1. adding \in Addings /\ adding' = [adding EXCEPT !.state = "internal"]
    BY <1>2 DEF AddInternal
  <2> DEFINE new == [table |-> adding.table, setting |-> SettingOf(adding.config)]
  <2>5. new \in Memories /\ new.setting \in Settings
    BY <1>2, <2>1, SettingTyped DEF Memories
  <2>2. /\ internalHashTables' = Append(internalHashTables, new)
        /\ internalHashTables' \in Seq(Memories)
        /\ \A j \in DOMAIN internalHashTables : /\ j \in DOMAIN internalHashTables'
                                               /\ internalHashTables'[j] = internalHashTables[j]
        /\ Len(internalHashTables) + 1 \in DOMAIN internalHashTables'
        /\ internalHashTables'[Len(internalHashTables) + 1] = new
    BY <1>2, <2>1, <2>5 DEF AddInternal
  <2>6. HasMemory(adding.table, internalHashTables)'
    <3> DEFINE j == Len(internalHashTables) + 1
    <3>1. adding'.table = adding.table
      BY <2>1
    <3>2. j \in DOMAIN internalHashTables' /\ internalHashTables'[j] = new
      BY <2>2
    <3>3. new.setting.numBuckets > 0 /\ new.setting.numBucketsPerMutex > 0
      BY <2>5 DEF Settings
    <3> QED
      BY <3>1, <3>2, <3>3 DEF HasMemory
  <2>7. \A t : HasMemory(t, internalHashTables) => HasMemory(t, internalHashTables')
    BY <2>2, Zenon DEF HasMemory
  <2>3. MemoryIsKept'
    BY <1>2, <2>7, Zenon DEF AddInternal, MemoryIsKept
  <2>4. IndicesStayTrue'
    BY <1>2 DEF AddInternal, IndicesStayTrue, IsTableOf
  <2> QED
    BY <1>0, <1>2, <2>1, <2>2, <2>3, <2>4, <2>6 DEF AddInternal
<1>3. CASE AddHashTable /\ AddTable
  <2> DEFINE new == [name |-> KeyOf(adding.config.name), isCache |-> adding.config.cache,
                    internal |-> adding.table]
  <2>1. adding \in Addings /\ adding' = [adding EXCEPT !.state = "hashTable"]
    BY <1>3 DEF AddTable
  <2>7. new \in HashTables
    BY <2>1, ConfigTyped DEF HashTables
  <2>2. /\ hashTables' = Append(hashTables, new)
        /\ hashTables' \in Seq(HashTables)
        /\ Len(hashTables') = Len(hashTables) + 1 /\ Len(hashTables) \in Nat
        /\ \A i \in DOMAIN hashTables : hashTables'[i] = hashTables[i]
        /\ hashTables'[Len(hashTables')] = new
        /\ DOMAIN hashTables' = DOMAIN hashTables \cup {Len(hashTables')}
    BY <1>3, <2>7 DEF AddTable
  <2>5. UNCHANGED internalHashTables /\ new.internal = adding.table
    BY <1>3 DEF AddTable
  <2>6. HasMemory(adding.table, internalHashTables)
    BY <1>3 DEF AddTable
  <2>3. MemoryIsKept'
    <3> SUFFICES ASSUME NEW i \in DOMAIN hashTables'
                 PROVE  HasMemory(hashTables'[i].internal, internalHashTables)
      BY <2>5, Zenon DEF MemoryIsKept
    <3>1. CASE i \in DOMAIN hashTables
      <4>1. hashTables'[i] = hashTables[i]
        BY <2>2, <3>1
      <4> QED
        BY <3>1, <4>1, Zenon DEF MemoryIsKept
    <3>2. CASE i = Len(hashTables')
      BY <2>2, <2>5, <2>6, <3>2, Zenon
    <3> QED
      BY <2>2, <3>1, <3>2
  <2>4. IndicesStayTrue'
    BY <1>3, <2>2 DEF AddTable, IndicesStayTrue, IsTableOf
  <2> QED
    <3>1. adding'.config = adding.config /\ adding'.state = "hashTable" /\ adding' \in Addings
      BY <2>1
    <3>5. Len(hashTables') > 0
      BY <2>2
    <3>2. /\ hashTables'[Len(hashTables')].name = KeyOf(adding'.config.name)
          /\ hashTables'[Len(hashTables')].isCache = adding'.config.cache
      BY <2>2, <3>1
    <3>3. UNCHANGED <<internalHashTables, nameToIndex, numTables, given>>
      BY <1>3 DEF AddTable
    <3>4. nameToIndex'[KeyOf(adding'.config.name)] = Null
      BY <1>3, <3>1, <3>3 DEF AddTable
    <3>6. stopState' = "alive"
      BY <1>0, <1>3
    <3> QED
      BY <2>2, <2>3, <2>4, <3>1, <3>2, <3>3, <3>4, <3>5, <3>6
<1>4. CASE AddHashTable /\ AddName
  <2>1. adding \in Addings /\ adding' = Idle
    BY <1>4 DEF AddName
  <2>2. NewIndex \in Nat /\ IsTableOf(adding.config, NewIndex)
    BY <1>4 DEF AddName, NewIndex, IsTableOf
  <2>3. /\ nameToIndex' = [nameToIndex EXCEPT ![KeyOf(adding.config.name)] = NewIndex]
        /\ given' = given \cup {<<adding.config, NewIndex>>}
        /\ UNCHANGED <<internalHashTables, hashTables, numTables>>
    BY <1>4 DEF AddName
  <2>4. \A g \in given : KeyOf(g[1].name) # KeyOf(adding.config.name)
    BY <1>4, ManagerAssumption DEF AddName, IndicesStayTrue
  <2>5. IndicesStayTrue'
    <3>1. KeyOf(adding.config.name) \in Names
      BY <2>1, ConfigTyped
    <3>2. \A g \in given : KeyOf(g[1].name) \in Names /\ g \in Configs \X Nat
      BY ConfigTyped
    <3>3. nameToIndex'[KeyOf(adding.config.name)] = NewIndex
      BY <2>3, <3>1
    <3>4. \A g \in given : nameToIndex'[KeyOf(g[1].name)] = g[2] /\ IsTableOf(g[1], g[2])'
      BY <2>3, <2>4, <3>2 DEF IndicesStayTrue, IsTableOf
    <3> QED
      BY <2>2, <2>3, <3>3, <3>4 DEF IndicesStayTrue, IsTableOf
  <2>6. MemoryIsKept'
    BY <2>3 DEF MemoryIsKept, HasMemory
  <2> QED
    <3>1. given' \subseteq Configs \X Nat
      BY <2>1, <2>2, <2>3
    <3>2. nameToIndex' \in [Names -> Nat \cup {Null}]
      BY <2>2, <2>3
    <3>3. adding'.state = "idle" /\ adding' = Idle
      BY <2>1
    <3> QED
      BY <1>0, <2>3, <2>5, <2>6, <3>1, <3>2, <3>3
<1>5. CASE AddHashTable /\ Throw
    BY <1>0, <1>5 DEF Throw, IndicesStayTrue, IsTableOf, MemoryIsKept
<1>6. CASE DestroyTables
  <2>1. internalHashTables' = <<>> /\ hashTables' = <<>> /\ given' = {}
    BY <1>6 DEF DestroyTables, DestroyManager
  <2>2. IndicesStayTrue' /\ MemoryIsKept'
    BY <2>1 DEF IndicesStayTrue, MemoryIsKept
  <2>3. adding = Idle
    BY <1>6 DEF Inv, DestroyTables
  <2> QED
    BY <1>6, <2>1, <2>2, <2>3 DEF DestroyTables, DestroyManager, threadVars
<1>7. CASE UNCHANGED managerVars /\ (stopState' # "alive" => stopState # "alive" \/ adding = Idle)
    BY <1>7 DEF managerVars, IndicesStayTrue, IsTableOf, MemoryIsKept
<1> HIDE DEF ManagerInv, Addings, Idle
<1> QED
    BY <1>1, <1>2, <1>3, <1>4, <1>5, <1>6, <1>7
       DEF Next, vars, threadVars, AddHashTable, ManagerNext, Retire, Thread, Step, StoreTrue, Prepare,
           Exit, WakeUp, Collect, BeginCore, Perform, Return, EndCore, BeginDestroy, StoreFalse,
           Destroy, JoinThread, Join, DestroyActions, Terminated

\* GetHashTable() with an index that Add() has returned finds the table of that
\* name, though other calls of Add() threw in between (HashTableManager.h:72-80).
THEOREM TrueIndices == Spec => []IndicesStayTrue
<1>1. ManagerInv => IndicesStayTrue
    BY DEF ManagerInv
<1> QED
    BY <1>1, Init_Inv, Next_Inv, Init_ManagerInv, Next_ManagerInv, PTL DEF Spec

\* A table that can be found has its memory (HashTableManager.h:72-73).
THEOREM KeptMemory == Spec => []MemoryIsKept
<1>1. ManagerInv => MemoryIsKept
    BY DEF ManagerInv
<1> QED
    BY <1>1, Init_Inv, Next_Inv, Init_ManagerInv, Next_ManagerInv, PTL DEF Spec
===============================================================================

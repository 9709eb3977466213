----------------------------- MODULE EpochManager -----------------------------
(***************************************************************************)
(* Epoch based reclamation in L4: EpochManager                             *)
(* (inc/L4/LocalMemory/EpochManager.h) with its queue (module EpochQueue), *)
(* its EpochActionManager (src/EpochActionManager.cpp), its processing     *)
(* thread, and the clients: readers, which look records up in a hash table *)
(* through a context, and writers, which unlink a record from a hash table *)
(* and register the action that frees it.                                  *)
(*                                                                         *)
(* A record is a place in memory.  A table links it, a writer unlinks it   *)
(* and its memory can be used again once the registered action has run.    *)
(***************************************************************************)
EXTENDS EpochQueue, Math

CONSTANTS
    Writers,          \* threads inside Add() or Remove() of a hash table
    Records,          \* places for records
    NoRecord,         \* nullptr
    ConfiguredQueues, \* EpochManagerConfig::m_numActionQueues
    HardwareConcurrency, \* std::thread::hardware_concurrency()
    LockPrefersWriters, \* whether a waiting exclusive owner keeps others out
    MaxEpoch          \* bound: the processing thread adds no epoch beyond it

ASSUME QueuesAssumption == ConfiguredQueues \in 0 .. 255 /\ HardwareConcurrency \in Nat

\* m_epochToActionsList.size(): the constructor of EpochActionManager rounds it
\* up to a power of two, in 16 bits.
NumActionQueues ==
    LET wanted == IF ConfiguredQueues = 0 THEN HardwareConcurrency % 2 ^ 16 ELSE ConfiguredQueues
    IN  NextHighestPowerOfTwo(wanted) % 2 ^ 16

\* Its assertion, which fails where no number is configured and that of the
\* hardware is not known, which is 0.  It makes a bit mask a remainder.
ASSUME NumActionQueuesAssumption ==
    NumActionQueues \in Nat \ {0} /\ IsPowerOfTwo(NumActionQueues)

ASSUME NoRecordAssumption == NoRecord \notin Records

\* ReaderWriterLockSlim is an SRW lock, which queues what comes after an
\* exclusive waiter, or a default pthread_rwlock_t, which does not (Lock.h:39,85).
ASSUME LockPrefersWritersAssumption == LockPrefersWriters \in BOOLEAN

ASSUME MaxEpochAssumption == MaxEpoch \in Nat

VARIABLES
    recordState,     \* "free", "linked" in a table, or "unlinked" from it
    pointers,        \* the records each context has got from Get()
    writerState,     \* where each writer is in ReleaseRecord()
    writerRecord,    \* the record it releases
    writerEpoch,     \* the value of m_currentEpochCounter it passed on
    writerQueue,     \* the queue it chose
    currentEpoch,    \* m_currentEpochCounter
    queueCounter,    \* m_counter, modulo the number of queues
    epochToActions,  \* m_epochToActionsList: queue -> set of actions
    threadState,     \* where the processing thread is in its iteration
    nextQueue,       \* the queue it visits next in PerformActions()
    actionsToPerform,\* the actions collected and not yet performed
    numActions,      \* actionsToPerform.size(), as PerformActions() returns it
    perfData         \* the ServerPerfData counters of the epoch manager

recordVars == <<recordState, pointers>>
writerVars == <<writerState, writerRecord, writerEpoch, writerQueue>>
actionVars == <<queueCounter, epochToActions>>
threadVars == <<threadState, nextQueue, actionsToPerform, numActions>>
vars == <<queueVars, contextVars, recordVars, writerVars, currentEpoch,
          actionVars, threadVars, perfData>>

ActionQueues == 0 .. NumActionQueues - 1

\* A registered action: it frees the record, and is kept under an epoch.
Actions == [epoch : Nat, record : Records]

TypeOK ==
    /\ QueueTypeOK
    /\ recordState \in [Records -> {"free", "linked", "unlinked"}]
    /\ pointers \in [Contexts -> SUBSET Records]
    /\ writerState \in [Writers -> {"idle", "load", "choose", "insert", "count"}]
    /\ writerRecord \in [Writers -> Records \cup {NoRecord}]
    /\ writerEpoch \in [Writers -> Nat]
    /\ writerQueue \in [Writers -> ActionQueues]
    /\ currentEpoch \in Nat
    /\ queueCounter \in ActionQueues
    /\ epochToActions \in [ActionQueues -> SUBSET Actions]
    /\ threadState \in {"scan", "collect", "apply", "add", "addNewEpoch"}
    /\ nextQueue \in 0 .. NumActionQueues
    /\ actionsToPerform \subseteq Actions
    /\ numActions \in Nat
    /\ perfData \in [pending : Int, lastPerformed : Nat, oldest : Nat, latest : Nat]

Init ==
    /\ QueueInit
    /\ recordState = [r \in Records |-> "free"]
    /\ pointers = [c \in Contexts |-> {}]
    /\ writerState = [w \in Writers |-> "idle"]
    /\ writerRecord = [w \in Writers |-> NoRecord]
    /\ writerEpoch = [w \in Writers |-> 0]
    /\ writerQueue = [w \in Writers |-> 0]
    /\ currentEpoch = 0
    /\ queueCounter = 0
    /\ epochToActions = [q \in ActionQueues |-> {}]
    /\ threadState = "scan"
    /\ nextQueue = 0
    /\ actionsToPerform = {}
    /\ numActions = 0
    /\ perfData = [pending |-> 0, lastPerformed |-> 0, oldest |-> 0, latest |-> 0]

-------------------------------------------------------------------------------
(* Clients: readers and the contexts they look records up through.           *)

\* An SRW lock, not a default pthread_rwlock_t, keeps them out while the
\* processing thread waits for it.
KeepsOut == LockPrefersWriters /\ threadState = "addNewEpoch"

Construct(c) ==
    /\ \/ BeginAddRef(c) /\ ~KeepsOut
       \/ EndAddRef(c)
    /\ UNCHANGED <<recordVars, writerVars, currentEpoch, actionVars, threadVars, perfData>>

\* Get() through an open context returns a pointer into a linked record.
Get(c, r) ==
    /\ contextState[c] = "open"
    /\ contextEpoch[c] # MovedFrom
    /\ recordState[r] = "linked"
    /\ pointers' = [pointers EXCEPT ![c] = @ \cup {r}]
    /\ UNCHANGED <<queueVars, contextVars, recordState, writerVars, currentEpoch,
                   actionVars, threadVars, perfData>>

\* The pointers stay valid through the context that the source moved into.
Move(c, d) ==
    /\ MoveContext(c, d)
    /\ pointers' = [pointers EXCEPT ![d] = pointers[c], ![c] = {}]
    /\ UNCHANGED <<recordState, writerVars, currentEpoch, actionVars, threadVars, perfData>>

\* A client does not use its pointers once it destroys the context.
Destroy(c) ==
    /\ \/ DestroyMovedFrom(c)
       \/ CheckRef(c)
       \/ DropRef(c)
    /\ pointers' = [pointers EXCEPT ![c] = {}]
    /\ UNCHANGED <<recordState, writerVars, currentEpoch, actionVars, threadVars, perfData>>

-------------------------------------------------------------------------------
(* Clients: writers.                                                         *)

\* A writer allocates a record and stores it in a table.
Link(r) ==
    /\ recordState[r] = "free"
    /\ recordState' = [recordState EXCEPT ![r] = "linked"]
    /\ UNCHANGED <<queueVars, contextVars, pointers, writerVars, currentEpoch,
                   actionVars, threadVars, perfData>>

\* UpdateRecord() took the record out of the table and ReleaseRecord() has
\* called RegisterAction().
Unlink(w, r) ==
    /\ writerState[w] = "idle"
    /\ recordState[r] = "linked"
    /\ recordState' = [recordState EXCEPT ![r] = "unlinked"]
    /\ writerRecord' = [writerRecord EXCEPT ![w] = r]
    /\ writerState' = [writerState EXCEPT ![w] = "load"]
    /\ UNCHANGED <<queueVars, contextVars, pointers, writerEpoch, writerQueue,
                   currentEpoch, actionVars, threadVars, perfData>>

\* EpochManager::RegisterAction() loads the current epoch for its callee.
LoadEpoch(w) ==
    /\ writerState[w] = "load"
    /\ writerEpoch' = [writerEpoch EXCEPT ![w] = currentEpoch]
    /\ writerState' = [writerState EXCEPT ![w] = "choose"]
    /\ UNCHANGED <<queueVars, contextVars, recordVars, writerRecord, writerQueue,
                   currentEpoch, actionVars, threadVars, perfData>>

\* Mistake: the counter is not masked.
QueueAfter_Unmasked(q) == q + 1

\* ++m_counter & (m_epochToActionsList.size() - 1)
QueueAfter(q) == (q + 1) % NumActionQueues

\* EpochActionManager::RegisterAction() chooses the queues in turn.
ChooseQueue(w) ==
    /\ writerState[w] = "choose"
    /\ queueCounter' = QueueAfter(queueCounter)
    /\ writerQueue' = [writerQueue EXCEPT ![w] = queueCounter']
    /\ writerState' = [writerState EXCEPT ![w] = "insert"]
    /\ UNCHANGED <<queueVars, contextVars, recordVars, writerRecord, writerEpoch,
                   currentEpoch, epochToActions, threadVars, perfData>>

\* It adds the action, under the lock of the queue.
InsertAction(w) ==
    /\ writerState[w] = "insert"
    /\ epochToActions' = [epochToActions EXCEPT ![writerQueue[w]] =
           @ \cup {[epoch |-> writerEpoch[w], record |-> writerRecord[w]]}]
    /\ writerState' = [writerState EXCEPT ![w] = "count"]
    /\ writerRecord' = [writerRecord EXCEPT ![w] = NoRecord]
    /\ writerEpoch' = [writerEpoch EXCEPT ![w] = 0]
    /\ writerQueue' = [writerQueue EXCEPT ![w] = 0]
    /\ UNCHANGED <<queueVars, contextVars, recordVars, currentEpoch, queueCounter,
                   threadVars, perfData>>

\* Back in EpochManager::RegisterAction(): the counter follows the insertion.
CountPending(w) ==
    /\ writerState[w] = "count"
    /\ perfData' = [perfData EXCEPT !.pending = @ + 1]
    /\ writerState' = [writerState EXCEPT ![w] = "idle"]
    /\ UNCHANGED <<queueVars, contextVars, recordVars, writerRecord, writerEpoch,
                   writerQueue, currentEpoch, actionVars, threadVars>>

-------------------------------------------------------------------------------
(* The processing thread repeats Remove(), Add().                            *)

\* Remove(): one step of RemoveUnreferenceEpochCounters().  m_frontIndex is
\* the thread's own, so it stays the oldest epoch counter of this iteration.
Scan ==
    /\ threadState = "scan"
    /\ \/ RemoveFront /\ UNCHANGED threadState
       \/ /\ ~FrontIsUnreferenced
          /\ threadState' = "collect"
          /\ UNCHANGED <<queueVars, contextVars>>
    /\ UNCHANGED <<recordVars, writerVars, currentEpoch, actionVars, nextQueue,
                   actionsToPerform, numActions, perfData>>

\* Mistake: upper_bound() instead of lower_bound().
Expired_Inclusive(q) == {a \in epochToActions[q] : a.epoch <= frontIndex}

\* The actions of a queue before lower_bound(epochCounter), the oldest epoch.
Expired(q) == {a \in epochToActions[q] : a.epoch < frontIndex}

\* Mistake: nothing is erased.
Kept_All(q) == epochToActions[q]

\* What erase() leaves in a queue.
Kept(q) == epochToActions[q] \ Expired(q)

\* Mistake: only the last queue is counted.
NumCollected_LastQueue(q) == Cardinality(Expired(q))

\* actionsToPerform.size() after the queue.
NumCollected(q) == numActions + Cardinality(Expired(q))

\* PerformActions(): visits one queue, under its lock.
Collect ==
    /\ threadState = "collect"
    /\ nextQueue < NumActionQueues
    /\ actionsToPerform' = actionsToPerform \cup Expired(nextQueue)
    /\ numActions' = NumCollected(nextQueue)
    /\ epochToActions' = [epochToActions EXCEPT ![nextQueue] = Kept(nextQueue)]
    /\ nextQueue' = nextQueue + 1
    /\ threadState' = IF nextQueue' = NumActionQueues THEN "apply" ELSE "collect"
    /\ UNCHANGED <<queueVars, contextVars, recordVars, writerVars, currentEpoch,
                   queueCounter, perfData>>

\* ApplyActions(): performs one action; ReleaseRecord()'s action frees.
Apply(a) ==
    /\ threadState = "apply"
    /\ a \in actionsToPerform
    /\ actionsToPerform' = actionsToPerform \ {a}
    /\ recordState' = [recordState EXCEPT ![a.record] = "free"]
    /\ UNCHANGED <<queueVars, contextVars, pointers, writerVars, currentEpoch,
                   actionVars, threadState, nextQueue, numActions, perfData>>

\* Remove() ends with the performance counters.
UpdatePerfData ==
    /\ threadState = "apply"
    /\ actionsToPerform = {}
    /\ perfData' = [pending |-> perfData.pending - numActions,
                    lastPerformed |-> numActions,
                    oldest |-> frontIndex,
                    latest |-> currentEpoch]
    /\ numActions' = 0
    /\ nextQueue' = 0
    /\ threadState' = "add"
    /\ UNCHANGED <<queueVars, contextVars, recordVars, writerVars, currentEpoch,
                   actionVars, actionsToPerform>>

\* Add(): the global counter first, then the queue.  At the bound of the model
\* the thread goes on without adding epochs.
IncrementCurrentEpoch ==
    /\ threadState = "add"
    /\ IF currentEpoch < MaxEpoch
       THEN currentEpoch' = currentEpoch + 1 /\ threadState' = "addNewEpoch"
       ELSE UNCHANGED currentEpoch /\ threadState' = "scan"
    /\ UNCHANGED <<queueVars, contextVars, recordVars, writerVars, actionVars,
                   nextQueue, actionsToPerform, numActions, perfData>>

EnqueueEpoch ==
    /\ threadState = "addNewEpoch"
    /\ AddNewEpoch
    /\ threadState' = "scan"
    /\ UNCHANGED <<recordVars, writerVars, currentEpoch, actionVars, nextQueue,
                   actionsToPerform, numActions, perfData>>

Remove ==
    \/ Scan
    \/ Collect
    \/ \E a \in actionsToPerform : Apply(a)
    \/ UpdatePerfData

\* Mistake: the queue first, then the global counter.
Add_QueueFirst ==
    /\ \/ /\ threadState = "add" /\ currentEpoch < MaxEpoch
          /\ AddNewEpoch
          /\ threadState' = "addNewEpoch"
          /\ UNCHANGED currentEpoch
       \/ /\ threadState = "addNewEpoch"
          /\ currentEpoch' = currentEpoch + 1
          /\ threadState' = "scan"
          /\ UNCHANGED <<queueVars, contextVars>>
    /\ UNCHANGED <<recordVars, writerVars, actionVars, nextQueue, actionsToPerform,
                   numActions, perfData>>

Add == IncrementCurrentEpoch \/ EnqueueEpoch

-------------------------------------------------------------------------------
Reader(c) ==
    \/ Construct(c)
    \/ Destroy(c)
    \/ \E r \in Records : Get(c, r)
    \/ \E d \in Contexts : Move(c, d)

Register(w) == LoadEpoch(w) \/ ChooseQueue(w) \/ InsertAction(w) \/ CountPending(w)

Next ==
    \/ \E c \in Contexts : Reader(c)
    \/ \E r \in Records : Link(r)
    \/ \E w \in Writers : Register(w) \/ \E r \in Records : Unlink(w, r)
    \/ Remove
    \/ Add

Spec == Init /\ [][Next]_vars

\* A thread that is inside a call goes on with it, and every reference to an
\* epoch is released in the end, however often its context is moved.
Fairness ==
    /\ WF_vars(Remove)
    /\ WF_vars(Add)
    /\ \A w \in Writers : WF_vars(Register(w))
    /\ \A c \in Contexts : WF_vars(contextState[c] = "counted" /\ Construct(c))
    /\ \A e \in 0 .. MaxEpoch :
           WF_vars(\E c \in Contexts : contextEpoch[c] = e /\ Destroy(c))

FairSpec == Spec /\ Fairness

-------------------------------------------------------------------------------
(* Properties.                                                               *)

\* The memory of a record is not reused while a context that got a pointer to
\* it from Get() is alive: the promise of the epochs (HashTable.h:52-55).
NoUseAfterFree ==
    \A c \in Contexts : \A r \in pointers[c] : recordState[r] # "free"

\* The epochs implement the promise of module Reclamation: every step of every
\* thread is a step of it, or changes neither the records nor the pointers.
Promise == INSTANCE Reclamation
ImplementsReclamation == Promise!Spec

RegisteredActions == UNION {epochToActions[q] : q \in ActionQueues}

\* An action is never kept under an epoch older than a reference to its
\* record, though the epoch was loaded before the action was registered.
ActionsAreNotStale ==
    \A c \in Contexts : \A r \in pointers[c] :
        /\ \A a \in RegisteredActions \cup actionsToPerform : 
               a.record = r => EpochOf(c) <= a.epoch
        /\ \A w \in Writers : writerState[w] \in {"choose", "insert"} /\ writerRecord[w] = r
                                  => EpochOf(c) <= writerEpoch[w]

\* PendingActionsCount lags behind the queues by what the writers and the
\* processing thread have still to report, and by nothing else.
PendingCountIsExact ==
    perfData.pending = Cardinality(RegisteredActions) + numActions
                           - Cardinality({w \in Writers : writerState[w] = "count"})

\* A record has one owner: its memory is never registered, or freed, twice.
OneOwner ==
    \A r \in Records :
        Cardinality({w \in Writers : writerRecord[w] = r})
          + Cardinality({x \in ActionQueues \X RegisteredActions :
                             x[2] \in epochToActions[x[1]] /\ x[2].record = r})
          + Cardinality({a \in actionsToPerform : a.record = r})
        = IF recordState[r] = "unlinked" THEN 1 ELSE 0

\* An action that was registered under an epoch of the model that ends is
\* performed, and its memory becomes free: Remove() reaches every queue.
RegisteredActionsArePerformed ==
    \A r \in Records :
        (\E a \in RegisteredActions : a.record = r /\ a.epoch < MaxEpoch)
            ~> (recordState[r] = "free")
===============================================================================

------------------------------ MODULE EpochQueue ------------------------------
(***************************************************************************)
(* The epoch queue of L4 (inc/L4/Epoch/EpochQueue.h) and the contexts that *)
(* hold references into it (inc/L4/Epoch/EpochRefPolicy.h).                *)
(*                                                                         *)
(* The queue is a ring of reference counts.  A context is a client object  *)
(* that, while it is alive, keeps one reference on the epoch that was the  *)
(* newest when it was constructed; the single processing thread moves      *)
(* m_frontIndex over the epochs that nobody references and m_backIndex to  *)
(* a new epoch.  This module has the state of the queue, the steps of the  *)
(* contexts, and the effect of each step of the processing thread; the     *)
(* thread itself is in module EpochManager.                                *)
(*                                                                         *)
(* Memory is sequentially consistent here; a critical section is one step  *)
(* when it touches shared state once, and several when it does so more.    *)
(***************************************************************************)
EXTENDS Integers, FiniteSets

CONSTANTS
    Contexts,   \* the places (stack slots) a client can keep a Context in
    QueueSize   \* m_refCounts.size(), EpochManagerConfig::m_epochQueueSize

\* The constructor throws on a queue of size zero (EpochQueue.h:33).
ASSUME QueueSizeAssumption == QueueSize \in Nat \ {0}

ASSUME ContextsAssumption == IsFiniteSet(Contexts)

VARIABLES
    frontIndex,    \* m_frontIndex
    backIndex,     \* m_backIndex
    refCounts,     \* m_refCounts
    sharedLock,    \* contexts inside m_mutexForBackIndex, in shared mode
    contextState,  \* where each context is in its life
    contextEpoch   \* EpochRefPolicy::m_epochCounter of each context

queueVars == <<frontIndex, backIndex, refCounts, sharedLock>>
contextVars == <<contextState, contextEpoch>>

Slots == 0 .. QueueSize - 1

Slot(epoch) == epoch % QueueSize

\* boost::integer_traits<uint64_t>::const_max, the epoch of a context that was
\* moved from: a value that no epoch counter takes.
MovedFrom == -1

\* "none": not constructed; "counted": AddRef() has counted it and still holds
\* the lock; "open": constructed; "checked": RemoveRef() found a positive
\* count and has not decremented it yet; "terminated": RemoveRef() threw out
\* of the destructor.
ContextStates == {"none", "counted", "open", "checked", "terminated"}

QueueTypeOK ==
    /\ frontIndex \in Nat
    /\ backIndex \in Nat
    /\ refCounts \in [Slots -> Nat]
    /\ sharedLock \subseteq Contexts
    /\ contextState \in [Contexts -> ContextStates]
    /\ contextEpoch \in [Contexts -> Nat \cup {MovedFrom}]

QueueInit ==
    /\ frontIndex = 0
    /\ backIndex = 0
    /\ refCounts = [s \in Slots |-> 0]
    /\ sharedLock = {}
    /\ contextState = [c \in Contexts |-> "none"]
    /\ contextEpoch = [c \in Contexts |-> MovedFrom]

-------------------------------------------------------------------------------
(* m_mutexForBackIndex, a ReaderWriterLockSlim.  Its exclusive owner is in and *)
(* out again within a step.                                                  *)

LockShared(c) == sharedLock' = sharedLock \cup {c}
UnlockShared(c) == sharedLock' = sharedLock \ {c}
CanLock == sharedLock = {}

-------------------------------------------------------------------------------
(* Construction of a context: EpochRefManager::AddRef() in the constructor.  *)

\* Takes the lock in shared mode and counts the context in the slot of the
\* newest epoch.
BeginAddRef(c) ==
    /\ contextState[c] = "none"
    /\ LockShared(c)
    /\ refCounts' = [refCounts EXCEPT ![Slot(backIndex)] = @ + 1]
    /\ contextState' = [contextState EXCEPT ![c] = "counted"]
    /\ UNCHANGED <<frontIndex, backIndex, contextEpoch>>

\* Reads m_backIndex a second time, for the return value, and unlocks.
EndAddRef(c) ==
    /\ contextState[c] = "counted"
    /\ contextEpoch' = [contextEpoch EXCEPT ![c] = backIndex]
    /\ contextState' = [contextState EXCEPT ![c] = "open"]
    /\ UnlockShared(c)
    /\ UNCHANGED <<frontIndex, backIndex, refCounts>>

\* The move constructor of d from c: the source keeps the sentinel.
MoveContext(c, d) ==
    /\ contextState[c] = "open"
    /\ contextState[d] = "none"
    /\ contextEpoch' = [contextEpoch EXCEPT ![d] = contextEpoch[c],
                                            ![c] = MovedFrom]
    /\ contextState' = [contextState EXCEPT ![d] = "open"]
    /\ UNCHANGED queueVars

(* Destruction of a context: EpochRefManager::RemoveRef().                   *)

\* Mistake: the destructor releases nothing, whatever the context holds.
DestroyMovedFrom_Any(c) ==
    /\ contextState[c] = "open"
    /\ contextState' = [contextState EXCEPT ![c] = "none"]
    /\ UNCHANGED <<queueVars, contextEpoch>>

\* The destructor of a context that was moved from has nothing to release.
DestroyMovedFrom(c) ==
    /\ contextState[c] = "open"
    /\ contextEpoch[c] = MovedFrom
    /\ contextState' = [contextState EXCEPT ![c] = "none"]
    /\ UNCHANGED <<queueVars, contextEpoch>>

\* The check of RemoveRef(); its exception leaves a noexcept destructor.
CheckRef(c) ==
    /\ contextState[c] = "open"
    /\ contextEpoch[c] # MovedFrom
    /\ contextState' = [contextState EXCEPT
           ![c] = IF refCounts[Slot(contextEpoch[c])] = 0
                  THEN "terminated" ELSE "checked"]
    /\ UNCHANGED <<queueVars, contextEpoch>>

\* The decrement of RemoveRef(), separate from the check.
DropRef(c) ==
    /\ contextState[c] = "checked"
    /\ refCounts' = [refCounts EXCEPT ![Slot(contextEpoch[c])] = @ - 1]
    /\ contextState' = [contextState EXCEPT ![c] = "none"]
    /\ contextEpoch' = [contextEpoch EXCEPT ![c] = MovedFrom]
    /\ UNCHANGED <<frontIndex, backIndex, sharedLock>>

-------------------------------------------------------------------------------
(* EpochCounterManager: the steps of the processing thread.                  *)

\* Mistake: the loop goes on to the newest epoch itself.
FrontIsUnreferenced_UpToBack ==
    /\ backIndex >= frontIndex
    /\ refCounts[Slot(frontIndex)] = 0

\* The loop of RemoveUnreferenceEpochCounters() goes on at m_frontIndex.
FrontIsUnreferenced ==
    /\ backIndex > frontIndex
    /\ refCounts[Slot(frontIndex)] = 0

\* One iteration of that loop.
RemoveFront ==
    /\ FrontIsUnreferenced
    /\ frontIndex' = frontIndex + 1
    /\ UNCHANGED <<backIndex, refCounts, sharedLock, contextVars>>

\* Mistake: the lock is shared here too.
AddNewEpoch_SharedLock ==
    /\ backIndex' = backIndex + 1
    /\ UNCHANGED <<frontIndex, refCounts, sharedLock, contextVars>>

\* AddNewEpoch(): the lock is exclusive, so no context is inside AddRef().
AddNewEpoch ==
    /\ CanLock
    /\ backIndex' = backIndex + 1
    /\ UNCHANGED <<frontIndex, refCounts, sharedLock, contextVars>>

QueueNext ==
    \/ \E c \in Contexts :
           \/ BeginAddRef(c) \/ EndAddRef(c)
           \/ DestroyMovedFrom(c) \/ CheckRef(c) \/ DropRef(c)
           \/ \E d \in Contexts : MoveContext(c, d)
    \/ RemoveFront
    \/ AddNewEpoch

-------------------------------------------------------------------------------
\* The contexts that hold a reference, and the epoch each of them holds: until
\* AddRef() returns, m_backIndex cannot change under the shared lock.
Holders == {c \in Contexts : \/ contextState[c] \in {"counted", "checked"}
                             \/ contextState[c] = "open" /\ contextEpoch[c] # MovedFrom}

EpochOf(c) == IF contextState[c] = "counted" THEN backIndex ELSE contextEpoch[c]

HoldersAt(s) == {c \in Holders : Slot(EpochOf(c)) = s}

(* Properties.                                                               *)

\* m_refCounts counts exactly the live references, so that no interleaving of
\* the check and the decrement of RemoveRef() throws "Reference counter is
\* invalid." or wraps, and moving a context neither loses nor doubles one.
RefCountsAreExact ==
    /\ \A s \in Slots : refCounts[s] = Cardinality(HoldersAt(s))
    /\ \A c \in Contexts : contextState[c] # "terminated"

\* The scan never passes a referenced epoch, whatever the slots alias.
FrontBehindHolders ==
    \A c \in Holders : frontIndex <= EpochOf(c) /\ EpochOf(c) <= backIndex

\* As long as the epochs in the queue do not wrap around the ring, it is a
\* context that holds the front epoch itself that keeps the front where it is;
\* beyond, an epoch of the same slot can (the TODO of AddNewEpoch()).
FrontWaitsForItsHolder ==
    backIndex - frontIndex < QueueSize /\ refCounts[Slot(frontIndex)] > 0
        => \E c \in Holders : EpochOf(c) = frontIndex
===============================================================================

-------------------------- MODULE EpochManagerProofs --------------------------
(***************************************************************************)
(* No record is freed while a context has a pointer to it, an unlinked     *)
(* record has exactly one owner, and the counter of pending actions misses *)
(* only what is still to be reported: for all sets of contexts, writers    *)
(* and records, every size of the ring and every number of action queues.  *)
(***************************************************************************)
EXTENDS EpochManager, FiniteSetTheorems, TLAPS

-------------------------------------------------------------------------------
(* The steps of the queue alone: the reference counts are exact and the front  *)
(* never passes a referenced epoch.                                            *)

\* The inductive invariant: the counts fix the front, the lock fixes the back
\* for a context inside AddRef().
QueueInv ==
    /\ QueueTypeOK
    /\ frontIndex <= backIndex
    /\ \A c \in Contexts : contextState[c] = "counted" => c \in sharedLock
    /\ \A c \in Contexts : contextState[c] = "checked" => contextEpoch[c] # MovedFrom
    /\ FrontBehindHolders
    /\ RefCountsAreExact

-------------------------------------------------------------------------------
\* Every epoch has a slot in the ring.
LEMMA SlotInRing == \A e \in Nat : Slot(e) \in Slots
    BY QueueSizeAssumption DEF Slot, Slots

\* A holder holds an epoch, not the sentinel.
LEMMA HoldersHoldEpochs ==
    ASSUME QueueInv
    PROVE  \A c \in Holders : c \in Contexts /\ EpochOf(c) \in Nat
    BY DEF QueueInv, QueueTypeOK, Holders, EpochOf

LEMMA HoldersFinite ==
    \A s : IsFiniteSet(HoldersAt(s)) /\ HoldersAt(s) \subseteq Contexts
<1>1. \A s : HoldersAt(s) \subseteq Contexts
    BY DEF HoldersAt, Holders
<1> QED
    BY <1>1, ContextsAssumption, FS_Subset

LEMMA QueueInit_Inv == QueueInit => QueueInv
<1> SUFFICES ASSUME QueueInit PROVE QueueInv
    OBVIOUS
<1>1. Holders = {}
    BY DEF QueueInit, Holders
<1>2. \A s \in Slots : HoldersAt(s) = {}
    BY <1>1 DEF HoldersAt
<1>3. RefCountsAreExact
    BY <1>2, FS_EmptySet DEF QueueInit, RefCountsAreExact
<1>4. FrontBehindHolders
    BY <1>1 DEF FrontBehindHolders
<1> QED
    BY <1>3, <1>4 DEF QueueInv, QueueTypeOK, QueueInit, ContextStates

\* Where a context joins the holders of a slot, its count grows by one.
LEMMA CountAdded ==
    ASSUME NEW s \in Slots, NEW c \in Contexts, c \notin HoldersAt(s),
           HoldersAt(s)' = HoldersAt(s) \cup {c},
           refCounts[s] = Cardinality(HoldersAt(s)),
           refCounts'[s] = refCounts[s] + 1
    PROVE  refCounts'[s] = Cardinality(HoldersAt(s)')
    BY HoldersFinite, FS_AddElement

\* Where a holder leaves, the count was positive and drops by one.
LEMMA CountRemoved ==
    ASSUME NEW s \in Slots, NEW c \in HoldersAt(s),
           HoldersAt(s)' = HoldersAt(s) \ {c},
           refCounts[s] = Cardinality(HoldersAt(s)),
           refCounts'[s] = refCounts[s] - 1
    PROVE  refCounts'[s] = Cardinality(HoldersAt(s)') /\ refCounts'[s] \in Nat
<1>1. IsFiniteSet(HoldersAt(s))
    BY HoldersFinite
<1>2. /\ IsFiniteSet(HoldersAt(s) \ {c})
      /\ Cardinality(HoldersAt(s) \ {c}) = Cardinality(HoldersAt(s)) - 1
    BY <1>1, FS_RemoveElement
<1>3. Cardinality(HoldersAt(s) \ {c}) \in Nat
    BY <1>2, FS_CardinalityType
<1> QED
    BY <1>2, <1>3

-------------------------------------------------------------------------------
\* One lemma for each step of the queue.

LEMMA BeginAddRef_Inv ==
    ASSUME QueueInv, NEW c \in Contexts, BeginAddRef(c)
    PROVE  QueueInv'
<1> DEFINE t == Slot(backIndex)
<1> USE DEF QueueInv, QueueTypeOK, BeginAddRef, LockShared
<1>1. t \in Slots
    BY SlotInRing
<1>2. QueueTypeOK'
    BY <1>1 DEF ContextStates
<1>3. c \notin Holders
    BY DEF Holders
<1>4. Holders' = Holders \cup {c}
    BY DEF Holders
<1>5. EpochOf(c)' = backIndex /\ \A d \in Holders : EpochOf(d)' = EpochOf(d)
    BY <1>3 DEF EpochOf, Holders
<1>6. ASSUME NEW s \in Slots
      PROVE  refCounts'[s] = Cardinality(HoldersAt(s)')
  <2>1. CASE s = t
    <3>1. HoldersAt(s)' = HoldersAt(s) \cup {c}
        BY <1>3, <1>4, <1>5, <2>1 DEF HoldersAt, Slot
    <3>2. refCounts[s] = Cardinality(HoldersAt(s)) /\ c \notin HoldersAt(s)
        BY <1>3 DEF RefCountsAreExact, HoldersAt
    <3>3. refCounts'[s] = refCounts[s] + 1
        BY <1>1, <2>1
    <3> QED
        BY <3>1, <3>2, <3>3, CountAdded
  <2>2. CASE s # t
    <3>1. HoldersAt(s)' = HoldersAt(s)
        BY <1>3, <1>4, <1>5, <2>2 DEF HoldersAt, Slot
    <3> QED
        BY <1>1, <2>2, <3>1 DEF RefCountsAreExact
  <2> QED
    BY <2>1, <2>2
<1>7. RefCountsAreExact'
    BY <1>6 DEF RefCountsAreExact
<1>8. FrontBehindHolders'
    BY <1>4, <1>5 DEF FrontBehindHolders
<1> QED
    BY <1>2, <1>7, <1>8

\* What changes neither the holders nor their epochs keeps the counts.
LEMMA SameHolders ==
    ASSUME RefCountsAreExact, Holders' = Holders, refCounts' = refCounts,
           \A d \in Holders : EpochOf(d)' = EpochOf(d)
    PROVE  \A s \in Slots : refCounts'[s] = Cardinality(HoldersAt(s)')
<1>1. \A s : HoldersAt(s)' = HoldersAt(s)
    BY DEF HoldersAt, Slot
<1> QED
    BY <1>1 DEF RefCountsAreExact

LEMMA EndAddRef_Inv ==
    ASSUME QueueInv, NEW c \in Contexts, EndAddRef(c)
    PROVE  QueueInv'
<1> USE DEF QueueInv, QueueTypeOK, EndAddRef, UnlockShared
<1>1. QueueTypeOK'
    BY DEF ContextStates
<1>2. Holders' = Holders
    BY DEF Holders, MovedFrom
<1>3. \A d \in Holders : EpochOf(d)' = EpochOf(d)
    BY DEF EpochOf, Holders
<1>4. RefCountsAreExact'
    BY <1>2, <1>3, SameHolders DEF RefCountsAreExact
<1>5. FrontBehindHolders'
    BY <1>2, <1>3 DEF FrontBehindHolders
<1> QED
    BY <1>1, <1>4, <1>5

LEMMA DestroyMovedFrom_Inv ==
    ASSUME QueueInv, NEW c \in Contexts, DestroyMovedFrom(c)
    PROVE  QueueInv'
<1> USE DEF QueueInv, QueueTypeOK, DestroyMovedFrom, queueVars
<1>1. QueueTypeOK'
    BY DEF ContextStates
<1>2. Holders' = Holders
    BY DEF Holders
<1>3. \A d \in Holders : EpochOf(d)' = EpochOf(d)
    BY DEF EpochOf, Holders
<1>4. RefCountsAreExact'
    BY <1>2, <1>3, SameHolders DEF RefCountsAreExact
<1>5. FrontBehindHolders'
    BY <1>2, <1>3 DEF FrontBehindHolders
<1> QED
    BY <1>1, <1>4, <1>5

\* The check never fails: the context that makes it is counted in its slot.
LEMMA CheckRef_Inv ==
    ASSUME QueueInv, NEW c \in Contexts, CheckRef(c)
    PROVE  QueueInv'
<1> USE DEF QueueInv, QueueTypeOK, CheckRef, queueVars
<1>1. c \in Holders /\ EpochOf(c) = contextEpoch[c]
    BY DEF Holders, EpochOf
<1>2. c \in HoldersAt(Slot(contextEpoch[c]))
    BY <1>1 DEF HoldersAt
<1>3. Slot(contextEpoch[c]) \in Slots
    BY <1>1, HoldersHoldEpochs, SlotInRing
<1>4. refCounts[Slot(contextEpoch[c])] # 0
    BY <1>2, <1>3, HoldersFinite, FS_EmptySet DEF RefCountsAreExact
<1>5. contextState' = [contextState EXCEPT ![c] = "checked"]
    BY <1>4
<1>6. QueueTypeOK'
    BY <1>5 DEF ContextStates
<1>7. Holders' = Holders
    BY <1>5 DEF Holders
<1>8. \A d \in Holders : EpochOf(d)' = EpochOf(d)
    BY <1>5 DEF EpochOf, Holders
<1>9. RefCountsAreExact'
    BY <1>5, <1>7, <1>8, SameHolders DEF RefCountsAreExact
<1>10. FrontBehindHolders'
    BY <1>7, <1>8 DEF FrontBehindHolders
<1> QED
    BY <1>5, <1>6, <1>9, <1>10

LEMMA DropRef_Inv ==
    ASSUME QueueInv, NEW c \in Contexts, DropRef(c)
    PROVE  QueueInv'
<1> USE DEF QueueInv, QueueTypeOK, DropRef
<1>1. c \in Holders /\ EpochOf(c) = contextEpoch[c]
    BY DEF Holders, EpochOf
<1>2. PICK t \in Slots : t = Slot(contextEpoch[c])
    BY <1>1, HoldersHoldEpochs, SlotInRing
<1>2a. c \in HoldersAt(t)
    BY <1>1, <1>2 DEF HoldersAt
<1>3. Holders' = Holders \ {c}
    BY DEF Holders
<1>4. \A d \in Holders \ {c} : EpochOf(d)' = EpochOf(d)
    BY DEF EpochOf, Holders
<1>5. \A s \in Slots : HoldersAt(s)' = HoldersAt(s) \ {c}
    BY <1>3, <1>4 DEF HoldersAt, Slot
<1>6. refCounts'[t] = Cardinality(HoldersAt(t)') /\ refCounts'[t] \in Nat
  <2>1. refCounts'[t] = refCounts[t] - 1
    BY <1>2
  <2>2. refCounts[t] = Cardinality(HoldersAt(t))
    BY <1>2 DEF RefCountsAreExact
  <2> QED
    BY <2>1, <2>2, <1>2a, <1>5, CountRemoved
<1>7. ASSUME NEW s \in Slots, s # t
      PROVE  refCounts'[s] = Cardinality(HoldersAt(s)')
  <2>1. HoldersAt(s)' = HoldersAt(s)
    BY <1>1, <1>2, <1>5, <1>7 DEF HoldersAt
  <2> QED
    BY <1>2, <1>7, <2>1 DEF RefCountsAreExact
<1>8. RefCountsAreExact'
    BY <1>6, <1>7 DEF RefCountsAreExact
<1>9. QueueTypeOK'
    BY <1>2, <1>6 DEF ContextStates
<1>10. FrontBehindHolders'
    BY <1>3, <1>4 DEF FrontBehindHolders
<1> QED
    BY <1>8, <1>9, <1>10

\* A move hands a reference over within its slot, so the count stays: as many
\* leave as join.
LEMMA MoveContext_Inv ==
    ASSUME QueueInv, NEW c \in Contexts, NEW d \in Contexts, MoveContext(c, d)
    PROVE  QueueInv'
<1> USE DEF QueueInv, QueueTypeOK, MoveContext, queueVars
<1>1. c # d /\ d \notin Holders
    BY DEF Holders
<1>2. QueueTypeOK'
    BY DEF ContextStates
<1>3. CASE contextEpoch[c] = MovedFrom
  <2>1. Holders' = Holders
    BY <1>1, <1>3 DEF Holders
  <2>2. \A x \in Holders : EpochOf(x)' = EpochOf(x)
    BY <1>1, <1>3 DEF EpochOf, Holders
  <2>3. RefCountsAreExact'
    BY <2>1, <2>2, SameHolders DEF RefCountsAreExact
  <2>4. FrontBehindHolders'
    BY <2>1, <2>2 DEF FrontBehindHolders
  <2> QED
    BY <1>2, <1>3, <2>3, <2>4
<1>4. CASE contextEpoch[c] # MovedFrom
  <2>1. c \in Holders /\ EpochOf(c) \in Nat /\ EpochOf(d)' = EpochOf(c)
    BY <1>1, <1>4, HoldersHoldEpochs DEF Holders, EpochOf
  <2>2. Holders' = (Holders \ {c}) \cup {d}
    BY <1>1, <1>4 DEF Holders
  <2>3. \A x \in Holders \ {c} : EpochOf(x)' = EpochOf(x)
    BY <1>1 DEF EpochOf, Holders
  <2>4. ASSUME NEW s \in Slots
        PROVE  refCounts'[s] = Cardinality(HoldersAt(s)')
    <3>1. CASE c \in HoldersAt(s)
      <4>1. HoldersAt(s)' = (HoldersAt(s) \ {c}) \cup {d}
        BY <3>1, <2>1, <2>2, <2>3, <1>1 DEF HoldersAt, Slot
      <4>2. IsFiniteSet(HoldersAt(s)) /\ d \notin HoldersAt(s)
        BY <1>1, HoldersFinite DEF HoldersAt
      <4>3. /\ IsFiniteSet(HoldersAt(s) \ {c})
            /\ Cardinality(HoldersAt(s) \ {c}) = Cardinality(HoldersAt(s)) - 1
        BY <3>1, <4>2, FS_RemoveElement
      <4>4. Cardinality(HoldersAt(s)') = Cardinality(HoldersAt(s) \ {c}) + 1
        BY <4>1, <4>2, <4>3, FS_AddElement
      <4>5. Cardinality(HoldersAt(s)) \in Nat
        BY <4>2, FS_CardinalityType
      <4> QED
        BY <4>3, <4>4, <4>5 DEF RefCountsAreExact
    <3>2. CASE c \notin HoldersAt(s)
      <4>1. HoldersAt(s)' = HoldersAt(s)
        BY <3>2, <2>1, <2>2, <2>3, <1>1 DEF HoldersAt, Slot
      <4> QED
        BY <4>1 DEF RefCountsAreExact
    <3> QED
      BY <3>1, <3>2
  <2>5. RefCountsAreExact'
    BY <2>4 DEF RefCountsAreExact
  <2>6. FrontBehindHolders'
    BY <2>1, <2>2, <2>3 DEF FrontBehindHolders
  <2> QED
    BY <1>2, <2>5, <2>6
<1> QED
    BY <1>3, <1>4

\* The front leaves an epoch whose slot counts nobody, so nobody holds it.
LEMMA RemoveFront_Inv ==
    ASSUME QueueInv, RemoveFront
    PROVE  QueueInv'
<1> USE DEF QueueInv, QueueTypeOK, RemoveFront, contextVars
<1>1. Holders' = Holders /\ \A d : EpochOf(d)' = EpochOf(d)
    BY DEF Holders, EpochOf
<1>2. Slot(frontIndex) \in Slots
    BY SlotInRing
<1>3. HoldersAt(Slot(frontIndex)) = {}
    BY <1>2, HoldersFinite, FS_EmptySet DEF RefCountsAreExact, FrontIsUnreferenced
<1>4. \A c \in Holders : EpochOf(c) # frontIndex
    BY <1>3 DEF HoldersAt
<1>5. FrontBehindHolders'
    BY <1>1, <1>4, HoldersHoldEpochs DEF FrontBehindHolders
<1>6. RefCountsAreExact'
    BY <1>1, SameHolders DEF RefCountsAreExact
<1> QED
    BY <1>5, <1>6 DEF FrontIsUnreferenced

\* The exclusive lock keeps contexts out of AddRef(), so no held epoch moves
\* with m_backIndex.
LEMMA AddNewEpoch_Inv ==
    ASSUME QueueInv, AddNewEpoch
    PROVE  QueueInv'
<1> USE DEF QueueInv, QueueTypeOK, AddNewEpoch, CanLock, contextVars
<1>1. Holders' = Holders /\ \A d \in Holders : EpochOf(d)' = EpochOf(d)
    BY DEF Holders, EpochOf
<1>2. FrontBehindHolders'
    BY <1>1, HoldersHoldEpochs DEF FrontBehindHolders
<1>3. RefCountsAreExact'
    BY <1>1, SameHolders DEF RefCountsAreExact
<1> QED
    BY <1>2, <1>3

-------------------------------------------------------------------------------
\* Every step of the queue, or of anything that leaves it alone, keeps the
\* invariant.
LEMMA QueueStep_Inv ==
    ASSUME QueueInv, [QueueNext]_<<queueVars, contextVars>>
    PROVE  QueueInv'
<1>1. CASE UNCHANGED <<queueVars, contextVars>>
    BY <1>1 DEF QueueInv, QueueTypeOK, queueVars, contextVars, FrontBehindHolders,
                RefCountsAreExact, HoldersAt, Holders, EpochOf, Slot
<1>2. ASSUME NEW c \in Contexts,
             \/ BeginAddRef(c) \/ EndAddRef(c)
             \/ DestroyMovedFrom(c) \/ CheckRef(c) \/ DropRef(c)
      PROVE  QueueInv'
    BY <1>2, BeginAddRef_Inv, EndAddRef_Inv, DestroyMovedFrom_Inv, CheckRef_Inv, DropRef_Inv
<1>3. ASSUME NEW c \in Contexts, NEW d \in Contexts, MoveContext(c, d)
      PROVE  QueueInv'
    BY <1>3, MoveContext_Inv
<1>4. CASE RemoveFront
    BY <1>4, RemoveFront_Inv
<1>5. CASE AddNewEpoch
    BY <1>5, AddNewEpoch_Inv
<1> QED
    BY <1>1, <1>2, <1>3, <1>4, <1>5 DEF QueueNext

-------------------------------------------------------------------------------
\* Epochs less than a ring apart have different slots.
LEMMA SlotInjective ==
    ASSUME NEW a \in Nat, NEW b \in Nat, a <= b, b - a < QueueSize, Slot(a) = Slot(b)
    PROVE  a = b
<1> DEFINE i == a \div QueueSize
           j == b \div QueueSize
<1> USE QueueSizeAssumption
<1>1. a = QueueSize * i + Slot(a) /\ b = QueueSize * j + Slot(a) /\ i \in Nat /\ j \in Nat
    BY DEF Slot
<1> HIDE DEF i, j
<1>2. b - a = QueueSize * (j - i)
    BY <1>1, SlotInRing DEF Slots
<1>3. CASE j - i >= 1
  <2>1. QueueSize * (j - i) >= QueueSize
    BY <1>1, <1>3
  <2> QED
    BY <1>2, <2>1
<1>4. CASE j - i <= 0
  <2>1. QueueSize * (j - i) <= 0
    BY <1>1, <1>4
  <2> QED
    BY <1>2, <2>1
<1> QED
    BY <1>1, <1>3, <1>4

\* What the invariant says of a front that cannot move on.
LEMMA QueueInv_FrontWaits == QueueInv => FrontWaitsForItsHolder
<1> SUFFICES ASSUME QueueInv, backIndex - frontIndex < QueueSize, refCounts[Slot(frontIndex)] > 0
             PROVE  \E c \in Holders : EpochOf(c) = frontIndex
    BY DEF FrontWaitsForItsHolder
<1> USE DEF QueueInv, QueueTypeOK
<1>1. Slot(frontIndex) \in Slots
    BY SlotInRing
<1>2. HoldersAt(Slot(frontIndex)) # {}
    BY <1>1, HoldersFinite, FS_EmptySet DEF RefCountsAreExact
<1>3. PICK c \in Holders : Slot(EpochOf(c)) = Slot(frontIndex)
    BY <1>2 DEF HoldersAt
<1>4. EpochOf(c) \in Nat /\ frontIndex <= EpochOf(c) /\ EpochOf(c) - frontIndex < QueueSize
    BY HoldersHoldEpochs, QueueSizeAssumption DEF FrontBehindHolders
<1>5. EpochOf(c) = frontIndex
    BY <1>3, <1>4, SlotInjective
<1> QED
    BY <1>5

-------------------------------------------------------------------------------
(* The steps of the whole manager.                                             *)

\* The global epoch counter runs ahead of the queue inside Add(), never behind.
EpochOrder ==
    currentEpoch = IF threadState = "addNewEpoch" THEN backIndex + 1 ELSE backIndex

Outstanding == RegisteredActions \cup actionsToPerform

\* An unlinked record belongs to one writer, or to one action in one place.
Ownership ==
    /\ \A w \in Writers :
           /\ writerRecord[w] # NoRecord <=> writerState[w] \in {"load", "choose", "insert"}
           /\ writerRecord[w] # NoRecord => recordState[writerRecord[w]] = "unlinked"
           /\ \A v \in Writers : writerRecord[w] = writerRecord[v] /\ writerRecord[w] # NoRecord
                                     => w = v
           /\ \A a \in Outstanding : a.record # writerRecord[w]
    /\ \A a \in Outstanding : recordState[a.record] = "unlinked"
    /\ \A a, b \in Outstanding : a.record = b.record => a = b
    /\ \A q \in ActionQueues :
           /\ IsFiniteSet(epochToActions[q])
           /\ \A a \in epochToActions[q] :
                  /\ a \notin actionsToPerform
                  /\ \A p \in ActionQueues : a \in epochToActions[p] => p = q

\* What has been collected is below the front, and the front is not above what
\* is held, so a collected record has no pointer left.
Protection ==
    /\ \A c \in Contexts : pointers[c] # {} => contextState[c] = "open" /\ contextEpoch[c] # MovedFrom
    /\ ActionsAreNotStale
    /\ \A a \in actionsToPerform : a.epoch < frontIndex
    /\ NoUseAfterFree

Inv == TypeOK /\ QueueInv /\ EpochOrder /\ Ownership /\ Protection

-------------------------------------------------------------------------------
\* Every step of the system is a step of the queue or leaves it alone.
LEMMA NextIsQueueStep == [Next]_vars => [QueueNext]_<<queueVars, contextVars>>
<1> SUFFICES ASSUME [Next]_vars PROVE [QueueNext]_<<queueVars, contextVars>>
    OBVIOUS
<1>1. CASE UNCHANGED vars
    BY <1>1 DEF vars
<1>2. ASSUME NEW c \in Contexts, Reader(c) PROVE [QueueNext]_<<queueVars, contextVars>>
    BY <1>2 DEF Reader, Construct, Destroy, Get, Move, QueueNext
<1>3. CASE \E r \in Records : Link(r)
    BY <1>3 DEF Link
<1>4. ASSUME NEW w \in Writers, Register(w) \/ \E r \in Records : Unlink(w, r)
      PROVE  [QueueNext]_<<queueVars, contextVars>>
    BY <1>4 DEF Register, Unlink, LoadEpoch, ChooseQueue, InsertAction, CountPending
<1>5. CASE Remove
    BY <1>5 DEF Remove, Scan, Collect, Apply, UpdatePerfData, QueueNext, contextVars
<1>6. CASE Add
    BY <1>6 DEF Add, IncrementCurrentEpoch, EnqueueEpoch, QueueNext, contextVars
<1> QED
    BY <1>1, <1>2, <1>3, <1>4, <1>5, <1>6 DEF Next

LEMMA NextQueueIsQueue ==
    ASSUME NEW i \in 0 .. NumActionQueues
    PROVE  i < NumActionQueues <=> i \in ActionQueues
    BY NumActionQueuesAssumption DEF ActionQueues

LEMMA RoundRobin ==
    \A q \in ActionQueues : QueueAfter(q) \in ActionQueues
    BY NumActionQueuesAssumption DEF ActionQueues, QueueAfter

LEMMA Init_Inv == Init => Inv
<1> SUFFICES ASSUME Init PROVE Inv
    OBVIOUS
<1> USE DEF Init
<1>1. QueueInv
    BY QueueInit_Inv
<1>2. RegisteredActions = {}
    BY DEF RegisteredActions
<1>3. TypeOK
    BY <1>1, NumActionQueuesAssumption DEF TypeOK, QueueInv, ActionQueues
<1>4. EpochOrder
    BY DEF EpochOrder, QueueInit
<1>5. Ownership
    BY <1>2, FS_EmptySet DEF Ownership, Outstanding
<1>6. Protection
    BY <1>2 DEF Protection, ActionsAreNotStale, NoUseAfterFree
<1> QED
    BY <1>1, <1>3, <1>4, <1>5, <1>6 DEF Inv

-------------------------------------------------------------------------------
\* One lemma for each action.  Its effect on the queue is QueueStep_Inv's.

\* What leaves the actions alone leaves the registered ones alone.
LEMMA SameActions ==
    ASSUME UNCHANGED <<epochToActions, actionsToPerform>>
    PROVE  RegisteredActions' = RegisteredActions /\ Outstanding' = Outstanding
    BY DEF RegisteredActions, Outstanding

LEMMA OutstandingTyped ==
    ASSUME TypeOK
    PROVE  \A a \in Outstanding : a.record \in Records /\ a.epoch \in Nat
    BY DEF TypeOK, Outstanding, RegisteredActions, Actions

LEMMA Construct_Inv ==
    ASSUME Inv, QueueInv', NEW c \in Contexts, Construct(c)
    PROVE  Inv'
<1> USE DEF Inv, Construct, BeginAddRef, EndAddRef, recordVars, writerVars, actionVars, threadVars
<1>1. TypeOK'
    BY DEF TypeOK, QueueInv
<1>2. EpochOrder'
    BY DEF EpochOrder
<1>3. RegisteredActions' = RegisteredActions /\ Outstanding' = Outstanding
    BY SameActions
<1>4. Ownership'
    BY <1>3 DEF Ownership
<1>5. \A d \in Contexts : pointers[d] # {} => d # c /\ EpochOf(d)' = EpochOf(d)
    BY DEF Protection, EpochOf, TypeOK, QueueTypeOK
<1>6. Protection'
    BY <1>3, <1>5 DEF Protection, ActionsAreNotStale, NoUseAfterFree, TypeOK, QueueTypeOK
<1> QED
    BY <1>1, <1>2, <1>4, <1>6

\* A linked record is in no action and with no writer.
LEMMA Get_Inv ==
    ASSUME Inv, QueueInv', NEW c \in Contexts, NEW r \in Records, Get(c, r)
    PROVE  Inv'
<1> USE DEF Inv, Get, queueVars, contextVars, writerVars, actionVars, threadVars
<1>1. TypeOK'
    BY DEF TypeOK, QueueInv
<1>2. EpochOrder'
    BY DEF EpochOrder
<1>3. RegisteredActions' = RegisteredActions /\ Outstanding' = Outstanding
    BY SameActions
<1>4. Ownership'
    BY <1>3 DEF Ownership
<1>5. \A d \in Contexts : EpochOf(d)' = EpochOf(d)
    BY DEF EpochOf
<1>6. \A w \in Writers : writerRecord[w] # r
    BY NoRecordAssumption DEF Ownership
<1>7. \A a \in Outstanding : a.record # r
    BY DEF Ownership
<1>8. ActionsAreNotStale'
    BY <1>3, <1>5, <1>6, <1>7 DEF Protection, ActionsAreNotStale, TypeOK, Outstanding
<1>9. Protection'
    BY <1>8 DEF Protection, NoUseAfterFree, TypeOK
<1> QED
    BY <1>1, <1>2, <1>4, <1>9

LEMMA Move_Inv ==
    ASSUME Inv, QueueInv', NEW c \in Contexts, NEW d \in Contexts, Move(c, d)
    PROVE  Inv'
<1> USE DEF Inv, Move, MoveContext, queueVars, writerVars, actionVars, threadVars
<1>1. TypeOK'
    BY DEF TypeOK, QueueInv
<1>2. EpochOrder'
    BY DEF EpochOrder
<1>3. RegisteredActions' = RegisteredActions /\ Outstanding' = Outstanding
    BY SameActions
<1>4. Ownership'
    BY <1>3 DEF Ownership
<1>5. /\ c # d /\ pointers' = [pointers EXCEPT ![d] = pointers[c], ![c] = {}]
      /\ EpochOf(d)' = EpochOf(c)
      /\ \A x \in Contexts \ {c, d} : EpochOf(x)' = EpochOf(x)
    BY DEF EpochOf, TypeOK, QueueTypeOK
<1>6. ActionsAreNotStale'
    BY <1>3, <1>5 DEF Protection, ActionsAreNotStale, TypeOK
<1>7. \A x \in Contexts : pointers'[x] # {} => contextState'[x] = "open" /\ contextEpoch'[x] # MovedFrom
    BY <1>5 DEF Protection, TypeOK, QueueTypeOK
<1>8. Protection'
    BY <1>5, <1>6, <1>7 DEF Protection, NoUseAfterFree, TypeOK
<1> QED
    BY <1>1, <1>2, <1>4, <1>8

LEMMA Destroy_Inv ==
    ASSUME Inv, QueueInv', NEW c \in Contexts, Destroy(c)
    PROVE  Inv'
<1> USE DEF Inv, Destroy, DestroyMovedFrom, CheckRef, DropRef, queueVars, writerVars, actionVars, threadVars
<1>1. TypeOK'
    BY DEF TypeOK, QueueInv
<1>2. EpochOrder'
    BY DEF EpochOrder
<1>3. RegisteredActions' = RegisteredActions /\ Outstanding' = Outstanding
    BY SameActions
<1>4. Ownership'
    BY <1>3 DEF Ownership
<1>5. \A d \in Contexts : pointers'[d] # {} => d # c /\ pointers'[d] = pointers[d] /\ EpochOf(d)' = EpochOf(d)
    BY DEF EpochOf, TypeOK, QueueTypeOK
<1>6. Protection'
    BY <1>3, <1>5 DEF Protection, ActionsAreNotStale, NoUseAfterFree, TypeOK, QueueTypeOK
<1> QED
    BY <1>1, <1>2, <1>4, <1>6

LEMMA Link_Inv ==
    ASSUME Inv, QueueInv', NEW r \in Records, Link(r)
    PROVE  Inv'
<1> USE DEF Inv, Link, queueVars, contextVars, writerVars, actionVars, threadVars
<1>1. TypeOK'
    BY DEF TypeOK, QueueInv
<1>2. EpochOrder'
    BY DEF EpochOrder
<1>3. RegisteredActions' = RegisteredActions /\ Outstanding' = Outstanding
    BY SameActions
<1>4. \A w \in Writers : writerRecord[w] # r
    BY NoRecordAssumption DEF Ownership
<1>5. Ownership'
    BY <1>3, <1>4 DEF Ownership, TypeOK, Outstanding
<1>6. \A d \in Contexts : EpochOf(d)' = EpochOf(d)
    BY DEF EpochOf
<1>7. Protection'
    BY <1>3, <1>6 DEF Protection, ActionsAreNotStale, NoUseAfterFree, TypeOK
<1> QED
    BY <1>1, <1>2, <1>5, <1>7

LEMMA Unlink_Inv ==
    ASSUME Inv, QueueInv', NEW w \in Writers, NEW r \in Records, Unlink(w, r)
    PROVE  Inv'
<1> USE DEF Inv, Unlink, queueVars, contextVars, actionVars, threadVars
<1>1. TypeOK'
    BY DEF TypeOK, QueueInv
<1>2. EpochOrder'
    BY DEF EpochOrder
<1>3. RegisteredActions' = RegisteredActions /\ Outstanding' = Outstanding
    BY SameActions
<1>4. /\ \A v \in Writers : writerRecord[v] # r
      /\ \A a \in Outstanding : a.record # r
      /\ r # NoRecord
    BY NoRecordAssumption DEF Ownership
<1>5. Ownership'
    BY <1>3, <1>4 DEF Ownership, TypeOK, Outstanding
<1>6. \A d \in Contexts : EpochOf(d)' = EpochOf(d)
    BY DEF EpochOf
<1>7. Protection'
    BY <1>3, <1>6 DEF Protection, ActionsAreNotStale, NoUseAfterFree, TypeOK
<1> QED
    BY <1>1, <1>2, <1>5, <1>7

\* The loaded epoch is not older than any held one: the global counter never
\* runs behind the queue.
LEMMA LoadEpoch_Inv ==
    ASSUME Inv, QueueInv', NEW w \in Writers, LoadEpoch(w)
    PROVE  Inv'
<1> USE DEF Inv, LoadEpoch, queueVars, contextVars, recordVars, actionVars, threadVars
<1>1. TypeOK'
    BY DEF TypeOK, QueueInv
<1>2. EpochOrder'
    BY DEF EpochOrder
<1>3. RegisteredActions' = RegisteredActions /\ Outstanding' = Outstanding
    BY SameActions
<1>4. Ownership'
    BY <1>3 DEF Ownership, TypeOK
<1>5. \A d \in Contexts : EpochOf(d)' = EpochOf(d)
    BY DEF EpochOf
<1>6. \A c \in Contexts : pointers[c] # {} => EpochOf(c) <= currentEpoch
  <2>1. \A c \in Contexts : pointers[c] # {} => c \in Holders
    BY DEF Protection, Holders
  <2>2. \A c \in Holders : EpochOf(c) <= backIndex /\ EpochOf(c) \in Nat
    BY HoldersHoldEpochs DEF QueueInv, FrontBehindHolders
  <2>3. backIndex <= currentEpoch
    BY DEF EpochOrder, TypeOK, QueueTypeOK
  <2> QED
    BY <2>1, <2>2, <2>3 DEF TypeOK, QueueTypeOK
<1>7. ActionsAreNotStale'
    BY <1>3, <1>5, <1>6 DEF Protection, ActionsAreNotStale, TypeOK
<1>8. Protection'
    BY <1>7 DEF Protection, NoUseAfterFree
<1> QED
    BY <1>1, <1>2, <1>4, <1>8

LEMMA ChooseQueue_Inv ==
    ASSUME Inv, QueueInv', NEW w \in Writers, ChooseQueue(w)
    PROVE  Inv'
<1> USE DEF Inv, ChooseQueue, queueVars, contextVars, recordVars, threadVars
<1>1. queueCounter' \in ActionQueues
    BY RoundRobin DEF TypeOK
<1>2. TypeOK'
    BY <1>1 DEF TypeOK, QueueInv
<1>3. EpochOrder'
    BY DEF EpochOrder
<1>4. RegisteredActions' = RegisteredActions /\ Outstanding' = Outstanding
    BY SameActions
<1>5. Ownership'
    BY <1>4 DEF Ownership, TypeOK
<1>6. \A d \in Contexts : EpochOf(d)' = EpochOf(d)
    BY DEF EpochOf
<1>7. Protection'
    BY <1>4, <1>6 DEF Protection, ActionsAreNotStale, NoUseAfterFree, TypeOK
<1> QED
    BY <1>2, <1>3, <1>5, <1>7

\* The writer hands its record over to a new action, under the epoch it loaded.
LEMMA InsertAction_Inv ==
    ASSUME Inv, QueueInv', NEW w \in Writers, InsertAction(w)
    PROVE  Inv'
<1> DEFINE q == writerQueue[w]
           new == [epoch |-> writerEpoch[w], record |-> writerRecord[w]]
<1> USE DEF Inv, InsertAction, queueVars, contextVars, recordVars, threadVars
<1>1. q \in ActionQueues /\ new \in Actions
    BY DEF Ownership, TypeOK, Actions
<1>2. TypeOK'
    BY <1>1, NumActionQueuesAssumption DEF TypeOK, QueueInv, ActionQueues
<1>3. EpochOrder'
    BY DEF EpochOrder
<1>4. epochToActions' = [epochToActions EXCEPT ![q] = @ \cup {new}]
    OBVIOUS
<1> HIDE DEF q
<1>5. PICK a : a = new
    OBVIOUS
<1>6. /\ RegisteredActions' = RegisteredActions \cup {a}
      /\ Outstanding' = Outstanding \cup {a}
    BY <1>1, <1>4, <1>5 DEF RegisteredActions, Outstanding, TypeOK
<1>7. /\ recordState[a.record] = "unlinked" /\ a.record # NoRecord
      /\ \A b \in Outstanding : b.record # a.record /\ b.record # NoRecord
      /\ \A v \in Writers : v # w => writerRecord[v] # a.record
    BY <1>5, OutstandingTyped, NoRecordAssumption DEF Ownership
<1>8. a \notin Outstanding /\ a \notin actionsToPerform /\ \A p \in ActionQueues : a \notin epochToActions[p]
    BY <1>7 DEF Outstanding, RegisteredActions
<1>9. Ownership'
  <2>1. \A p \in ActionQueues :
            epochToActions'[p] = IF p = q THEN epochToActions[p] \cup {a} ELSE epochToActions[p]
    BY <1>1, <1>4, <1>5 DEF TypeOK
  <2>2. \A v \in Writers : /\ writerRecord'[v] = IF v = w THEN NoRecord ELSE writerRecord[v]
                           /\ writerState'[v] = IF v = w THEN "count" ELSE writerState[v]
    BY DEF TypeOK
  <2>3. Ownership /\ UNCHANGED <<actionsToPerform, recordState>>
    OBVIOUS
  <2> HIDE DEF Inv, InsertAction, new
  <2>4. \A p \in ActionQueues :
            /\ IsFiniteSet(epochToActions'[p])
            /\ \A b \in epochToActions'[p] :
                   /\ b \notin actionsToPerform'
                   /\ \A o \in ActionQueues : b \in epochToActions'[o] => o = p
    <3>1. \A p \in ActionQueues : IsFiniteSet(epochToActions[p] \cup {a})
      BY <2>3, FS_AddElement DEF Ownership
    <3>2. ASSUME NEW p \in ActionQueues PROVE IsFiniteSet(epochToActions'[p])
      <4>1. CASE p = q
        BY ONLY <2>1, <3>1, <4>1
      <4>2. CASE p # q
        BY <2>1, <2>3, <4>2 DEF Ownership
      <4> QED
        BY <4>1, <4>2
    <3>3. \A p \in ActionQueues : \A b \in epochToActions[p] :
              b \notin actionsToPerform /\ \A o \in ActionQueues : b \in epochToActions[o] => o = p
      BY <2>3 DEF Ownership
    <3>4. ASSUME NEW p \in ActionQueues, NEW b \in epochToActions'[p]
          PROVE  b \notin actionsToPerform' /\ \A o \in ActionQueues : b \in epochToActions'[o] => o = p
      <4>1. CASE b = a
        BY <4>1, <1>8, <2>1, <2>3
      <4>2. CASE b # a
        BY <4>2, <2>1, <2>3, <3>3
      <4> QED
        BY <4>1, <4>2
    <3> QED
      BY <3>2, <3>4
  <2>5. \A v \in Writers :
            /\ writerRecord'[v] # NoRecord <=> writerState'[v] \in {"load", "choose", "insert"}
            /\ writerRecord'[v] # NoRecord => recordState'[writerRecord'[v]] = "unlinked"
            /\ \A u \in Writers : writerRecord'[v] = writerRecord'[u] /\ writerRecord'[v] # NoRecord
                                      => v = u
            /\ \A b \in Outstanding' : b.record # writerRecord'[v]
    BY <1>6, <1>7, <1>8, <2>2, <2>3 DEF Ownership
  <2>6. /\ \A b \in Outstanding' : recordState'[b.record] = "unlinked"
        /\ \A b, d \in Outstanding' : b.record = d.record => b = d
    BY <1>6, <1>7, <2>3 DEF Ownership
  <2> QED
    BY <2>4, <2>5, <2>6 DEF Ownership
<1>10. \A d \in Contexts : EpochOf(d)' = EpochOf(d)
    BY DEF EpochOf
<1>11. \A c \in Contexts : a.record \in pointers[c] => EpochOf(c) <= a.epoch
    BY <1>5 DEF Protection, ActionsAreNotStale
<1>12. ActionsAreNotStale'
    BY <1>6, <1>10, <1>11 DEF Protection, ActionsAreNotStale, TypeOK
<1>13. Protection'
    BY <1>12 DEF Protection, NoUseAfterFree
<1> QED
    BY <1>2, <1>3, <1>9, <1>13

LEMMA CountPending_Inv ==
    ASSUME Inv, QueueInv', NEW w \in Writers, CountPending(w)
    PROVE  Inv'
<1> USE DEF Inv, CountPending, queueVars, contextVars, recordVars, actionVars, threadVars
<1>1. TypeOK'
    BY DEF TypeOK, QueueInv
<1>2. EpochOrder'
    BY DEF EpochOrder
<1>3. RegisteredActions' = RegisteredActions /\ Outstanding' = Outstanding
    BY SameActions
<1>4. Ownership'
    BY <1>3 DEF Ownership, TypeOK
<1>5. \A d \in Contexts : EpochOf(d)' = EpochOf(d)
    BY DEF EpochOf
<1>6. Protection'
    BY <1>3, <1>5 DEF Protection, ActionsAreNotStale, NoUseAfterFree, TypeOK
<1> QED
    BY <1>1, <1>2, <1>4, <1>6

LEMMA Scan_Inv ==
    ASSUME Inv, QueueInv', Scan
    PROVE  Inv'
<1> USE DEF Inv, Scan, RemoveFront, queueVars, contextVars, recordVars, writerVars, actionVars, threadVars
<1>1. TypeOK'
    BY DEF TypeOK, QueueInv
<1>2. EpochOrder'
    BY DEF EpochOrder
<1>3. RegisteredActions' = RegisteredActions /\ Outstanding' = Outstanding
    BY SameActions
<1>4. Ownership'
    BY <1>3 DEF Ownership
<1>5. \A d \in Contexts : EpochOf(d)' = EpochOf(d)
    BY DEF EpochOf
<1>6. ActionsAreNotStale'
    BY <1>3, <1>5 DEF Protection, ActionsAreNotStale
<1>7. \A a \in actionsToPerform : a.epoch < frontIndex'
    BY OutstandingTyped DEF Protection, TypeOK, QueueTypeOK, Outstanding
<1>8. Protection'
    BY <1>6, <1>7 DEF Protection, NoUseAfterFree
<1> QED
    BY <1>1, <1>2, <1>4, <1>8

\* Actions change place, none is lost and none is in two places.
LEMMA Collect_Inv ==
    ASSUME Inv, QueueInv', Collect
    PROVE  Inv'
<1> USE DEF Inv, Collect, Kept, NumCollected, queueVars, contextVars, recordVars, writerVars
<1>1. PICK q \in ActionQueues : q = nextQueue
    BY NextQueueIsQueue DEF TypeOK
<1>2. PICK E : E = Expired(q)
    OBVIOUS
<1>3. E \subseteq epochToActions[q] /\ \A a \in E : a.epoch < frontIndex
    BY <1>2 DEF Expired
<1>4. IsFiniteSet(E) /\ Cardinality(E) \in Nat
    BY <1>3, FS_Subset, FS_CardinalityType DEF Ownership
<1>5. \A p \in ActionQueues :
          epochToActions'[p] = IF p = q THEN epochToActions[p] \ E ELSE epochToActions[p]
    BY <1>1, <1>2 DEF TypeOK
<1>6. actionsToPerform' = actionsToPerform \cup E
    BY <1>1, <1>2
<1>7. TypeOK'
  <2>1. epochToActions' \in [ActionQueues -> SUBSET Actions]
    BY DEF TypeOK
  <2>2. actionsToPerform' \subseteq Actions
    BY <1>3, <1>6 DEF TypeOK
  <2>3. numActions' \in Nat
    BY <1>1, <1>2, <1>4 DEF TypeOK
  <2>4. nextQueue' \in 0 .. NumActionQueues
    BY NumActionQueuesAssumption DEF TypeOK
  <2> QED
    BY <2>1, <2>2, <2>3, <2>4 DEF TypeOK, QueueInv
<1>8. EpochOrder'
    BY DEF EpochOrder
<1>9. Outstanding' = Outstanding
    BY <1>3, <1>5, <1>6 DEF Outstanding, RegisteredActions
<1>10. Ownership'
  <2>1. Ownership /\ UNCHANGED <<recordState, writerVars>>
    OBVIOUS
  <2> HIDE DEF Inv, Collect
  <2>2. \A p \in ActionQueues : IsFiniteSet(epochToActions'[p])
    BY <1>5, <2>1, FS_Subset DEF Ownership
  <2>3. \A p \in ActionQueues : \A a \in epochToActions[p] :
            a \notin actionsToPerform /\ \A o \in ActionQueues : a \in epochToActions[o] => o = p
    BY <2>1 DEF Ownership
  <2>4. ASSUME NEW p \in ActionQueues, NEW a \in epochToActions'[p]
        PROVE  a \notin actionsToPerform' /\ \A o \in ActionQueues : a \in epochToActions'[o] => o = p
    <3>1. a \in epochToActions[p] /\ (p = q => a \notin E)
      BY <1>5
    <3>2. a \notin E
      BY <1>3, <2>3, <3>1
    <3> QED
      BY <1>5, <1>6, <2>3, <3>1, <3>2
  <2> QED
    BY <1>9, <2>1, <2>2, <2>4 DEF Ownership
<1>11. \A d \in Contexts : EpochOf(d)' = EpochOf(d)
    BY DEF EpochOf
<1>12. ActionsAreNotStale'
    BY <1>9, <1>11 DEF Protection, ActionsAreNotStale, Outstanding
<1>13. Protection'
    BY <1>3, <1>6, <1>12 DEF Protection, NoUseAfterFree
<1> QED
    BY <1>7, <1>8, <1>10, <1>13

\* A context with a pointer to the record would hold an epoch that is not above
\* the action's, which is below the front, which is not above any held epoch.
LEMMA CollectedHasNoPointer ==
    ASSUME Inv, NEW a \in actionsToPerform, NEW c \in Contexts
    PROVE  a.record \notin pointers[c]
<1> SUFFICES ASSUME a.record \in pointers[c] PROVE FALSE
    OBVIOUS
<1> USE DEF Inv
<1>1. a.epoch \in Nat
    BY OutstandingTyped DEF Outstanding
<1>2. EpochOf(c) <= a.epoch /\ a.epoch < frontIndex
    BY DEF Protection, ActionsAreNotStale
<1>3. c \in Holders
    BY DEF Protection, Holders
<1>4. frontIndex <= EpochOf(c) /\ EpochOf(c) \in Nat
    BY <1>3, HoldersHoldEpochs DEF QueueInv, FrontBehindHolders
<1> QED
    BY <1>1, <1>2, <1>4 DEF TypeOK, QueueTypeOK

LEMMA Apply_Inv ==
    ASSUME Inv, QueueInv', NEW a \in actionsToPerform, Apply(a)
    PROVE  Inv'
<1> USE DEF Inv, Apply, queueVars, contextVars, writerVars, actionVars
<1>1. a \in Outstanding /\ a.record \in Records /\ a.epoch \in Nat
    BY OutstandingTyped DEF Outstanding
<1>2. TypeOK'
    BY <1>1 DEF TypeOK, QueueInv
<1>3. EpochOrder'
    BY DEF EpochOrder
<1>4. RegisteredActions' = RegisteredActions /\ a \notin RegisteredActions
    BY DEF RegisteredActions, Ownership
<1>5. Outstanding' = Outstanding \ {a}
    BY <1>4 DEF Outstanding
<1>6. \A b \in Outstanding' : b.record # a.record
    BY <1>1, <1>5 DEF Ownership
<1>7. \A r \in Records : recordState'[r] = IF r = a.record THEN "free" ELSE recordState[r]
    BY DEF TypeOK
<1>8. Ownership'
  <2>1. \A b \in Outstanding' : recordState'[b.record] = "unlinked"
    BY <1>5, <1>6, <1>7, OutstandingTyped DEF Ownership
  <2>2. \A w \in Writers : writerRecord[w] # NoRecord => recordState'[writerRecord[w]] = "unlinked"
    BY <1>1, <1>7 DEF Ownership, TypeOK
  <2> QED
    BY <1>5, <2>1, <2>2 DEF Ownership
<1>9. \A d \in Contexts : EpochOf(d)' = EpochOf(d)
    BY DEF EpochOf
<1>10. \A c \in Contexts : a.record \notin pointers[c]
    BY CollectedHasNoPointer
<1>11. ActionsAreNotStale'
    BY <1>4, <1>5, <1>9 DEF Protection, ActionsAreNotStale
<1>12. NoUseAfterFree'
    BY <1>7, <1>10 DEF Protection, NoUseAfterFree, TypeOK
<1> QED
    BY <1>2, <1>3, <1>8, <1>11, <1>12 DEF Protection

LEMMA UpdatePerfData_Inv ==
    ASSUME Inv, QueueInv', UpdatePerfData
    PROVE  Inv'
<1> USE DEF Inv, UpdatePerfData, queueVars, contextVars, recordVars, writerVars, actionVars
<1>1. TypeOK'
    BY NumActionQueuesAssumption DEF TypeOK, QueueInv, QueueTypeOK
<1>2. EpochOrder'
    BY DEF EpochOrder
<1>3. RegisteredActions' = RegisteredActions /\ Outstanding' = Outstanding
    BY SameActions
<1>4. Ownership'
    BY <1>3 DEF Ownership
<1>5. \A d \in Contexts : EpochOf(d)' = EpochOf(d)
    BY DEF EpochOf
<1>6. Protection'
    BY <1>3, <1>5 DEF Protection, ActionsAreNotStale, NoUseAfterFree
<1> QED
    BY <1>1, <1>2, <1>4, <1>6

LEMMA IncrementCurrentEpoch_Inv ==
    ASSUME Inv, QueueInv', IncrementCurrentEpoch
    PROVE  Inv'
<1> USE DEF Inv, IncrementCurrentEpoch, queueVars, contextVars, recordVars, writerVars, actionVars
<1>1. TypeOK'
    BY DEF TypeOK, QueueInv
<1>2. EpochOrder'
    BY DEF EpochOrder, TypeOK, QueueTypeOK
<1>3. RegisteredActions' = RegisteredActions /\ Outstanding' = Outstanding
    BY SameActions
<1>4. Ownership'
    BY <1>3 DEF Ownership
<1>5. \A d \in Contexts : EpochOf(d)' = EpochOf(d)
    BY DEF EpochOf
<1>6. Protection'
    BY <1>3, <1>5 DEF Protection, ActionsAreNotStale, NoUseAfterFree
<1> QED
    BY <1>1, <1>2, <1>4, <1>6

LEMMA EnqueueEpoch_Inv ==
    ASSUME Inv, QueueInv', EnqueueEpoch
    PROVE  Inv'
<1> USE DEF Inv, EnqueueEpoch, AddNewEpoch, contextVars, recordVars, writerVars, actionVars
<1>1. TypeOK'
    BY DEF TypeOK, QueueInv
<1>2. EpochOrder'
    BY DEF EpochOrder
<1>3. RegisteredActions' = RegisteredActions /\ Outstanding' = Outstanding
    BY SameActions
<1>4. Ownership'
    BY <1>3 DEF Ownership
<1>5. \A d \in Contexts : pointers[d] # {} => EpochOf(d)' = EpochOf(d)
    BY DEF EpochOf, Protection
<1>6. Protection'
    BY <1>3, <1>5 DEF Protection, ActionsAreNotStale, NoUseAfterFree
<1> QED
    BY <1>1, <1>2, <1>4, <1>6

-------------------------------------------------------------------------------
LEMMA Next_Inv == Inv /\ [Next]_vars => Inv'
<1> SUFFICES ASSUME Inv, [Next]_vars PROVE Inv'
    OBVIOUS
<1>0. QueueInv'
    BY NextIsQueueStep, QueueStep_Inv DEF Inv
<1>1. CASE UNCHANGED vars
  <2>1. UNCHANGED <<epochToActions, actionsToPerform>> /\ \A d \in Contexts : EpochOf(d)' = EpochOf(d)
    BY <1>1 DEF vars, queueVars, contextVars, actionVars, threadVars, EpochOf
  <2>2. Ownership' /\ Protection'
    BY <1>1, <2>1, SameActions DEF Inv, vars, Ownership, Protection, ActionsAreNotStale,
       NoUseAfterFree, queueVars, contextVars, recordVars, writerVars, actionVars, threadVars
  <2> QED
    BY <1>0, <1>1, <2>2 DEF Inv, vars, TypeOK, QueueInv, EpochOrder, queueVars, contextVars,
       recordVars, writerVars, actionVars, threadVars
<1>2. ASSUME NEW c \in Contexts, Reader(c) PROVE Inv'
    BY <1>0, <1>2, Construct_Inv, Destroy_Inv, Get_Inv, Move_Inv DEF Reader
<1>3. ASSUME NEW r \in Records, Link(r) PROVE Inv'
    BY <1>0, <1>3, Link_Inv
<1>4. ASSUME NEW w \in Writers, Register(w) \/ \E r \in Records : Unlink(w, r) PROVE Inv'
    BY <1>0, <1>4, Unlink_Inv, LoadEpoch_Inv, ChooseQueue_Inv, InsertAction_Inv, CountPending_Inv
       DEF Register
<1>5. CASE Remove
    BY <1>0, <1>5, Scan_Inv, Collect_Inv, Apply_Inv, UpdatePerfData_Inv DEF Remove
<1>6. CASE Add
    BY <1>0, <1>6, IncrementCurrentEpoch_Inv, EnqueueEpoch_Inv DEF Add
<1> QED
    BY <1>1, <1>2, <1>3, <1>4, <1>5, <1>6 DEF Next

LEMMA Invariance == Spec => []Inv
    BY Init_Inv, Next_Inv, PTL DEF Spec

\* The state of the epoch manager has its types (EpochManager.h:27-38).
THEOREM TypeCorrectness == Spec => []TypeOK
<1>1. Inv => TypeOK
    BY DEF Inv
<1> QED
    BY <1>1, Invariance, PTL

\* A record that Get() returned is not freed before its context is destroyed,
\* whenever the writers load and register and the processing thread performs
\* (RegisterAction(), Add() and Remove() of EpochManager.h).
THEOREM MemorySafety == Spec => []NoUseAfterFree
<1>1. Inv => NoUseAfterFree
    BY DEF Inv, Protection
<1> QED
    BY <1>1, Invariance, PTL

\* An action that was registered late is still not kept under an epoch older
\* than a reference to its record (the comment in EpochManager::Add()).
THEOREM NoStaleActions == Spec => []ActionsAreNotStale
<1>1. Inv => ActionsAreNotStale
    BY DEF Inv, Protection
<1> QED
    BY <1>1, Invariance, PTL

\* RemoveRef() never throws and never wraps a count (EpochQueue.h:84-94).
THEOREM ExactRefCounts == Spec => []RefCountsAreExact
<1>1. Inv => RefCountsAreExact
    BY DEF Inv, QueueInv
<1> QED
    BY <1>1, Invariance, PTL

\* The front never passes a referenced epoch, also when the epochs of the
\* queue wrap around the ring (EpochQueue.h:119,126-139).
THEOREM FrontSafety == Spec => []FrontBehindHolders
<1>1. Inv => FrontBehindHolders
    BY DEF Inv, QueueInv
<1> QED
    BY <1>1, Invariance, PTL

\* Until the epochs wrap around the ring, only a context of the front epoch
\* delays the reclamation (the TODO of AddNewEpoch(), EpochQueue.h:119).
THEOREM FrontDelay == Spec => []FrontWaitsForItsHolder
<1>1. Inv => FrontWaitsForItsHolder
    BY QueueInv_FrontWaits DEF Inv
<1> QED
    BY <1>1, Invariance, PTL

-------------------------------------------------------------------------------
\* Every step is a step of the abstract specification, or invisible to it.
LEMMA StepIsPromised == Inv /\ [Next]_vars => [Promise!Next]_(Promise!vars)
<1> SUFFICES ASSUME Inv, [Next]_vars PROVE [Promise!Next]_(Promise!vars)
    OBVIOUS
<1> USE DEF Promise!vars
<1>1. CASE UNCHANGED vars
    BY <1>1 DEF vars, recordVars
<1>2. ASSUME NEW c \in Contexts, Reader(c) PROVE [Promise!Next]_(Promise!vars)
  <2>1. CASE Construct(c)
    BY <2>1 DEF Construct, recordVars
  <2>2. CASE Destroy(c)
    BY <2>2 DEF Destroy, Promise!Next, Promise!Forget
  <2>3. ASSUME NEW r \in Records, Get(c, r) PROVE Promise!Next
    BY <2>3 DEF Get, Promise!Next, Promise!Find
  <2>4. ASSUME NEW d \in Contexts, Move(c, d) PROVE Promise!Next
    <3>1. pointers[d] = {}
      BY <2>4 DEF Inv, Protection, Move, MoveContext
    <3> QED
      BY <2>4, <3>1 DEF Move, Promise!Next, Promise!HandOver
  <2> QED
    BY <1>2, <2>1, <2>2, <2>3, <2>4 DEF Reader
<1>3. ASSUME NEW r \in Records, Link(r) PROVE [Promise!Next]_(Promise!vars)
    BY <1>3 DEF Link, Promise!Next, Promise!Link, Promise!SetState
<1>4. ASSUME NEW w \in Writers, Register(w) \/ \E r \in Records : Unlink(w, r)
      PROVE  [Promise!Next]_(Promise!vars)
    BY <1>4 DEF Register, LoadEpoch, ChooseQueue, InsertAction, CountPending, Unlink, recordVars,
                Promise!Next, Promise!Unlink, Promise!SetState
<1>5. CASE Remove
  <2>1. CASE Scan \/ Collect \/ UpdatePerfData
    BY <2>1 DEF Scan, Collect, UpdatePerfData, recordVars
  <2>2. ASSUME NEW a \in actionsToPerform, Apply(a) PROVE Promise!Next
    <3>1. a.record \in Records /\ recordState[a.record] = "unlinked"
      BY OutstandingTyped DEF Inv, Ownership, Outstanding
    <3>2. \A c \in Contexts : a.record \notin pointers[c]
      BY CollectedHasNoPointer
    <3> QED
      BY <2>2, <3>1, <3>2 DEF Apply, Promise!Next, Promise!Reclaim, Promise!SetState
  <2> QED
    BY <1>5, <2>1, <2>2 DEF Remove
<1>6. CASE Add
    BY <1>6 DEF Add, IncrementCurrentEpoch, EnqueueEpoch, recordVars
<1> QED
    BY <1>1, <1>2, <1>3, <1>4, <1>5, <1>6 DEF Next

\* The epoch manager implements reclamation without epochs: what it frees is
\* unlinked and out of reach (the comment at HashTable.h:52-55 relies on it).
THEOREM Implementation == Spec => ImplementsReclamation
<1>1. Init => Promise!Init
    BY DEF Init, Promise!Init
<1> QED
    BY <1>1, StepIsPromised, Invariance, PTL DEF Spec, ImplementsReclamation, Promise!Spec

-------------------------------------------------------------------------------
\* The accounting of the actions.
\* Nobody loses a record: Ownership says that it has one owner at most.
Owned ==
    \A r \in Records : recordState[r] = "unlinked" =>
        \/ \E w \in Writers : writerRecord[w] = r
        \/ \E a \in Outstanding : a.record = r

\* Neither the records nor their owners change.
LEMMA SameOwners ==
    ASSUME Owned, UNCHANGED <<recordState, writerRecord, epochToActions, actionsToPerform>>
    PROVE  Owned'
    BY SameActions DEF Owned

LEMMA Next_Owned ==
    ASSUME Inv, Owned, [Next]_vars
    PROVE  Owned'
<1> USE DEF queueVars, contextVars, recordVars, writerVars, actionVars, threadVars
<1>1. CASE UNCHANGED vars
    BY <1>1, SameOwners DEF vars
<1>2. ASSUME NEW c \in Contexts, Reader(c) PROVE Owned'
    BY <1>2, SameOwners DEF Reader, Construct, Destroy, Get, Move
<1>3. ASSUME NEW r \in Records, Link(r) PROVE Owned'
    BY <1>3, SameActions DEF Link, Owned, Inv, TypeOK
<1>4. ASSUME NEW w \in Writers, Register(w) PROVE Owned'
  <2>1. CASE LoadEpoch(w) \/ ChooseQueue(w) \/ CountPending(w)
    BY <2>1, SameOwners DEF LoadEpoch, ChooseQueue, CountPending
  <2>2. CASE InsertAction(w)
    <3>1. PICK a : a = [epoch |-> writerEpoch[w], record |-> writerRecord[w]]
      OBVIOUS
    <3>2. writerQueue[w] \in ActionQueues /\ a.record = writerRecord[w]
      BY <3>1 DEF Inv, TypeOK
    <3>3. \A q \in ActionQueues : epochToActions[q] \subseteq epochToActions'[q]
      BY <2>2 DEF InsertAction, Inv, TypeOK
    <3>4. a \in epochToActions'[writerQueue[w]]
      BY <2>2, <3>1, <3>2 DEF InsertAction, Inv, TypeOK
    <3>5. Outstanding \cup {a} \subseteq Outstanding'
      BY <2>2, <3>2, <3>3, <3>4 DEF InsertAction, Outstanding, RegisteredActions
    <3>6. \A v \in Writers \ {w} : writerRecord'[v] = writerRecord[v]
      BY <2>2 DEF InsertAction, Inv, TypeOK
    <3> QED
      BY <2>2, <3>2, <3>5, <3>6 DEF InsertAction, Owned
  <2> QED
    BY <1>4, <2>1, <2>2 DEF Register
<1>5. ASSUME NEW w \in Writers, NEW r \in Records, Unlink(w, r) PROVE Owned'
  <2>1. writerRecord[w] = NoRecord
    BY <1>5 DEF Unlink, Inv, Ownership
  <2> QED
    BY <1>5, <2>1, SameActions, NoRecordAssumption DEF Unlink, Owned, Inv, TypeOK
<1>6. CASE Scan \/ UpdatePerfData \/ Add
    BY <1>6, SameOwners DEF Scan, UpdatePerfData, Add, IncrementCurrentEpoch, EnqueueEpoch
<1>7. CASE Collect
  <2>1. Outstanding \subseteq Outstanding'
    <3>1. nextQueue \in ActionQueues
      BY <1>7, NextQueueIsQueue DEF Collect, Inv, TypeOK
    <3>2. PICK E : E = Expired(nextQueue)
      OBVIOUS
    <3>3. actionsToPerform' = actionsToPerform \cup E
      BY <1>7, <3>2 DEF Collect
    <3>4. \A q \in ActionQueues : \A a \in epochToActions[q] : a \in epochToActions'[q] \/ a \in E
      BY <1>7, <3>1, <3>2 DEF Collect, Kept, Inv, TypeOK
    <3> QED
      BY <3>3, <3>4 DEF Outstanding, RegisteredActions
  <2> QED
    BY <1>7, <2>1 DEF Collect, Owned
<1>8. ASSUME NEW a \in actionsToPerform, Apply(a) PROVE Owned'
  <2>1. Outstanding \ {a} \subseteq Outstanding'
    BY <1>8 DEF Apply, Outstanding, RegisteredActions
  <2>2. a.record \in Records
    BY OutstandingTyped DEF Inv, Outstanding
  <2> QED
    BY <1>8, <2>1, <2>2 DEF Apply, Owned, Inv, TypeOK
<1> QED
    BY <1>1, <1>2, <1>3, <1>4, <1>5, <1>6, <1>7, <1>8 DEF Next, Remove

LEMMA OwnedInvariance == Spec => []Owned
<1>1. Init => Owned
    BY DEF Init, Owned
<1>2. Inv /\ Owned /\ [Next]_vars => Owned'
    BY Next_Owned
<1> QED
    BY <1>1, <1>2, Invariance, PTL DEF Spec

\* At most one owner and at least one are exactly one.
LEMMA Owned_OneOwner == Inv /\ Owned => OneOwner
<1> SUFFICES ASSUME Inv, Owned, NEW r \in Records
             PROVE  Cardinality({w \in Writers : writerRecord[w] = r})
                      + Cardinality({x \in ActionQueues \X RegisteredActions :
                                         x[2] \in epochToActions[x[1]] /\ x[2].record = r})
                      + Cardinality({a \in actionsToPerform : a.record = r})
                    = IF recordState[r] = "unlinked" THEN 1 ELSE 0
    BY DEF OneOwner
<1> DEFINE holding == {w \in Writers : writerRecord[w] = r}
           kept == {x \in ActionQueues \X RegisteredActions :
                        x[2] \in epochToActions[x[1]] /\ x[2].record = r}
           collected == {a \in actionsToPerform : a.record = r}
<1>1. r # NoRecord
    BY NoRecordAssumption
<1>2. Cardinality({}) = 0 /\ \A x : Cardinality({x}) = 1
    BY FS_EmptySet, FS_Singleton
<1>3. ASSUME NEW w \in Writers, writerRecord[w] = r
      PROVE  holding = {w} /\ kept = {} /\ collected = {} /\ recordState[r] = "unlinked"
    BY <1>1, <1>3 DEF Inv, Ownership, Outstanding
<1>4. ASSUME NEW a \in actionsToPerform, a.record = r
      PROVE  holding = {} /\ kept = {} /\ collected = {a} /\ recordState[r] = "unlinked"
  <2>1. holding = {} /\ collected = {a} /\ recordState[r] = "unlinked"
    BY <1>4 DEF Inv, Ownership, Outstanding
  <2>2. \A b \in RegisteredActions : b.record = r => b = a
    BY <1>4 DEF Inv, Ownership, Outstanding
  <2>3. \A q \in ActionQueues : a \notin epochToActions[q]
    BY DEF Inv, Ownership
  <2> QED
    BY <2>1, <2>2, <2>3
<1>5. ASSUME NEW q \in ActionQueues, NEW a \in epochToActions[q], a.record = r
      PROVE  holding = {} /\ kept = {<<q, a>>} /\ collected = {} /\ recordState[r] = "unlinked"
  <2>1. a \in RegisteredActions
    BY DEF RegisteredActions
  <2>2. holding = {} /\ recordState[r] = "unlinked"
    BY <1>5, <2>1 DEF Inv, Ownership, Outstanding
  <2>3. \A b \in Outstanding : b.record = r => b = a
    BY <1>5, <2>1 DEF Inv, Ownership, Outstanding
  <2>4. collected = {}
    BY <2>3 DEF Inv, Ownership, Outstanding
  <2>5. \A p \in ActionQueues : a \in epochToActions[p] => p = q
    BY DEF Inv, Ownership
  <2>6. \A x \in kept : x = <<q, a>>
    BY <2>3, <2>5 DEF Outstanding
  <2>7. <<q, a>> \in kept
    BY <1>5, <2>1
  <2> QED
    BY <2>2, <2>4, <2>6, <2>7
<1> HIDE DEF holding, kept, collected
<1>6. Cardinality(holding) + Cardinality(kept) + Cardinality(collected)
          = IF recordState[r] = "unlinked" THEN 1 ELSE 0
  <2>1. CASE \E w \in Writers : writerRecord[w] = r
    <3>1. PICK w \in Writers : writerRecord[w] = r
      BY <2>1
    <3>3. holding = {w} /\ kept = {} /\ collected = {} /\ recordState[r] = "unlinked"
      BY <1>3, <3>1
    <3>4. Cardinality(holding) = 1 /\ Cardinality(kept) = 0 /\ Cardinality(collected) = 0
      BY <1>2, <3>3
    <3> QED
      BY <3>3, <3>4
  <2>2. CASE \E a \in actionsToPerform : a.record = r
    <3>1. PICK a \in actionsToPerform : a.record = r
      BY <2>2
    <3>3. holding = {} /\ kept = {} /\ collected = {a} /\ recordState[r] = "unlinked"
      BY <1>4, <3>1
    <3>4. Cardinality(holding) = 0 /\ Cardinality(kept) = 0 /\ Cardinality(collected) = 1
      BY <1>2, <3>3
    <3> QED
      BY <3>3, <3>4
  <2>3. CASE \E q \in ActionQueues : \E a \in epochToActions[q] : a.record = r
    <3>1. PICK q \in ActionQueues : \E a \in epochToActions[q] : a.record = r
      BY <2>3
    <3>2. PICK a \in epochToActions[q] : a.record = r
      BY <3>1
    <3>3. holding = {} /\ kept = {<<q, a>>} /\ collected = {} /\ recordState[r] = "unlinked"
      BY <1>5, <3>2
    <3>4. Cardinality(holding) = 0 /\ Cardinality(kept) = 1 /\ Cardinality(collected) = 0
      BY <1>2, <3>3
    <3> QED
      BY <3>3, <3>4
  <2>4. CASE /\ ~\E w \in Writers : writerRecord[w] = r
             /\ ~\E a \in actionsToPerform : a.record = r
             /\ ~\E q \in ActionQueues : \E a \in epochToActions[q] : a.record = r
    <3>1. recordState[r] # "unlinked"
      BY <2>4 DEF Owned, Outstanding, RegisteredActions
    <3>2. holding = {} /\ kept = {} /\ collected = {}
      BY <2>4 DEF holding, kept, collected
    <3> QED
      BY <1>2, <3>1, <3>2
  <2> QED
    BY <2>1, <2>2, <2>3, <2>4
<1> QED
    BY <1>6 DEF holding, kept, collected

\* The memory of a record is registered, and freed, once: it has one owner from
\* the moment it is unlinked until it is free (ReleaseRecord() of HashTable.h).
THEOREM SingleOwner == Spec => []OneOwner
    BY OwnedInvariance, Invariance, Owned_OneOwner, PTL

-------------------------------------------------------------------------------
\* Writers that have inserted an action and have not counted it.
Uncounted == {w \in Writers : writerState[w] = "count"}

PendingInv ==
    /\ IsFiniteSet(RegisteredActions)
    /\ IsFiniteSet(Uncounted)
    /\ PendingCountIsExact

\* Nothing that is counted changes.
LEMMA SameCounts ==
    ASSUME PendingInv,
           RegisteredActions' = RegisteredActions,
           Uncounted' = Uncounted,
           UNCHANGED <<perfData, numActions>>
    PROVE  PendingInv'
    BY DEF PendingInv, PendingCountIsExact, Uncounted

LEMMA InsertAction_Pending ==
    ASSUME Inv, PendingInv, NEW w \in Writers, InsertAction(w)
    PROVE  PendingInv'
<1>1. PICK a : a = [epoch |-> writerEpoch[w], record |-> writerRecord[w]]
    OBVIOUS
<1>2. writerQueue[w] \in ActionQueues
    BY DEF Inv, TypeOK
<1>3. a \notin RegisteredActions
    BY <1>1 DEF Inv, Ownership, Outstanding
<1>4. RegisteredActions' = RegisteredActions \cup {a}
    BY <1>1, <1>2 DEF InsertAction, RegisteredActions, Inv, TypeOK
<1>5. w \notin Uncounted /\ Uncounted' = Uncounted \cup {w}
    BY DEF InsertAction, Uncounted, Inv, TypeOK
<1>6. /\ IsFiniteSet(RegisteredActions')
      /\ Cardinality(RegisteredActions') = Cardinality(RegisteredActions) + 1
    BY <1>3, <1>4, FS_AddElement DEF PendingInv
<1>7. IsFiniteSet(Uncounted') /\ Cardinality(Uncounted') = Cardinality(Uncounted) + 1
    BY <1>5, FS_AddElement DEF PendingInv
<1>8. Cardinality(RegisteredActions) \in Nat /\ Cardinality(Uncounted) \in Nat
    BY FS_CardinalityType DEF PendingInv
<1>9. UNCHANGED <<perfData, numActions>> /\ numActions \in Nat
    BY DEF InsertAction, threadVars, Inv, TypeOK
<1> QED
    BY <1>6, <1>7, <1>8, <1>9 DEF PendingInv, PendingCountIsExact, Uncounted

LEMMA CountPending_Pending ==
    ASSUME Inv, PendingInv, NEW w \in Writers, CountPending(w)
    PROVE  PendingInv'
<1>1. RegisteredActions' = RegisteredActions /\ UNCHANGED numActions
    BY DEF CountPending, actionVars, threadVars, RegisteredActions
<1>2. w \in Uncounted /\ Uncounted' = Uncounted \ {w}
    BY DEF CountPending, Uncounted, Inv, TypeOK
<1>3. IsFiniteSet(Uncounted') /\ Cardinality(Uncounted') = Cardinality(Uncounted) - 1
    BY <1>2, FS_RemoveElement DEF PendingInv
<1>4. Cardinality(RegisteredActions) \in Nat /\ Cardinality(Uncounted) \in Nat
    BY FS_CardinalityType DEF PendingInv
<1>5. perfData'.pending = perfData.pending + 1 /\ numActions \in Nat
    BY DEF CountPending, Inv, TypeOK
<1> QED
    BY <1>1, <1>3, <1>4, <1>5 DEF PendingInv, PendingCountIsExact, Uncounted

\* What leaves the queues is what is added to the size that will be reported.
LEMMA Collect_Pending ==
    ASSUME Inv, PendingInv, Collect
    PROVE  PendingInv'
<1>1. PICK q \in ActionQueues : q = nextQueue
    BY NextQueueIsQueue DEF Collect, Inv, TypeOK
<1>2. PICK E : E = Expired(q)
    OBVIOUS
<1>3. E \subseteq epochToActions[q] /\ E \subseteq RegisteredActions
    BY <1>2 DEF Expired, RegisteredActions
<1>4. \A p \in ActionQueues :
          epochToActions'[p] = IF p = q THEN epochToActions[p] \ E ELSE epochToActions[p]
    BY <1>1, <1>2 DEF Collect, Kept, Inv, TypeOK
<1>5. \A p \in ActionQueues : \A a \in epochToActions[p] : a \in E => p = q
    BY <1>3 DEF Inv, Ownership
<1>6. RegisteredActions' = RegisteredActions \ E
  <2>1. \A a : a \in RegisteredActions' <=> \E p \in ActionQueues : a \in epochToActions'[p]
    BY DEF RegisteredActions
  <2>2. \A a : a \in RegisteredActions <=> \E p \in ActionQueues : a \in epochToActions[p]
    BY DEF RegisteredActions
  <2>3. \A a : a \in RegisteredActions' <=> a \in RegisteredActions /\ a \notin E
    BY <1>4, <1>5, <2>1, <2>2
  <2> QED
    BY <2>3
<1>7. RegisteredActions \cap E = E
    BY <1>3
<1>8. /\ IsFiniteSet(RegisteredActions')
      /\ Cardinality(RegisteredActions') = Cardinality(RegisteredActions) - Cardinality(E)
  <2>1. /\ IsFiniteSet(RegisteredActions \ E)
        /\ Cardinality(RegisteredActions \ E)
             = Cardinality(RegisteredActions) - Cardinality(RegisteredActions \cap E)
    BY FS_Difference DEF PendingInv
  <2> QED
    BY <1>6, <1>7, <2>1
<1>9. /\ Cardinality(RegisteredActions) \in Nat
      /\ Cardinality(E) \in Nat
      /\ Cardinality(Uncounted) \in Nat
    BY <1>3, FS_Subset, FS_CardinalityType DEF PendingInv
<1>10. numActions' = numActions + Cardinality(E) /\ numActions \in Nat
    BY <1>1, <1>2 DEF Collect, NumCollected, Inv, TypeOK
<1>11. UNCHANGED <<perfData, writerState>> /\ Uncounted' = Uncounted
    BY DEF Collect, writerVars, Uncounted
<1> QED
    BY <1>8, <1>9, <1>10, <1>11 DEF PendingInv, PendingCountIsExact, Uncounted

LEMMA UpdatePerfData_Pending ==
    ASSUME Inv, PendingInv, UpdatePerfData
    PROVE  PendingInv'
<1>1. RegisteredActions' = RegisteredActions /\ Uncounted' = Uncounted
    BY DEF UpdatePerfData, actionVars, writerVars, RegisteredActions, Uncounted
<1>2. perfData'.pending = perfData.pending - numActions /\ numActions' = 0
    BY DEF UpdatePerfData
<1>3. Cardinality(RegisteredActions) \in Nat /\ Cardinality(Uncounted) \in Nat
    BY FS_CardinalityType DEF PendingInv
<1>4. numActions \in Nat
    BY DEF Inv, TypeOK
<1> QED
    BY <1>1, <1>2, <1>3, <1>4 DEF PendingInv, PendingCountIsExact, Uncounted

LEMMA Next_Pending ==
    ASSUME Inv, PendingInv, [Next]_vars
    PROVE  PendingInv'
<1> USE DEF queueVars, contextVars, recordVars, writerVars, actionVars, threadVars
<1>1. CASE UNCHANGED vars
    BY <1>1, SameCounts DEF vars, RegisteredActions, Uncounted
<1>2. ASSUME NEW c \in Contexts, Reader(c) PROVE PendingInv'
    BY <1>2, SameCounts DEF Reader, Construct, Destroy, Get, Move, RegisteredActions, Uncounted
<1>3. ASSUME NEW r \in Records, Link(r) PROVE PendingInv'
    BY <1>3, SameCounts DEF Link, RegisteredActions, Uncounted
<1>4. ASSUME NEW w \in Writers, Register(w) PROVE PendingInv'
  <2>1. CASE LoadEpoch(w) \/ ChooseQueue(w)
    <3>1. Uncounted' = Uncounted
      BY <2>1 DEF LoadEpoch, ChooseQueue, Uncounted, Inv, TypeOK
    <3> QED
      BY <2>1, <3>1, SameCounts DEF LoadEpoch, ChooseQueue, RegisteredActions
  <2> QED
    BY <1>4, <2>1, InsertAction_Pending, CountPending_Pending DEF Register
<1>5. ASSUME NEW w \in Writers, NEW r \in Records, Unlink(w, r) PROVE PendingInv'
  <2>1. Uncounted' = Uncounted
    BY <1>5 DEF Unlink, Uncounted, Inv, TypeOK
  <2> QED
    BY <1>5, <2>1, SameCounts DEF Unlink, RegisteredActions
<1>6. CASE Remove
  <2>1. CASE Scan \/ \E a \in actionsToPerform : Apply(a)
    BY <2>1, SameCounts DEF Scan, Apply, RegisteredActions, Uncounted
  <2> QED
    BY <1>6, <2>1, Collect_Pending, UpdatePerfData_Pending DEF Remove
<1>7. CASE Add
    BY <1>7, SameCounts DEF Add, IncrementCurrentEpoch, EnqueueEpoch, RegisteredActions, Uncounted
<1> QED
    BY <1>1, <1>2, <1>3, <1>4, <1>5, <1>6, <1>7 DEF Next

\* PendingActionsCount is never off by more than what a writer or Remove() has
\* still to report (RegisterAction() and Remove() of EpochManager.h).
THEOREM ExactPendingCount == Spec => []PendingCountIsExact
<1>1. Init => PendingInv
  <2> SUFFICES ASSUME Init PROVE PendingInv
    OBVIOUS
  <2>1. RegisteredActions = {} /\ Uncounted = {}
    BY DEF Init, RegisteredActions, Uncounted
  <2>2. IsFiniteSet(RegisteredActions) /\ Cardinality(RegisteredActions) = 0
    BY <2>1, FS_EmptySet
  <2>3. IsFiniteSet(Uncounted) /\ Cardinality(Uncounted) = 0
    BY <2>1, FS_EmptySet
  <2>4. perfData.pending = 0 /\ numActions = 0
    BY DEF Init
  <2>5. PendingCountIsExact
    BY <2>2, <2>3, <2>4 DEF PendingCountIsExact, Uncounted
  <2> QED
    BY <2>2, <2>3, <2>5 DEF PendingInv
<1>2. Inv /\ PendingInv /\ [Next]_vars => PendingInv'
    BY Next_Pending
<1>3. PendingInv => PendingCountIsExact
    BY DEF PendingInv
<1> QED
    BY <1>1, <1>2, <1>3, Invariance, PTL DEF Spec

-------------------------------------------------------------------------------
(* What Math computes.                                                       *)

LEMMA Division ==
    ASSUME NEW n \in Nat, NEW b \in Nat \ {0}
    PROVE  /\ n \div b \in Nat /\ n % b \in 0 .. b - 1
           /\ n = b * (n \div b) + (n % b) /\ n = (n \div b) * b + (n % b)
OBVIOUS

LEMMA MultipleIs == ASSUME NEW q \in Nat, NEW b \in Nat \ {0} PROVE (q * b) % b = 0
OBVIOUS

\* RoundUp() and RoundDown() (Math.h) return the nearest multiple of the base that is
\* not below the number, or not above it, for all numbers and bases; base 0 leaves the
\* number as it is.
THEOREM RoundedNumbers ==
    \A n \in Nat, b \in Nat \ {0} :
        /\ RoundUp(n, b) \in n .. n + b - 1 /\ RoundUp(n, b) % b = 0
        /\ RoundDown(n, b) \in n - b + 1 .. n /\ RoundDown(n, b) % b = 0
        /\ RoundUp(n, 0) = n /\ RoundDown(n, 0) = n
<1>1. SUFFICES ASSUME NEW n \in Nat, NEW b \in Nat \ {0}
               PROVE  /\ RoundUp(n, b) \in n .. n + b - 1 /\ RoundUp(n, b) % b = 0
                      /\ RoundDown(n, b) \in n - b + 1 .. n /\ RoundDown(n, b) % b = 0
    BY DEF RoundUp, RoundDown
<1>2. RoundUp(n, b) \in n .. n + b - 1 /\ RoundUp(n, b) % b = 0
  <2>1. PICK m \in Nat : m = n + b - 1
    OBVIOUS
  <2>2. PICK q \in Nat, r \in 0 .. b - 1 : q = m \div b /\ m = q * b + r
    BY Division
  <2>3. PICK product \in Nat : product = q * b /\ product % b = 0
    BY MultipleIs
  <2>4. RoundUp(n, b) = product
    BY <2>1, <2>2, <2>3 DEF RoundUp
  <2>5. product \in n .. n + b - 1
    BY <2>1, <2>2, <2>3
  <2> QED
    BY <2>3, <2>4, <2>5
<1>3. RoundDown(n, b) \in n - b + 1 .. n /\ RoundDown(n, b) % b = 0
  <2>1. PICK q \in Nat, r \in 0 .. b - 1 : q = n \div b /\ n = q * b + r
    BY Division
  <2>2. PICK product \in Nat : product = q * b /\ product % b = 0
    BY MultipleIs
  <2>3. RoundDown(n, b) = product
    BY <2>1, <2>2 DEF RoundDown
  <2>4. product \in n - b + 1 .. n
    BY <2>1, <2>2
  <2> QED
    BY <2>2, <2>3, <2>4
<1> QED
    BY <1>2, <1>3
===============================================================================

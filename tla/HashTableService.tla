--------------------------- MODULE HashTableService ---------------------------
(***************************************************************************)
(* The life of a HashTableService (inc/L4/LocalMemory/HashTableService.h): *)
(* its owner adds tables, its clients retire records of them, the          *)
(* processing thread of its EpochManager performs the actions that free    *)
(* the records, and its destructor takes the members down in the reverse   *)
(* order of declaration.                                                   *)
(*                                                                         *)
(* Epochs are left out: each iteration of the thread collects some of the  *)
(* pending actions.  Module EpochManager says which.                       *)
(***************************************************************************)
EXTENDS RunningThread, HashTableManager

CONSTANT Records

VARIABLES
    recordState,  \* where the memory of each record is
    tables,       \* whether m_hashTableManager still exists
    actions       \* whether the queues of m_epochActionManager still exist

serviceVars == <<recordState, tables, actions>>
vars == <<threadVars, managerVars, recordState, tables, actions>>

\* "linked" in a table, or to be added to one; "pending", its action is in a
\* queue; "collected", its action is in actionsToPerform; "freed"; "leaked",
\* the action was destroyed with its queue.
RecordStates == {"linked", "pending", "collected", "freed", "leaked"}

In(state) == {r \in Records : recordState[r] = state}

Put(R, state) == recordState' = [r \in Records |-> IF r \in R THEN state ELSE recordState[r]]

ServiceTypeOK ==
    /\ ThreadTypeOK
    /\ recordState \in [Records -> RecordStates]
    /\ tables \in BOOLEAN
    /\ actions \in BOOLEAN

TypeOK == ServiceTypeOK /\ ManagerTypeOK

Init ==
    /\ ThreadInit
    /\ ManagerInit
    /\ recordState = [r \in Records |-> "linked"]
    /\ tables = TRUE
    /\ actions = TRUE

-------------------------------------------------------------------------------
\* AddHashTable() and a client that, through a context, takes a record out of a
\* table and registers its action.  Both are over before the service is destroyed.
AddHashTable == stopState = "alive" /\ ManagerNext /\ UNCHANGED <<threadVars, serviceVars>>

Retire(r) ==
    /\ stopState = "alive"
    /\ hashTables # <<>>
    /\ recordState[r] = "linked"
    /\ Put({r}, "pending")
    /\ UNCHANGED <<threadVars, managerVars, tables, actions>>

\* The thread starts Remove() and collects a set of actions ...
Collect(R) ==
    /\ BeginCore
    /\ Put(R, "collected")
    /\ UNCHANGED <<managerVars, tables, actions>>

\* ... performs them one by one, without a lock ...
Perform(r) ==
    /\ runState = "core"
    /\ recordState[r] = "collected"
    /\ Put({r}, "freed")
    /\ UNCHANGED <<threadVars, managerVars, tables, actions>>

\* ... and returns.
Return ==
    /\ In("collected") = {}
    /\ EndCore
    /\ UNCHANGED <<managerVars, serviceVars>>

Step == (StoreTrue \/ Prepare \/ Exit \/ WakeUp) /\ UNCHANGED <<managerVars, serviceVars>>

-------------------------------------------------------------------------------
(* ~HashTableService(): m_epochManager is declared last, so it goes first,   *)
(* and in it m_processingThread, which is declared last there.               *)

BeginDestroy == adding = Idle /\ StoreFalse /\ UNCHANGED <<managerVars, serviceVars>>

JoinThread == Join /\ UNCHANGED <<managerVars, serviceVars>>

\* ~EpochActionManager(): the actions are destroyed, not performed.
DestroyActions ==
    /\ stopState = "joined" /\ actions
    /\ actions' = FALSE
    /\ Put(In("pending"), "leaked")
    /\ UNCHANGED <<threadVars, managerVars, tables>>

\* Mistake: the tables go first, as the comment has it.
DestroyTables_First ==
    /\ stopState # "alive" /\ tables
    /\ tables' = FALSE
    /\ DestroyManager
    /\ Put(In("linked"), "freed")
    /\ UNCHANGED <<threadVars, actions>>

\* Mistake: the tables are not released.
DestroyTables_NoRelease ==
    /\ ~actions /\ tables
    /\ tables' = FALSE
    /\ DestroyManager
    /\ UNCHANGED <<threadVars, recordState, actions>>

\* ~HashTableManager(): Entry::Release() frees what the tables still link.
DestroyTables ==
    /\ ~actions /\ tables
    /\ tables' = FALSE
    /\ DestroyManager
    /\ Put(In("linked"), "freed")
    /\ UNCHANGED <<threadVars, actions>>

Destroy == JoinThread \/ DestroyActions \/ DestroyTables

Destroyed == ~tables /\ ~actions

\* Nothing happens after the destructor.
Terminated == Destroyed /\ UNCHANGED vars

Thread ==
    \/ Step
    \/ \E R \in SUBSET In("pending") : Collect(R)
    \/ \E r \in Records : Perform(r)
    \/ Return

Next ==
    \/ AddHashTable
    \/ \E r \in Records : Retire(r)
    \/ Thread
    \/ BeginDestroy
    \/ Destroy
    \/ Terminated

Spec == Init /\ [][Next]_vars

\* The scheduler runs the thread, and the owner while it is in the destructor.
FairSpec == Spec /\ WF_vars(Thread) /\ WF_vars(Destroy)

-------------------------------------------------------------------------------
(* Properties.                                                               *)

\* An action, which uses the allocator of its table, is never performed once
\* the table or the queues are gone: the hazard of HashTableService.h:32-34.
ActionsRunOnLiveTables == In("collected") # {} => tables /\ actions

\* Each record has been freed at the end, by its table or by its action, except
\* what was pending when the thread stopped.
OnlyPendingLeaks == Destroyed => \A r \in Records : recordState[r] \in {"freed", "leaked"}

\* A destructor that starts once the thread has begun its loop returns.
StopIsHonoured == (stopState = "join" /\ runState # "created" /\ ~isRunning) ~> Destroyed

\* "Note that the destructor waits for the thread to stop." (RunningThread.h:17):
\* it returns.  It does not if the thread stores true after it stored false.
DestructorReturns == (stopState = "join") ~> Destroyed
===============================================================================

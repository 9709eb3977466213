---------------------------- MODULE RunningThread -----------------------------
(***************************************************************************)
(* Utils::RunningThread (inc/L4/Utils/RunningThread.h): a thread that      *)
(* repeats a function until its owner destroys it.  The function itself is *)
(* a parameter: a module that extends this one says what BeginCore and     *)
(* EndCore do besides.                                                     *)
(***************************************************************************)

VARIABLES
    isRunning,  \* m_isRunning
    runState,   \* where the thread is in Start()
    stopState   \* where the owner is: "alive", in ~RunningThread() at "join",
                \* or behind it, at "joined"

threadVars == <<isRunning, runState, stopState>>

ThreadTypeOK ==
    /\ isRunning \in BOOLEAN
    /\ runState \in {"created", "prep", "check", "core", "sleep", "exited"}
    /\ stopState \in {"alive", "join", "joined"}

\* The constructor clears m_isRunning and creates the thread.
ThreadInit ==
    /\ isRunning = FALSE
    /\ runState = "created"
    /\ stopState = "alive"

-------------------------------------------------------------------------------
(* Start(), run by the thread.                                               *)

Go(from, to) == runState = from /\ runState' = to

\* m_isRunning.store(true)
StoreTrue ==
    /\ Go("created", "prep")
    /\ isRunning' = TRUE
    /\ UNCHANGED stopState

\* prepFunc(), which is NoOp for the processing thread of the epochs.
Prepare == Go("prep", "check") /\ UNCHANGED <<isRunning, stopState>>

\* while (m_isRunning.load())
BeginCore == isRunning /\ Go("check", "core") /\ UNCHANGED <<isRunning, stopState>>
Exit == ~isRunning /\ Go("check", "exited") /\ UNCHANGED <<isRunning, stopState>>

\* Mistake: the flag is tested once, before the loop.
WakeUp_Untested == Go("sleep", "core") /\ UNCHANGED <<isRunning, stopState>>

\* coreFunc() returns; sleep_for() returns.
EndCore == Go("core", "sleep") /\ UNCHANGED <<isRunning, stopState>>

WakeUp == Go("sleep", "check") /\ UNCHANGED <<isRunning, stopState>>

-------------------------------------------------------------------------------
(* ~RunningThread(), run by the owner.                                       *)

StoreFalse ==
    /\ stopState = "alive"
    /\ isRunning' = FALSE
    /\ stopState' = "join"
    /\ UNCHANGED runState

Join ==
    /\ stopState = "join"
    /\ runState = "exited"
    /\ stopState' = "joined"
    /\ UNCHANGED <<isRunning, runState>>
===============================================================================

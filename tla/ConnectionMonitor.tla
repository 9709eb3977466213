-------------------------- MODULE ConnectionMonitor --------------------------
(***************************************************************************)
(* ConnectionMonitor (src/Interprocess/Connection/ConnectionMonitor.cpp)   *)
(* tells its users that a remote process has ended or has closed its own   *)
(* monitor.  A registration opens two handles of the remote endpoint, of   *)
(* its event and of its process; for each a waiter of the thread pool runs *)
(* a callback once the handle is signalled.  The callback calls the user   *)
(* and then puts the endpoint on a list of those to be unregistered, which *)
(* the next Register() or GetRemoteConnectionsCount() works off.           *)
(*                                                                         *)
(* The thread pool and shared_ptr are modelled from how they are used: a   *)
(* waiter calls back at most once; its destructor cancels a callback that  *)
(* has not begun and waits for one that has.                               *)
(***************************************************************************)
EXTENDS Integers, Sequences, FiniteSets

CONSTANTS
    Clients,        \* threads that have a shared_ptr to the monitor
    EndPoints,      \* remote endpoints
    Registrations,  \* bound: the calls of Register(), each with a HandleMonitor
    Cases,          \* what users and the system do besides; see below
    Null

\* "release": users give up their shared_ptr; "unregister": they call
\* UnRegister(endPoint); "duplicate": they register an endpoint that is
\* registered; "callback": their callbacks call the monitor; "failure": handles
\* cannot be opened.
ASSUME CasesAssumption ==
    Cases \subseteq {"release", "unregister", "duplicate", "callback", "failure"}

Waiters == Registrations \X {"event", "process"}

Threads == Clients \cup Waiters

ASSUME ThreadsAssumption ==
    /\ Null \notin Registrations \cup Threads
    /\ Clients \cap Waiters = {}

VARIABLES
    closed,        \* the handles <<endpoint, kind>> that are signalled
    monitors,      \* m_remoteMonitors
    unregistered,  \* m_unregisteredEndPoints; twice is as good as once
    mutex,         \* the thread that owns m_mutexOnRemoteMonitors, or Null
    holders,       \* the threads that have a shared_ptr to the monitor
    endPoint,      \* of each registration, or Null
    status,        \* of each registration
    isCalled,      \* the flag that both waiters of a registration share
    calls,         \* how often the user was called (history)
    asked,         \* registrations that users asked to be undone (history)
    call           \* where each thread is

regVars == <<endPoint, status, isCalled, calls, asked>>
vars == <<closed, monitors, unregistered, mutex, holders, regVars, call>>

Statuses == {"unused", "open", "registered", "erased", "rejected"}

\* A thread with m_mutexOnRemoteMonitors, one that waits for it, and a waiter
\* that is no callback (yet, or any more).
Owning == {"erase", "openProcess", "insert", "reject"}
Waiting == {"lockErase", "emplace", "count"}
Resting == {"none", "armed", "done"}
Places == {"idle", "gone", "swap", "entered", "user", "lock", "push", "release", "userRelease", "destroy"}
              \cup Owning \cup Waiting \cup Resting

TypeOK ==
    /\ closed \subseteq EndPoints \X {"event", "process"}
    /\ monitors \in [EndPoints -> Registrations \cup {Null}]
    /\ \A e \in EndPoints, r \in Registrations :
           monitors[e] = r <=> endPoint[r] = e /\ status[r] = "registered"
    /\ unregistered \subseteq EndPoints
    /\ holders \subseteq Threads
    /\ endPoint \in [Registrations -> EndPoints \cup {Null}]
    /\ status \in [Registrations -> Statuses]
    /\ isCalled \in [Registrations -> BOOLEAN]
    /\ calls \in [Registrations -> Nat]
    /\ asked \subseteq Registrations
    /\ \A t \in Threads :
           /\ call[t] \in [at : Places, then : Places, taken : SUBSET EndPoints,
                           doomed : Seq(Waiters), reg : Registrations \cup {Null}]
           /\ mutex = t <=> call[t].at \in Owning

Start(place) == [at |-> place, then |-> place, taken |-> {}, doomed |-> <<>>, reg |-> Null]

Init ==
    /\ closed = {}
    /\ monitors = [e \in EndPoints |-> Null]
    /\ unregistered = {}
    /\ mutex = Null
    /\ holders = Clients
    /\ endPoint = [r \in Registrations |-> Null]
    /\ status = [r \in Registrations |-> "unused"]
    /\ isCalled = [r \in Registrations |-> FALSE]
    /\ calls = [r \in Registrations |-> 0]
    /\ asked = {}
    /\ call = [t \in Threads |-> Start(IF t \in Clients THEN "idle" ELSE "none")]

-------------------------------------------------------------------------------
At(t, place) == call[t].at = place

Goto(t, place) == call' = [call EXCEPT ![t].at = place]

\* The last member to be constructed is the first to be destroyed.
WaitersOf(r) == << <<r, "process">>, <<r, "event">> >>

\* The remote monitor is destroyed, or its process ends.
Close(e, kind) ==
    /\ closed' = closed \cup {<<e, kind>>}
    /\ UNCHANGED <<monitors, unregistered, mutex, holders, regVars, call>>

\* A client, or a user's callback that locks a weak_ptr of its own.
CanCall(t) ==
    \/ t \in Clients /\ At(t, "idle")
    \/ t \in Waiters /\ At(t, "user") /\ "callback" \in Cases /\ holders # {}

\* The call returns or throws: a callback gives up the shared_ptr it has locked.
EndCall(t) == call' = [call EXCEPT ![t] = Start(IF t \in Clients THEN "idle" ELSE "userRelease")]

-------------------------------------------------------------------------------
(* The calls of the users.                                                   *)

GetRemoteConnectionsCount(t) ==
    /\ CanCall(t)
    /\ holders' = holders \cup {t}
    /\ call' = [call EXCEPT ![t].at = "swap", ![t].then = "count"]
    /\ UNCHANGED <<closed, monitors, unregistered, mutex, regVars>>

Register(t, e, r) ==
    /\ CanCall(t)
    /\ status[r] = "unused"
    /\ "duplicate" \notin Cases =>
           ~\E s \in Registrations : endPoint[s] = e /\ status[s] \in {"open", "registered"}
    /\ holders' = holders \cup {t}
    /\ endPoint' = [endPoint EXCEPT ![r] = e]
    /\ status' = [status EXCEPT ![r] = "open"]
    /\ call' = [call EXCEPT ![t].at = "swap", ![t].then = "emplace", ![t].reg = r]
    /\ UNCHANGED <<closed, monitors, unregistered, mutex, isCalled, calls, asked>>

\* UnRegister(const EndPointInfo&), which is public.
UnRegisterEndPoint(t, e) ==
    /\ "unregister" \in Cases
    /\ t \in Clients /\ At(t, "idle")
    /\ unregistered' = unregistered \cup {e}
    /\ asked' = asked \cup
           {r \in Registrations : endPoint[r] = e /\ status[r] \in {"open", "registered"}}
    /\ UNCHANGED <<closed, monitors, mutex, holders, endPoint, status, isCalled, calls, call>>

-------------------------------------------------------------------------------
(* UnRegister() without an argument.                                         *)

Swap(t) ==
    /\ At(t, "swap")
    /\ unregistered' = {}
    /\ call' = [call EXCEPT ![t].at = "lockErase", ![t].taken = unregistered]
    /\ UNCHANGED <<closed, monitors, mutex, holders, regVars>>

LockErase(t) ==
    /\ At(t, "lockErase")
    /\ mutex = Null
    /\ mutex' = t
    /\ Goto(t, "erase")
    /\ UNCHANGED <<closed, monitors, unregistered, holders, regVars>>

\* m_remoteMonitors.erase(e), or the destructor of the map: what is left to do
\* is to destroy the waiters.
Remove(t, e) ==
    /\ monitors' = [monitors EXCEPT ![e] = Null]
    /\ status' = [status EXCEPT ![monitors[e]] = "erased"]
    /\ call' = [call EXCEPT ![t].taken = @ \ {e}, ![t].doomed = WaitersOf(monitors[e])]

Erase(t, e) ==
    /\ At(t, "erase")
    /\ call[t].doomed = <<>>
    /\ e \in call[t].taken
    /\ IF monitors[e] # Null
       THEN Remove(t, e)
       ELSE call' = [call EXCEPT ![t].taken = @ \ {e}] /\ UNCHANGED <<monitors, status>>
    /\ UNCHANGED <<closed, unregistered, mutex, holders, endPoint, isCalled, calls, asked>>

IsRunning(w) == call[w].at \notin Resting

\* Mistake: WaitForThreadpoolWaitCallbacks() is left out.
Destroyable_Running(w) == TRUE

Destroyable(w) == ~IsRunning(w)

\* ~Waiter(): no callback starts from here on, and none is running.
DestroyWaiter(t) ==
    /\ call[t].doomed # <<>>
    /\ LET w == Head(call[t].doomed)
       IN  /\ Destroyable(w)
           /\ call' = [call EXCEPT ![w].at = IF @ = "armed" THEN "none" ELSE @,
                                   ![t].doomed = Tail(@)]
    /\ UNCHANGED <<closed, monitors, unregistered, mutex, holders, regVars>>

EndErase(t) ==
    /\ At(t, "erase")
    /\ call[t].doomed = <<>>
    /\ call[t].taken = {}
    /\ mutex' = Null
    /\ Goto(t, call[t].then)
    /\ UNCHANGED <<closed, monitors, unregistered, holders, regVars>>

\* GetRemoteConnectionsCount() goes on, with a lock for one statement.
Count(t) ==
    /\ At(t, "count")
    /\ mutex = Null
    /\ EndCall(t)
    /\ UNCHANGED <<closed, monitors, unregistered, mutex, holders, regVars>>

-------------------------------------------------------------------------------
(* Register() goes on: it constructs a HandleMonitor and emplaces it.        *)

\* Constructs the waiter of the event, which is armed at once.
OpenEvent(t) ==
    /\ At(t, "emplace")
    /\ mutex = Null
    /\ mutex' = t
    /\ call' = [call EXCEPT ![t].at = "openProcess", ![<<call[t].reg, "event">>].at = "armed"]
    /\ UNCHANGED <<closed, monitors, unregistered, holders, regVars>>

OpenEventFails(t) ==
    /\ "failure" \in Cases
    /\ At(t, "emplace")
    /\ mutex = Null
    /\ status' = [status EXCEPT ![call[t].reg] = "rejected"]
    /\ EndCall(t)
    /\ UNCHANGED <<closed, monitors, unregistered, mutex, holders, endPoint, isCalled, calls, asked>>

\* Mistake: the waiter of the process is constructed, but not armed.
OpenProcess_Unarmed(t) ==
    /\ At(t, "openProcess")
    /\ Goto(t, "insert")
    /\ UNCHANGED <<closed, monitors, unregistered, mutex, holders, regVars>>

OpenProcess(t) ==
    /\ At(t, "openProcess")
    /\ call' = [call EXCEPT ![t].at = "insert", ![<<call[t].reg, "process">>].at = "armed"]
    /\ UNCHANGED <<closed, monitors, unregistered, mutex, holders, regVars>>

\* The exception destroys what there is.
Reject(t, doomed) ==
    /\ status' = [status EXCEPT ![call[t].reg] = "rejected"]
    /\ call' = [call EXCEPT ![t].at = "reject", ![t].doomed = doomed]

OpenProcessFails(t) ==
    /\ "failure" \in Cases
    /\ At(t, "openProcess")
    /\ Reject(t, << <<call[t].reg, "event">> >>)
    /\ UNCHANGED <<closed, monitors, unregistered, mutex, holders, endPoint, isCalled, calls, asked>>

\* Mistake: the mapped monitor is replaced.
IsDuplicate_Never(e) == FALSE

IsDuplicate(e) == monitors[e] # Null

Insert(t) ==
    LET r == call[t].reg
        e == endPoint[r]
    IN  /\ At(t, "insert")
        /\ IF IsDuplicate(e)
           THEN Reject(t, WaitersOf(r)) /\ UNCHANGED <<monitors, mutex>>
           ELSE /\ monitors' = [monitors EXCEPT ![e] = r]
                /\ status' = [status EXCEPT ![r] = "registered"]
                /\ mutex' = Null
                /\ EndCall(t)
        /\ UNCHANGED <<closed, unregistered, holders, endPoint, isCalled, calls, asked>>

EndReject(t) ==
    /\ At(t, "reject")
    /\ call[t].doomed = <<>>
    /\ mutex' = Null
    /\ EndCall(t)
    /\ UNCHANGED <<closed, monitors, unregistered, holders, regVars>>

-------------------------------------------------------------------------------
(* A callback of the thread pool.                                            *)

Fire(w) ==
    /\ At(w, "armed")
    /\ <<endPoint[w[1]], w[2]>> \in closed
    /\ Goto(w, "entered")
    /\ UNCHANGED <<closed, monitors, unregistered, mutex, holders, regVars>>

\* Mistake: the flag is set, but what it was is not looked at.
MayCall_Untested(w) == TRUE

MayCall(w) == ~isCalled[w[1]]

\* Mistake: the endpoint is put on the list before the user is called.
Exchange_PushesFirst(w) ==
    /\ At(w, "entered")
    /\ isCalled' = [isCalled EXCEPT ![w[1]] = TRUE]
    /\ unregistered' = unregistered \cup {endPoint[w[1]]}
    /\ IF MayCall(w)
       THEN calls' = [calls EXCEPT ![w[1]] = @ + 1] /\ Goto(w, "user")
       ELSE Goto(w, "done") /\ UNCHANGED calls
    /\ UNCHANGED <<closed, monitors, mutex, holders, endPoint, status, asked>>

\* isCalled->exchange(true)
Exchange(w) ==
    /\ At(w, "entered")
    /\ isCalled' = [isCalled EXCEPT ![w[1]] = TRUE]
    /\ IF MayCall(w)
       THEN calls' = [calls EXCEPT ![w[1]] = @ + 1] /\ Goto(w, "user")
       ELSE Goto(w, "done") /\ UNCHANGED calls
    /\ UNCHANGED <<closed, monitors, unregistered, mutex, holders, endPoint, status, asked>>

\* The user's callback returns.
Return(w) ==
    /\ At(w, "user")
    /\ Goto(w, "lock")
    /\ UNCHANGED <<closed, monitors, unregistered, mutex, holders, regVars>>

\* Mistake: a plain pointer, which cannot tell that the monitor is gone.
LockWeak_Plain(w) ==
    /\ At(w, "lock")
    /\ Goto(w, "push")
    /\ UNCHANGED <<closed, monitors, unregistered, mutex, holders, regVars>>

\* thisWeakPtr.lock()
LockWeak(w) ==
    /\ At(w, "lock")
    /\ IF holders # {}
       THEN holders' = holders \cup {w} /\ Goto(w, "push")
       ELSE Goto(w, "done") /\ UNCHANGED holders
    /\ UNCHANGED <<closed, monitors, unregistered, mutex, regVars>>

\* Mistake: one mutex for the list and for the map.
Push_SameMutex(w) ==
    /\ At(w, "push")
    /\ mutex = Null
    /\ unregistered' = unregistered \cup {endPoint[w[1]]}
    /\ Goto(w, "release")
    /\ UNCHANGED <<closed, monitors, mutex, holders, regVars>>

\* connectionMonitor->UnRegister(remoteEndPoint)
Push(w) ==
    /\ At(w, "push")
    /\ unregistered' = unregistered \cup {endPoint[w[1]]}
    /\ Goto(w, "release")
    /\ UNCHANGED <<closed, monitors, mutex, holders, regVars>>

-------------------------------------------------------------------------------
(* A shared_ptr goes, and with the last one the monitor.                     *)

Release(t) ==
    /\ \/ t \in Clients /\ At(t, "idle") /\ "release" \in Cases
       \/ At(t, "release")
       \/ At(t, "userRelease")
    /\ holders' = holders \ {t}
    /\ LET next == IF t \in Clients THEN "gone" ELSE IF At(t, "release") THEN "done" ELSE "lock"
       IN  call' = [call EXCEPT ![t].at = IF holders = {t} THEN "destroy" ELSE next,
                                ![t].then = next]
    /\ UNCHANGED <<closed, monitors, unregistered, mutex, regVars>>

\* ~ConnectionMonitor() destroys the members, m_remoteMonitors last of these.
Destroy(t, e) ==
    /\ At(t, "destroy")
    /\ call[t].doomed = <<>>
    /\ monitors[e] # Null
    /\ Remove(t, e)
    /\ UNCHANGED <<closed, unregistered, mutex, holders, endPoint, isCalled, calls, asked>>

EndDestroy(t) ==
    /\ At(t, "destroy")
    /\ call[t].doomed = <<>>
    /\ \A e \in EndPoints : monitors[e] = Null
    /\ Goto(t, call[t].then)
    /\ UNCHANGED <<closed, monitors, unregistered, mutex, holders, regVars>>

-------------------------------------------------------------------------------
UnRegister(t) ==
    Swap(t) \/ LockErase(t) \/ EndErase(t) \/ \E e \in EndPoints : Erase(t, e)

Emplace(t) ==
    OpenEvent(t) \/ OpenEventFails(t) \/ OpenProcess(t) \/ OpenProcessFails(t) \/ Insert(t) \/ EndReject(t)

\* What a thread does without being asked to by a user.
Proceed(t) ==
    \/ UnRegister(t) \/ Count(t) \/ Emplace(t) \/ DestroyWaiter(t)
    \/ EndDestroy(t) \/ \E e \in EndPoints : Destroy(t, e)

OnEvent(w) == Fire(w) \/ Exchange(w) \/ Return(w) \/ LockWeak(w) \/ Push(w)

Next ==
    \/ \E e \in EndPoints : Close(e, "event") \/ Close(e, "process")
    \/ \E t \in Threads :
           \/ GetRemoteConnectionsCount(t) \/ Proceed(t) \/ Release(t)
           \/ \E e \in EndPoints :
                  UnRegisterEndPoint(t, e) \/ \E r \in Registrations : Register(t, e, r)
    \/ \E w \in Waiters : OnEvent(w)

Spec == Init /\ [][Next]_vars

\* The thread pool runs callbacks; a call that has begun goes on, and gets a
\* mutex that is free again and again.
Fairness ==
    /\ \A w \in Waiters : WF_vars(OnEvent(w)) /\ WF_vars(Release(w))
    /\ \A t \in Clients : SF_vars(Proceed(t))

FairSpec == Spec /\ Fairness

-------------------------------------------------------------------------------
(* Properties.                                                               *)

\* "only one callback is triggered from one endpoint even if we are waiting for
\* two handles" (ConnectionMonitor.cpp:45)
CalledAtMostOnce == \A r \in Registrations : calls[r] <= 1

\* No thread uses the members of the monitor once its destructor runs
\* (ConnectionMonitor.cpp:42): who does has a shared_ptr.
NoUseAfterDestruction ==
    \A t \in Threads :
        call[t].at \in Owning \cup Waiting \cup {"swap", "push"} => holders # {}

\* When a call or a destructor that gives up a registration is done with it, no
\* callback of it is running, and none will: the user may then destroy what the
\* callback refers to (ConnectionMonitor.cpp:129).
QuietWhenGone ==
    \A r \in Registrations :
        status[r] \in {"erased", "rejected"} =>
            \A kind \in {"event", "process"} :
                \/ call[<<r, kind>>].at \in {"none", "done"}
                \/ \E t \in Threads : \E i \in DOMAIN call[t].doomed :
                       call[t].doomed[i] = <<r, kind>>

\* A failed registration of the same endpoint may have left it on the list.
Disturbed(r) == \E q \in Registrations : endPoint[q] = endPoint[r] /\ status[q] = "rejected"

\* "the callback registered is triggered and the remote endpoint is removed from
\* the ConnectionMonitor after the callback is finished" (ConnectionMonitor.h:19),
\* unless the user asked for it, or a registration of it has failed.
RemovedAfterCallback ==
    holders # {} =>
        \A r \in Registrations :
            status[r] = "erased" /\ r \notin asked /\ ~Disturbed(r) =>
                calls[r] > 0 /\ ~\E kind \in {"event", "process"} : At(<<r, kind>>, "user")

\* "When the remote endpoint's process closes, or its event handle is closed, the
\* callback registered is triggered" (ConnectionMonitor.h:19), with the same
\* exceptions.
ClosedIsReported ==
    \A r \in Registrations :
        (status[r] = "registered" /\ \E kind \in {"event", "process"} : <<endPoint[r], kind>> \in closed)
            ~> calls[r] > 0 \/ r \in asked \/ Disturbed(r)

\* Register() and GetRemoteConnectionsCount() return: no wait for a callback
\* lasts for ever (ConnectionMonitor.cpp:87).
CallsReturn == \A t \in Clients : ~At(t, "idle") ~> At(t, "idle")

-------------------------------------------------------------------------------
(* Not guaranteed by the code: TLC refutes these (README, section 4).        *)

\* "Cannot call UnRegister() because it will self-destruct" (ConnectionMonitor.cpp:66):
\* no callback waits for its own end.
NoSelfDestruct ==
    \A w \in Waiters : call[w].doomed # <<>> => Head(call[w].doomed) # w

\* "it can deadlock if this function holds the lock while calling the erase()"
\* (ConnectionMonitor.cpp:90): who waits for a callback has no lock that the
\* callback waits for.
NoCircularWait ==
    \A t \in Threads :
        mutex = t /\ call[t].doomed # <<>> => call[Head(call[t].doomed)].at \notin Waiting
===============================================================================

------------------------ MODULE ConnectionMonitorProofs ------------------------
(***************************************************************************)
(* The connection monitor, for all sets of clients, endpoints and          *)
(* registrations and whatever users and the system do: it calls a user     *)
(* once, no thread uses it once it is gone, a registration that was given  *)
(* up is quiet, and it is removed only after its callback has returned.    *)
(***************************************************************************)
EXTENDS ConnectionMonitor, TLAPS

CallRecords == [at : Places, then : Places, taken : SUBSET EndPoints,
                doomed : Seq(Waiters), reg : Registrations \cup {Null}]

StateInv ==
    /\ closed \subseteq EndPoints \X {"event", "process"}
    /\ monitors \in [EndPoints -> Registrations \cup {Null}]
    /\ unregistered \subseteq EndPoints
    /\ holders \subseteq Threads
    /\ endPoint \in [Registrations -> EndPoints \cup {Null}]
    /\ status \in [Registrations -> Statuses]
    /\ isCalled \in [Registrations -> BOOLEAN]
    /\ calls \in [Registrations -> Nat]
    /\ asked \subseteq Registrations
    /\ call \in [Threads -> CallRecords]

Unregistering == {"swap", "lockErase", "erase"}

\* What is in the call of a thread goes with the place where the thread is.
ShapeInv ==
    \A t \in Threads :
        /\ call[t].doomed # <<>> => call[t].at \in {"erase", "reject", "destroy"}
        /\ call[t].at \in Unregistering =>
               call[t].then = IF call[t].reg = Null THEN "count" ELSE "emplace"
        /\ call[t].at = "destroy" => call[t].then \in {"gone", "done", "lock"}
        /\ call[t].reg # Null =>
               call[t].at \in Unregistering \cup {"emplace", "openProcess", "insert", "reject"}
        /\ call[t].at \in {"emplace", "openProcess", "insert"} => call[t].reg # Null

MutexInv == \A t \in Threads : mutex = t <=> call[t].at \in Owning

\* Who uses the monitor has a shared_ptr to it.
HolderInv ==
    \A t \in Threads :
        call[t].at \in Owning \cup Waiting \cup {"swap", "push"} => t \in holders

MapInv ==
    /\ \A e \in EndPoints, r \in Registrations :
           monitors[e] = r <=> endPoint[r] = e /\ status[r] = "registered"
    /\ \A r \in Registrations : status[r] # "unused" => endPoint[r] \in EndPoints

\* The flag is set exactly once.
CountInv == \A r \in Registrations : calls[r] = IF isCalled[r] THEN 1 ELSE 0

IsOpening(t) ==
    call[t].at \in Unregistering \cup {"emplace", "openProcess", "insert"} /\ call[t].reg # Null

\* A registration has the waiters that its one Register() has made so far.
OpenInv ==
    /\ \A t \in Threads : IsOpening(t) =>
           /\ status[call[t].reg] = "open"
           /\ call[t].at \notin {"openProcess", "insert"} => call[<<call[t].reg, "event">>].at = "none"
           /\ call[t].at # "insert" => call[<<call[t].reg, "process">>].at = "none"
    /\ \A t, u \in Threads : IsOpening(t) /\ IsOpening(u) /\ call[t].reg = call[u].reg => t = u
    /\ \A w \in Waiters : status[w[1]] = "unused" => call[w].at = "none"

\* The waiters that a thread has still to destroy.
Doomed(t) == {call[t].doomed[i] : i \in DOMAIN call[t].doomed}

\* A waiter whose registration is gone will not call back once it is destroyed.
QuietInv ==
    \A w \in Waiters :
        status[w[1]] \in {"erased", "rejected"} =>
            \/ call[w].at \in {"none", "done"}
            \/ \E t \in Threads : w \in Doomed(t)

Inv == StateInv /\ ShapeInv /\ MutexInv /\ HolderInv /\ MapInv /\ CountInv /\ OpenInv /\ QuietInv

LEMMA Init_Inv == Init => Inv
<1> SUFFICES ASSUME Init PROVE Inv
    OBVIOUS
<1>1. \A t \in Threads : /\ call[t] \in CallRecords /\ call[t].at \in {"idle", "none"}
                         /\ call[t].doomed = <<>> /\ call[t].reg = Null
                         /\ t \in Waiters => call[t].at = "none"
    BY ThreadsAssumption DEF Init, Start, CallRecords, Places, Resting, Owning, Waiting
<1>2. StateInv
    BY <1>1 DEF Init, StateInv, Threads, Statuses
<1>3. ShapeInv /\ MutexInv /\ HolderInv
    BY <1>1, ThreadsAssumption
    DEF Init, ShapeInv, MutexInv, HolderInv, Owning, Waiting, Unregistering
<1>4. MapInv /\ CountInv
    BY ThreadsAssumption DEF Init, MapInv, CountInv
<1>5. OpenInv /\ QuietInv
    BY <1>1 DEF Init, OpenInv, QuietInv, IsOpening, Waiters, Threads
<1> QED
    BY <1>2, <1>3, <1>4, <1>5 DEF Inv

-------------------------------------------------------------------------------
(* Steps that change where one thread is, and nothing about registrations.   *)

\* What the record of a thread must be like.
Shaped(c) ==
    /\ c.doomed # <<>> => c.at \in {"erase", "reject", "destroy"}
    /\ c.at \in Unregistering => c.then = IF c.reg = Null THEN "count" ELSE "emplace"
    /\ c.at = "destroy" => c.then \in {"gone", "done", "lock"}
    /\ c.reg # Null =>
           c.at \in Unregistering \cup {"emplace", "openProcess", "insert", "reject"}
    /\ c.at \in {"emplace", "openProcess", "insert"} => c.reg # Null

LEMMA ShapeIs ==
    /\ ShapeInv <=> \A t \in Threads : Shaped(call[t])
    /\ ShapeInv' <=> \A t \in Threads : Shaped(call'[t])
    BY DEF ShapeInv, Shaped

LEMMA Move ==
    ASSUME Inv, NEW t \in Threads, NEW c \in CallRecords, call' = [call EXCEPT ![t] = c],
           UNCHANGED <<monitors, endPoint, status>>,
           c.doomed = call[t].doomed,
           Shaped(c),
           call[t].at \notin {"none", "done"}, c.at # "none",
           \/ c.reg = Null
           \/ c.at = "reject"
           \/ /\ c.reg = call[t].reg
              /\ call[t].at \in Unregistering /\ c.at \in Unregistering \cup {"emplace"}
    PROVE  ShapeInv' /\ MapInv' /\ OpenInv' /\ QuietInv' /\ call' \in [Threads -> CallRecords]
<1> USE DEF Inv
<1>1. /\ call' \in [Threads -> CallRecords]
      /\ \A u \in Threads : call'[u] = IF u = t THEN c ELSE call[u]
    BY DEF StateInv
<1>2. ShapeInv'
    BY <1>1, ShapeIs
<1>3. MapInv'
    BY DEF MapInv
<1>4. \A w \in Waiters : w \in Threads /\ (call[w].at = "none" => call'[w].at = "none")
    BY <1>1 DEF Threads
<1>5. \A u \in Threads : IsOpening(u)' => IsOpening(u) /\ call'[u].reg = call[u].reg
                                            /\ (call'[u].at # call[u].at => call'[u].at \in Unregistering \cup {"emplace"} /\ call[u].at \in Unregistering)
    BY <1>1 DEF IsOpening, Unregistering
<1>6. \A u \in Threads : IsOpening(u) =>
          <<call[u].reg, "event">> \in Waiters /\ <<call[u].reg, "process">> \in Waiters
    BY DEF IsOpening, StateInv, CallRecords, Waiters
<1>7. OpenInv'
    BY <1>4, <1>5, <1>6 DEF OpenInv, Unregistering
<1>8. \A u \in Threads : Doomed(u)' = Doomed(u)
    BY <1>1 DEF Doomed
<1>9. \A w \in Waiters : call[w].at \in {"none", "done"} => call'[w].at = call[w].at
    BY <1>1 DEF Threads
<1>10. QuietInv'
    BY <1>8, <1>9 DEF QuietInv
<1> QED
    BY <1>1, <1>2, <1>3, <1>7, <1>10

\* The record of t becomes c; the other threads stay where they are.
Becomes(t, c) == c \in CallRecords /\ call' = [call EXCEPT ![t] = c]

LEMMA GotoIs ==
    ASSUME StateInv, NEW t \in Threads, NEW place \in Places, Goto(t, place)
    PROVE  \E c \in CallRecords :
               /\ Becomes(t, c) /\ c.at = place
               /\ c.then = call[t].then /\ c.taken = call[t].taken
               /\ c.doomed = call[t].doomed /\ c.reg = call[t].reg
<1>1. PICK c : c = [call[t] EXCEPT !.at = place]
    OBVIOUS
<1>2. call[t] \in CallRecords
    BY DEF StateInv
<1>3. /\ c \in CallRecords /\ c.at = place
      /\ c.then = call[t].then /\ c.taken = call[t].taken
      /\ c.doomed = call[t].doomed /\ c.reg = call[t].reg
    BY <1>1, <1>2 DEF CallRecords
<1>4. call' = [call EXCEPT ![t] = c]
    BY <1>1 DEF Goto
<1> QED
    BY <1>3, <1>4 DEF Becomes

LEMMA EndCallIs ==
    ASSUME StateInv, NEW t \in Threads, EndCall(t)
    PROVE  \E c \in CallRecords :
               /\ Becomes(t, c) /\ c.at \in {"idle", "userRelease"}
               /\ c.doomed = <<>> /\ c.reg = Null
<1>1. PICK c : c = Start(IF t \in Clients THEN "idle" ELSE "userRelease")
    OBVIOUS
<1>2. /\ c \in CallRecords /\ c.at \in {"idle", "userRelease"}
      /\ c.doomed = <<>> /\ c.reg = Null
    BY <1>1 DEF Start, CallRecords, Places
<1> QED
    BY <1>1, <1>2 DEF EndCall, Becomes

\* The parts of the invariant that a move leaves to the action.
LEMMA MoveWith ==
    ASSUME Inv, NEW t \in Threads, NEW c \in CallRecords, Becomes(t, c),
           UNCHANGED <<monitors, endPoint, status, closed, asked, isCalled, calls>>,
           unregistered' \subseteq EndPoints,
           c.doomed = call[t].doomed,
           Shaped(c),
           call[t].at \notin {"none", "done"}, c.at # "none",
           \/ c.reg = Null
           \/ c.at = "reject"
           \/ /\ c.reg = call[t].reg
              /\ call[t].at \in Unregistering /\ c.at \in Unregistering \cup {"emplace"},
           \/ mutex' = mutex /\ (call[t].at \in Owning <=> c.at \in Owning)
           \/ mutex = Null /\ mutex' = t /\ c.at \in Owning
           \/ call[t].at \in Owning /\ mutex' = Null /\ c.at \notin Owning,
           holders' \subseteq Threads, holders \ {t} \subseteq holders',
           c.at \in Owning \cup Waiting \cup {"swap", "push"} => t \in holders'
    PROVE  Inv'
<1>1. ShapeInv' /\ MapInv' /\ OpenInv' /\ QuietInv' /\ call' \in [Threads -> CallRecords]
    BY Move DEF Becomes
<1>2. \A u \in Threads : call'[u] = IF u = t THEN c ELSE call[u]
    BY DEF Inv, StateInv, Becomes
<1>3. StateInv'
    BY <1>1 DEF Inv, StateInv
<1>4. MutexInv'
    BY <1>2, ThreadsAssumption DEF Inv, MutexInv
<1>5. HolderInv'
    BY <1>2 DEF Inv, HolderInv
<1>6. CountInv'
    BY DEF Inv, CountInv
<1> QED
    BY <1>1, <1>3, <1>4, <1>5, <1>6 DEF Inv

LEMMA GetRemoteConnectionsCount_Inv ==
    ASSUME Inv, NEW t \in Threads, GetRemoteConnectionsCount(t)
    PROVE  Inv'
<1>1. PICK c : c = [[call[t] EXCEPT !.at = "swap"] EXCEPT !.then = "count"]
    OBVIOUS
<1>2. call[t] \in CallRecords /\ call[t].at \in {"idle", "user"}
    BY DEF GetRemoteConnectionsCount, CanCall, At, Inv, StateInv
<1>3. /\ c \in CallRecords /\ c.at = "swap" /\ c.then = "count"
      /\ c.doomed = call[t].doomed /\ c.reg = call[t].reg
    BY <1>1, <1>2 DEF CallRecords, Places, Waiting
<1>4. call[t].doomed = <<>> /\ call[t].reg = Null
    BY <1>2 DEF Inv, ShapeInv, Unregistering
<1>5. Becomes(t, c)
    BY <1>1, <1>3 DEF GetRemoteConnectionsCount, Becomes, Inv, StateInv
<1>6. Shaped(c)
    BY <1>3, <1>4 DEF Shaped, Unregistering
<1> QED
    BY <1>2, <1>3, <1>4, <1>5, <1>6, MoveWith
    DEF GetRemoteConnectionsCount, Inv, StateInv, regVars, Owning

LEMMA Swap_Inv ==
    ASSUME Inv, NEW t \in Threads, Swap(t)
    PROVE  Inv'
<1>1. PICK c : c = [[call[t] EXCEPT !.at = "lockErase"] EXCEPT !.taken = unregistered]
    OBVIOUS
<1>2. call[t] \in CallRecords /\ call[t].at = "swap"
    BY DEF Swap, At, Inv, StateInv
<1>3. /\ c \in CallRecords /\ c.at = "lockErase" /\ c.then = call[t].then
      /\ c.doomed = call[t].doomed /\ c.reg = call[t].reg
    BY <1>1, <1>2 DEF CallRecords, Places, Waiting, Inv, StateInv
<1>4. Becomes(t, c)
    BY <1>1, <1>3 DEF Swap, Becomes, Inv, StateInv
<1>5. Shaped(c) /\ t \in holders
    BY <1>2, <1>3 DEF Shaped, Unregistering, Inv, ShapeInv, HolderInv
<1> QED
    BY <1>2, <1>3, <1>4, <1>5, MoveWith DEF Swap, Inv, StateInv, regVars, Owning, Unregistering

LEMMA LockErase_Inv ==
    ASSUME Inv, NEW t \in Threads, LockErase(t)
    PROVE  Inv'
<1>1. PICK c \in CallRecords : /\ Becomes(t, c) /\ c.at = "erase" /\ c.then = call[t].then
                               /\ c.doomed = call[t].doomed /\ c.reg = call[t].reg
    BY GotoIs DEF LockErase, Inv, Places, Owning
<1>2. call[t].at = "lockErase"
    BY DEF LockErase, At
<1>3. Shaped(c) /\ t \in holders
    BY <1>1, <1>2 DEF Shaped, Unregistering, Waiting, Inv, ShapeInv, HolderInv
<1> QED
    BY <1>1, <1>2, <1>3, MoveWith DEF LockErase, Inv, StateInv, regVars, Owning, Unregistering

LEMMA EndErase_Inv ==
    ASSUME Inv, NEW t \in Threads, EndErase(t)
    PROVE  Inv'
<1>1. call[t].at = "erase" /\ call[t].doomed = <<>> /\ call[t].then \in {"count", "emplace"}
      /\ call[t].then = IF call[t].reg = Null THEN "count" ELSE "emplace"
    BY DEF EndErase, At, Inv, ShapeInv, Unregistering
<1>2. PICK c \in CallRecords : /\ Becomes(t, c) /\ c.at = call[t].then /\ c.then = call[t].then
                               /\ c.doomed = call[t].doomed /\ c.reg = call[t].reg
    BY <1>1, GotoIs DEF EndErase, Inv, Places, Waiting
<1>3. Shaped(c) /\ t \in holders
    BY <1>1, <1>2 DEF Shaped, Unregistering, Owning, Inv, HolderInv
<1> QED
    BY <1>1, <1>2, <1>3, MoveWith DEF EndErase, Inv, StateInv, regVars, Owning, Unregistering

LEMMA Count_Inv ==
    ASSUME Inv, NEW t \in Threads, Count(t)
    PROVE  Inv'
<1>1. call[t].at = "count" /\ call[t].doomed = <<>>
    BY DEF Count, At, Inv, ShapeInv
<1>2. PICK c \in CallRecords : /\ Becomes(t, c) /\ c.at \in {"idle", "userRelease"}
                               /\ c.doomed = <<>> /\ c.reg = Null
    BY EndCallIs DEF Count, Inv
<1>3. Shaped(c)
    BY <1>2 DEF Shaped, Unregistering
<1> QED
    BY <1>1, <1>2, <1>3, MoveWith DEF Count, Inv, StateInv, regVars, Owning, Waiting

LEMMA EndReject_Inv ==
    ASSUME Inv, NEW t \in Threads, EndReject(t)
    PROVE  Inv'
<1>1. call[t].at = "reject" /\ call[t].doomed = <<>>
    BY DEF EndReject, At
<1>2. PICK c \in CallRecords : /\ Becomes(t, c) /\ c.at \in {"idle", "userRelease"}
                               /\ c.doomed = <<>> /\ c.reg = Null
    BY EndCallIs DEF EndReject, Inv
<1>3. Shaped(c)
    BY <1>2 DEF Shaped, Unregistering
<1> QED
    BY <1>1, <1>2, <1>3, MoveWith DEF EndReject, Inv, StateInv, regVars, Owning, Waiting

LEMMA EndDestroy_Inv ==
    ASSUME Inv, NEW t \in Threads, EndDestroy(t)
    PROVE  Inv'
<1>1. /\ call[t].at = "destroy" /\ call[t].doomed = <<>> /\ call[t].then \in {"gone", "done", "lock"}
      /\ call[t].reg = Null
    BY DEF EndDestroy, At, Inv, ShapeInv, Unregistering
<1>2. PICK c \in CallRecords : /\ Becomes(t, c) /\ c.at = call[t].then
                               /\ c.doomed = call[t].doomed /\ c.reg = call[t].reg
    BY <1>1, GotoIs DEF EndDestroy, Inv, Places, Resting
<1>3. Shaped(c)
    BY <1>1, <1>2 DEF Shaped, Unregistering
<1> QED
    BY <1>1, <1>2, <1>3, MoveWith DEF EndDestroy, Inv, StateInv, regVars, Owning, Waiting

LEMMA Release_Inv ==
    ASSUME Inv, NEW t \in Threads, Release(t)
    PROVE  Inv'
<1>1. PICK next : next = IF t \in Clients THEN "gone" ELSE IF At(t, "release") THEN "done" ELSE "lock"
    OBVIOUS
<1>2. PICK at : at = IF holders = {t} THEN "destroy" ELSE next
    OBVIOUS
<1>3. next \in {"gone", "done", "lock"} /\ at \in {"destroy", "gone", "done", "lock"} /\ at \in Places /\ next \in Places
      /\ (at # "destroy" => at = next)
    BY <1>1, <1>2 DEF Places, Resting
<1>4. PICK c : c = [[call[t] EXCEPT !.at = at] EXCEPT !.then = next]
    OBVIOUS
<1>5. call[t] \in CallRecords /\ call[t].at \in {"idle", "release", "userRelease"}
    BY DEF Release, At, Inv, StateInv
<1>6. /\ c \in CallRecords /\ c.at = at /\ c.then = next
      /\ c.doomed = call[t].doomed /\ c.reg = call[t].reg
    BY <1>3, <1>4, <1>5 DEF CallRecords
<1>7. call[t].doomed = <<>> /\ call[t].reg = Null
    BY <1>5 DEF Inv, ShapeInv, Unregistering
<1>8. Becomes(t, c)
  <2>1. call' = [call EXCEPT ![t].at = at, ![t].then = next]
    BY <1>1, <1>2 DEF Release
  <2> QED
    BY <1>4, <1>6, <2>1 DEF Becomes, Inv, StateInv
<1>9. Shaped(c)
    BY <1>3, <1>6, <1>7 DEF Shaped, Unregistering
<1> QED
    BY <1>3, <1>5, <1>6, <1>7, <1>8, <1>9, MoveWith
    DEF Release, Inv, StateInv, regVars, Owning, Waiting

-------------------------------------------------------------------------------
(* Callbacks.                                                                *)

LEMMA Callback ==
    ASSUME Inv, NEW w \in Waiters,
           call[w].at \in {"armed", "entered", "user", "lock", "push"}
    PROVE  w \in Threads /\ call[w].doomed = <<>> /\ call[w].reg = Null
    BY DEF Inv, ShapeInv, Unregistering, Threads

LEMMA Fire_Inv ==
    ASSUME Inv, NEW w \in Waiters, Fire(w)
    PROVE  Inv'
<1>1. call[w].at = "armed" /\ w \in Threads /\ call[w].doomed = <<>> /\ call[w].reg = Null
    BY Callback DEF Fire, At
<1>2. PICK c \in CallRecords : Becomes(w, c) /\ c.at = "entered" /\ c.doomed = <<>> /\ c.reg = Null
    BY <1>1, GotoIs DEF Fire, Inv, Places
<1>3. Shaped(c)
    BY <1>2 DEF Shaped, Unregistering
<1> QED
    BY <1>1, <1>2, <1>3, MoveWith DEF Fire, Inv, StateInv, regVars, Owning, Waiting

LEMMA Exchange_Inv ==
    ASSUME Inv, NEW w \in Waiters, Exchange(w)
    PROVE  Inv'
<1>1. call[w].at = "entered" /\ w \in Threads /\ call[w].doomed = <<>> /\ call[w].reg = Null
    BY Callback DEF Exchange, At
<1>2. PICK place \in {"user", "done"} : Goto(w, place)
    BY DEF Exchange
<1>3. PICK c \in CallRecords : Becomes(w, c) /\ c.at = place /\ c.doomed = <<>> /\ c.reg = Null
    BY <1>1, <1>2, GotoIs DEF Inv, Places, Resting
<1>4. Shaped(c)
    BY <1>3 DEF Shaped, Unregistering
<1>5. ShapeInv' /\ MapInv' /\ OpenInv' /\ QuietInv' /\ call' \in [Threads -> CallRecords]
    BY <1>1, <1>3, <1>4, Move DEF Exchange, Becomes
<1>6. \A u \in Threads : call'[u] = IF u = w THEN c ELSE call[u]
    BY <1>3 DEF Inv, StateInv, Becomes
<1>7. MutexInv' /\ HolderInv'
    BY <1>1, <1>3, <1>6 DEF Exchange, Inv, MutexInv, HolderInv, Owning, Waiting
<1>8. w[1] \in Registrations
    BY DEF Waiters
<1>9. CountInv' /\ isCalled' \in [Registrations -> BOOLEAN] /\ calls' \in [Registrations -> Nat]
  <2>1. isCalled' = [isCalled EXCEPT ![w[1]] = TRUE]
    BY DEF Exchange
  <2>2. CASE isCalled[w[1]]
    <3>1. calls' = calls
      BY <2>2 DEF Exchange, MayCall
    <3> QED
      BY <1>8, <2>1, <2>2, <3>1 DEF Inv, StateInv, CountInv
  <2>3. CASE ~isCalled[w[1]]
    <3>1. calls' = [calls EXCEPT ![w[1]] = calls[w[1]] + 1]
      BY <2>3 DEF Exchange, MayCall
    <3> QED
      BY <1>8, <2>1, <2>3, <3>1 DEF Inv, StateInv, CountInv
  <2> QED
    BY <2>2, <2>3
<1> QED
    BY <1>5, <1>7, <1>9 DEF Exchange, Inv, StateInv

LEMMA Return_Inv ==
    ASSUME Inv, NEW w \in Waiters, Return(w)
    PROVE  Inv'
<1>1. call[w].at = "user" /\ w \in Threads /\ call[w].doomed = <<>> /\ call[w].reg = Null
    BY Callback DEF Return, At
<1>2. PICK c \in CallRecords : Becomes(w, c) /\ c.at = "lock" /\ c.doomed = <<>> /\ c.reg = Null
    BY <1>1, GotoIs DEF Return, Inv, Places
<1>3. Shaped(c)
    BY <1>2 DEF Shaped, Unregistering
<1> QED
    BY <1>1, <1>2, <1>3, MoveWith DEF Return, Inv, StateInv, regVars, Owning, Waiting

LEMMA LockWeak_Inv ==
    ASSUME Inv, NEW w \in Waiters, LockWeak(w)
    PROVE  Inv'
<1>1. call[w].at = "lock" /\ w \in Threads /\ call[w].doomed = <<>> /\ call[w].reg = Null
    BY Callback DEF LockWeak, At
<1>2. PICK place \in {"push", "done"} :
          /\ Goto(w, place)
          /\ holders' = IF place = "push" THEN holders \cup {w} ELSE holders
    BY DEF LockWeak
<1>3. PICK c \in CallRecords : Becomes(w, c) /\ c.at = place /\ c.doomed = <<>> /\ c.reg = Null
    BY <1>1, <1>2, GotoIs DEF Inv, Places, Resting
<1>4. Shaped(c)
    BY <1>3 DEF Shaped, Unregistering
<1> QED
    BY <1>1, <1>2, <1>3, <1>4, MoveWith DEF LockWeak, Inv, StateInv, regVars, Owning, Waiting

LEMMA Push_Inv ==
    ASSUME Inv, NEW w \in Waiters, Push(w)
    PROVE  Inv'
<1>1. call[w].at = "push" /\ w \in Threads /\ call[w].doomed = <<>> /\ call[w].reg = Null
    BY Callback DEF Push, At
<1>2. PICK c \in CallRecords : Becomes(w, c) /\ c.at = "release" /\ c.doomed = <<>> /\ c.reg = Null
    BY <1>1, GotoIs DEF Push, Inv, Places
<1>3. Shaped(c)
    BY <1>2 DEF Shaped, Unregistering
<1>4. unregistered' \subseteq EndPoints
  <2>1. w[1] \in Registrations /\ status[w[1]] # "unused"
    BY <1>1 DEF Inv, OpenInv, Waiters
  <2>2. endPoint[w[1]] \in EndPoints /\ unregistered \subseteq EndPoints
    BY <2>1 DEF Inv, MapInv, StateInv
  <2>3. unregistered' = unregistered \cup {endPoint[w[1]]}
    BY DEF Push
  <2> QED
    BY <2>2, <2>3
<1> QED
    BY <1>1, <1>2, <1>3, <1>4, MoveWith DEF Push, Inv, StateInv, regVars, Owning, Waiting

-------------------------------------------------------------------------------
(* Registrations.                                                            *)

\* No thread moves: a handle is closed, or a user asks to be unregistered.
LEMMA Stay_Inv ==
    ASSUME Inv, UNCHANGED <<monitors, mutex, holders, endPoint, status, isCalled, calls, call>>,
           closed' \subseteq EndPoints \X {"event", "process"},
           unregistered' \subseteq EndPoints, asked' \subseteq Registrations
    PROVE  Inv'
<1>1. StateInv' /\ ShapeInv' /\ MutexInv' /\ HolderInv' /\ MapInv' /\ CountInv'
    BY DEF Inv, StateInv, ShapeInv, MutexInv, HolderInv, MapInv, CountInv
<1>2. OpenInv' /\ QuietInv'
    BY DEF Inv, OpenInv, QuietInv, IsOpening, Doomed
<1> QED
    BY <1>1, <1>2 DEF Inv

\* A registration that is not used yet becomes the one of this call.
LEMMA Register_Inv ==
    ASSUME Inv, NEW t \in Threads, NEW e \in EndPoints, NEW r \in Registrations, Register(t, e, r)
    PROVE  Inv'
<1>1. PICK c : c = [[[call[t] EXCEPT !.at = "swap"] EXCEPT !.then = "emplace"] EXCEPT !.reg = r]
    OBVIOUS
<1>2. call[t] \in CallRecords /\ call[t].at \in {"idle", "user"}
    BY DEF Register, CanCall, At, Inv, StateInv
<1>3. /\ c \in CallRecords /\ c.at = "swap" /\ c.then = "emplace"
      /\ c.doomed = call[t].doomed /\ c.reg = r /\ r # Null
    BY <1>1, <1>2, ThreadsAssumption DEF CallRecords, Places, Waiting
<1>4. call[t].doomed = <<>> /\ call[t].reg = Null
    BY <1>2 DEF Inv, ShapeInv, Unregistering
<1>5. Becomes(t, c)
    BY <1>1, <1>3 DEF Register, Becomes, Inv, StateInv
<1>6. Shaped(c)
    BY <1>3, <1>4 DEF Shaped, Unregistering
<1>7. /\ \A u \in Threads : call'[u] = IF u = t THEN c ELSE call[u]
      /\ call' \in [Threads -> CallRecords]
    BY <1>5 DEF Becomes, Inv, StateInv
<1>8. /\ status[r] = "unused"
      /\ \A q \in Registrations : /\ status'[q] = IF q = r THEN "open" ELSE status[q]
                                  /\ endPoint'[q] = IF q = r THEN e ELSE endPoint[q]
      /\ UNCHANGED <<closed, monitors, unregistered, mutex, isCalled, calls, asked>>
      /\ holders' = holders \cup {t}
    BY DEF Register, Inv, StateInv
<1>9. StateInv'
    BY <1>7, <1>8 DEF Register, Inv, StateInv, Statuses
<1>10. ShapeInv'
    BY <1>6, <1>7, ShapeIs DEF Inv
<1>11. MutexInv' /\ HolderInv' /\ CountInv'
    BY <1>2, <1>3, <1>7, <1>8 DEF Inv, MutexInv, HolderInv, CountInv, Owning
<1>12. MapInv'
    BY <1>8 DEF Inv, MapInv
<1>13. OpenInv'
  <2>1. \A u \in Threads : IsOpening(u) => call[u].reg \in Registrations /\ call[u].reg # r /\ u # t
    BY <1>4, <1>8 DEF IsOpening, Inv, StateInv, OpenInv, CallRecords
  <2>2. \A u \in Threads : IsOpening(u)' <=> IsOpening(u) \/ u = t
    BY <1>3, <1>7, <2>1 DEF IsOpening, Unregistering
  <2>3. \A w \in Waiters : w \in Threads /\ w[1] \in Registrations
                               /\ (call[w].at = "none" => call'[w].at = "none")
    BY <1>2, <1>7 DEF Threads, Waiters
  <2>4. \A q \in Registrations : <<q, "event">> \in Waiters /\ <<q, "process">> \in Waiters
                                     /\ <<q, "event">>[1] = q /\ <<q, "process">>[1] = q
    BY DEF Waiters
  <2>5. \A u \in Threads : IsOpening(u)' =>
           /\ status'[call'[u].reg] = "open"
           /\ call'[u].at \notin {"openProcess", "insert"} => call'[<<call'[u].reg, "event">>].at = "none"
           /\ call'[u].at # "insert" => call'[<<call'[u].reg, "process">>].at = "none"
    BY <1>3, <1>7, <1>8, <2>1, <2>2, <2>3, <2>4 DEF Inv, OpenInv
  <2>6. \A u, v \in Threads : IsOpening(u)' /\ IsOpening(v)' /\ call'[u].reg = call'[v].reg => u = v
    BY <1>3, <1>7, <2>1, <2>2 DEF Inv, OpenInv
  <2>7. \A w \in Waiters : status'[w[1]] = "unused" => call'[w].at = "none"
    BY <1>8, <2>3 DEF Inv, OpenInv
  <2> QED
    BY <2>5, <2>6, <2>7 DEF OpenInv
<1>14. QuietInv'
  <2>1. \A u \in Threads : Doomed(u)' = Doomed(u)
    BY <1>3, <1>7 DEF Doomed
  <2>2. \A w \in Waiters : w[1] \in Registrations /\ w \in Threads
                             /\ (call[w].at \in {"none", "done"} => call'[w].at = call[w].at)
    BY <1>2, <1>7 DEF Threads, Waiters
  <2> QED
    BY <1>8, <2>1, <2>2 DEF Inv, QuietInv
<1> QED
    BY <1>9, <1>10, <1>11, <1>12, <1>13, <1>14 DEF Inv

LEMMA WaitersOfIs ==
    ASSUME NEW r \in Registrations
    PROVE  /\ WaitersOf(r) \in Seq(Waiters) /\ WaitersOf(r) # <<>>
           /\ \A w \in Waiters : w[1] = r =>
                  \E i \in DOMAIN WaitersOf(r) : WaitersOf(r)[i] = w
<1>1. <<r, "process">> \in Waiters /\ <<r, "event">> \in Waiters
    BY DEF Waiters
<1>2. \A w \in Waiters : w[1] = r => w \in {<<r, "process">>, <<r, "event">>}
    BY DEF Waiters
<1>3. WaitersOf(r) = << <<r, "process">>, <<r, "event">> >>
    BY DEF WaitersOf
<1>4. \A a, b : /\ <<a, b>> # <<>> /\ 1 \in DOMAIN <<a, b>> /\ 2 \in DOMAIN <<a, b>>
                /\ <<a, b>>[1] = a /\ <<a, b>>[2] = b
                /\ a \in Waiters /\ b \in Waiters => <<a, b>> \in Seq(Waiters)
    OBVIOUS
<1> QED
    BY <1>1, <1>2, <1>3, <1>4

\* No other thread is at work on the registration.
IsAlone(t, r) == \A u \in Threads \ {t} : IsOpening(u) => call[u].reg # r

\* The record has the waiters of the registration that may still call back.
HasWaiters(c, r) ==
    \A w \in Waiters : w[1] = r =>
        call[w].at \in {"none", "done"} \/ \E i \in DOMAIN c.doomed : c.doomed[i] = w

\* A registration ends, or gets into the map.
LEMMA Settle ==
    ASSUME Inv, NEW t \in Threads, NEW c \in CallRecords, Becomes(t, c),
           NEW r \in Registrations, NEW s \in {"registered", "erased", "rejected"},
           status' = [status EXCEPT ![r] = s], status[r] \in {"open", "registered"},
           call[t].doomed = <<>>, Shaped(c),
           call[t].at \notin {"none", "done"}, c.at # "none",
           IsAlone(t, r),
           c.reg = Null \/ c.at = "reject" \/ (c.at = call[t].at /\ c.reg = call[t].reg /\ c.reg # r),
           s = "registered" \/ HasWaiters(c, r)
    PROVE  /\ ShapeInv' /\ OpenInv' /\ QuietInv'
           /\ call' \in [Threads -> CallRecords] /\ status' \in [Registrations -> Statuses]
<1>1. /\ \A u \in Threads : call'[u] = IF u = t THEN c ELSE call[u]
      /\ call' \in [Threads -> CallRecords]
    BY DEF Becomes, Inv, StateInv
<1>2. /\ \A q \in Registrations : status'[q] = IF q = r THEN s ELSE status[q]
      /\ status' \in [Registrations -> Statuses]
    BY DEF Inv, StateInv, Statuses
<1>3. ShapeInv'
    BY <1>1, ShapeIs DEF Inv
<1>4. \A w \in Waiters : /\ w \in Threads /\ w[1] \in Registrations
                         /\ call[w].at \in {"none", "done"} => call'[w].at = call[w].at
    BY <1>1 DEF Threads, Waiters
<1>5. OpenInv'
  <2>1. \A u \in Threads : IsOpening(u)' =>
            /\ IsOpening(u) /\ call'[u].at = call[u].at /\ call'[u].reg = call[u].reg
            /\ call[u].reg # r /\ call[u].reg \in Registrations
    BY <1>1 DEF IsOpening, IsAlone, Unregistering, Inv, StateInv, CallRecords
  <2>2. \A q \in Registrations : <<q, "event">> \in Waiters /\ <<q, "process">> \in Waiters
    BY DEF Waiters
  <2>3. \A u \in Threads : IsOpening(u)' =>
           /\ status'[call'[u].reg] = "open"
           /\ call'[u].at \notin {"openProcess", "insert"} => call'[<<call'[u].reg, "event">>].at = "none"
           /\ call'[u].at # "insert" => call'[<<call'[u].reg, "process">>].at = "none"
    BY <1>2, <1>4, <2>1, <2>2 DEF Inv, OpenInv
  <2>4. \A u, v \in Threads : IsOpening(u)' /\ IsOpening(v)' /\ call'[u].reg = call'[v].reg => u = v
    BY <2>1 DEF Inv, OpenInv
  <2>5. \A w \in Waiters : status'[w[1]] = "unused" => call'[w].at = "none"
    BY <1>2, <1>4 DEF Inv, OpenInv
  <2> QED
    BY <2>3, <2>4, <2>5 DEF OpenInv
<1>6. QuietInv'
  <2>1. \A u \in Threads : Doomed(u) \subseteq Doomed(u)'
    BY <1>1 DEF Doomed
  <2>2. Doomed(t)' = {c.doomed[i] : i \in DOMAIN c.doomed}
    BY <1>1 DEF Doomed
  <2> QED
    BY <1>2, <1>4, <2>1, <2>2 DEF Inv, QuietInv, HasWaiters
<1> QED
    BY <1>1, <1>2, <1>3, <1>5, <1>6

\* The map gives up a registration, whose waiters are now to be destroyed.
LEMMA Remove_Inv ==
    ASSUME Inv, NEW t \in Threads, NEW e \in EndPoints, Remove(t, e), monitors[e] # Null,
           call[t].at \in {"erase", "destroy"}, call[t].doomed = <<>>,
           UNCHANGED <<closed, unregistered, mutex, holders, endPoint, isCalled, calls, asked>>
    PROVE  Inv'
<1>1. PICK r \in Registrations : r = monitors[e]
    BY DEF Inv, StateInv
<1>2. status[r] = "registered"
    BY <1>1 DEF Inv, MapInv
<1>3. PICK c : c = [[call[t] EXCEPT !.taken = call[t].taken \ {e}] EXCEPT !.doomed = WaitersOf(r)]
    OBVIOUS
<1>4. call[t] \in CallRecords
    BY DEF Inv, StateInv
<1>5. /\ c \in CallRecords /\ c.at = call[t].at /\ c.then = call[t].then
      /\ c.reg = call[t].reg /\ c.doomed = WaitersOf(r)
    BY <1>3, <1>4, WaitersOfIs DEF CallRecords
<1>6. Becomes(t, c)
    BY <1>1, <1>3, <1>5 DEF Remove, Becomes, Inv, StateInv
<1>7. Shaped(c)
    BY <1>5 DEF Shaped, Unregistering, Inv, ShapeInv
<1>8. \A u \in Threads : IsOpening(u) => call[u].reg # r
    BY <1>2 DEF Inv, OpenInv
<1>9. c.reg = Null \/ c.reg # r
    BY <1>5, <1>8 DEF IsOpening, Unregistering, Inv, ShapeInv
<1>10. status' = [status EXCEPT ![r] = "erased"] /\ monitors' = [monitors EXCEPT ![e] = Null]
    BY <1>1 DEF Remove
<1>11. /\ ShapeInv' /\ OpenInv' /\ QuietInv'
       /\ call' \in [Threads -> CallRecords] /\ status' \in [Registrations -> Statuses]
  <2>1. HasWaiters(c, r) /\ IsAlone(t, r)
    BY <1>5, <1>8, WaitersOfIs DEF HasWaiters, IsAlone
  <2>2. c.reg = Null \/ (c.at = call[t].at /\ c.reg = call[t].reg /\ c.reg # r)
    BY <1>5, <1>9
  <2>3. call[t].at \notin {"none", "done"} /\ c.at # "none" /\ status[r] \in {"open", "registered"}
    BY <1>2, <1>5
  <2> QED
    BY <1>5, <1>6, <1>7, <1>10, <2>1, <2>2, <2>3, Settle
<1>12. \A u \in Threads : call'[u] = IF u = t THEN c ELSE call[u]
    BY <1>6 DEF Becomes, Inv, StateInv
<1>13. StateInv'
    BY <1>10, <1>11 DEF Inv, StateInv
<1>14. MutexInv' /\ HolderInv' /\ CountInv'
    BY <1>5, <1>12 DEF Inv, MutexInv, HolderInv, CountInv
<1>15. MapInv'
  <2>1. \A d \in EndPoints : monitors'[d] = IF d = e THEN Null ELSE monitors[d]
    BY <1>10 DEF Inv, StateInv
  <2>2. \A q \in Registrations : status'[q] = IF q = r THEN "erased" ELSE status[q]
    BY <1>10 DEF Inv, StateInv
  <2>3. endPoint[r] = e
    BY <1>1 DEF Inv, MapInv
  <2> QED
    BY <1>1, <1>2, <2>1, <2>2, <2>3, ThreadsAssumption DEF Inv, MapInv
<1> QED
    BY <1>11, <1>13, <1>14, <1>15 DEF Inv

LEMMA Erase_Inv ==
    ASSUME Inv, NEW t \in Threads, NEW e \in EndPoints, Erase(t, e)
    PROVE  Inv'
<1>1. call[t].at = "erase" /\ call[t].doomed = <<>>
    BY DEF Erase, At
<1>2. CASE monitors[e] # Null
    BY <1>1, <1>2, Remove_Inv DEF Erase
<1>3. CASE monitors[e] = Null
  <2>1. PICK c : c = [call[t] EXCEPT !.taken = call[t].taken \ {e}]
    OBVIOUS
  <2>2. call[t] \in CallRecords
    BY DEF Inv, StateInv
  <2>3. /\ c \in CallRecords /\ c.at = "erase" /\ c.then = call[t].then
        /\ c.reg = call[t].reg /\ c.doomed = call[t].doomed
    BY <1>1, <2>1, <2>2 DEF CallRecords
  <2>4. Becomes(t, c)
    BY <1>3, <2>1, <2>3 DEF Erase, Becomes
  <2>5. Shaped(c) /\ t \in holders
    BY <1>1, <2>3 DEF Shaped, Unregistering, Owning, Inv, ShapeInv, HolderInv
  <2> QED
    BY <1>1, <1>3, <2>3, <2>4, <2>5, MoveWith DEF Erase, Inv, StateInv, Owning, Unregistering
<1> QED
    BY <1>2, <1>3

LEMMA Destroy_Inv ==
    ASSUME Inv, NEW t \in Threads, NEW e \in EndPoints, Destroy(t, e)
    PROVE  Inv'
    BY Remove_Inv DEF Destroy, At

-------------------------------------------------------------------------------
(* Waiters.                                                                  *)

\* The records of two threads change, w's first.
BothMove(t, c, w, d) == call' = [[call EXCEPT ![w] = d] EXCEPT ![t] = c]

\* After it each thread has the record it was given, the others the one they had.
LEMMA TwoMove ==
    ASSUME StateInv, NEW t \in Threads, NEW w \in Threads, w # t,
           NEW c \in CallRecords, NEW d \in CallRecords,
           BothMove(t, c, w, d)
    PROVE  /\ \A u \in Threads : call'[u] = IF u = t THEN c ELSE IF u = w THEN d ELSE call[u]
           /\ call' \in [Threads -> CallRecords]
    BY DEF StateInv, BothMove

\* A thread destroys the first of its waiters, which is not running.
LEMMA DestroyWaiter_Inv ==
    ASSUME Inv, NEW t \in Threads, DestroyWaiter(t)
    PROVE  Inv'
<1>1. PICK w : w = Head(call[t].doomed)
    OBVIOUS
<1>2. PICK rest : rest = Tail(call[t].doomed)
    OBVIOUS
<1>3. call[t] \in CallRecords /\ call[t].doomed \in Seq(Waiters) /\ call[t].doomed # <<>>
    BY DEF DestroyWaiter, Inv, StateInv, CallRecords
<1>4. /\ w \in Waiters /\ rest \in Seq(Waiters)
      /\ \A i \in DOMAIN call[t].doomed :
             call[t].doomed[i] = w \/ \E j \in DOMAIN rest : rest[j] = call[t].doomed[i]
  <2>1. PICK s \in Seq(Waiters) : s = call[t].doomed
    BY <1>3
  <2>2. s # <<>> /\ w = Head(s) /\ rest = Tail(s)
    BY <1>1, <1>2, <1>3, <2>1
  <2>3. Len(s) > 0 /\ w = s[1] /\ w \in Waiters /\ rest \in Seq(Waiters) /\ Len(rest) = Len(s) - 1
        /\ \A j \in 1 .. Len(s) - 1 : rest[j] = s[j + 1]
    BY <2>2
  <2>4. ASSUME NEW i \in DOMAIN s, i # 1
        PROVE  \E j \in DOMAIN rest : rest[j] = s[i]
    <3>1. i \in 2 .. Len(s) /\ i - 1 \in 1 .. Len(s) - 1 /\ (i - 1) + 1 = i
      BY <2>4
    <3>2. i - 1 \in DOMAIN rest /\ rest[i - 1] = s[i]
      BY <2>3, <3>1
    <3> QED
      BY <3>2
  <2> QED
    BY <2>1, <2>3, <2>4
<1>5. w \in Threads /\ w # t /\ call[w].at \in Resting
  <2>1. call[w].at \in Resting
    BY <1>1 DEF DestroyWaiter, Destroyable, IsRunning
  <2>2. call[t].at \in {"erase", "reject", "destroy"}
    BY <1>3 DEF Inv, ShapeInv
  <2> QED
    BY <1>4, <2>1, <2>2 DEF Resting, Threads
<1>6. PICK at : at = IF call[w].at = "armed" THEN "none" ELSE call[w].at
    OBVIOUS
<1>7. PICK c : c = [call[t] EXCEPT !.doomed = rest]
    OBVIOUS
<1>8. PICK d : d = [call[w] EXCEPT !.at = at]
    OBVIOUS
<1>9. /\ c \in CallRecords /\ c.at = call[t].at /\ c.then = call[t].then /\ c.reg = call[t].reg
      /\ c.doomed = rest
    BY <1>3, <1>4, <1>7 DEF CallRecords
<1>10. /\ d \in CallRecords /\ d.at = at /\ d.then = call[w].then /\ d.reg = call[w].reg
       /\ d.doomed = call[w].doomed /\ at \in {"none", "done"}
  <2>1. call[w] \in CallRecords
    BY <1>5 DEF Inv, StateInv
  <2>2. at \in {"none", "done"} /\ at \in Places
    BY <1>5, <1>6 DEF Resting, Places
  <2> QED
    BY <1>8, <2>1, <2>2 DEF CallRecords
<1>11. BothMove(t, c, w, d)
  <2>1. call' = [call EXCEPT ![w].at = IF @ = "armed" THEN "none" ELSE @, ![t].doomed = Tail(@)]
    BY <1>1 DEF DestroyWaiter
  <2> QED
    BY <1>2, <1>5, <1>6, <1>7, <1>8, <2>1 DEF Inv, StateInv, BothMove
<1>12. /\ \A u \in Threads : call'[u] = IF u = t THEN c ELSE IF u = w THEN d ELSE call[u]
       /\ call' \in [Threads -> CallRecords]
  <2>1. StateInv /\ t \in Threads /\ w \in Threads /\ w # t /\ c \in CallRecords /\ d \in CallRecords
    BY <1>5, <1>9, <1>10 DEF Inv
  <2> QED
    BY ONLY <2>1, <1>11, TwoMove
<1>13. UNCHANGED <<closed, monitors, unregistered, mutex, holders, endPoint, status, isCalled, calls, asked>>
    BY DEF DestroyWaiter, regVars
<1>14. StateInv' /\ MapInv' /\ CountInv'
    BY <1>12, <1>13 DEF Inv, StateInv, MapInv, CountInv
<1>15. ShapeInv' /\ MutexInv' /\ HolderInv'
  <2>1. Shaped(c)
    BY <1>3, <1>9 DEF Shaped, Unregistering, Inv, ShapeInv
  <2>2. d.doomed = <<>> /\ d.reg = Null
    BY <1>5, <1>10 DEF Resting, Unregistering, Inv, ShapeInv
  <2>3. Shaped(d)
    BY <1>10, <2>2 DEF Shaped, Unregistering
  <2>4. ShapeInv'
    BY <1>12, <2>1, <2>3, ShapeIs DEF Inv
  <2>5. MutexInv' /\ HolderInv'
    BY <1>5, <1>9, <1>10, <1>12, <1>13 DEF Inv, MutexInv, HolderInv, Owning, Waiting, Resting
  <2> QED
    BY <2>4, <2>5
<1>16. OpenInv'
  <2>1. \A u \in Threads : IsOpening(u)' => IsOpening(u) /\ call'[u].reg = call[u].reg /\ call'[u].at = call[u].at
    BY <1>9, <1>10, <1>12 DEF IsOpening, Unregistering
  <2>2. \A q \in Registrations : <<q, "event">> \in Waiters /\ <<q, "process">> \in Waiters
    BY DEF Waiters
  <2>3. \A u \in Threads : IsOpening(u) => call[u].reg \in Registrations
    BY DEF IsOpening, Inv, StateInv, CallRecords
  <2>4. \A v \in Waiters : v \in Threads /\ (call[v].at = "none" => call'[v].at = "none")
    BY <1>6, <1>9, <1>10, <1>12 DEF Threads
  <2> QED
    BY <1>13, <2>1, <2>2, <2>3, <2>4 DEF Inv, OpenInv
<1>17. QuietInv'
  <2>1. \A v \in Waiters : v \in Threads /\ (call[v].at \in {"none", "done"} => call'[v].at \in {"none", "done"})
    BY <1>9, <1>10, <1>12 DEF Threads
  <2>2. \A u \in Threads \ {t} : Doomed(u)' = Doomed(u)
    BY <1>10, <1>12 DEF Doomed
  <2>3. \A v \in Doomed(t) : v = w \/ v \in Doomed(t)'
    BY <1>4, <1>9, <1>12 DEF Doomed
  <2>4. call'[w].at \in {"none", "done"}
    BY <1>5, <1>10, <1>12
  <2> QED
    BY <1>13, <2>1, <2>2, <2>3, <2>4 DEF Inv, QuietInv
<1> QED
    BY <1>14, <1>15, <1>16, <1>17 DEF Inv

\* Who is constructing a HandleMonitor is alone with its registration.
LEMMA Opener ==
    ASSUME Inv, NEW t \in Threads, call[t].at \in {"emplace", "openProcess", "insert"}
    PROVE  /\ call[t] \in CallRecords /\ call[t].reg \in Registrations /\ IsOpening(t)
           /\ status[call[t].reg] = "open" /\ IsAlone(t, call[t].reg) /\ call[t].doomed = <<>>
           /\ call[t].at = "emplace" => call[<<call[t].reg, "event">>].at = "none"
           /\ call[t].at # "insert" => call[<<call[t].reg, "process">>].at = "none"
<1>1. call[t] \in CallRecords /\ call[t].reg # Null /\ call[t].doomed = <<>>
    BY DEF Inv, StateInv, ShapeInv
<1>2. call[t].reg \in Registrations /\ IsOpening(t)
    BY <1>1 DEF CallRecords, IsOpening
<1> QED
    BY <1>1, <1>2 DEF Inv, OpenInv, IsAlone

\* A waiter of the registration is armed; the other one keeps its state.
LEMMA Arm_Inv ==
    ASSUME Inv, NEW t \in Threads, NEW from \in {"emplace", "openProcess"}, NEW kind \in {"event", "process"},
           NEW to \in {"openProcess", "insert"}, call[t].at = from,
           from = "emplace" => kind = "event" /\ to = "openProcess" /\ mutex = Null /\ mutex' = t,
           from = "openProcess" => kind = "process" /\ to = "insert" /\ mutex' = mutex,
           call' = [call EXCEPT ![t].at = to, ![<<call[t].reg, kind>>].at = "armed"],
           UNCHANGED <<closed, monitors, unregistered, holders, regVars>>
    PROVE  Inv'
<1>1. PICK r \in Registrations : r = call[t].reg
    BY Opener
<1>2. PICK w \in Waiters : w = <<r, kind>> /\ w[1] = r /\ w[2] = kind
  <2>1. <<r, kind>> \in Waiters /\ <<r, kind>>[1] = r /\ <<r, kind>>[2] = kind
    BY DEF Waiters
  <2> QED
    BY <2>1
<1>3. /\ call[t] \in CallRecords /\ IsOpening(t) /\ status[r] = "open" /\ call[t].doomed = <<>>
      /\ call[w].at = "none" /\ w \in Threads /\ w # t
      /\ \A u \in Threads \ {t} : IsOpening(u) => call[u].reg # r
    BY <1>1, <1>2, Opener DEF IsAlone, Threads
<1>4. PICK c : c = [call[t] EXCEPT !.at = to]
    OBVIOUS
<1>5. PICK d : d = [call[w] EXCEPT !.at = "armed"]
    OBVIOUS
<1>6. /\ c \in CallRecords /\ c.at = to /\ c.then = call[t].then /\ c.reg = r /\ c.doomed = <<>>
    BY <1>1, <1>3, <1>4 DEF CallRecords, Places, Owning
<1>7. /\ d \in CallRecords /\ d.at = "armed" /\ d.then = call[w].then /\ d.reg = call[w].reg
      /\ d.doomed = call[w].doomed
  <2>1. call[w] \in CallRecords
    BY <1>3 DEF Inv, StateInv
  <2> QED
    BY <1>5, <2>1 DEF CallRecords, Places, Resting
<1>8. BothMove(t, c, w, d)
    BY <1>1, <1>2, <1>3, <1>4, <1>5 DEF Inv, StateInv, BothMove
<1>9. /\ \A u \in Threads : call'[u] = IF u = t THEN c ELSE IF u = w THEN d ELSE call[u]
      /\ call' \in [Threads -> CallRecords]
  <2>1. StateInv /\ t \in Threads /\ w \in Threads /\ w # t /\ c \in CallRecords /\ d \in CallRecords
    BY <1>3, <1>6, <1>7 DEF Inv
  <2> QED
    BY ONLY <2>1, <1>8, TwoMove
<1>10. UNCHANGED <<closed, monitors, unregistered, holders, endPoint, status, isCalled, calls, asked>>
    BY DEF regVars
<1>11. StateInv' /\ MapInv' /\ CountInv'
    BY <1>9, <1>10 DEF Inv, StateInv, MapInv, CountInv
<1>12. d.doomed = <<>> /\ d.reg = Null
    BY <1>3, <1>7 DEF Unregistering, Inv, ShapeInv
<1>13. ShapeInv'
  <2>1. Shaped(c) /\ Shaped(d)
    BY <1>1, <1>6, <1>7, <1>12, ThreadsAssumption DEF Shaped, Unregistering
  <2> QED
    BY <1>9, <2>1, ShapeIs DEF Inv
<1>14. t \in holders
    BY DEF Inv, HolderInv, Owning, Waiting
<1>15. HolderInv'
    BY <1>7, <1>9, <1>10, <1>14 DEF Inv, HolderInv, Owning, Waiting
<1>16. MutexInv'
    BY <1>3, <1>6, <1>7, <1>9, ThreadsAssumption DEF Inv, MutexInv, Owning
<1>17. OpenInv'
  <2>1. \A u \in Threads : IsOpening(u)' =>
            /\ IsOpening(u) /\ call'[u].reg = call[u].reg /\ call[u].reg \in Registrations
            /\ u # t => call'[u].at = call[u].at /\ call[u].reg # r
    BY <1>3, <1>6, <1>7, <1>9, <1>12 DEF IsOpening, Unregistering, Inv, StateInv, CallRecords
  <2>2. \A q \in Registrations : /\ <<q, "event">> \in Waiters /\ <<q, "process">> \in Waiters
                                 /\ <<q, "event">> = w => q = r /\ kind = "event"
                                 /\ <<q, "process">> = w => q = r /\ kind = "process"
    BY <1>2 DEF Waiters
  <2>3. \A v \in Waiters : v \in Threads /\ (call[v].at = "none" /\ v # w => call'[v].at = "none")
    BY <1>3, <1>9 DEF Threads
  <2>4. ASSUME NEW u \in Threads, IsOpening(u)'
        PROVE  /\ status'[call'[u].reg] = "open"
               /\ call'[u].at \notin {"openProcess", "insert"} => call'[<<call'[u].reg, "event">>].at = "none"
               /\ call'[u].at # "insert" => call'[<<call'[u].reg, "process">>].at = "none"
    <3>1. CASE u # t
      <4>1. PICK q \in Registrations : q = call[u].reg /\ q # r
        BY <2>1, <2>4, <3>1
      <4>2. /\ <<q, "event">> \in Waiters /\ <<q, "process">> \in Waiters
            /\ <<q, "event">> # w /\ <<q, "process">> # w
        BY <2>2, <4>1
      <4>3. /\ IsOpening(u) /\ call'[u].reg = q /\ call'[u].at = call[u].at /\ status'[q] = status[q]
        BY <1>10, <2>1, <2>4, <3>1, <4>1
      <4>4. /\ call[<<q, "event">>].at = "none" => call'[<<q, "event">>].at = "none"
            /\ call[<<q, "process">>].at = "none" => call'[<<q, "process">>].at = "none"
        BY <2>3, <4>2
      <4>5. /\ status[q] = "open"
            /\ call[u].at \notin {"openProcess", "insert"} => call[<<q, "event">>].at = "none"
            /\ call[u].at # "insert" => call[<<q, "process">>].at = "none"
        BY <4>1, <4>3 DEF Inv, OpenInv
      <4> QED
        BY <4>3, <4>4, <4>5
    <3>2. CASE u = t
      <4>1. call'[t].reg = r /\ call'[t].at = to /\ status'[r] = "open"
        BY <1>3, <1>6, <1>9, <1>10
      <4>2. <<r, "event">> \in Waiters /\ <<r, "process">> \in Waiters
        BY <2>2
      <4>3. from = "openProcess" => kind = "process" /\ to = "insert"
        OBVIOUS
      <4>4. from = "emplace" => call[<<r, "process">>].at = "none" /\ to = "openProcess"
        BY <1>1, Opener
      <4>5. to # "insert" => call'[<<r, "process">>].at = "none"
        BY <2>2, <2>3, <4>2, <4>3, <4>4
      <4>6. to \in {"openProcess", "insert"}
        OBVIOUS
      <4> QED
        BY ONLY <3>2, <4>1, <4>5, <4>6
    <3> QED
      BY <3>1, <3>2
  <2>5. \A u, v \in Threads : IsOpening(u)' /\ IsOpening(v)' /\ call'[u].reg = call'[v].reg => u = v
    BY <2>1 DEF Inv, OpenInv
  <2>6. \A v \in Waiters : status'[v[1]] = "unused" => call'[v].at = "none"
    BY <1>2, <1>3, <1>10, <2>3 DEF Inv, OpenInv
  <2> QED
    BY <2>4, <2>5, <2>6 DEF OpenInv
<1>18. QuietInv'
  <2>1. \A u \in Threads : Doomed(u)' = Doomed(u)
    BY <1>3, <1>6, <1>7, <1>9 DEF Doomed
  <2>2. \A v \in Waiters : v \in Threads /\ (call[v].at \in {"none", "done"} /\ v # w => call'[v].at = call[v].at)
    BY <1>9 DEF Threads
  <2> QED
    BY <1>2, <1>3, <1>10, <2>1, <2>2 DEF Inv, QuietInv
<1> QED
    BY <1>11, <1>13, <1>15, <1>16, <1>17, <1>18 DEF Inv

LEMMA OpenEvent_Inv ==
    ASSUME Inv, NEW t \in Threads, OpenEvent(t)
    PROVE  Inv'
    BY Arm_Inv DEF OpenEvent, At

LEMMA OpenProcess_Inv ==
    ASSUME Inv, NEW t \in Threads, OpenProcess(t)
    PROVE  Inv'
    BY Arm_Inv DEF OpenProcess, At

\* A Register() that fails, or finds its endpoint registered.
LEMMA Reject_Inv ==
    ASSUME Inv, NEW t \in Threads, NEW doomed \in Seq(Waiters), Reject(t, doomed),
           call[t].at \in {"openProcess", "insert"},
           \A w \in Waiters : w[1] = call[t].reg =>
               call[w].at \in {"none", "done"} \/ \E i \in DOMAIN doomed : doomed[i] = w,
           UNCHANGED <<closed, monitors, unregistered, mutex, holders, endPoint, isCalled, calls, asked>>
    PROVE  Inv'
<1>1. PICK r \in Registrations : r = call[t].reg
    BY Opener
<1>2. call[t] \in CallRecords /\ status[r] = "open" /\ IsAlone(t, r) /\ call[t].doomed = <<>>
    BY <1>1, Opener
<1>3. PICK c : c = [[call[t] EXCEPT !.at = "reject"] EXCEPT !.doomed = doomed]
    OBVIOUS
<1>4. /\ c \in CallRecords /\ c.at = "reject" /\ c.then = call[t].then /\ c.reg = call[t].reg
      /\ c.doomed = doomed
    BY <1>2, <1>3 DEF CallRecords, Places, Owning
<1>5. Becomes(t, c)
    BY <1>3, <1>4 DEF Reject, Becomes, Inv, StateInv
<1>6. Shaped(c) /\ HasWaiters(c, r)
    BY <1>1, <1>4 DEF Shaped, Unregistering, HasWaiters
<1>7. status' = [status EXCEPT ![r] = "rejected"]
    BY <1>1 DEF Reject
<1>8. /\ ShapeInv' /\ OpenInv' /\ QuietInv'
      /\ call' \in [Threads -> CallRecords] /\ status' \in [Registrations -> Statuses]
    BY <1>2, <1>4, <1>5, <1>6, <1>7, Settle
<1>9. \A u \in Threads : call'[u] = IF u = t THEN c ELSE call[u]
    BY <1>5 DEF Becomes, Inv, StateInv
<1>10. StateInv'
    BY <1>8 DEF Inv, StateInv
<1>11. MutexInv' /\ HolderInv' /\ CountInv'
    BY <1>4, <1>9 DEF Inv, MutexInv, HolderInv, CountInv, Owning, Waiting
<1>12. MapInv'
  <2>1. \A q \in Registrations : status'[q] = IF q = r THEN "rejected" ELSE status[q]
    BY <1>7 DEF Inv, StateInv
  <2> QED
    BY <1>2, <2>1 DEF Inv, MapInv
<1> QED
    BY <1>8, <1>10, <1>11, <1>12 DEF Inv

LEMMA OpenProcessFails_Inv ==
    ASSUME Inv, NEW t \in Threads, OpenProcessFails(t)
    PROVE  Inv'
<1>1. PICK r \in Registrations : r = call[t].reg
    BY Opener DEF OpenProcessFails, At
<1>2. PICK w \in Waiters : w = <<r, "event">>
    BY DEF Waiters
<1>3. call[t].at = "openProcess" /\ Reject(t, <<w>>) /\ call[<<r, "process">>].at = "none"
    BY <1>1, <1>2, Opener DEF OpenProcessFails, At
<1>4. <<w>> \in Seq(Waiters) /\ 1 \in DOMAIN <<w>> /\ <<w>>[1] = w
    OBVIOUS
<1>5. \A v \in Waiters : v[1] = r => v = w \/ v = <<r, "process">>
    BY <1>2 DEF Waiters
<1>6. \A v \in Waiters : v[1] = call[t].reg =>
          call[v].at \in {"none", "done"} \/ \E i \in DOMAIN <<w>> : <<w>>[i] = v
    BY <1>1, <1>3, <1>4, <1>5
<1> QED
    BY <1>3, <1>4, <1>6, Reject_Inv DEF OpenProcessFails

LEMMA OpenEventFails_Inv ==
    ASSUME Inv, NEW t \in Threads, OpenEventFails(t)
    PROVE  Inv'
<1>1. call[t].at = "emplace"
    BY DEF OpenEventFails, At
<1>2. PICK r \in Registrations : r = call[t].reg
    BY <1>1, Opener
<1>3. /\ status[r] = "open" /\ IsAlone(t, r) /\ call[t].doomed = <<>>
      /\ call[<<r, "event">>].at = "none" /\ call[<<r, "process">>].at = "none"
    BY <1>1, <1>2, Opener
<1>4. PICK c \in CallRecords : /\ Becomes(t, c) /\ c.at \in {"idle", "userRelease"}
                               /\ c.doomed = <<>> /\ c.reg = Null
    BY EndCallIs DEF OpenEventFails, Inv
<1>5. Shaped(c) /\ HasWaiters(c, r)
  <2>1. \A w \in Waiters : w[1] = r => w = <<r, "event">> \/ w = <<r, "process">>
    BY DEF Waiters
  <2> QED
    BY <1>3, <1>4, <2>1 DEF Shaped, Unregistering, HasWaiters
<1>6. status' = [status EXCEPT ![r] = "rejected"]
    BY <1>2 DEF OpenEventFails
<1>7. call[t].at \notin {"none", "done"} /\ c.at # "none"
    BY <1>1, <1>4
<1>8. /\ ShapeInv' /\ OpenInv' /\ QuietInv'
      /\ call' \in [Threads -> CallRecords] /\ status' \in [Registrations -> Statuses]
    BY <1>3, <1>4, <1>5, <1>6, <1>7, Settle
<1>9. \A u \in Threads : call'[u] = IF u = t THEN c ELSE call[u]
    BY <1>4 DEF Becomes, Inv, StateInv
<1>10. StateInv'
    BY <1>8 DEF OpenEventFails, Inv, StateInv
<1>11. MutexInv' /\ HolderInv' /\ CountInv'
    BY <1>1, <1>4, <1>9 DEF OpenEventFails, Inv, MutexInv, HolderInv, CountInv, Owning, Waiting
<1>12. MapInv'
  <2>1. \A q \in Registrations : status'[q] = IF q = r THEN "rejected" ELSE status[q]
    BY <1>6 DEF Inv, StateInv
  <2> QED
    BY <1>3, <2>1 DEF OpenEventFails, Inv, MapInv
<1> QED
    BY <1>8, <1>10, <1>11, <1>12 DEF Inv

LEMMA Insert_Inv ==
    ASSUME Inv, NEW t \in Threads, Insert(t)
    PROVE  Inv'
<1>1. call[t].at = "insert"
    BY DEF Insert, At
<1>2. PICK r \in Registrations : r = call[t].reg
    BY <1>1, Opener
<1>3. PICK e \in EndPoints : e = endPoint[r]
    BY <1>1, <1>2, Opener DEF Inv, MapInv
<1>4. status[r] = "open" /\ IsAlone(t, r) /\ call[t].doomed = <<>>
    BY <1>1, <1>2, Opener
<1>5. CASE IsDuplicate(e)
  <2>1. Reject(t, WaitersOf(r)) /\ UNCHANGED <<closed, monitors, unregistered, mutex, holders, endPoint, isCalled, calls, asked>>
    BY <1>2, <1>3, <1>5 DEF Insert
  <2>2. /\ WaitersOf(r) \in Seq(Waiters)
        /\ \A w \in Waiters : w[1] = call[t].reg =>
               call[w].at \in {"none", "done"} \/ \E i \in DOMAIN WaitersOf(r) : WaitersOf(r)[i] = w
    BY <1>2, WaitersOfIs
  <2> QED
    BY <1>1, <2>1, <2>2, Reject_Inv
<1>6. CASE ~IsDuplicate(e)
  <2>1. /\ monitors' = [monitors EXCEPT ![e] = r] /\ status' = [status EXCEPT ![r] = "registered"]
        /\ mutex' = Null /\ EndCall(t)
        /\ UNCHANGED <<closed, unregistered, holders, endPoint, isCalled, calls, asked>>
    BY <1>2, <1>3, <1>6 DEF Insert
  <2>2. PICK c \in CallRecords : /\ Becomes(t, c) /\ c.at \in {"idle", "userRelease"}
                                 /\ c.doomed = <<>> /\ c.reg = Null
    BY <2>1, EndCallIs DEF Inv
  <2>3. Shaped(c) /\ call[t].at \notin {"none", "done"} /\ c.at # "none"
    BY <1>1, <2>2 DEF Shaped, Unregistering
  <2>4. /\ ShapeInv' /\ OpenInv' /\ QuietInv'
        /\ call' \in [Threads -> CallRecords] /\ status' \in [Registrations -> Statuses]
    BY <1>4, <2>1, <2>2, <2>3, Settle
  <2>5. \A u \in Threads : call'[u] = IF u = t THEN c ELSE call[u]
    BY <2>2 DEF Becomes, Inv, StateInv
  <2>6. StateInv'
    BY <2>1, <2>4 DEF Inv, StateInv
  <2>7. MutexInv'
    BY <1>1, <2>1, <2>2, <2>5, ThreadsAssumption DEF Inv, MutexInv, Owning
  <2>8. HolderInv' /\ CountInv'
    BY <2>1, <2>2, <2>5 DEF Inv, HolderInv, CountInv, Owning, Waiting
  <2>9. MapInv'
    <3>1. \A q \in Registrations : status'[q] = IF q = r THEN "registered" ELSE status[q]
      BY <2>1 DEF Inv, StateInv
    <3>2. \A d \in EndPoints : monitors'[d] = IF d = e THEN r ELSE monitors[d]
      BY <2>1 DEF Inv, StateInv
    <3>3. monitors[e] = Null
      BY <1>6 DEF IsDuplicate
    <3> QED
      BY <1>3, <1>4, <2>1, <3>1, <3>2, <3>3, ThreadsAssumption DEF Inv, MapInv
  <2> QED
    BY <2>4, <2>6, <2>7, <2>8, <2>9 DEF Inv
<1> QED
    BY <1>5, <1>6

-------------------------------------------------------------------------------
(* The theorems.                                                             *)

LEMMA Next_Inv == Inv /\ [Next]_vars => Inv'
<1> SUFFICES ASSUME Inv, [Next]_vars PROVE Inv'
    OBVIOUS
<1>1. CASE UNCHANGED vars
    BY <1>1, Stay_Inv DEF vars, regVars, Inv, StateInv
<1>2. ASSUME NEW e \in EndPoints, NEW kind \in {"event", "process"}, Close(e, kind) PROVE Inv'
    BY <1>2, Stay_Inv DEF Close, regVars, Inv, StateInv
<1>3. ASSUME NEW t \in Threads, NEW e \in EndPoints, UnRegisterEndPoint(t, e) PROVE Inv'
    BY <1>3, Stay_Inv DEF UnRegisterEndPoint, Inv, StateInv
<1>4. ASSUME NEW t \in Threads, Proceed(t) PROVE Inv'
  <2>1. CASE UnRegister(t)
    BY <2>1, Swap_Inv, LockErase_Inv, EndErase_Inv, Erase_Inv DEF UnRegister
  <2>2. CASE Emplace(t)
    BY <2>2, OpenEvent_Inv, OpenEventFails_Inv, OpenProcess_Inv, OpenProcessFails_Inv,
       Insert_Inv, EndReject_Inv DEF Emplace
  <2> QED
    BY <1>4, <2>1, <2>2, Count_Inv, DestroyWaiter_Inv, EndDestroy_Inv, Destroy_Inv DEF Proceed
<1>5. ASSUME NEW w \in Waiters, OnEvent(w) PROVE Inv'
    BY <1>5, Fire_Inv, Exchange_Inv, Return_Inv, LockWeak_Inv, Push_Inv DEF OnEvent
<1> QED
    BY <1>1, <1>2, <1>3, <1>4, <1>5, GetRemoteConnectionsCount_Inv, Release_Inv, Register_Inv DEF Next

LEMMA Invariance == Spec => []Inv
    BY Init_Inv, Next_Inv, PTL DEF Spec

\* The places of the threads, the owner of the mutex, and the map of the
\* registered monitors agree (ConnectionMonitor.h:47-58).
THEOREM TypeCorrectness == Spec => []TypeOK
<1>1. Inv => TypeOK
    BY DEF Inv, StateInv, MutexInv, MapInv, TypeOK, CallRecords
<1> QED
    BY <1>1, Invariance, PTL

\* One atomic exchange makes sure that the user hears of an endpoint once, though
\* two handles are waited for (ConnectionMonitor.cpp:45).
THEOREM SingleCall == Spec => []CalledAtMostOnce
<1>1. Inv => CalledAtMostOnce
    BY DEF Inv, CountInv, CalledAtMostOnce
<1> QED
    BY <1>1, Invariance, PTL

\* A callback that runs while the monitor is destroyed does not touch it: it
\* has locked the weak pointer before (ConnectionMonitor.cpp:64).
THEOREM SafeDestruction == Spec => []NoUseAfterDestruction
<1>1. Inv => NoUseAfterDestruction
    BY DEF Inv, HolderInv, NoUseAfterDestruction
<1> QED
    BY <1>1, Invariance, PTL

\* When a registration was given up, because it was erased or rejected or went with
\* the monitor, no callback of it is running or will run (ConnectionMonitor.cpp:129).
THEOREM QuietRegistrations == Spec => []QuietWhenGone
<1>1. Inv => QuietWhenGone
  <2> SUFFICES ASSUME Inv, NEW r \in Registrations, status[r] \in {"erased", "rejected"},
                      NEW kind \in {"event", "process"}
               PROVE  \/ call[<<r, kind>>].at \in {"none", "done"}
                      \/ \E t \in Threads : \E i \in DOMAIN call[t].doomed : call[t].doomed[i] = <<r, kind>>
    BY DEF QuietWhenGone
  <2>1. PICK w \in Waiters : w = <<r, kind>> /\ w[1] = r
    <3>1. <<r, kind>> \in Waiters /\ <<r, kind>>[1] = r
      BY DEF Waiters
    <3> QED
      BY <3>1
  <2>2. call[w].at \in {"none", "done"} \/ \E t \in Threads : w \in Doomed(t)
    BY <2>1 DEF Inv, QuietInv
  <2> QED
    BY <2>1, <2>2 DEF Doomed
<1> QED
    BY <1>1, Invariance, PTL

-------------------------------------------------------------------------------
(* Who is removed from the map has been reported.  Removal is asked for by     *)
(* name: an endpoint on the list, or taken from it, is a token for the         *)
(* registration of that name, and there may be several of them one after       *)
(* the other.  While a monitor is still used there is at most one token of a   *)
(* name, which belongs to the registration that is in the map or about to be   *)
(* inserted, unless a registration of that name was rejected or is going to    *)
(* be.                                                                         *)

InHand == {"openProcess", "insert"}

\* The thread that registers r has armed a waiter of it.
Busy(r) == \E t \in Threads : call[t].at \in InHand /\ call[t].reg = r

Rejected(e) == \E q \in Registrations : endPoint[q] = e /\ status[q] = "rejected"

\* A registration that will be rejected has a waiter, which may yet be called.
Contested(e) == monitors[e] # Null /\ \E r \in Registrations : endPoint[r] = e /\ Busy(r)

Clean(e) == ~Rejected(e) /\ ~Contested(e)

\* Where a waiter is that does not have the flag of its registration.
Outside == {"none", "armed", "entered", "done"}

\* The user was called, the call has returned, and the endpoint is on the list.
Reported(r) ==
    isCalled[r] /\ \A w \in Waiters : w[1] = r => call[w].at \in Outside \cup {"release"}

Active(r) == status[r] = "registered" \/ Busy(r)

Listed(e) == e \in unregistered \/ \E t \in Threads : e \in call[t].taken

\* The monitor is destroyed when nobody is left who could use it.
LifeInv ==
    /\ \A t \in Clients : call[t].at = "idle" => t \in holders
    /\ \A t \in Threads : call[t].at = "destroy" => holders = {}

OpenerInv ==
    \A r \in Registrations : status[r] = "open" => \E t \in Threads : IsOpening(t) /\ call[t].reg = r

\* One waiter of a registration at a time has its flag.
FlagInv ==
    \A w \in Waiters : call[w].at \notin Outside =>
        /\ isCalled[w[1]]
        /\ \A v \in Waiters : v[1] = w[1] /\ v # w => call[v].at \in Outside

ErasedInv ==
    \A r \in Registrations : status[r] = "erased" /\ ~Rejected(endPoint[r]) => Reported(r)

ListedInv ==
    \A e \in EndPoints : Clean(e) /\ Listed(e) =>
        \E r \in Registrations : endPoint[r] = e /\ Active(r) /\ Reported(r)

TokenInv ==
    \A e \in EndPoints : Clean(e) =>
        /\ e \in unregistered => \A t \in Threads : e \notin call[t].taken
        /\ \A t, u \in Threads : e \in call[t].taken /\ e \in call[u].taken => t = u

RemovalInv ==
    /\ LifeInv /\ OpenerInv /\ FlagInv
    /\ holders # {} => ErasedInv /\ ListedInv /\ TokenInv

LEMMA Init_Removal == Init => RemovalInv
<1> SUFFICES ASSUME Init PROVE RemovalInv
    OBVIOUS
<1>1. \A t \in Threads : /\ call[t].at = IF t \in Clients THEN "idle" ELSE "none"
                         /\ call[t].taken = {}
    BY DEF Init, Start
<1>2. \A w \in Waiters : w \in Threads /\ w \notin Clients
    BY ThreadsAssumption DEF Threads
<1>3. LifeInv /\ OpenerInv /\ FlagInv
    BY <1>1, <1>2 DEF Init, LifeInv, OpenerInv, FlagInv, Outside, Threads
<1>4. ErasedInv /\ ListedInv /\ TokenInv
    BY <1>1 DEF Init, ErasedInv, ListedInv, TokenInv, Listed
<1> QED
    BY <1>3, <1>4 DEF RemovalInv

-------------------------------------------------------------------------------
(* What the actions do to the places, the names and the registrations that     *)
(* threads have.                                                               *)

\* One thread goes on.
Moves(t, place, names, r) ==
    \A u \in Threads :
        /\ call'[u].at = IF u = t THEN place ELSE call[u].at
        /\ call'[u].taken = IF u = t THEN names ELSE call[u].taken
        /\ call'[u].reg = IF u = t THEN r ELSE call[u].reg

LEMMA GotoMoves ==
    ASSUME StateInv, NEW t \in Threads, NEW place, Goto(t, place)
    PROVE  Moves(t, place, call[t].taken, call[t].reg)
    BY DEF StateInv, CallRecords, Goto, Moves

LEMMA EndCallMoves ==
    ASSUME StateInv, NEW t \in Threads, EndCall(t)
    PROVE  Moves(t, IF t \in Clients THEN "idle" ELSE "userRelease", {}, Null)
    BY DEF StateInv, EndCall, Start, Moves

\* One thread goes on, and a waiter goes from one place to another.
BothMoves(t, place, w, at) ==
    \A u \in Threads :
        /\ call'[u].at = IF u = t THEN place ELSE IF u = w THEN at ELSE call[u].at
        /\ call'[u].taken = call[u].taken
        /\ call'[u].reg = call[u].reg

\* No name is put on the list or taken from it.
NoToken == unregistered' = unregistered /\ \A u \in Threads : call'[u].taken \subseteq call[u].taken

\* A registration leaves the map for a name that a thread has taken from the list.
ErasedBy(t, r) ==
    /\ call[t].at = "erase" /\ endPoint[r] \in call[t].taken
    /\ endPoint[r] \notin call'[t].taken

\* What a step leaves of the registrations.
Persist ==
    /\ \A r \in Registrations :
           /\ status[r] = "rejected" => status'[r] = "rejected"
           /\ status[r] # "unused" => endPoint'[r] = endPoint[r]
           /\ Busy(r) => \/ Busy(r)'
                         \/ status'[r] = "rejected"
                         \/ status'[r] = "registered" /\ monitors[endPoint[r]] = Null
           /\ Reported(r) => Reported(r)'
    /\ \A e \in EndPoints : Contested(e) => monitors'[e] # Null

\* Who is about to insert its registration owns the mutex.
LEMMA BusyIs ==
    ASSUME Inv, NEW r \in Registrations, Busy(r)
    PROVE  /\ status[r] = "open"
           /\ \E t \in Threads : /\ mutex = t /\ call[t].at \in InHand /\ call[t].reg = r
                                 /\ \A u \in Threads : call[u].at \in Owning => u = t
<1>1. PICK t \in Threads : call[t].at \in InHand /\ call[t].reg = r
    BY DEF Busy
<1>2. status[r] = "open"
    BY <1>1, Opener DEF InHand
<1>3. mutex = t /\ \A u \in Threads : call[u].at \in Owning => u = t
    BY <1>1 DEF Inv, MutexInv, InHand, Owning
<1> QED
    BY <1>1, <1>2, <1>3

LEMMA CleanBefore ==
    ASSUME Inv, Persist, NEW e \in EndPoints, Clean(e)'
    PROVE  Clean(e)
<1>1. ~Rejected(e)
    BY DEF Clean, Rejected, Persist
<1>2. ASSUME Contested(e) PROVE FALSE
  <2>1. PICK r \in Registrations : endPoint[r] = e /\ Busy(r)
    BY <1>2 DEF Contested
  <2>2. status[r] = "open" /\ endPoint'[r] = e
    BY <2>1, BusyIs DEF Persist
  <2>3. monitors[e] # Null /\ monitors'[e] # Null
    BY <1>2 DEF Contested, Persist
  <2>4. Busy(r)' \/ status'[r] = "rejected"
    BY <2>1, <2>3 DEF Persist
  <2> QED
    BY <2>2, <2>3, <2>4 DEF Clean, Contested, Rejected
<1> QED
    BY <1>1, <1>2 DEF Clean

LEMMA ActiveIsUnique ==
    ASSUME Inv, NEW e \in EndPoints, Clean(e),
           NEW q \in Registrations, NEW r \in Registrations,
           endPoint[q] = e, endPoint[r] = e, Active(q), Active(r)
    PROVE  q = r
<1>1. CASE Busy(q) /\ Busy(r)
    BY <1>1, BusyIs
<1>2. ASSUME NEW p \in {q, r}, status[p] = "registered" PROVE monitors[e] = p /\ monitors[e] # Null
    BY <1>2, ThreadsAssumption DEF Inv, MapInv
<1> QED
    BY <1>1, <1>2 DEF Active, Clean, Contested

\* A step that puts no name on the list.
LEMMA Removal_Step ==
    ASSUME Inv, RemovalInv, holders # {}, Persist, NoToken,
           \A r \in Registrations :
               /\ status'[r] = "erased" => status[r] \in {"erased", "registered"}
               /\ status[r] = "registered" /\ status'[r] # "registered" =>
                      \E t \in Threads : ErasedBy(t, r)
    PROVE  ErasedInv' /\ ListedInv' /\ TokenInv'
<1>1. TokenInv'
    BY CleanBefore DEF NoToken, RemovalInv, TokenInv
<1>2. ListedInv'
  <2> SUFFICES ASSUME NEW e \in EndPoints, Clean(e)', Listed(e)'
               PROVE  \E r \in Registrations : endPoint'[r] = e /\ Active(r)' /\ Reported(r)'
    BY DEF ListedInv
  <2>1. Clean(e) /\ Listed(e)
    BY CleanBefore DEF Listed, NoToken
  <2>2. PICK r \in Registrations : endPoint[r] = e /\ Active(r) /\ Reported(r)
    BY <2>1 DEF RemovalInv, ListedInv
  <2>3. status[r] # "unused" /\ endPoint'[r] = e /\ Reported(r)'
    BY <2>2, BusyIs DEF Active, Persist
  <2>4. ~Rejected(e)'
    BY DEF Clean
  <2>5. CASE Busy(r)
    BY <2>3, <2>4, <2>5 DEF Persist, Active, Rejected
  <2>6. CASE status[r] = "registered"
    <3>1. ASSUME NEW t \in Threads, ErasedBy(t, r) PROVE FALSE
      <4>1. e \in call[t].taken /\ e \notin call'[t].taken
        BY <2>2, <3>1 DEF ErasedBy
      <4>2. e \notin unregistered /\ \A u \in Threads : e \in call[u].taken => u = t
        BY <2>1, <4>1 DEF RemovalInv, TokenInv
      <4> QED
        BY <4>1, <4>2 DEF Listed, NoToken
    <3> QED
      BY <2>3, <2>6, <3>1 DEF Active
  <2> QED
    BY <2>2, <2>5, <2>6 DEF Active
<1>3. ErasedInv'
  <2> SUFFICES ASSUME NEW r \in Registrations, status'[r] = "erased",
                      \A q \in Registrations : endPoint'[q] = endPoint'[r] => status'[q] # "rejected"
               PROVE  Reported(r)'
    BY DEF ErasedInv, Rejected
  <2>1. status[r] \in {"erased", "registered"} /\ endPoint'[r] = endPoint[r]
    BY DEF Persist
  <2>2. PICK e \in EndPoints : e = endPoint[r]
    BY <2>1 DEF Inv, MapInv
  <2>3. ~Rejected(e)
    BY <2>1, <2>2 DEF Rejected, Persist
  <2>4. CASE status[r] = "erased"
    BY <2>2, <2>3, <2>4 DEF RemovalInv, ErasedInv, Persist
  <2>5. CASE status[r] = "registered"
    <3>1. PICK t \in Threads : call[t].at = "erase" /\ e \in call[t].taken
      BY <2>2, <2>5 DEF ErasedBy
    <3>2. ~Contested(e)
      BY <3>1, BusyIs DEF Contested, Owning, InHand
    <3>3. Clean(e) /\ Listed(e)
      BY <2>3, <3>1, <3>2 DEF Clean, Listed
    <3>4. PICK q \in Registrations : endPoint[q] = e /\ Active(q) /\ Reported(q)
      BY <3>3 DEF RemovalInv, ListedInv
    <3>5. q = r
      BY <2>2, <2>5, <3>3, <3>4, ActiveIsUnique DEF Active
    <3> QED
      BY <3>4, <3>5 DEF Persist
  <2> QED
    BY <2>1, <2>4, <2>5
<1> QED
    BY <1>1, <1>2, <1>3

-------------------------------------------------------------------------------
(* The actions one after the other.                                            *)

\* Of a step that keeps the registrations.
LEMMA SamePersist ==
    ASSUME Inv, UNCHANGED <<monitors, endPoint, status>>,
           \A r \in Registrations : Busy(r) => Busy(r)',
           \A r \in Registrations : Reported(r) => Reported(r)'
    PROVE  Persist
    BY DEF Persist, Contested

\* Reported registrations stay so while their waiters end.
LEMMA StillReported ==
    ASSUME NEW r \in Registrations, Reported(r), isCalled'[r],
           \A w \in Waiters : call[w].at \in Outside \cup {"release"} /\ w[1] = r =>
               call'[w].at \in Outside \cup {"release"}
    PROVE  Reported(r)'
    BY DEF Reported

\* A thread goes on with what it does, and no registration is concerned.
LEMMA Stroll ==
    ASSUME Inv, RemovalInv, NEW t \in Threads, NEW place, NEW names, NEW q,
           Moves(t, place, names, q), names \subseteq call[t].taken,
           UNCHANGED <<monitors, unregistered, endPoint, status, isCalled>>,
           holders = {} => holders' = {}, holders \ {t} \subseteq holders',
           place = "idle" => t \in holders', place = "destroy" => holders' = {},
           place \in Outside \/ call[t].at \notin Outside,
           \/ call[t].at \notin Outside \cup {"release"}
           \/ place \in Outside \cup {"release"}
           \/ holders' = {} \/ t \in Clients,
           call[t].at \notin InHand, place \notin InHand,
           IsOpening(t) => q = call[t].reg /\ place \in Unregistering \cup {"emplace"}
    PROVE  RemovalInv'
<1>1. LifeInv'
    BY DEF RemovalInv, LifeInv, Moves, Threads
<1>2. OpenerInv'
  <2>1. \A u \in Threads : IsOpening(u) => IsOpening(u)' /\ call'[u].reg = call[u].reg
    BY DEF IsOpening, Moves
  <2> QED
    BY <2>1 DEF RemovalInv, OpenerInv
<1>3. FlagInv'
    BY DEF RemovalInv, FlagInv, Moves, Threads
<1>4. ASSUME holders' # {} PROVE ErasedInv' /\ ListedInv' /\ TokenInv'
  <2>1. \A r \in Registrations : Busy(r) => Busy(r)'
    BY DEF Busy, Moves
  <2>2. ASSUME NEW r \in Registrations, Reported(r) PROVE Reported(r)'
    <3>1. \A w \in Waiters : w \in Threads /\ w \notin Clients
      BY ThreadsAssumption DEF Threads
    <3>2. isCalled'[r]
      BY <2>2 DEF Reported
    <3> QED
      BY <1>4, <2>2, <3>1, <3>2, StillReported DEF Moves
  <2>3. Persist
    BY <2>1, <2>2, SamePersist
  <2>4. NoToken /\ holders # {}
    BY <1>4 DEF NoToken, Moves
  <2> QED
    BY <2>3, <2>4, Removal_Step
<1> QED
    BY <1>1, <1>2, <1>3, <1>4 DEF RemovalInv

LEMMA Stay_Removal ==
    ASSUME Inv, RemovalInv,
           UNCHANGED <<monitors, unregistered, holders, endPoint, status, isCalled, call>>
    PROVE  RemovalInv'
<1>1. LifeInv' /\ OpenerInv' /\ FlagInv'
    BY DEF RemovalInv, LifeInv, OpenerInv, FlagInv, IsOpening
<1>2. ErasedInv' /\ ListedInv' /\ TokenInv' <=> ErasedInv /\ ListedInv /\ TokenInv
    BY DEF ErasedInv, ListedInv, TokenInv, Clean, Listed, Active, Reported, Rejected, Contested, Busy
<1> QED
    BY <1>1, <1>2 DEF RemovalInv

LEMMA GetRemoteConnectionsCount_Removal ==
    ASSUME Inv, RemovalInv, NEW t \in Threads, GetRemoteConnectionsCount(t)
    PROVE  RemovalInv'
<1>1. call[t].at \in {"idle", "user"} /\ call[t].at = "idle" => t \in Clients
    BY DEF GetRemoteConnectionsCount, CanCall, At
<1>2. Moves(t, "swap", call[t].taken, call[t].reg)
    BY DEF GetRemoteConnectionsCount, Moves, Inv, StateInv, CallRecords
<1>3. holders # {} /\ holders' = holders \cup {t}
    BY DEF GetRemoteConnectionsCount, CanCall, At, RemovalInv, LifeInv
<1>4. call[t].at = "user" => call[t].at \notin Outside \cup {"release"}
    BY DEF Outside
<1>5. call[t].at \notin Outside /\ "swap" \notin InHand /\ call[t].at \notin InHand /\ ~IsOpening(t)
    BY <1>1 DEF Outside, InHand, IsOpening, Unregistering, GetRemoteConnectionsCount, CanCall, At
<1>6. \/ call[t].at \notin Outside \cup {"release"} \/ t \in Clients
    BY <1>4 DEF GetRemoteConnectionsCount, CanCall, At
<1> QED
    BY <1>2, <1>3, <1>5, <1>6, Stroll DEF GetRemoteConnectionsCount, regVars

LEMMA LockErase_Removal ==
    ASSUME Inv, RemovalInv, NEW t \in Threads, LockErase(t)
    PROVE  RemovalInv'
<1>1. call[t].at = "lockErase"
    BY DEF LockErase, At
<1>2. Moves(t, "erase", call[t].taken, call[t].reg)
    BY GotoMoves DEF LockErase, Inv
<1> QED
    BY <1>1, <1>2, Stroll DEF LockErase, regVars, Outside, InHand, Unregistering

LEMMA EndErase_Removal ==
    ASSUME Inv, RemovalInv, NEW t \in Threads, EndErase(t)
    PROVE  RemovalInv'
<1>1. call[t].at = "erase" /\ call[t].then = IF call[t].reg = Null THEN "count" ELSE "emplace"
    BY DEF EndErase, At, Inv, ShapeInv, Unregistering
<1>2. Moves(t, call[t].then, call[t].taken, call[t].reg)
    BY GotoMoves DEF EndErase, Inv
<1> QED
    BY <1>1, <1>2, Stroll DEF EndErase, regVars, Outside, InHand, IsOpening

LEMMA Count_Removal ==
    ASSUME Inv, RemovalInv, NEW t \in Threads, Count(t)
    PROVE  RemovalInv'
<1>1. call[t].at = "count" /\ t \in holders
    BY DEF Count, At, Inv, HolderInv, Waiting
<1>2. Moves(t, IF t \in Clients THEN "idle" ELSE "userRelease", {}, Null)
    BY EndCallMoves DEF Count, Inv
<1> QED
    BY <1>1, <1>2, Stroll DEF Count, regVars, Outside, InHand, IsOpening, Unregistering

LEMMA EndReject_Removal ==
    ASSUME Inv, RemovalInv, NEW t \in Threads, EndReject(t)
    PROVE  RemovalInv'
<1>1. call[t].at = "reject" /\ t \in holders
    BY DEF EndReject, At, Inv, HolderInv, Owning
<1>2. Moves(t, IF t \in Clients THEN "idle" ELSE "userRelease", {}, Null)
    BY EndCallMoves DEF EndReject, Inv
<1> QED
    BY <1>1, <1>2, Stroll DEF EndReject, regVars, Outside, InHand, IsOpening, Unregistering

LEMMA EndDestroy_Removal ==
    ASSUME Inv, RemovalInv, NEW t \in Threads, EndDestroy(t)
    PROVE  RemovalInv'
<1>1. call[t].at = "destroy" /\ call[t].then \in {"gone", "done", "lock"} /\ call[t].reg = Null
    BY DEF EndDestroy, At, Inv, ShapeInv, Unregistering
<1>2. Moves(t, call[t].then, call[t].taken, call[t].reg)
    BY GotoMoves DEF EndDestroy, Inv
<1> QED
    BY <1>1, <1>2, Stroll DEF EndDestroy, regVars, Outside, InHand, IsOpening

LEMMA Release_Removal ==
    ASSUME Inv, RemovalInv, NEW t \in Threads, Release(t)
    PROVE  RemovalInv'
<1>1. /\ call[t].at \in {"idle", "release", "userRelease"} /\ call[t].reg = Null
      /\ call[t].at = "idle" => t \in Clients
    BY DEF Release, At, Inv, ShapeInv, Unregistering
<1>2. PICK next : next = IF t \in Clients THEN "gone" ELSE IF At(t, "release") THEN "done" ELSE "lock"
    OBVIOUS
<1>3. PICK place : place = IF holders = {t} THEN "destroy" ELSE next
    OBVIOUS
<1>4. call' = [call EXCEPT ![t].at = place, ![t].then = next]
    BY <1>2, <1>3 DEF Release
<1>5. Moves(t, place, call[t].taken, call[t].reg)
    BY <1>4 DEF Moves, Inv, StateInv, CallRecords
<1>6. holders' = holders \ {t} /\ (place = "destroy" => holders' = {})
    BY <1>2, <1>3 DEF Release
<1>7. place \notin InHand \cup {"idle"} /\ call[t].at \notin InHand \cup Outside /\ ~IsOpening(t)
    BY <1>1, <1>2, <1>3 DEF InHand, IsOpening, Outside
<1>8. \/ call[t].at \notin Outside \cup {"release"}
      \/ place \in Outside \cup {"release"}
      \/ holders' = {} \/ t \in Clients
    BY <1>1, <1>2, <1>3, <1>6 DEF Outside, At
<1> QED
    BY <1>5, <1>6, <1>7, <1>8, Stroll DEF Release, regVars

LEMMA Fire_Removal ==
    ASSUME Inv, RemovalInv, NEW w \in Waiters, Fire(w)
    PROVE  RemovalInv'
<1>1. call[w].at = "armed" /\ w \in Threads /\ call[w].reg = Null
    BY Callback DEF Fire, At
<1>2. Moves(w, "entered", call[w].taken, call[w].reg)
    BY <1>1, GotoMoves DEF Fire, Inv
<1> QED
    BY <1>1, <1>2, Stroll DEF Fire, regVars, Outside, InHand, IsOpening

LEMMA Return_Removal ==
    ASSUME Inv, RemovalInv, NEW w \in Waiters, Return(w)
    PROVE  RemovalInv'
<1>1. call[w].at = "user" /\ w \in Threads /\ call[w].reg = Null
    BY Callback DEF Return, At
<1>2. Moves(w, "lock", call[w].taken, call[w].reg)
    BY <1>1, GotoMoves DEF Return, Inv
<1> QED
    BY <1>1, <1>2, Stroll DEF Return, regVars, Outside, InHand, IsOpening

LEMMA LockWeak_Removal ==
    ASSUME Inv, RemovalInv, NEW w \in Waiters, LockWeak(w)
    PROVE  RemovalInv'
<1>1. call[w].at = "lock" /\ w \in Threads /\ call[w].reg = Null
    BY Callback DEF LockWeak, At
<1>2. PICK place \in {"push", "done"} :
          /\ Goto(w, place)
          /\ holders = {} => holders' = {}
          /\ holders \subseteq holders'
    BY DEF LockWeak
<1>3. Moves(w, place, call[w].taken, call[w].reg)
    BY <1>1, <1>2, GotoMoves DEF Inv
<1> QED
    BY <1>1, <1>2, <1>3, Stroll DEF LockWeak, regVars, Outside, InHand, IsOpening

\* The first waiter to come gets the flag, the other one ends.
LEMMA Exchange_Removal ==
    ASSUME Inv, RemovalInv, NEW w \in Waiters, Exchange(w)
    PROVE  RemovalInv'
<1>1. call[w].at = "entered" /\ w \in Threads /\ call[w].reg = Null /\ w \notin Clients
    BY Callback, ThreadsAssumption DEF Exchange, At
<1>2. PICK r \in Registrations : r = w[1]
    BY DEF Waiters
<1>3. PICK place \in {"user", "done"} : Goto(w, place) /\ (place = "user" <=> ~isCalled[r])
    BY <1>2 DEF Exchange, MayCall
<1>4. Moves(w, place, call[w].taken, call[w].reg)
    BY <1>1, <1>3, GotoMoves DEF Inv
<1>5. /\ \A q \in Registrations : isCalled'[q] = IF q = r THEN TRUE ELSE isCalled[q]
      /\ UNCHANGED <<closed, monitors, unregistered, mutex, holders, endPoint, status, asked>>
    BY <1>2 DEF Exchange, Inv, StateInv
<1>6. \A v \in Waiters : v \in Threads /\ v[1] \in Registrations
    BY DEF Threads, Waiters
<1>7. LifeInv'
    BY <1>1, <1>4, <1>5 DEF RemovalInv, LifeInv, Moves, Threads
<1>8. OpenerInv'
  <2>1. \A u \in Threads : IsOpening(u) => IsOpening(u)' /\ call'[u].reg = call[u].reg
    BY <1>1, <1>4 DEF IsOpening, Moves
  <2> QED
    BY <1>5, <2>1 DEF RemovalInv, OpenerInv
<1>9. FlagInv'
  <2>1. CASE place = "done"
    BY <1>4, <1>5, <1>6, <2>1 DEF RemovalInv, FlagInv, Moves, Outside
  <2>2. CASE place = "user"
    <3>1. \A v \in Waiters : v[1] = r => call[v].at \in Outside
      BY <1>3, <2>2 DEF RemovalInv, FlagInv
    <3> QED
      BY <1>2, <1>4, <1>5, <1>6, <2>2, <3>1 DEF RemovalInv, FlagInv, Moves
  <2> QED
    BY <2>1, <2>2
<1>10. ASSUME holders' # {} PROVE ErasedInv' /\ ListedInv' /\ TokenInv'
  <2>1. \A q \in Registrations : Busy(q) => Busy(q)'
    BY <1>1, <1>4 DEF Busy, Moves, InHand
  <2>2. ASSUME NEW q \in Registrations, Reported(q) PROVE Reported(q)'
    <3>1. isCalled[q] /\ isCalled'[q]
      BY <1>5, <2>2 DEF Reported
    <3>2. \A v \in Waiters : v[1] = q /\ call[v].at \in Outside \cup {"release"} =>
              call'[v].at \in Outside \cup {"release"}
      BY <1>2, <1>3, <1>4, <1>6, <3>1 DEF Moves, Outside
    <3> QED
      BY <2>2, <3>1, <3>2, StillReported
  <2>3. Persist
    BY <1>5, <2>1, <2>2, SamePersist
  <2>4. NoToken /\ holders # {}
    BY <1>4, <1>5, <1>10 DEF NoToken, Moves
  <2> QED
    BY <1>5, <2>3, <2>4, Removal_Step
<1> QED
    BY <1>7, <1>8, <1>9, <1>10 DEF RemovalInv

\* The endpoint is put on the list.
LEMMA Push_Removal ==
    ASSUME Inv, RemovalInv, NEW w \in Waiters, Push(w)
    PROVE  RemovalInv'
<1>1. call[w].at = "push" /\ w \in Threads /\ call[w].reg = Null /\ w \notin Clients
    BY Callback, ThreadsAssumption DEF Push, At
<1>2. PICK r \in Registrations : r = w[1]
    BY DEF Waiters
<1>3. Moves(w, "release", call[w].taken, call[w].reg)
    BY <1>1, GotoMoves DEF Push, Inv
<1>4. /\ unregistered' = unregistered \cup {endPoint[r]}
      /\ UNCHANGED <<closed, monitors, mutex, holders, endPoint, status, isCalled, asked>>
    BY <1>2 DEF Push, regVars
<1>5. \A v \in Waiters : v \in Threads /\ v[1] \in Registrations
    BY DEF Threads, Waiters
<1>6. LifeInv'
    BY <1>1, <1>3, <1>4 DEF RemovalInv, LifeInv, Moves, Threads
<1>7. OpenerInv'
  <2>1. \A u \in Threads : IsOpening(u) => IsOpening(u)' /\ call'[u].reg = call[u].reg
    BY <1>1, <1>3 DEF IsOpening, Moves
  <2> QED
    BY <1>4, <2>1 DEF RemovalInv, OpenerInv
<1>8. FlagInv'
    BY <1>1, <1>3, <1>4, <1>5 DEF RemovalInv, FlagInv, Moves, Outside
<1>9. isCalled[r] /\ \A v \in Waiters : v[1] = r /\ v # w => call[v].at \in Outside
    BY <1>1, <1>2 DEF RemovalInv, FlagInv, Outside
<1>10. ASSUME holders' # {} PROVE ErasedInv' /\ ListedInv' /\ TokenInv'
  <2>1. holders # {} /\ ErasedInv /\ ListedInv /\ TokenInv
    BY <1>4, <1>10 DEF RemovalInv
  <2>2. \A q \in Registrations : Busy(q) <=> Busy(q)'
    BY <1>1, <1>3 DEF Busy, Moves, InHand
  <2>3. \A e \in EndPoints : Clean(e)' <=> Clean(e)
    BY <1>4, <2>2 DEF Clean, Rejected, Contested
  <2>4. \A q \in Registrations : Reported(q) => Reported(q)'
  <3>1. ASSUME NEW q \in Registrations, Reported(q) PROVE Reported(q)'
    <4>1. isCalled'[q]
      BY <1>4, <3>1 DEF Reported
    <4> QED
      BY <1>3, <1>5, <3>1, <4>1, StillReported DEF Moves
  <3> QED
    BY <3>1
  <2>5. Reported(r)' /\ ~Reported(r)
    BY <1>1, <1>2, <1>3, <1>4, <1>5, <1>9 DEF Reported, Moves, Outside
  <2>6. PICK e \in EndPoints : e = endPoint[r]
    BY <1>1, <1>2 DEF Inv, OpenInv, MapInv
  <2>7. ASSUME Clean(e) PROVE Active(r)
    <3>1. CASE status[r] = "open"
      <4>1. PICK t \in Threads : IsOpening(t) /\ call[t].reg = r
        BY <3>1 DEF RemovalInv, OpenerInv
      <4>2. w = <<r, "event">> \/ w = <<r, "process">>
        BY <1>2 DEF Waiters
      <4>3. call[t].at \in InHand
        BY <1>1, <4>1, <4>2 DEF Inv, OpenInv, InHand, IsOpening, Unregistering
      <4> QED
        BY <4>1, <4>3 DEF Active, Busy
    <3>2. status[r] # "unused"
      BY <1>1, <1>2 DEF Inv, OpenInv
    <3>3. status[r] # "rejected"
      BY <2>6, <2>7 DEF Clean, Rejected
    <3>4. status[r] # "erased"
      BY <2>1, <2>5, <2>6, <2>7 DEF Clean, ErasedInv
    <3> QED
      BY <3>1, <3>2, <3>3, <3>4 DEF Inv, StateInv, Statuses, Active
  <2>8. Clean(e) => ~Listed(e)
    BY <2>1, <2>5, <2>6, <2>7, ActiveIsUnique DEF ListedInv
  <2>9. \A q \in Registrations : Active(q) => Active(q)'
    BY <1>4, <2>2 DEF Active
  <2>10. \A u \in Threads : call'[u].taken = call[u].taken
    BY <1>3 DEF Moves
  <2>11. ErasedInv'
    BY <1>4, <2>1, <2>4 DEF ErasedInv, Rejected
  <2>12. ListedInv'
    <3> SUFFICES ASSUME NEW d \in EndPoints, Clean(d)', Listed(d)'
                 PROVE  \E q \in Registrations : endPoint'[q] = d /\ Active(q)' /\ Reported(q)'
      BY DEF ListedInv
    <3>1. CASE d = e
      BY <1>4, <2>3, <2>5, <2>6, <2>7, <2>9, <3>1
    <3>2. CASE d # e
      <4>1. Listed(d)
        BY <1>4, <2>6, <2>10, <3>2 DEF Listed
      <4> QED
        BY <1>4, <2>1, <2>3, <2>4, <2>9, <4>1 DEF ListedInv
    <3> QED
      BY <3>1, <3>2
  <2>13. TokenInv'
    BY <1>4, <2>1, <2>3, <2>6, <2>8, <2>10 DEF TokenInv, Listed
  <2> QED
    BY <2>11, <2>12, <2>13
<1> QED
    BY <1>6, <1>7, <1>8, <1>10 DEF RemovalInv

\* The list is emptied into the hands of the thread.
LEMMA Swap_Removal ==
    ASSUME Inv, RemovalInv, NEW t \in Threads, Swap(t)
    PROVE  RemovalInv'
<1>1. call[t].at = "swap"
    BY DEF Swap, At
<1>2. Moves(t, "lockErase", unregistered, call[t].reg)
    BY DEF Swap, Moves, Inv, StateInv, CallRecords
<1>3. unregistered' = {} /\ UNCHANGED <<closed, monitors, mutex, holders, endPoint, status, isCalled, asked>>
    BY DEF Swap, regVars
<1>4. LifeInv'
    BY <1>1, <1>2, <1>3 DEF RemovalInv, LifeInv, Moves, Threads
<1>5. OpenerInv'
  <2>1. \A u \in Threads : IsOpening(u) => IsOpening(u)' /\ call'[u].reg = call[u].reg
    BY <1>1, <1>2 DEF IsOpening, Moves, Unregistering
  <2> QED
    BY <1>3, <2>1 DEF RemovalInv, OpenerInv
<1>6. \A w \in Waiters : /\ w \in Threads
                         /\ call'[w].at \in Outside \cup {"release"} <=> call[w].at \in Outside \cup {"release"}
                         /\ call'[w].at \in Outside <=> call[w].at \in Outside
    BY <1>1, <1>2 DEF Threads, Moves, Outside
<1>7. FlagInv'
    BY <1>3, <1>6 DEF RemovalInv, FlagInv
<1>8. ASSUME holders' # {} PROVE ErasedInv' /\ ListedInv' /\ TokenInv'
  <2>1. ErasedInv /\ ListedInv /\ TokenInv
    BY <1>3, <1>8 DEF RemovalInv
  <2>2. /\ \A r \in Registrations : Busy(r)' <=> Busy(r)
        /\ \A r \in Registrations : Reported(r)' <=> Reported(r)
    BY <1>1, <1>2, <1>3, <1>6 DEF Busy, Moves, InHand, Reported
  <2>3. /\ \A e \in EndPoints : Clean(e)' <=> Clean(e)
        /\ \A r \in Registrations : Active(r)' <=> Active(r)
    BY <1>3, <2>2 DEF Clean, Rejected, Contested, Active
  <2>4. \A e \in EndPoints : Listed(e)' => Listed(e)
    BY <1>2, <1>3 DEF Listed, Moves
  <2>5. ErasedInv' /\ ListedInv'
    BY <1>3, <2>1, <2>2, <2>3, <2>4 DEF ErasedInv, ListedInv, Rejected
  <2>6. TokenInv'
    BY <1>2, <1>3, <2>1, <2>3 DEF TokenInv, Moves
  <2> QED
    BY <2>5, <2>6
<1> QED
    BY <1>4, <1>5, <1>7, <1>8 DEF RemovalInv

\* The map gives up the registration of a name.
LEMMA Remove_Moves ==
    ASSUME Inv, NEW t \in Threads, NEW e \in EndPoints, monitors[e] # Null, Remove(t, e)
    PROVE  /\ Moves(t, call[t].at, call[t].taken \ {e}, call[t].reg)
           /\ \E r \in Registrations :
                  /\ endPoint[r] = e /\ status[r] = "registered"
                  /\ \A q \in Registrations : status'[q] = IF q = r THEN "erased" ELSE status[q]
           /\ \A d \in EndPoints : monitors'[d] = IF d = e THEN Null ELSE monitors[d]
<1>1. Moves(t, call[t].at, call[t].taken \ {e}, call[t].reg)
    BY DEF Remove, Moves, Inv, StateInv, CallRecords
<1>2. PICK r \in Registrations : r = monitors[e]
    BY DEF Inv, StateInv
<1>3. endPoint[r] = e /\ status[r] = "registered"
    BY <1>2 DEF Inv, MapInv
<1>4. \A q \in Registrations : status'[q] = IF q = r THEN "erased" ELSE status[q]
    BY <1>2 DEF Remove, Inv, StateInv
<1>5. \A d \in EndPoints : monitors'[d] = IF d = e THEN Null ELSE monitors[d]
    BY DEF Remove, Inv, StateInv
<1> QED
    BY <1>1, <1>3, <1>4, <1>5

\* What a step keeps that leaves all threads where they are.
LEMMA SamePlaces ==
    ASSUME Inv, RemovalInv, UNCHANGED <<holders, isCalled>>,
           \A u \in Threads : call'[u].at = call[u].at /\ call'[u].reg = call[u].reg,
           \A r \in Registrations : status'[r] = "open" => status[r] = "open"
    PROVE  /\ LifeInv' /\ OpenerInv' /\ FlagInv'
           /\ \A r \in Registrations : (Busy(r)' <=> Busy(r)) /\ (Reported(r)' <=> Reported(r))
<1>1. \A w \in Waiters : w \in Threads
    BY DEF Threads
<1>2. \A c \in Clients : c \in Threads
    BY DEF Threads
<1>3. LifeInv'
    BY <1>2 DEF RemovalInv, LifeInv
<1>4. OpenerInv'
    BY DEF RemovalInv, OpenerInv, IsOpening
<1>5. FlagInv'
    BY <1>1 DEF RemovalInv, FlagInv
<1> QED
    BY <1>1, <1>3, <1>4, <1>5 DEF Busy, Reported

LEMMA Erase_Removal ==
    ASSUME Inv, RemovalInv, NEW t \in Threads, NEW e \in EndPoints, Erase(t, e)
    PROVE  RemovalInv'
<1>1. /\ call[t].at = "erase" /\ e \in call[t].taken
      /\ UNCHANGED <<closed, unregistered, mutex, holders, endPoint, isCalled, asked>>
    BY DEF Erase, At
<1>2. CASE monitors[e] = Null
  <2>1. call' = [call EXCEPT ![t].taken = call[t].taken \ {e}] /\ UNCHANGED <<monitors, status>>
    BY <1>2 DEF Erase
  <2>2. Moves(t, "erase", call[t].taken \ {e}, call[t].reg)
    BY <1>1, <2>1 DEF Moves, Inv, StateInv, CallRecords
  <2> QED
    BY <1>1, <2>1, <2>2, Stroll DEF Outside, InHand, Unregistering
<1>3. CASE monitors[e] # Null
  <2>1. Remove(t, e)
    BY <1>3 DEF Erase
  <2>2. /\ Moves(t, call[t].at, call[t].taken \ {e}, call[t].reg)
        /\ \A d \in EndPoints : monitors'[d] = IF d = e THEN Null ELSE monitors[d]
    BY <1>3, <2>1, Remove_Moves
  <2>3. PICK r \in Registrations :
            /\ endPoint[r] = e /\ status[r] = "registered"
            /\ \A q \in Registrations : status'[q] = IF q = r THEN "erased" ELSE status[q]
    BY <1>3, <2>1, Remove_Moves
  <2>4. /\ LifeInv' /\ OpenerInv' /\ FlagInv'
        /\ \A q \in Registrations : (Busy(q)' <=> Busy(q)) /\ (Reported(q)' <=> Reported(q))
  <3>1. \A u \in Threads : call'[u].at = call[u].at /\ call'[u].reg = call[u].reg
    BY <2>2 DEF Moves
  <3> QED
    BY <1>1, <2>3, <3>1, SamePlaces
  <2>5. ASSUME holders' # {} PROVE ErasedInv' /\ ListedInv' /\ TokenInv'
    <3>1. \A q \in Registrations : ~Busy(q)
      BY <1>1, BusyIs DEF Owning, InHand
    <3>2. Persist
      BY <1>1, <2>3, <2>4, <3>1 DEF Persist, Contested
    <3>3. NoToken /\ holders # {}
      BY <1>1, <2>2, <2>5 DEF NoToken, Moves
    <3>4. ErasedBy(t, r)
      BY <1>1, <2>2, <2>3 DEF ErasedBy, Moves
    <3>5. \A q \in Registrations :
               /\ status'[q] = "erased" => status[q] \in {"erased", "registered"}
               /\ status[q] = "registered" /\ status'[q] # "registered" =>
                      \E u \in Threads : ErasedBy(u, q)
      BY <2>3, <3>4
    <3> QED
      BY <3>2, <3>3, <3>5, Removal_Step
  <2> QED
    BY <2>4, <2>5 DEF RemovalInv
<1> QED
    BY <1>2, <1>3

\* Nobody has the monitor any more, and nothing is promised.
LEMMA Destroy_Removal ==
    ASSUME Inv, RemovalInv, NEW t \in Threads, NEW e \in EndPoints, Destroy(t, e)
    PROVE  RemovalInv'
<1>1. call[t].at = "destroy" /\ holders' = {} /\ UNCHANGED <<holders, isCalled>>
    BY DEF Destroy, At, RemovalInv, LifeInv
<1>2. Remove(t, e) /\ monitors[e] # Null
    BY DEF Destroy
<1>3. \A u \in Threads : call'[u].at = call[u].at /\ call'[u].reg = call[u].reg
  <2>1. Moves(t, call[t].at, call[t].taken \ {e}, call[t].reg)
    BY <1>2, Remove_Moves
  <2> QED
    BY <2>1 DEF Moves
<1>4. \A q \in Registrations : status'[q] = "open" => status[q] = "open"
    BY <1>2, Remove_Moves
<1>5. LifeInv' /\ OpenerInv' /\ FlagInv'
    BY <1>1, <1>3, <1>4, SamePlaces
<1> QED
    BY <1>1, <1>5 DEF RemovalInv

LEMMA DestroyWaiter_Removal ==
    ASSUME Inv, RemovalInv, NEW t \in Threads, DestroyWaiter(t)
    PROVE  RemovalInv'
<1>1. PICK w : w = Head(call[t].doomed)
    OBVIOUS
<1>2. call[t] \in CallRecords /\ call[t].doomed \in Seq(Waiters) /\ call[t].doomed # <<>>
    BY DEF DestroyWaiter, Inv, StateInv, CallRecords
<1>3. w \in Waiters /\ w \in Threads /\ w \notin Clients
    BY <1>1, <1>2, ThreadsAssumption DEF Threads
<1>4. call[w].at \in Resting /\ call[t].at \in {"erase", "reject", "destroy"} /\ w # t
    BY <1>1, <1>2 DEF DestroyWaiter, Destroyable, IsRunning, Inv, ShapeInv, Resting
<1>5. PICK at : at = IF call[w].at = "armed" THEN "none" ELSE call[w].at
    OBVIOUS
<1>6. BothMoves(t, call[t].at, w, at)
  <2>1. call' = [call EXCEPT ![w].at = IF @ = "armed" THEN "none" ELSE @, ![t].doomed = Tail(@)]
    BY <1>1 DEF DestroyWaiter
  <2> QED
    BY <1>3, <1>4, <1>5, <2>1 DEF BothMoves, Inv, StateInv, CallRecords
<1>7. UNCHANGED <<closed, monitors, unregistered, mutex, holders, endPoint, status, isCalled, asked>>
    BY DEF DestroyWaiter, regVars
<1>8. /\ at \in {"none", "done"}
      /\ \A v \in Waiters : /\ v \in Threads
                            /\ call'[v].at \in Outside <=> call[v].at \in Outside
                            /\ call'[v].at = "release" <=> call[v].at = "release"
      /\ \A u \in Threads : /\ u \notin Waiters => call'[u].at = call[u].at
                            /\ call'[u].at \in InHand <=> call[u].at \in InHand
                            /\ call'[u].at = "destroy" <=> call[u].at = "destroy"
  <2>1. at \in {"none", "done"} /\ call[w].at \in {"none", "done", "armed"}
    BY <1>4, <1>5 DEF Resting
  <2> QED
    BY <1>3, <1>4, <1>6, <2>1 DEF BothMoves, Outside, InHand, Threads
<1>9. LifeInv'
  <2>1. \A c \in Clients : c \in Threads /\ c \notin Waiters
    BY ThreadsAssumption DEF Threads
  <2> QED
    BY <1>7, <1>8, <2>1 DEF RemovalInv, LifeInv
<1>10. OpenerInv'
  <2>1. call[w].reg = Null
    BY <1>3, <1>4 DEF Inv, ShapeInv, Unregistering, Resting
  <2>2. \A u \in Threads : IsOpening(u) => IsOpening(u)' /\ call'[u].reg = call[u].reg
    BY <1>6, <2>1 DEF IsOpening, BothMoves
  <2> QED
    BY <1>7, <2>2 DEF RemovalInv, OpenerInv
<1>11. FlagInv'
    BY <1>7, <1>8 DEF RemovalInv, FlagInv
<1>12. ASSUME holders' # {} PROVE ErasedInv' /\ ListedInv' /\ TokenInv'
  <2>1. \A r \in Registrations : (Busy(r) => Busy(r)') /\ (Reported(r) => Reported(r)')
    BY <1>6, <1>7, <1>8 DEF Busy, Reported, BothMoves
  <2>2. Persist
    BY <1>7, <2>1, SamePersist
  <2>3. NoToken /\ holders # {}
    BY <1>6, <1>7, <1>12 DEF NoToken, BothMoves
  <2> QED
    BY <1>7, <2>2, <2>3, Removal_Step
<1> QED
    BY <1>9, <1>10, <1>11, <1>12 DEF RemovalInv

\* A waiter of the registration that a thread has in hand is armed.
LEMMA Arm_Removal ==
    ASSUME Inv, RemovalInv, NEW t \in Threads, NEW w \in Waiters, NEW place \in InHand,
           call[t].at \in {"emplace", "openProcess"}, w[1] = call[t].reg, call[w].at = "none",
           call' = [call EXCEPT ![t].at = place, ![w].at = "armed"],
           UNCHANGED <<closed, monitors, unregistered, holders, regVars>>
    PROVE  RemovalInv'
<1>1. w \in Threads /\ w \notin Clients /\ w # t
    BY ThreadsAssumption DEF Threads
<1>2. BothMoves(t, place, w, "armed")
    BY <1>1 DEF BothMoves, Inv, StateInv, CallRecords
<1>3. UNCHANGED <<closed, monitors, unregistered, holders, endPoint, status, isCalled, asked>>
    BY DEF regVars
<1>4. \A v \in Waiters : /\ v \in Threads
                         /\ call'[v].at \in Outside <=> call[v].at \in Outside
                         /\ call'[v].at = "release" <=> call[v].at = "release"
  <2>1. /\ place \notin Outside /\ place # "release"
        /\ call[t].at \notin Outside /\ call[t].at # "release"
        /\ "none" \in Outside /\ "armed" \in Outside
    BY DEF Outside, InHand
  <2>2. \A u \in Threads : call'[u].at = IF u = t THEN place ELSE IF u = w THEN "armed" ELSE call[u].at
    BY <1>2 DEF BothMoves
  <2>3. \A v \in Waiters : v \in Threads
    BY DEF Threads
  <2>4. call[w].at = "none"
    OBVIOUS
  <2> QED
    BY ONLY <2>1, <2>2, <2>3, <2>4
<1>5. LifeInv'
  <2>1. \A c \in Clients : c \in Threads
    BY DEF Threads
  <2>2. \A u \in Threads : call'[u].at = IF u = t THEN place ELSE IF u = w THEN "armed" ELSE call[u].at
    BY <1>2 DEF BothMoves
  <2>3. place # "idle" /\ place # "destroy"
    BY DEF InHand
  <2>4. holders' = holders /\ LifeInv
    BY <1>3 DEF RemovalInv
  <2> QED
    BY ONLY <2>1, <2>2, <2>3, <2>4 DEF LifeInv
<1>6. call[w].reg = Null /\ ~IsOpening(w)
    BY <1>1 DEF Inv, ShapeInv, Unregistering, IsOpening
<1>7. OpenerInv'
  <2>1. \A u \in Threads : IsOpening(u) => IsOpening(u)' /\ call'[u].reg = call[u].reg
    BY <1>2, <1>6 DEF IsOpening, BothMoves, InHand
  <2>2. status' = status /\ OpenerInv
    BY <1>3 DEF RemovalInv
  <2> QED
    BY ONLY <2>1, <2>2 DEF OpenerInv
<1>8. FlagInv'
    BY <1>3, <1>4 DEF RemovalInv, FlagInv
<1>9. ASSUME holders' # {} PROVE ErasedInv' /\ ListedInv' /\ TokenInv'
  <2>1. \A r \in Registrations : (Busy(r) => Busy(r)') /\ (Reported(r) => Reported(r)')
    <3>1. ASSUME NEW u \in Threads, call[u].at \in InHand
          PROVE  call'[u].at \in InHand /\ call'[u].reg = call[u].reg
      BY <1>2, <3>1 DEF BothMoves, InHand
    <3>2. isCalled' = isCalled
      BY <1>3
    <3>3. \A r \in Registrations : Busy(r) => Busy(r)'
      BY <3>1 DEF Busy
    <3>4. \A r \in Registrations : Reported(r) => Reported(r)'
      BY ONLY <1>4, <3>2 DEF Reported
    <3> QED
      BY <3>3, <3>4
  <2>2. Persist
    BY <1>3, <2>1, SamePersist
  <2>3. NoToken /\ holders # {}
    BY <1>2, <1>3, <1>9 DEF NoToken, BothMoves
  <2> QED
    BY <1>3, <2>2, <2>3, Removal_Step
<1> QED
    BY <1>5, <1>7, <1>8, <1>9 DEF RemovalInv

LEMMA OpenEvent_Removal ==
    ASSUME Inv, RemovalInv, NEW t \in Threads, OpenEvent(t)
    PROVE  RemovalInv'
<1>1. call[t].at = "emplace" /\ call[t].reg \in Registrations
    BY Opener DEF OpenEvent, At
<1>2. PICK w \in Waiters : w = <<call[t].reg, "event">> /\ w[1] = call[t].reg
  <2>1. <<call[t].reg, "event">> \in Waiters /\ <<call[t].reg, "event">>[1] = call[t].reg
    BY <1>1 DEF Waiters
  <2> QED
    BY <2>1
<1>3. call[w].at = "none"
    BY <1>1, <1>2, Opener
<1> QED
    BY <1>1, <1>2, <1>3, Arm_Removal DEF OpenEvent, InHand

LEMMA OpenProcess_Removal ==
    ASSUME Inv, RemovalInv, NEW t \in Threads, OpenProcess(t)
    PROVE  RemovalInv'
<1>1. call[t].at = "openProcess" /\ call[t].reg \in Registrations
    BY Opener DEF OpenProcess, At
<1>2. PICK w \in Waiters : w = <<call[t].reg, "process">> /\ w[1] = call[t].reg
  <2>1. <<call[t].reg, "process">> \in Waiters /\ <<call[t].reg, "process">>[1] = call[t].reg
    BY <1>1 DEF Waiters
  <2> QED
    BY <2>1
<1>3. call[w].at = "none"
    BY <1>1, <1>2, Opener
<1> QED
    BY <1>1, <1>2, <1>3, Arm_Removal DEF OpenProcess, InHand

\* A registration is rejected, or gets into the map.
LEMMA Settle_Removal ==
    ASSUME Inv, RemovalInv, NEW t \in Threads, call[t].at \in {"emplace"} \cup InHand,
           NEW r \in Registrations, r = call[t].reg, NEW s \in {"registered", "rejected"},
           \A q \in Registrations : status'[q] = IF q = r THEN s ELSE status[q],
           s = "registered" => monitors[endPoint[r]] = Null,
           \A e \in EndPoints : monitors[e] # Null => monitors'[e] # Null,
           NEW place \in {"idle", "userRelease", "reject"}, NEW names, NEW g,
           Moves(t, place, names, g), names \subseteq call[t].taken,
           UNCHANGED <<holders, unregistered, endPoint, isCalled>>
    PROVE  RemovalInv'
<1>1. t \in holders /\ status[r] = "open" /\ IsOpening(t)
    BY Opener DEF Inv, HolderInv, Owning, Waiting, InHand
<1>2. \A v \in Waiters : /\ v \in Threads
                         /\ call'[v].at \in Outside <=> call[v].at \in Outside
                         /\ call'[v].at = "release" <=> call[v].at = "release"
  <2>1. /\ place \notin Outside /\ place # "release"
        /\ call[t].at \notin Outside /\ call[t].at # "release"
    BY DEF Outside, InHand
  <2>2. \A u \in Threads : call'[u].at = IF u = t THEN place ELSE call[u].at
    BY DEF Moves
  <2>3. \A v \in Waiters : v \in Threads
    BY DEF Threads
  <2> QED
    BY ONLY <2>1, <2>2, <2>3
<1>3. LifeInv'
  <2>1. \A c \in Clients : c \in Threads
    BY DEF Threads
  <2>2. \A u \in Threads : call'[u].at = IF u = t THEN place ELSE call[u].at
    BY DEF Moves
  <2> QED
    BY <1>1, <2>1, <2>2 DEF RemovalInv, LifeInv
<1>4. OpenerInv'
  <2>1. \A u \in Threads \ {t} : IsOpening(u) => IsOpening(u)' /\ call'[u].reg = call[u].reg
    BY DEF IsOpening, Moves
  <2> QED
    BY <2>1 DEF RemovalInv, OpenerInv
<1>5. FlagInv'
    BY <1>2 DEF RemovalInv, FlagInv
<1>6. ASSUME holders' # {} PROVE ErasedInv' /\ ListedInv' /\ TokenInv'
  <2>1. \A q \in Registrations : Busy(q) => q = r \/ Busy(q)'
    BY DEF Busy, Moves
  <2>2. \A q \in Registrations : Reported(q) => Reported(q)'
    BY <1>2 DEF Reported
  <2>3. Persist
    BY <1>1, <2>1, <2>2 DEF Persist, Contested
  <2>4. NoToken /\ holders # {}
    BY <1>6 DEF NoToken, Moves
  <2>5. \A q \in Registrations :
            /\ status'[q] = "erased" => status[q] = "erased"
            /\ status[q] = "registered" => status'[q] = "registered"
    BY <1>1
  <2> QED
    BY <2>3, <2>4, <2>5, Removal_Step
<1> QED
    BY <1>3, <1>4, <1>5, <1>6 DEF RemovalInv

LEMMA OpenEventFails_Removal ==
    ASSUME Inv, RemovalInv, NEW t \in Threads, OpenEventFails(t)
    PROVE  RemovalInv'
<1>1. call[t].at = "emplace"
    BY DEF OpenEventFails, At
<1>2. PICK r \in Registrations : r = call[t].reg
    BY <1>1, Opener
<1>3. \A q \in Registrations : status'[q] = IF q = r THEN "rejected" ELSE status[q]
    BY <1>2 DEF OpenEventFails, Inv, StateInv
<1>4. PICK place \in {"idle", "userRelease"} : Moves(t, place, {}, Null)
    BY EndCallMoves DEF OpenEventFails, Inv
<1> QED
    BY <1>1, <1>2, <1>3, <1>4, Settle_Removal DEF OpenEventFails

LEMMA Reject_Removal ==
    ASSUME Inv, RemovalInv, NEW t \in Threads, NEW doomed, call[t].at \in InHand, Reject(t, doomed),
           UNCHANGED <<monitors, holders, unregistered, endPoint, isCalled>>
    PROVE  RemovalInv'
<1>1. PICK r \in Registrations : r = call[t].reg
    BY Opener DEF InHand
<1>2. \A q \in Registrations : status'[q] = IF q = r THEN "rejected" ELSE status[q]
    BY <1>1 DEF Reject, Inv, StateInv
<1>3. Moves(t, "reject", call[t].taken, call[t].reg)
    BY DEF Reject, Moves, Inv, StateInv, CallRecords
<1> QED
    BY <1>1, <1>2, <1>3, Settle_Removal

LEMMA OpenProcessFails_Removal ==
    ASSUME Inv, RemovalInv, NEW t \in Threads, OpenProcessFails(t)
    PROVE  RemovalInv'
    BY Reject_Removal DEF OpenProcessFails, At, InHand

LEMMA Insert_Removal ==
    ASSUME Inv, RemovalInv, NEW t \in Threads, Insert(t)
    PROVE  RemovalInv'
<1>1. call[t].at = "insert" /\ call[t].at \in InHand
    BY DEF Insert, At, InHand
<1>2. PICK r \in Registrations : r = call[t].reg
    BY <1>1, Opener
<1>3. PICK e \in EndPoints : e = endPoint[r]
    BY <1>1, <1>2, Opener DEF Inv, MapInv
<1>4. UNCHANGED <<holders, unregistered, endPoint, isCalled>>
    BY DEF Insert
<1>5. CASE IsDuplicate(e)
  <2>1. Reject(t, WaitersOf(r)) /\ UNCHANGED monitors
    BY <1>2, <1>3, <1>5 DEF Insert
  <2> QED
    BY <1>1, <1>4, <2>1, Reject_Removal
<1>6. CASE ~IsDuplicate(e)
  <2>1. /\ monitors' = [monitors EXCEPT ![e] = r] /\ status' = [status EXCEPT ![r] = "registered"]
        /\ EndCall(t)
    BY <1>2, <1>3, <1>6 DEF Insert
  <2>2. PICK place \in {"idle", "userRelease"} : Moves(t, place, {}, Null)
    BY <2>1, EndCallMoves DEF Inv
  <2>3. \A q \in Registrations : status'[q] = IF q = r THEN "registered" ELSE status[q]
    BY <2>1 DEF Inv, StateInv
  <2>4. \A d \in EndPoints : monitors'[d] = IF d = e THEN r ELSE monitors[d]
    BY <2>1 DEF Inv, StateInv
  <2>5. monitors[endPoint[r]] = Null /\ \A d \in EndPoints : monitors[d] # Null => monitors'[d] # Null
    BY <1>3, <1>6, <2>4 DEF IsDuplicate
  <2> QED
    BY <1>1, <1>2, <1>4, <2>2, <2>3, <2>5, Settle_Removal
<1> QED
    BY <1>5, <1>6

LEMMA Register_Removal ==
    ASSUME Inv, RemovalInv, NEW t \in Threads, NEW e \in EndPoints, NEW r \in Registrations,
           Register(t, e, r)
    PROVE  RemovalInv'
<1>1. /\ call[t].at \in {"idle", "user"} /\ holders # {} /\ call[t].reg = Null
      /\ call[t].at = "idle" => t \in Clients
    BY DEF Register, CanCall, At, RemovalInv, LifeInv, Inv, ShapeInv, Unregistering
<1>2. Moves(t, "swap", call[t].taken, r)
    BY DEF Register, Moves, Inv, StateInv, CallRecords
<1>3. /\ status[r] = "unused"
      /\ \A q \in Registrations : /\ status'[q] = IF q = r THEN "open" ELSE status[q]
                                  /\ endPoint'[q] = IF q = r THEN e ELSE endPoint[q]
      /\ UNCHANGED <<closed, monitors, unregistered, mutex, isCalled, calls, asked>>
      /\ holders' = holders \cup {t}
    BY DEF Register, Inv, StateInv
<1>4. \A c \in Clients : c \in Threads /\ c \notin Waiters
    BY ThreadsAssumption DEF Threads
<1>5. \A v \in Waiters : /\ v \in Threads
                         /\ call'[v].at \in Outside <=> call[v].at \in Outside
                         /\ call'[v].at = "release" <=> call[v].at = "release"
    BY <1>1, <1>2, <1>4 DEF Moves, Threads, Outside
<1>6. LifeInv'
    BY <1>1, <1>2, <1>3, <1>4 DEF RemovalInv, LifeInv, Moves
<1>7. OpenerInv'
  <2>1. IsOpening(t)' /\ call'[t].reg = r
    BY <1>2, ThreadsAssumption DEF IsOpening, Moves, Unregistering
  <2>2. \A u \in Threads : IsOpening(u) => IsOpening(u)' /\ call'[u].reg = call[u].reg
    BY <1>1, <1>2 DEF IsOpening, Moves
  <2> QED
    BY <1>3, <2>1, <2>2 DEF RemovalInv, OpenerInv
<1>8. FlagInv'
    BY <1>3, <1>5 DEF RemovalInv, FlagInv
<1>9. ErasedInv' /\ ListedInv' /\ TokenInv'
  <2>1. \A q \in Registrations : (Busy(q) => Busy(q)') /\ (Reported(q) => Reported(q)')
    BY <1>1, <1>2, <1>3, <1>5 DEF Busy, Reported, Moves, InHand
  <2>2. Persist
    BY <1>3, <2>1 DEF Persist, Contested
  <2>3. NoToken
    BY <1>2, <1>3 DEF NoToken, Moves
  <2>4. \A q \in Registrations :
            /\ status'[q] = "erased" => status[q] = "erased"
            /\ status[q] = "registered" => status'[q] = "registered"
    BY <1>3
  <2> QED
    BY <1>1, <2>2, <2>3, <2>4, Removal_Step
<1> QED
    BY <1>6, <1>7, <1>8, <1>9 DEF RemovalInv

\* Unless users unregister endpoints by name themselves.
LEMMA Next_Removal ==
    ASSUME "unregister" \notin Cases
    PROVE  Inv /\ RemovalInv /\ [Next]_vars => RemovalInv'
<1> SUFFICES ASSUME Inv, RemovalInv, [Next]_vars PROVE RemovalInv'
    OBVIOUS
<1>1. CASE UNCHANGED vars
    BY <1>1, Stay_Removal DEF vars, regVars
<1>2. ASSUME NEW e \in EndPoints, NEW kind \in {"event", "process"}, Close(e, kind) PROVE RemovalInv'
    BY <1>2, Stay_Removal DEF Close, regVars
<1>3. ASSUME NEW t \in Threads, NEW e \in EndPoints PROVE ~UnRegisterEndPoint(t, e)
    BY DEF UnRegisterEndPoint
<1>4. ASSUME NEW t \in Threads, Proceed(t) PROVE RemovalInv'
  <2>1. CASE UnRegister(t)
    BY <2>1, Swap_Removal, LockErase_Removal, EndErase_Removal, Erase_Removal DEF UnRegister
  <2>2. CASE Emplace(t)
    BY <2>2, OpenEvent_Removal, OpenEventFails_Removal, OpenProcess_Removal,
       OpenProcessFails_Removal, Insert_Removal, EndReject_Removal DEF Emplace
  <2> QED
    BY <1>4, <2>1, <2>2, Count_Removal, DestroyWaiter_Removal, EndDestroy_Removal, Destroy_Removal
    DEF Proceed
<1>5. ASSUME NEW w \in Waiters, OnEvent(w) PROVE RemovalInv'
    BY <1>5, Fire_Removal, Exchange_Removal, Return_Removal, LockWeak_Removal, Push_Removal
    DEF OnEvent
<1> QED
    BY <1>1, <1>2, <1>3, <1>4, <1>5, GetRemoteConnectionsCount_Removal, Release_Removal,
       Register_Removal DEF Next

\* "the callback registered is triggered and the remote endpoint is removed from
\* the ConnectionMonitor after the callback is finished" (ConnectionMonitor.h:19):
\* a registration leaves the map only when the call of its user has returned,
\* whatever threads, callbacks and failing registrations do at the same time, if
\* users do not unregister endpoints by name.
THEOREM OrderlyRemoval ==
    ASSUME "unregister" \notin Cases
    PROVE  Spec => []RemovedAfterCallback
<1>1. Inv /\ RemovalInv => RemovedAfterCallback
  <2> SUFFICES ASSUME Inv, RemovalInv, holders # {}, NEW r \in Registrations,
                      status[r] = "erased", ~Disturbed(r)
               PROVE  calls[r] > 0 /\ ~\E kind \in {"event", "process"} : At(<<r, kind>>, "user")
    BY DEF RemovedAfterCallback
  <2>1. Reported(r)
    BY DEF RemovalInv, ErasedInv, Rejected, Disturbed
  <2>2. calls[r] = 1
    BY <2>1 DEF Reported, Inv, CountInv
  <2>3. ASSUME NEW kind \in {"event", "process"} PROVE ~At(<<r, kind>>, "user")
    <3>1. <<r, kind>> \in Waiters /\ <<r, kind>>[1] = r
      BY DEF Waiters
    <3> QED
      BY <2>1, <3>1 DEF Reported, Outside, At
  <2> QED
    BY <2>2, <2>3
<1>2. Init => RemovalInv
    BY Init_Removal
<1>3. Inv /\ RemovalInv /\ [Next]_vars => RemovalInv'
    BY Next_Removal
<1> QED
    BY <1>1, <1>2, <1>3, Invariance, PTL DEF Spec

===============================================================================

----------------------------- MODULE PerfCounters -----------------------------
(***************************************************************************)
(* Min() and Max() of PerfCounters (inc/L4/Log/PerfCounter.h:131): threads *)
(* that report a value to a counter, which keeps the least or the greatest *)
(* one, with a loop around compare_exchange_strong.  A table reports the   *)
(* sizes of keys and values and the length of chains in this way.          *)
(***************************************************************************)
EXTENDS PerfCounter

CONSTANTS
    Reporters,
    Counters,   \* some of the minima and maxima
    Values,     \* what is reported
    MaxValue    \* numeric_limits<TValue>::max()

ASSUME CountersAssumption == Counters \subseteq Minima \cup Maxima

ASSUME ValuesAssumption == Values \subseteq Int /\ MaxValue \in Int

VARIABLES
    counters,  \* m_counters
    call,      \* the call each thread is in
    reported   \* the values of the calls that are done (history)

counterVars == <<counters, call, reported>>

Initial == [counter \in Counters |-> InitialValue(counter, MaxValue)]

\* Value a is further out than b.
Beyond(counter, a, b) == IF counter \in Minima THEN a < b ELSE a > b

NoCall == [state |-> "idle"]

\* What a counter may be.
CounterValues(counter) == Values \cup {Initial[counter]}

Calls == [state : {"loop"}, counter : Counters, value : Values, startValue : Int]

TypeOK ==
    /\ counters \in [Counters -> Int]
    /\ \A counter \in Counters : counters[counter] \in CounterValues(counter)
    /\ call \in [Reporters -> Calls \cup {NoCall}]
    /\ \A t \in Reporters :
           call[t] # NoCall => call[t].startValue \in CounterValues(call[t].counter)
    /\ reported \in [Counters -> SUBSET Values]

CounterInit ==
    /\ counters = Initial
    /\ call = [t \in Reporters |-> NoCall]
    /\ reported = [counter \in Counters |-> {}]

\* Mistake: Min() loads the counter of the maximum, and the other way round.
Begin_OtherCounter(t, counter, value) ==
    \E other \in Counters \ {counter} :
        /\ call[t] = NoCall
        /\ call' = [call EXCEPT ![t] = [state |-> "loop", counter |-> counter, value |-> value,
                                        startValue |-> counters[other]]]
        /\ UNCHANGED <<counters, reported>>

\* counter.load()
Begin(t, counter, value) ==
    /\ call[t] = NoCall
    /\ call' = [call EXCEPT ![t] = [state |-> "loop", counter |-> counter, value |-> value,
                                    startValue |-> counters[counter]]]
    /\ UNCHANGED <<counters, reported>>

Done(t) ==
    /\ call' = [call EXCEPT ![t] = NoCall]
    /\ reported' = [reported EXCEPT ![call[t].counter] = @ \cup {call[t].value}]

\* The counter is further out already.
Return(t) ==
    /\ call[t] # NoCall
    /\ Beyond(call[t].counter, call[t].startValue, call[t].value)
    /\ Done(t)
    /\ UNCHANGED counters

\* Mistake: a store where the code has a compare-and-swap.
Exchange_Store(t) ==
    /\ call[t] # NoCall
    /\ ~Beyond(call[t].counter, call[t].startValue, call[t].value)
    /\ counters' = [counters EXCEPT ![call[t].counter] = call[t].value]
    /\ Done(t)

\* Mistake: startValue is not refreshed when the exchange fails.
Exchange_Stale(t) ==
    /\ call[t] # NoCall
    /\ ~Beyond(call[t].counter, call[t].startValue, call[t].value)
    /\ IF counters[call[t].counter] = call[t].startValue
       THEN counters' = [counters EXCEPT ![call[t].counter] = call[t].value] /\ Done(t)
       ELSE UNCHANGED counterVars

\* compare_exchange_strong(), which loads the counter when it fails.
Exchange(t) ==
    LET counter == call[t].counter
    IN  /\ call[t] # NoCall
        /\ ~Beyond(counter, call[t].startValue, call[t].value)
        /\ IF counters[counter] = call[t].startValue
           THEN counters' = [counters EXCEPT ![counter] = call[t].value] /\ Done(t)
           ELSE /\ call' = [call EXCEPT ![t].startValue = counters[counter]]
                /\ UNCHANGED <<counters, reported>>

CounterNext ==
    \E t \in Reporters :
        \/ \E counter \in Counters, value \in Values : Begin(t, counter, value)
        \/ Return(t)
        \/ Exchange(t)

CounterSpec == CounterInit /\ [][CounterNext]_counterVars

\* A thread in a call goes on.
FairCounterSpec == CounterSpec /\ \A t \in Reporters : WF_counterVars(Return(t) \/ Exchange(t))

-------------------------------------------------------------------------------
\* A counter is the initial value or one reported by a call that is done, and
\* none of these is further out: no update is lost in the races of the loops.
ExtremeOfReported ==
    \A counter \in Counters :
        /\ counters[counter] \in reported[counter] \cup {Initial[counter]}
        /\ \A value \in reported[counter] \cup {Initial[counter]} : ~Beyond(counter, value, counters[counter])

\* What a call has seen of a counter is not further out than the counter is now:
\* a call that returns without an exchange has nothing to add (PerfCounter.h:139).
SeenIsBehind ==
    \A t \in Reporters : call[t] # NoCall =>
        ~Beyond(call[t].counter, call[t].startValue, counters[call[t].counter])

\* "the value of Max is monotonically increasing" (PerfCounter.h:137): the reason
\* why one load is enough.
NeverBack == [][\A counter \in Counters : ~Beyond(counter, counters[counter], counters'[counter])]_counterVars

\* Every call ends, however often others win the exchange.
CallsEnd == \A t \in Reporters : call[t] # NoCall ~> call[t] = NoCall
===============================================================================

------------------------------- MODULE Timer -------------------------------
(***************************************************************************)
(* Core/Timer.{h,cpp}.  One thread is in run(), which holds _timer_lock    *)
(* for a whole pass over the due handlers; others create and remove        *)
(* timers.  One action is one access to shared state made outside the      *)
(* lock, one short critical section, or one handler of a pass.             *)
(***************************************************************************)
EXTENDS Integers, FiniteSets

CONSTANTS
    Requests,       \* the calls of set_timeout_timer and set_periodic_timer
    Waits,          \* the wait_time values, in clock units
    Removing,       \* requests whose callback removes its own timer
    ExecutorGiven,  \* whether the constructor gets an executor
    MaxCallers,     \* how many threads create timers at the same time
    MaxTime,        \* bound on the clock
    NoHandler, NoAlarm

ASSUME TimerAssumption ==
    /\ IsFiniteSet(Requests)
    /\ NoHandler \notin [request : Requests, id : Nat, wait : Nat,
                         periodic : BOOLEAN, next : Nat]
    /\ Waits \subseteq Nat \ {0}
    /\ Removing \subseteq Requests
    /\ ExecutorGiven \in BOOLEAN
    /\ MaxCallers \in Nat \ {0} /\ MaxTime \in Nat
    /\ NoAlarm \notin [from : Nat, wait : Nat, periodic : BOOLEAN]

VARIABLES
    running, nextID,
    timers,         \* _timers: a heap, of which only its top is ever looked at
    removed,        \* _removed_timer_ID
    executor,       \* "inline" (the default one) or "pool"
    now,            \* high_resolution_clock
    call,           \* where each create_timer call is, and its locals
    removal,        \* where the remove_timer call for each request is
    runner,         \* where the thread in run() is
    nowTime, timer, \* its locals: the sampled clock, the handler it popped
    fired,          \* history: how often each callback was handed over
    stopped         \* history: whether stop() was called

runVars == <<runner, nowTime, timer>>
vars == <<running, nextID, timers, removed, executor, now, call, removal,
          runVars, fired, stopped>>

CallAt(states) == {r \in Requests : call[r].pc \in states}
Returned == CallAt({"returned"})

LockFree == runner \notin {"pass", "callback"}

Init ==
    /\ running = ~ExecutorGiven
    /\ executor = IF ExecutorGiven THEN "pool" ELSE "inline"
    /\ nextID = 1
    /\ timers = {}
    /\ removed = {}
    /\ now = 0
    /\ call = [r \in Requests |->
                 [pc |-> "none", id |-> 0, created |-> 0, wait |-> 0,
                  periodic |-> FALSE]]
    /\ removal = [r \in Requests |-> "none"]
    /\ runner = "off" /\ nowTime = 0 /\ timer = NoHandler
    /\ fired = [r \in Requests |-> 0]
    /\ stopped = FALSE

-----------------------------------------------------------------------------
(* create_timer: the id and the creation time are taken before the lock.    *)

\* _nextID ++ is a load and a store; nothing orders those of two threads.
LoadID(r) ==
    /\ call[r].pc = "none"
    /\ Cardinality(CallAt({"store", "clock", "push"})) < MaxCallers
    /\ \E wait \in Waits, isPeriodic \in BOOLEAN :
        call' = [call EXCEPT ![r].pc = "store", ![r].id = nextID,
                             ![r].wait = wait, ![r].periodic = isPeriodic]
    /\ UNCHANGED <<running, nextID, timers, removed, executor, now, removal,
                   runVars, fired, stopped>>

StoreID(r) ==
    /\ call[r].pc = "store"
    /\ nextID' = call[r].id + 1
    /\ call' = [call EXCEPT ![r].pc = "clock"]
    /\ UNCHANGED <<running, timers, removed, executor, now, removal, runVars,
                   fired, stopped>>

SampleCreateTime(r) ==
    /\ call[r].pc = "clock"
    /\ call' = [call EXCEPT ![r].pc = "push", ![r].created = now]
    /\ UNCHANGED <<running, nextID, timers, removed, executor, now, removal,
                   runVars, fired, stopped>>

\* Mutant: the extra millisecond is taken off, as if to round the other way.
Handler_Early(r) ==
    [request |-> r, id |-> call[r].id, wait |-> call[r].wait,
     periodic |-> call[r].periodic,
     next |-> call[r].created + call[r].wait - 1]
Handler(r) ==
    [request |-> r, id |-> call[r].id, wait |-> call[r].wait,
     periodic |-> call[r].periodic,
     next |-> call[r].created + call[r].wait + 1]

PushTimer(r) ==
    /\ call[r].pc = "push"
    /\ LockFree
    /\ timers' = timers \cup {Handler(r)}
    /\ call' = [call EXCEPT ![r].pc = "returned"]
    /\ UNCHANGED <<running, nextID, removed, executor, now, removal, runVars,
                   fired, stopped>>

-----------------------------------------------------------------------------
(* remove_timer: the id is only noted down; run() drops the handler when    *)
(* its time comes.                                                          *)

CallRemove(r) ==
    /\ r \in Returned /\ r \notin Removing
    /\ removal[r] = "none"
    /\ removal' = [removal EXCEPT ![r] = "called"]
    /\ UNCHANGED <<running, nextID, timers, removed, executor, now, call,
                   runVars, fired, stopped>>

NoteRemoved(r) ==
    /\ removal[r] = "called"
    /\ LockFree
    /\ removed' = removed \cup {call[r].id}
    /\ removal' = [removal EXCEPT ![r] = "returned"]
    /\ UNCHANGED <<running, nextID, timers, executor, now, call, runVars,
                   fired, stopped>>

-----------------------------------------------------------------------------
(* run                                                                      *)

\* Rpc_Client and Rpc_Server replace the executor before anything else.
SetExecutor ==
    /\ runner = "off"
    /\ Returned = {}
    /\ executor' = "pool"
    /\ UNCHANGED <<running, nextID, timers, removed, now, call, removal,
                   runVars, fired, stopped>>

CallRun ==
    /\ runner = "off"
    /\ runner' = "loop"
    /\ UNCHANGED <<running, nextID, timers, removed, executor, now, call,
                   removal, nowTime, timer, fired, stopped>>

BeginPass ==
    /\ runner = "loop"
    /\ running
    /\ nowTime' = now
    /\ runner' = "pass"
    /\ UNCHANGED <<running, nextID, timers, removed, executor, now, call,
                   removal, timer, fired, stopped>>

ReturnFromRun ==
    /\ runner = "loop"
    /\ ~running
    /\ runner' = "returned"
    /\ UNCHANGED <<running, nextID, timers, removed, executor, now, call,
                   removal, nowTime, timer, fired, stopped>>

\* Mutant: the order of the heap is reversed, as with operator< written as <.
Tops_Latest == {h \in timers : \A other \in timers : h.next >= other.next}
\* What _timers.top() may be: handlers due at the same time are in no order.
Tops == {h \in timers : \A other \in timers : h.next <= other.next}

DueTops == {h \in Tops : nowTime >= h.next}

IsRemoved(h) == h.id \in removed

\* Mutant: a removed handler is skipped before it has been popped.
DropRemoved_NoPop ==
    /\ runner = "pass"
    /\ \E h \in DueTops : IsRemoved(h)
    /\ UNCHANGED vars

DropRemoved ==
    /\ runner = "pass"
    /\ \E h \in DueTops :
        /\ IsRemoved(h)
        /\ timers' = timers \ {h}
    /\ UNCHANGED <<running, nextID, removed, executor, now, call, removal,
                   runVars, fired, stopped>>

\* Mutant: the period is counted from the pass, so that delays add up.
Updated_Drifts(h) == [h EXCEPT !.next = nowTime + h.wait]
Updated(h) == [h EXCEPT !.next = @ + h.wait]

\* Mutant: the handler is looked at but not popped.
Rescheduled_NoPop(h) == timers \cup (IF h.periodic THEN {Updated(h)} ELSE {})
\* What _timers holds once handler h has been dealt with.
Rescheduled(h) == (timers \ {h}) \cup (IF h.periodic THEN {Updated(h)} ELSE {})

\* The pool's commit only queues the callback.
HandOver ==
    /\ runner = "pass"
    /\ executor = "pool"
    /\ \E h \in DueTops :
        /\ ~IsRemoved(h)
        /\ timers' = Rescheduled(h)
        /\ fired' = [fired EXCEPT ![h.request] = @ + 1]
        \* the callback, on a thread of the pool, will call remove_timer
        /\ removal' = IF h.request \in Removing /\ removal[h.request] = "none"
                      THEN [removal EXCEPT ![h.request] = "called"]
                      ELSE removal
    /\ UNCHANGED <<running, nextID, removed, executor, now, call, runVars,
                   stopped>>

\* The default executor runs the callback here, under _timer_lock.
BeginCallback ==
    /\ runner = "pass"
    /\ executor = "inline"
    /\ \E h \in DueTops :
        /\ ~IsRemoved(h)
        /\ timers' = timers \ {h}
        /\ timer' = h
        /\ fired' = [fired EXCEPT ![h.request] = @ + 1]
        /\ removal' = IF h.request \in Removing
                      THEN [removal EXCEPT ![h.request] = "called"]
                      ELSE removal
    /\ runner' = "callback"
    /\ UNCHANGED <<running, nextID, removed, executor, now, call, nowTime,
                   stopped>>

\* A callback that has called remove_timer waits for the lock of its own pass.
EndCallback ==
    /\ runner = "callback"
    /\ timer.request \in Removing => removal[timer.request] = "returned"
    /\ timers' = IF timer.periodic THEN timers \cup {Updated(timer)} ELSE timers
    /\ timer' = NoHandler
    /\ runner' = "pass"
    /\ UNCHANGED <<running, nextID, removed, executor, now, call, removal,
                   nowTime, fired, stopped>>

\* Mutant: an if where the code has a while, so that a pass may stop early.
EndPass_Early ==
    /\ runner = "pass"
    /\ runner' = "loop"
    /\ nowTime' = 0
    /\ UNCHANGED <<running, nextID, timers, removed, executor, now, call,
                   removal, timer, fired, stopped>>
EndPass ==
    /\ runner = "pass"
    /\ DueTops = {}
    /\ runner' = "loop"
    /\ nowTime' = 0
    /\ UNCHANGED <<running, nextID, timers, removed, executor, now, call,
                   removal, timer, fired, stopped>>

Stop ==
    /\ ~stopped
    /\ running' = FALSE
    /\ stopped' = TRUE
    /\ UNCHANGED <<nextID, timers, removed, executor, now, call, removal,
                   runVars, fired>>

Tick ==
    /\ now < MaxTime
    /\ now' = now + 1
    /\ UNCHANGED <<running, nextID, timers, removed, executor, call, removal,
                   runVars, fired, stopped>>

Run == BeginPass \/ ReturnFromRun \/ DropRemoved \/ HandOver \/ BeginCallback
        \/ EndCallback \/ EndPass

Next ==
    \/ \E r \in Requests :
        \/ LoadID(r) \/ StoreID(r) \/ SampleCreateTime(r) \/ PushTimer(r)
        \/ CallRemove(r) \/ NoteRemoved(r)
    \/ SetExecutor \/ CallRun \/ Run
    \/ Stop \/ Tick

Spec == Init /\ [][Next]_vars

\* run() is left to spin on a thread of its own and the clock moves on.  A
\* thread that waits for _timer_lock gets it only if the lock stays free: run()
\* gives it up for an instant between passes and takes it again, and
\* std::mutex promises a waiter nothing.
FairSpec ==
    /\ Spec
    /\ WF_vars(Run) /\ WF_vars(Tick)
    /\ \A r \in Requests : WF_vars(NoteRemoved(r))

-----------------------------------------------------------------------------
\* Every variable has its type; a handler waits in the heap for a call that
\* has returned, unless the running callback has it.
TypeOK ==
    /\ running \in BOOLEAN
    /\ nextID \in 1 .. Cardinality(Requests) + 1
    /\ removed \subseteq 1 .. Cardinality(Requests)
    /\ executor \in {"inline", "pool"}
    /\ now \in 0 .. MaxTime /\ nowTime \in 0 .. now
    /\ \A r \in Requests :
        /\ call[r].pc \in {"none", "store", "clock", "push", "returned"}
        /\ call[r].created \in 0 .. now
        /\ removal[r] \in {"none", "called", "returned"}
    /\ \A h \in timers : h.request \in Returned
    /\ Cardinality(timers) <= Cardinality(Requests)
    /\ runner \in {"off", "loop", "pass", "callback", "returned"}
    /\ (timer # NoHandler) <=> (runner = "callback")

\* run() loses no timer on the way and lets none drift: a request has a handler
\* in the heap, due exactly one period after its last firing was due, or its
\* callback is running, or it was a timeout that fired, or it was removed.
NothingLost ==
    \A r \in Returned :
        \/ \E h \in timers :
            /\ h.request = r
            /\ h.next = call[r].created + 1 + (fired[r] + 1) * call[r].wait
        \/ timer # NoHandler /\ timer.request = r
        \/ ~call[r].periodic /\ fired[r] = 1
        \/ call[r].id \in removed

\* A pass leaves nothing that was due when it began: it catches up with every
\* period it is late for, Timer.cpp:46.
PassCatchesUp ==
    [][runner = "pass" /\ runner' = "loop" => \A h \in timers : h.next > nowTime]_vars

\* Every alarm rings as Alarm_Service allows: never early, a timeout at most
\* once, a periodic one at most once per period, and never after removal.
Alarms == INSTANCE Alarm_Service WITH
    alarm <- [r \in Requests |->
                IF r \in Returned
                THEN [from |-> call[r].created, wait |-> call[r].wait,
                      periodic |-> call[r].periodic]
                ELSE NoAlarm],
    cancelled <- {r \in Returned : call[r].id \in removed},
    rung <- fired
ImplementsAlarms == Alarms!Spec

Overdue(r) == \E h \in timers : h.request = r /\ now >= h.next

\* The one deadlock of run(): the default executor runs, under _timer_lock, a
\* callback that has called remove_timer.
WaitsForItself == runner = "callback" /\ timer.request \in Removing

\* A timer whose time has come fires, unless it is removed or the timer is
\* stopped, or nobody ever calls run().
DueFires ==
    \A r \in Requests :
        Overdue(r) /\ runner # "off"
            ~> \/ ~Overdue(r) \/ removal[r] # "none" \/ stopped
               \/ WaitsForItself

\* Once stop() has been called remove_timer returns, whatever run() still has
\* to catch up with: the pass that is running is the last to hold the lock.
\* (While run() spins, nothing makes a std::mutex let the caller in.)
RemovalReturns ==
    \A r \in Requests :
        removal[r] = "called" /\ stopped ~>
            removal[r] = "returned" \/ WaitsForItself
=============================================================================

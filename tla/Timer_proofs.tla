---------------------------- MODULE Timer_proofs ----------------------------
(***************************************************************************)
(* Proofs about Timer for every finite set of requests, every choice of    *)
(* waits and callbacks, and any number of concurrent callers unless a      *)
(* theorem says otherwise.                                                 *)
(***************************************************************************)
EXTENDS Timer, FiniteSetTheorems, WellFoundedInduction, TLAPS

Handlers == [request : Requests, id : Nat, wait : Nat, periodic : BOOLEAN,
             next : Nat]
CallTypes == [pc : {"none", "store", "clock", "push", "returned"}, id : Nat,
              created : Nat, wait : Nat, periodic : BOOLEAN]

\* The calls that have stored the next id.
Stored == CallAt({"clock", "push", "returned"})

\* Ids are counted; nowTime is a time that has been.
CallInv ==
    /\ running \in BOOLEAN /\ executor \in {"inline", "pool"}
    /\ runner \in {"off", "loop", "pass", "callback", "returned"}
    /\ now \in 0 .. MaxTime /\ nowTime \in 0 .. now
    /\ call \in [Requests -> CallTypes]
    /\ removal \in [Requests -> {"none", "called", "returned"}]
    /\ fired \in [Requests -> Nat]
    /\ \A r \in Requests : call[r].created <= now
    /\ \A r \in Requests : call[r].pc # "none" => call[r].wait \in Waits
    /\ \A r \in Requests : removal[r] # "none" => call[r].pc = "returned"
    /\ \A r \in Requests : call[r].pc # "returned" => fired[r] = 0

IdInv ==
    /\ nextID \in Nat \ {0} /\ nextID <= Cardinality(Stored) + 1
    /\ \A r \in Requests :
        /\ call[r].pc = "store" =>
            call[r].id > 0 /\ call[r].id <= Cardinality(Stored) + 1
        /\ r \in Stored =>
            call[r].id > 0 /\ call[r].id <= Cardinality(Requests)
    /\ \A i \in removed : \E r \in Returned : call[r].id = i

\* A handler is made from its call and updated by its firings.
IsHandlerOf(h, n) ==
    /\ h \in Handlers
    /\ h.request \in Returned
    /\ h.id = call[h.request].id
    /\ h.wait = call[h.request].wait
    /\ h.periodic = call[h.request].periodic
    /\ h.next = call[h.request].created + 1 + n * call[h.request].wait

\* A request has one handler: in the heap, or with the running callback.
HeapInv ==
    /\ \A h \in timers :
        /\ IsHandlerOf(h, fired[h.request] + 1)
        /\ ~h.periodic => fired[h.request] = 0
    /\ \A g, h \in timers : g.request = h.request => g = h
    /\ runner = "callback" =>
        /\ IsHandlerOf(timer, fired[timer.request])
        /\ fired[timer.request] > 0
        /\ ~timer.periodic => fired[timer.request] = 1
        /\ \A h \in timers : h.request # timer.request
    /\ runner # "callback" => timer = NoHandler

TimerInv == CallInv /\ IdInv /\ HeapInv /\ NothingLost

-----------------------------------------------------------------------------
LEMMA InitInv == Init => TimerInv
<1> SUFFICES ASSUME Init PROVE TimerInv
  OBVIOUS
<1> USE TimerAssumption DEF TimerAssumption, Init
<1>1. CallInv
  BY DEF CallInv, CallTypes
<1>2. Stored = {} /\ Returned = {}
  BY DEF Stored, Returned, CallAt
<1>3. IdInv
  BY <1>2, FS_EmptySet DEF IdInv
<1>4. HeapInv
  BY DEF HeapInv
<1>5. NothingLost
  BY <1>2 DEF NothingLost
<1> QED BY <1>1, <1>3, <1>4, <1>5 DEF TimerInv

\* What next holds for a new handler and for one that has fired.
LEMMA NextTimes ==
    ASSUME NEW n \in Nat, NEW w \in Nat
    PROVE  /\ n * w \in Nat
           /\ (n + 1) * w = n * w + w
           /\ (0 + 1) * w = w
<1>1. n * w \in Nat
  OBVIOUS
<1>2. (n + 1) * w = n * w + w
  OBVIOUS
<1>3. (0 + 1) * w = w
  OBVIOUS
<1> QED BY <1>1, <1>2, <1>3

LEMMA StoredFinite ==
    ASSUME CallInv
    PROVE  /\ IsFiniteSet(Stored)
           /\ Cardinality(Stored) \in Nat /\ Cardinality(Requests) \in Nat
           /\ Cardinality(Stored) <= Cardinality(Requests)
<1>1. Stored \in SUBSET Requests
  BY DEF Stored, CallAt
<1> QED BY <1>1, TimerAssumption, FS_Subset, FS_CardinalityType DEF TimerAssumption

LEMMA CallStep ==
    ASSUME TimerInv, [Next]_vars
    PROVE  CallInv'
<1> USE TimerAssumption DEF TimerAssumption, TimerInv, CallInv, runVars
<1>1. ASSUME NEW r \in Requests, LoadID(r) PROVE CallInv'
  <2>1. PICK w \in Waits, p \in BOOLEAN :
            call' = [call EXCEPT ![r].pc = "store", ![r].id = nextID,
                                 ![r].wait = w, ![r].periodic = p]
    BY <1>1 DEF LoadID
  <2> DEFINE c == [call[r] EXCEPT !.pc = "store", !.id = nextID, !.wait = w,
                                  !.periodic = p]
  <2>2. call' = [call EXCEPT ![r] = c]
    BY <2>1 DEF CallTypes
  <2>3. c \in CallTypes /\ c.pc = "store" /\ c.wait \in Waits
        /\ c.created = call[r].created
    <3>1. call[r] \in CallTypes /\ nextID \in Nat /\ w \in Nat
      BY DEF IdInv
    <3> QED BY <3>1 DEF CallTypes
  <2> HIDE DEF c
  <2> QED BY <1>1, <2>2, <2>3 DEF LoadID
<1>2. ASSUME NEW r \in Requests, StoreID(r) PROVE CallInv'
  BY <1>2 DEF StoreID, CallTypes
<1>3. ASSUME NEW r \in Requests, SampleCreateTime(r) PROVE CallInv'
  <2> DEFINE c == [call[r] EXCEPT !.pc = "push", !.created = now]
  <2>1. call' = [call EXCEPT ![r] = c]
    BY <1>3 DEF SampleCreateTime, CallTypes
  <2>2. c \in CallTypes /\ c.pc = "push" /\ c.wait = call[r].wait
        /\ c.created = now
    <3>1. call[r] \in CallTypes /\ now \in Nat
      OBVIOUS
    <3> QED BY <3>1 DEF CallTypes
  <2>3. call[r].pc = "clock" /\ now <= now /\ call[r].wait \in Waits
    BY <1>3 DEF SampleCreateTime
  <2> HIDE DEF c
  <2>4. \A x \in Requests : call'[x] = IF x = r THEN c ELSE call[x]
    BY <2>1
  <2>5. UNCHANGED <<running, executor, runner, now, nowTime, removal, fired>>
    BY <1>3 DEF SampleCreateTime
  <2>6. call' \in [Requests -> CallTypes]
    BY <2>1, <2>2
  <2>7. \A x \in Requests : call'[x].created <= now'
    BY <2>2, <2>3, <2>4, <2>5
  <2>8. \A x \in Requests : removal'[x] # "none" => call'[x].pc = "returned"
    BY <2>3, <2>4, <2>5
  <2>9. \A x \in Requests : /\ call'[x].pc # "none" => call'[x].wait \in Waits
                            /\ call'[x].pc # "returned" => fired'[x] = 0
    BY <2>2, <2>3, <2>4, <2>5
  <2> QED BY <2>5, <2>6, <2>7, <2>8, <2>9
<1>4. ASSUME NEW r \in Requests, PushTimer(r) PROVE CallInv'
  BY <1>4 DEF PushTimer, CallTypes
<1>5. ASSUME NEW r \in Requests, CallRemove(r) PROVE CallInv'
  BY <1>5 DEF CallRemove, Returned, CallAt
<1>6. ASSUME NEW r \in Requests, NoteRemoved(r) PROVE CallInv'
  BY <1>6 DEF NoteRemoved
<1>7. CASE SetExecutor \/ CallRun \/ BeginPass \/ ReturnFromRun
  BY <1>7 DEF SetExecutor, CallRun, BeginPass, ReturnFromRun
<1>8. CASE DropRemoved \/ EndPass \/ EndCallback
  BY <1>8 DEF DropRemoved, EndPass, EndCallback
<1>9. CASE HandOver
  <2>1. PICK h \in timers :
            /\ fired' = [fired EXCEPT ![h.request] = @ + 1]
            /\ removal' = IF h.request \in Removing /\ removal[h.request] = "none"
                          THEN [removal EXCEPT ![h.request] = "called"]
                          ELSE removal
    BY <1>9 DEF HandOver, DueTops, Tops
  <2>2. h.request \in Requests /\ call[h.request].pc = "returned"
    BY DEF HeapInv, IsHandlerOf, Returned, CallAt
  <2> QED BY <1>9, <2>1, <2>2 DEF HandOver
<1>10. CASE BeginCallback
  <2>1. PICK h \in timers :
            /\ fired' = [fired EXCEPT ![h.request] = @ + 1]
            /\ removal' = IF h.request \in Removing
                          THEN [removal EXCEPT ![h.request] = "called"]
                          ELSE removal
    BY <1>10 DEF BeginCallback, DueTops, Tops
  <2>2. h.request \in Requests /\ call[h.request].pc = "returned"
    BY DEF HeapInv, IsHandlerOf, Returned, CallAt
  <2> QED BY <1>10, <2>1, <2>2 DEF BeginCallback
<1>11. CASE Stop \/ Tick
  <2>1. CASE Stop
    BY <2>1 DEF Stop
  <2>2. CASE Tick
    <3>1. \A r \in Requests : call[r].created \in Nat
      BY DEF CallTypes
    <3>2. now' \in 0 .. MaxTime /\ nowTime \in 0 .. now'
          /\ \A r \in Requests : call[r].created <= now'
      BY <2>2, <3>1 DEF Tick
    <3> QED BY <2>2, <3>2 DEF Tick
  <2> QED BY <1>11, <2>1, <2>2
<1>12. CASE UNCHANGED vars
  BY <1>12 DEF vars
<1> QED BY <1>1, <1>2, <1>3, <1>4, <1>5, <1>6, <1>7, <1>8, <1>9, <1>10, <1>11,
           <1>12 DEF Next, Run

\* StoreID adds one call to those that have stored, and the others none.
LEMMA IdStep ==
    ASSUME TimerInv, [Next]_vars
    PROVE  IdInv'
<1> USE DEF TimerInv, runVars
<1> USE TimerAssumption DEF TimerAssumption
<1>0. /\ call \in [Requests -> CallTypes] /\ IsFiniteSet(Requests)
      /\ IsFiniteSet(Stored)
      /\ Cardinality(Stored) \in Nat /\ Cardinality(Requests) \in Nat
      /\ Cardinality(Stored) <= Cardinality(Requests)
      /\ Stored \in SUBSET Requests
  BY StoredFinite DEF CallInv, Stored, CallAt
<1>a. \A r \in Requests : call[r].id \in Nat
  BY <1>0 DEF CallTypes
<1>1. ASSUME NEW r \in Requests, LoadID(r) PROVE IdInv'
  <2>1. /\ call[r].pc = "none" /\ call'[r].pc = "store" /\ call'[r].id = nextID
        /\ \A x \in Requests : x # r => call'[x] = call[x]
        /\ UNCHANGED <<nextID, removed>>
    BY <1>0, <1>1 DEF LoadID, CallTypes
  <2>2. Stored' = Stored /\ Returned' = Returned /\ r \notin Stored
        /\ r \notin Returned
    BY <2>1 DEF Stored, Returned, CallAt
  <2>3. Returned \subseteq Requests
    BY DEF Returned, CallAt
  <2>4. \A i \in removed : \E x \in Returned : call'[x].id = i
    BY <2>1, <2>2, <2>3 DEF IdInv
  <2>5. \A x \in Requests :
        /\ call'[x].pc = "store" =>
            call'[x].id > 0 /\ call'[x].id <= Cardinality(Stored) + 1
        /\ x \in Stored =>
            call'[x].id > 0 /\ call'[x].id <= Cardinality(Requests)
    BY <2>1, <2>2 DEF IdInv
  <2> QED BY <2>1, <2>2, <2>4, <2>5 DEF IdInv
<1>2. ASSUME NEW r \in Requests, StoreID(r) PROVE IdInv'
  <2>1. /\ call[r].pc = "store" /\ call'[r].pc = "clock"
        /\ \A x \in Requests : call'[x].id = call[x].id
        /\ \A x \in Requests : x # r => call'[x] = call[x]
        /\ nextID' = call[r].id + 1 /\ removed' = removed
    BY <1>0, <1>2 DEF StoreID, CallTypes
  <2>2. Stored' = Stored \cup {r} /\ Returned' = Returned /\ r \notin Stored
        /\ Stored' \in SUBSET Requests
    BY <2>1 DEF Stored, Returned, CallAt
  <2>3. /\ Cardinality(Stored') = Cardinality(Stored) + 1
        /\ Cardinality(Stored') <= Cardinality(Requests)
    BY <1>0, <2>2, FS_AddElement, FS_Subset
  <2>4. Returned \subseteq Requests
    BY DEF Returned, CallAt
  <2>5. \A i \in removed : \E x \in Returned : call'[x].id = i
    BY <2>1, <2>4 DEF IdInv
  <2>6. \A x \in Requests :
        /\ call'[x].pc = "store" =>
            call'[x].id > 0 /\ call'[x].id <= Cardinality(Stored') + 1
        /\ x \in Stored' =>
            call'[x].id > 0 /\ call'[x].id <= Cardinality(Requests)
    BY <1>0, <1>a, <2>1, <2>2, <2>3 DEF IdInv
  <2>7. nextID' \in Nat \ {0} /\ nextID' <= Cardinality(Stored') + 1
    BY <1>0, <1>a, <2>1, <2>3 DEF IdInv
  <2> QED BY <2>1, <2>2, <2>5, <2>6, <2>7 DEF IdInv
<1>3. ASSUME NEW r \in Requests, SampleCreateTime(r) \/ PushTimer(r) PROVE IdInv'
  <2>1. /\ call[r].pc \in {"clock", "push"} /\ call'[r].pc \in {"push", "returned"}
        /\ \A x \in Requests : call'[x].id = call[x].id
        /\ \A x \in Requests : x # r => call'[x] = call[x]
        /\ UNCHANGED <<nextID, removed>>
    BY <1>0, <1>3 DEF SampleCreateTime, PushTimer, CallTypes
  <2>2. Stored' = Stored /\ Returned \subseteq Returned'
    BY <2>1 DEF Stored, Returned, CallAt
  <2>3. Returned \subseteq Requests
    BY DEF Returned, CallAt
  <2>4. \A i \in removed : \E x \in Returned' : call'[x].id = i
    BY <2>1, <2>2, <2>3 DEF IdInv
  <2> QED BY <2>1, <2>2, <2>4 DEF IdInv, Stored, CallAt
<1>4. ASSUME NEW r \in Requests, NoteRemoved(r) PROVE IdInv'
  <2>1. /\ removed' = removed \cup {call[r].id} /\ UNCHANGED <<nextID, call>>
        /\ removal[r] = "called"
    BY <1>4 DEF NoteRemoved
  <2>2. Stored' = Stored /\ Returned' = Returned /\ r \in Returned
    BY <2>1 DEF Stored, Returned, CallAt, CallInv
  <2> QED BY <2>1, <2>2 DEF IdInv
<1>5. CASE UNCHANGED <<nextID, removed, call>>
  <2>1. Stored' = Stored /\ Returned' = Returned
    BY <1>5 DEF Stored, Returned, CallAt
  <2> QED BY <1>5, <2>1 DEF IdInv
<1>6. ASSUME NEW r \in Requests, CallRemove(r) PROVE UNCHANGED <<nextID, removed, call>>
  BY <1>6 DEF CallRemove
<1>7. CASE SetExecutor \/ CallRun \/ Run \/ Stop \/ Tick
  BY <1>5, <1>7 DEF SetExecutor, CallRun, Run, BeginPass, ReturnFromRun,
        DropRemoved, HandOver, BeginCallback, EndCallback, EndPass, Stop, Tick
<1>8. CASE UNCHANGED vars
  BY <1>5, <1>8 DEF vars
<1> QED BY <1>1, <1>2, <1>3, <1>4, <1>5, <1>6, <1>7, <1>8 DEF Next

-----------------------------------------------------------------------------
(* The heap                                                                 *)

\* The disjunction of NothingLost, for one request.
Kept(r) ==
    \/ \E h \in timers :
        /\ h.request = r
        /\ h.next = call[r].created + 1 + (fired[r] + 1) * call[r].wait
    \/ timer # NoHandler /\ timer.request = r
    \/ ~call[r].periodic /\ fired[r] = 1
    \/ call[r].id \in removed

\* A returned call changes no more.
LEMMA CallsStay ==
    ASSUME TimerInv, [Next]_vars, NEW r \in Returned
    PROVE  r \in Returned' /\ call'[r] = call[r]
<1>1. call \in [Requests -> CallTypes] /\ r \in Requests /\ call[r].pc = "returned"
  BY DEF TimerInv, CallInv, Returned, CallAt
<1>2. call'[r] = call[r]
  <2>1. ASSUME NEW q \in Requests,
               LoadID(q) \/ StoreID(q) \/ SampleCreateTime(q) \/ PushTimer(q)
        PROVE  call'[r] = call[r]
    <3>1. call[q].pc # "returned"
      BY <2>1 DEF LoadID, StoreID, SampleCreateTime, PushTimer
    <3>2. q # r
      BY <1>1, <3>1
    <3> QED BY <1>1, <2>1, <3>2
            DEF LoadID, StoreID, SampleCreateTime, PushTimer
  <2>2. CASE \/ \E q \in Requests : CallRemove(q) \/ NoteRemoved(q)
             \/ SetExecutor \/ CallRun \/ Run \/ Stop \/ Tick
    BY <2>2 DEF CallRemove, NoteRemoved, SetExecutor, CallRun, Run, BeginPass,
       ReturnFromRun, DropRemoved, HandOver, BeginCallback, EndCallback, EndPass, Stop,
       Tick
  <2>3. CASE UNCHANGED vars
    BY <2>3 DEF vars
  <2> QED BY <2>1, <2>2, <2>3 DEF Next
<1> QED BY <1>1, <1>2 DEF Returned, CallAt

\* A step that leaves the heap, the running callback and the firings alone.
LEMMA HeapUnmoved ==
    ASSUME TimerInv, [Next]_vars, UNCHANGED <<timers, timer, fired>>,
           Returned' = Returned, removed \subseteq removed',
           runner' = "callback" <=> runner = "callback"
    PROVE  HeapInv' /\ NothingLost'
<1>1. \A r \in Returned : call'[r] = call[r]
  BY CallsStay
<1>2. \A h, n : IsHandlerOf(h, n) => IsHandlerOf(h, n)'
  BY <1>1 DEF IsHandlerOf
<1>3. HeapInv'
  BY <1>2 DEF TimerInv, HeapInv
<1>4. NothingLost'
  BY <1>1 DEF TimerInv, NothingLost
<1> QED BY <1>3, <1>4

\* The timer a firing puts back is due one period later.
LEMMA UpdatedHandler ==
    ASSUME NEW h, NEW n \in Nat, IsHandlerOf(h, n), CallInv
    PROVE  /\ IsHandlerOf(Updated(h), n + 1)
           /\ Updated(h).request = h.request /\ Updated(h).periodic = h.periodic
           /\ Updated(h).next = h.next + h.wait
<1>1. h \in Handlers /\ Updated(h) = [h EXCEPT !.next = h.next + h.wait]
  BY DEF IsHandlerOf, Updated, Handlers
<1>2. /\ Updated(h).request = h.request /\ Updated(h).id = h.id
      /\ Updated(h).wait = h.wait /\ Updated(h).periodic = h.periodic
      /\ Updated(h).next = h.next + h.wait
      /\ Updated(h) \in Handlers
  BY <1>1 DEF Handlers
<1>3. /\ call[h.request].wait \in Nat /\ call[h.request].created \in Nat
      /\ h.request \in Requests
  BY <1>1 DEF CallInv, CallTypes, Handlers
<1>4. (n + 1) * call[h.request].wait
        = n * call[h.request].wait + call[h.request].wait
      /\ n * call[h.request].wait \in Nat
  BY <1>3, NextTimes
<1> DEFINE product == n * call[h.request].wait
           product1 == (n + 1) * call[h.request].wait
<1>5. h.next = call[h.request].created + 1 + product
  BY DEF IsHandlerOf
<1>6. product \in Nat /\ product1 = product + call[h.request].wait
  BY <1>4
<1> HIDE DEF product, product1
<1>7. h.next + h.wait = call[h.request].created + 1 + product1
  BY <1>3, <1>5, <1>6 DEF IsHandlerOf
<1>8. Updated(h).next = call[h.request].created + 1 + (n + 1) * call[h.request].wait
  BY <1>2, <1>7 DEF product1
<1> QED BY <1>2, <1>8 DEF IsHandlerOf

LEMMA PushHeap ==
    ASSUME TimerInv, NEW r \in Requests, PushTimer(r)
    PROVE  HeapInv' /\ NothingLost'
<1>0. call \in [Requests -> CallTypes] /\ call[r].pc = "push" /\ fired[r] = 0
  BY DEF PushTimer, TimerInv, CallInv
<1>1. /\ call'[r] = [call[r] EXCEPT !.pc = "returned"]
      /\ \A x \in Requests : x # r => call'[x] = call[x]
      /\ Returned' = Returned \cup {r} /\ r \notin Returned
      /\ Returned \subseteq Requests
  BY <1>0 DEF PushTimer, Returned, CallAt, CallTypes
<1>2. UNCHANGED <<fired, runner, timer, removed>> /\ runner # "callback"
  BY DEF PushTimer, LockFree, runVars
<1>3. \A h, n : IsHandlerOf(h, n) => IsHandlerOf(h, n)'
  BY <1>1, <1>2 DEF IsHandlerOf
<1>a. PICK new : new = Handler(r)
  OBVIOUS
<1>4. timers' = timers \cup {new}
  BY <1>a DEF PushTimer
<1>5. new.request = r /\ IsHandlerOf(new, 1)' /\ fired'[new.request] = 0
  <2>1. call[r] \in CallTypes /\ call'[r].id = call[r].id
        /\ call'[r].wait = call[r].wait /\ call'[r].periodic = call[r].periodic
        /\ call'[r].created = call[r].created
    BY <1>0, <1>1 DEF CallTypes
  <2>2. new \in Handlers /\ new.next = call[r].created + 1 + 1 * call[r].wait
    BY <1>a, <2>1 DEF Handlers, Handler, CallTypes
  <2>3. new.request = r /\ new.id = call[r].id /\ new.wait = call[r].wait
        /\ new.periodic = call[r].periodic
    BY <1>a DEF Handler
  <2> QED BY <1>0, <1>1, <1>2, <2>1, <2>2, <2>3 DEF IsHandlerOf
<1>6. \A h \in timers : h.request # r
  BY <1>1 DEF TimerInv, HeapInv, IsHandlerOf
<1>7. \A h \in timers' : /\ IsHandlerOf(h, fired[h.request] + 1)'
                         /\ ~h.periodic => fired'[h.request] = 0
  BY <1>0, <1>2, <1>3, <1>4, <1>5 DEF TimerInv, HeapInv
<1>8. HeapInv'
  BY <1>2, <1>4, <1>5, <1>6, <1>7 DEF TimerInv, HeapInv
<1>9. ASSUME NEW x \in Returned' PROVE Kept(x)'
  <2>1. CASE x = r
    <3>1. new.next = call'[r].created + 1 + (fired'[r] + 1) * call'[r].wait
      BY <1>0, <1>2, <1>5 DEF IsHandlerOf
    <3> QED BY <2>1, <3>1, <1>4, <1>5 DEF Kept
  <2>2. CASE x # r
    BY <2>2, <1>1, <1>2, <1>4 DEF Kept, TimerInv, NothingLost
  <2> QED BY <2>1, <2>2
<1> QED BY <1>8, <1>9 DEF NothingLost, Kept

\* Firing h takes it out of the heap, to the pool or to this thread.
LEMMA FireHeap ==
    ASSUME TimerInv, HandOver \/ BeginCallback
    PROVE  HeapInv' /\ NothingLost'
<1>0. /\ runner = "pass" /\ timer = NoHandler
      /\ UNCHANGED <<call, removed>> /\ Returned' = Returned
      /\ Returned \subseteq Requests /\ fired \in [Requests -> Nat] /\ CallInv
  BY DEF HandOver, BeginCallback, TimerInv, HeapInv, CallInv, Returned, CallAt,
         runVars
<1>1. PICK h \in timers :
        /\ fired' = [fired EXCEPT ![h.request] = @ + 1]
        /\ \/ /\ runner' = "pass" /\ timer' = NoHandler
              /\ timers' = Rescheduled(h)
           \/ /\ runner' = "callback" /\ timer' = h
              /\ timers' = timers \ {h}
  BY <1>0 DEF HandOver, BeginCallback, DueTops, Tops, runVars
<1>2. PICK r : r = h.request
  OBVIOUS
<1>3. /\ IsHandlerOf(h, fired[r] + 1) /\ (~h.periodic => fired[r] = 0)
      /\ r \in Returned /\ h.periodic = call[r].periodic /\ h.periodic \in BOOLEAN
      /\ h \in Handlers /\ fired[r] \in Nat
      /\ \A g \in timers : g.request = r => g = h
  BY <1>0, <1>2 DEF TimerInv, HeapInv, IsHandlerOf, Handlers
<1>4. fired'[r] = fired[r] + 1 /\ \A x \in Requests : x # r => fired'[x] = fired[x]
  BY <1>0, <1>1, <1>2, <1>3
<1>5. \A g, n : IsHandlerOf(g, n) => IsHandlerOf(g, n)'
  BY <1>0 DEF IsHandlerOf
<1>6. ASSUME NEW g \in timers, g # h
      PROVE  /\ g.request # r /\ g.request \in Requests
             /\ IsHandlerOf(g, fired[g.request] + 1)'
             /\ ~g.periodic => fired'[g.request] = 0
  <2>1. g.request # r /\ g.request \in Requests
    BY <1>0, <1>3, <1>6 DEF TimerInv, HeapInv, IsHandlerOf
  <2>2. fired'[g.request] = fired[g.request]
    BY <1>4, <2>1
  <2>3. IsHandlerOf(g, fired[g.request] + 1) /\ (~g.periodic => fired[g.request] = 0)
    BY DEF TimerInv, HeapInv
  <2>4. IsHandlerOf(g, fired[g.request] + 1)'
    BY <1>0, <2>2, <2>3 DEF IsHandlerOf
  <2> QED BY <2>1, <2>2, <2>3, <2>4
<1>7. ASSUME NEW x \in Returned, x # r, Kept(x) PROVE Kept(x)'
  <2>1. x \in Requests /\ fired'[x] = fired[x] /\ call'[x] = call[x]
    BY <1>0, <1>4, <1>7
  <2>2. CASE \E g \in timers :
                /\ g.request = x
                /\ g.next = call[x].created + 1 + (fired[x] + 1) * call[x].wait
    <3>1. PICK g \in timers :
                /\ g.request = x
                /\ g.next = call[x].created + 1 + (fired[x] + 1) * call[x].wait
      BY <2>2
    <3>2. g # h
      BY <1>2, <1>7, <3>1
    <3>3. g \in timers'
      BY <1>1, <3>2 DEF Rescheduled
    <3> QED BY <2>1, <3>1, <3>3 DEF Kept
  <2>3. CASE (~call[x].periodic /\ fired[x] = 1) \/ call[x].id \in removed
    BY <1>0, <2>1, <2>3 DEF Kept
  <2> QED BY <1>0, <1>7, <2>2, <2>3 DEF Kept
<1>8. CASE runner' = "pass" /\ timer' = NoHandler /\ timers' = Rescheduled(h)
  <2>1. PICK u : u = Updated(h)
    OBVIOUS
  <2>2. /\ timers' = (timers \ {h}) \cup (IF h.periodic THEN {u} ELSE {})
    BY <1>8, <2>1 DEF Rescheduled
  <2>3. /\ IsHandlerOf(u, (fired[r] + 1) + 1) /\ u.request = r
        /\ u.periodic = h.periodic
    BY <1>0, <1>2, <1>3, <2>1, UpdatedHandler
  <2>4. IsHandlerOf(u, fired[r] + 1)'
    BY <1>0, <1>4, <2>3 DEF IsHandlerOf
  <2>5. ASSUME NEW g \in timers'
        PROVE  /\ IsHandlerOf(g, fired[g.request] + 1)'
               /\ ~g.periodic => fired'[g.request] = 0
               /\ g.request = r => g = u
    <3>1. CASE g \in timers /\ g # h
      BY <3>1, <1>6
    <3>2. CASE h.periodic /\ g = u
      <4>1. IsHandlerOf(g, fired[g.request] + 1)' <=> IsHandlerOf(u, fired[r] + 1)'
        BY <3>2, <2>3
      <4> QED BY <4>1, <3>2, <2>3, <2>4
    <3> QED BY <2>2, <3>1, <3>2
  <2>6. \A f, g \in timers' : f.request = g.request => f = g
    BY <2>2, <2>3, <2>5 DEF TimerInv, HeapInv
  <2>7. HeapInv'
    BY <1>8, <2>5, <2>6 DEF HeapInv
  <2>8. Kept(r)'
    <3>1. CASE h.periodic
      <4>1. u \in timers' /\ u.request = r
        BY <2>2, <2>3, <3>1
      <4>2. u.next = call'[r].created + 1 + (fired'[r] + 1) * call'[r].wait
        BY <2>3, <2>4 DEF IsHandlerOf
      <4> QED BY <4>1, <4>2 DEF Kept
    <3>2. CASE ~h.periodic
      BY <3>2, <1>0, <1>3, <1>4 DEF Kept
    <3> QED BY <3>1, <3>2
  <2> QED BY <1>0, <1>7, <2>7, <2>8 DEF TimerInv, NothingLost, Kept
<1>9. CASE runner' = "callback" /\ timer' = h /\ timers' = timers \ {h}
  <2>1. IsHandlerOf(h, fired[r])'
    BY <1>0, <1>3, <1>4 DEF IsHandlerOf
  <2>2. IsHandlerOf(timer, fired[timer.request])'
    BY <1>2, <1>9, <2>1
  <2>3. /\ fired'[r] > 0 /\ (~h.periodic => fired'[r] = 1)
        /\ \A g \in timers' : g.request # r
    BY <1>3, <1>4, <1>6, <1>9
  <2>4. \A g \in timers' : /\ IsHandlerOf(g, fired[g.request] + 1)'
                           /\ ~g.periodic => fired'[g.request] = 0
    BY <1>6, <1>9
  <2>5. \A f, g \in timers' : f.request = g.request => f = g
    BY <1>9 DEF TimerInv, HeapInv
  <2>6. HeapInv'
    BY <1>2, <1>9, <2>2, <2>3, <2>4, <2>5 DEF HeapInv
  <2>7. Kept(r)'
    <3>1. h # NoHandler
      BY <1>3, TimerAssumption DEF TimerAssumption, Handlers
    <3> QED BY <1>2, <1>9, <3>1 DEF Kept
  <2> QED BY <1>0, <1>7, <2>6, <2>7 DEF TimerInv, NothingLost, Kept
<1> QED BY <1>1, <1>8, <1>9

LEMMA EndCallbackHeap ==
    ASSUME TimerInv, EndCallback
    PROVE  HeapInv' /\ NothingLost'
<1>0. /\ runner = "callback" /\ runner' = "pass" /\ timer' = NoHandler
      /\ UNCHANGED <<call, removed, fired>> /\ Returned' = Returned
      /\ Returned \subseteq Requests /\ fired \in [Requests -> Nat] /\ CallInv
  BY DEF EndCallback, TimerInv, CallInv, Returned, CallAt
<1>1. PICK h, u, r : h = timer /\ u = Updated(h) /\ r = h.request
  OBVIOUS
<1>2. timers' = timers \cup (IF h.periodic THEN {u} ELSE {})
  BY <1>1 DEF EndCallback
<1>3. /\ IsHandlerOf(h, fired[r]) /\ fired[r] \in Nat /\ r \in Returned
      /\ (~h.periodic => fired[r] = 1) /\ h.periodic = call[r].periodic
      /\ \A g \in timers : g.request # r
  BY <1>0, <1>1 DEF TimerInv, HeapInv, IsHandlerOf
<1>4. IsHandlerOf(u, fired[r] + 1) /\ u.request = r /\ u.periodic = h.periodic
  BY <1>0, <1>1, <1>3, UpdatedHandler
<1>5. \A g, n : IsHandlerOf(g, n) => IsHandlerOf(g, n)'
  BY <1>0 DEF IsHandlerOf
<1>6. ASSUME NEW g \in timers'
      PROVE  /\ IsHandlerOf(g, fired[g.request] + 1)'
             /\ ~g.periodic => fired'[g.request] = 0
             /\ g.request = r => g = u
  <2>1. CASE g \in timers
    <3>1. IsHandlerOf(g, fired[g.request] + 1) /\ (~g.periodic => fired[g.request] = 0)
      BY <2>1 DEF TimerInv, HeapInv
    <3> QED BY <1>0, <1>3, <2>1, <3>1 DEF IsHandlerOf
  <2>2. CASE h.periodic /\ g = u
    BY <1>0, <1>4, <2>2 DEF IsHandlerOf
  <2> QED BY <1>2, <2>1, <2>2
<1>7. \A f, g \in timers' : f.request = g.request => f = g
  BY <1>2, <1>4, <1>6 DEF TimerInv, HeapInv
<1>8. HeapInv'
  BY <1>0, <1>6, <1>7 DEF HeapInv
<1>9. ASSUME NEW x \in Returned PROVE Kept(x)'
  <2>1. CASE x = r /\ h.periodic
    <3>1. u.next = call[r].created + 1 + (fired[r] + 1) * call[r].wait
      BY <1>4 DEF IsHandlerOf
    <3> QED BY <1>0, <1>2, <1>4, <2>1, <3>1 DEF Kept
  <2>2. CASE x = r /\ ~h.periodic
    BY <1>0, <1>3, <2>2 DEF Kept
  <2>3. CASE x # r
    BY <1>0, <1>1, <1>2, <2>3 DEF Kept, TimerInv, NothingLost
  <2> QED BY <2>1, <2>2, <2>3
<1> QED BY <1>0, <1>8, <1>9 DEF NothingLost, Kept

LEMMA DropHeap ==
    ASSUME TimerInv, DropRemoved
    PROVE  HeapInv' /\ NothingLost'
<1>0. /\ UNCHANGED <<call, removed, fired, timer, runner>> /\ runner # "callback"
      /\ Returned' = Returned
  BY DEF DropRemoved, Returned, CallAt, runVars
<1>1. PICK h \in timers : h.id \in removed /\ timers' = timers \ {h}
  BY DEF DropRemoved, IsRemoved, DueTops, Tops
<1>2. \A g, n : IsHandlerOf(g, n) => IsHandlerOf(g, n)'
  BY <1>0 DEF IsHandlerOf
<1>3. HeapInv'
  BY <1>0, <1>1, <1>2 DEF TimerInv, HeapInv
<1>4. ASSUME NEW x \in Returned PROVE Kept(x)'
  <2>1. CASE x = h.request
    BY <1>0, <1>1, <2>1 DEF TimerInv, HeapInv, IsHandlerOf, Kept
  <2>2. CASE x # h.request
    BY <1>0, <1>1, <2>2 DEF Kept, TimerInv, NothingLost
  <2> QED BY <2>1, <2>2
<1> QED BY <1>0, <1>3, <1>4 DEF NothingLost, Kept

LEMMA HeapStep ==
    ASSUME TimerInv, [Next]_vars
    PROVE  HeapInv' /\ NothingLost'
<1>1. CASE \E r \in Requests : PushTimer(r)
  BY <1>1, PushHeap
<1>2. CASE HandOver \/ BeginCallback
  BY <1>2, FireHeap
<1>3. CASE EndCallback
  BY <1>3, EndCallbackHeap
<1>4. CASE DropRemoved
  BY <1>4, DropHeap
<1>5. ASSUME NEW r \in Requests,
             LoadID(r) \/ StoreID(r) \/ SampleCreateTime(r)
      PROVE  HeapInv' /\ NothingLost'
  <2>1. UNCHANGED <<timers, timer, fired, removed, runner>>
    BY <1>5 DEF LoadID, StoreID, SampleCreateTime, runVars
  <2>2. Returned' = Returned
    <3>1. call \in [Requests -> CallTypes]
      BY DEF TimerInv, CallInv
    <3>2. /\ call[r].pc # "returned" /\ call'[r].pc # "returned"
          /\ \A x \in Requests : x # r => call'[x] = call[x]
      <4>1. CASE LoadID(r)
        BY <3>1, <4>1 DEF LoadID, CallTypes
      <4>2. CASE StoreID(r)
        BY <3>1, <4>2 DEF StoreID, CallTypes
      <4>3. CASE SampleCreateTime(r)
        BY <3>1, <4>3 DEF SampleCreateTime, CallTypes
      <4> QED BY <1>5, <4>1, <4>2, <4>3
    <3> QED BY <3>2 DEF Returned, CallAt
  <2> QED BY <2>1, <2>2, HeapUnmoved
<1>6. ASSUME NEW r \in Requests, CallRemove(r) \/ NoteRemoved(r)
      PROVE  HeapInv' /\ NothingLost'
  <2>1. UNCHANGED <<timers, timer, fired, runner, call>> /\ removed \subseteq removed'
    BY <1>6 DEF CallRemove, NoteRemoved, runVars
  <2> QED BY <2>1, HeapUnmoved DEF Returned, CallAt
<1>7. CASE SetExecutor \/ CallRun \/ BeginPass \/ ReturnFromRun \/ EndPass
            \/ Stop \/ Tick
  <2>1. /\ UNCHANGED <<timers, timer, fired, removed, call>>
        /\ runner' = "callback" <=> runner = "callback"
    BY <1>7 DEF SetExecutor, CallRun, BeginPass, ReturnFromRun, EndPass, Stop,
                Tick, runVars
  <2> QED BY <2>1, HeapUnmoved DEF Returned, CallAt
<1>8. CASE UNCHANGED vars
  BY <1>8, HeapUnmoved DEF vars, runVars, Returned, CallAt
<1> QED BY <1>1, <1>2, <1>3, <1>4, <1>5, <1>6, <1>7, <1>8 DEF Next, Run

LEMMA InvCorrect == Spec => []TimerInv
<1>1. TimerInv /\ [Next]_vars => TimerInv'
  BY CallStep, IdStep, HeapStep DEF TimerInv
<1> QED BY InitInv, <1>1, PTL DEF Spec

-----------------------------------------------------------------------------
(* The theorems                                                             *)

\* There are no more handlers than requests.
LEMMA HandlersFinite ==
    ASSUME TimerInv
    PROVE  IsFiniteSet(timers) /\ Cardinality(timers) <= Cardinality(Requests)
<1> DEFINE f == [h \in timers |-> h.request]
<1>1. f \in Injection(timers, Requests)
  <2>1. f \in [timers -> Requests]
    BY DEF TimerInv, HeapInv, IsHandlerOf, Handlers
  <2>2. \A g, h \in timers : f[g] = f[h] => g = h
    BY DEF TimerInv, HeapInv
  <2> QED BY <2>1, <2>2 DEF Injection, IsInjective
<1> QED BY <1>1, FS_Injection, TimerAssumption DEF TimerAssumption

\* The timer's state keeps its type, whatever the number of callers: ids are
\* never more than requests, and a handler has a call that has returned.
THEOREM TimerTypeCorrect == Spec => []TypeOK
<1>1. ASSUME TimerInv PROVE TypeOK
  <2>1. CallInv /\ IdInv /\ HeapInv
    BY <1>1 DEF TimerInv
  <2>2. /\ Cardinality(Stored) \in Nat /\ Cardinality(Requests) \in Nat
        /\ Cardinality(Stored) <= Cardinality(Requests)
    BY <2>1, StoredFinite
  <2>3. nextID \in 1 .. Cardinality(Requests) + 1
    BY <2>1, <2>2 DEF IdInv
  <2>4. removed \subseteq 1 .. Cardinality(Requests)
    <3> SUFFICES ASSUME NEW i \in removed PROVE i \in 1 .. Cardinality(Requests)
      OBVIOUS
    <3>1. PICK r \in Requests : r \in Returned /\ call[r].id = i
      BY <2>1 DEF IdInv, Returned, CallAt
    <3>2. r \in Stored /\ call[r].id \in Nat
      BY <2>1, <3>1 DEF Stored, Returned, CallAt, CallInv, CallTypes
    <3> QED BY <2>1, <2>2, <3>1, <3>2 DEF IdInv
  <2>5. \A r \in Requests :
        /\ call[r].pc \in {"none", "store", "clock", "push", "returned"}
        /\ call[r].created \in 0 .. now
        /\ removal[r] \in {"none", "called", "returned"}
    BY <2>1, TimerAssumption DEF TimerAssumption, CallInv, CallTypes
  <2>6. \A h \in timers : h.request \in Returned
    BY <2>1 DEF HeapInv, IsHandlerOf
  <2>7. timer # NoHandler <=> runner = "callback"
    BY <2>1, TimerAssumption DEF TimerAssumption, HeapInv, IsHandlerOf, Handlers
  <2> QED BY <1>1, <2>1, <2>3, <2>4, <2>5, <2>6, <2>7, HandlersFinite
          DEF TypeOK, CallInv
<1> QED BY InvCorrect, <1>1, PTL

\* run() loses no timer and lets none drift, with any number of callers and
\* under either executor.
THEOREM NoTimerLost == Spec => []NothingLost
<1>1. TimerInv => NothingLost
  BY DEF TimerInv
<1> QED BY InvCorrect, <1>1, PTL

\* Times are natural numbers: any of them have a first.
Less == {ss \in Nat \X Nat : ss[1] < ss[2]}

LEMMA LessWellFounded == IsWellFoundedOn(Less, Nat)
BY NatLessThanWellFounded DEF OpToRel, Less

\* Handlers that are due have an earliest one among them, which a pass sees.
LEMMA SomeTop ==
    ASSUME TimerInv, NEW h \in timers
    PROVE  \E top \in Tops : top.next <= h.next
<1> DEFINE T == {g.next : g \in timers}
<1>1. T \subseteq Nat /\ T # {}
  BY DEF TimerInv, HeapInv, IsHandlerOf, Handlers
<1> HIDE DEF T
<1>2. \E x \in T : \A y \in T : <<y, x>> \notin Less
  BY <1>1, LessWellFounded, WFMin
<1>3. PICK x \in T : \A y \in T : ~(y < x)
  BY <1>1, <1>2 DEF Less
<1>4. PICK top \in timers : top.next = x
  BY DEF T
<1>5. \A g \in timers : g.next \in T
  BY DEF T
<1>6. ASSUME NEW g \in timers PROVE x <= g.next
  <2>1. x \in Nat /\ g.next \in Nat /\ ~(g.next < x)
    BY <1>1, <1>3, <1>5
  <2> QED BY <2>1
<1> QED BY <1>4, <1>6 DEF Tops

\* A pass of run() ends only when nothing is left that was due when it began.
THEOREM PassesCatchUp == Spec => PassCatchesUp
<1> DEFINE CatchUp == runner = "pass" /\ runner' = "loop" => \A h \in timers : h.next > nowTime
<1>1. ASSUME TimerInv, [Next]_vars PROVE [CatchUp]_vars
  <2> SUFFICES ASSUME runner = "pass", runner' = "loop", NEW h \in timers
               PROVE  h.next > nowTime
    OBVIOUS
  <2>1. EndPass
    BY <1>1 DEF Next, Run, LoadID, StoreID, SampleCreateTime, PushTimer,
        CallRemove, NoteRemoved, SetExecutor, CallRun, BeginPass, ReturnFromRun,
        DropRemoved, HandOver, BeginCallback, EndCallback, Stop, Tick, vars,
        runVars
  <2>2. PICK top \in Tops : top.next <= h.next
    BY <1>1, SomeTop
  <2>3. ~(nowTime >= top.next)
    BY <2>1, <2>2 DEF EndPass, DueTops
  <2>4. top.next \in Nat /\ h.next \in Nat /\ nowTime \in Nat
    BY <1>1 DEF Tops, TimerInv, HeapInv, IsHandlerOf, Handlers, CallInv
  <2> QED BY <2>2, <2>3, <2>4
<1> QED BY InvCorrect, <1>1, PTL DEF Spec, PassCatchesUp

-----------------------------------------------------------------------------
(* Timer implements Alarm_Service                                           *)

Creating == CallAt({"store", "clock", "push"})

\* With one caller at a time the load and the store of _nextID are not parted.
UniqueInv ==
    /\ \A r, s \in Creating : r = s
    /\ \A r \in Requests : call[r].pc = "store" => call[r].id = nextID
    /\ \A r \in Stored : call[r].id < nextID
    /\ \A r, s \in Stored : call[r].id = call[s].id => r = s

LEMMA UniqueStep ==
    ASSUME TimerInv, UniqueInv, [Next]_vars, MaxCallers = 1
    PROVE  UniqueInv'
<1>0. /\ call \in [Requests -> CallTypes] /\ IsFiniteSet(Requests) /\ nextID \in Nat
      /\ Stored \subseteq Requests /\ Creating \subseteq Requests
      /\ \A x \in Requests : call[x].id \in Nat
  BY TimerAssumption DEF TimerAssumption, TimerInv, CallInv, IdInv, Stored,
     Creating, CallAt, CallTypes
<1>1. ASSUME NEW r \in Requests, LoadID(r) PROVE UniqueInv'
  <2>1. Creating = {}
    <3>1. IsFiniteSet(Creating)
      BY <1>0, FS_Subset
    <3>2. Cardinality(Creating) < 1 /\ Cardinality(Creating) \in Nat
      BY <1>1, <3>1, FS_CardinalityType DEF LoadID, Creating
    <3>3. Cardinality(Creating) = 0
      BY <3>2
    <3> QED BY <3>1, <3>3, FS_EmptySet
  <2>2. /\ call[r].pc = "none" /\ call'[r].pc = "store" /\ call'[r].id = nextID
        /\ \A x \in Requests : x # r => call'[x] = call[x]
        /\ nextID' = nextID
    BY <1>0, <1>1 DEF LoadID, CallTypes
  <2>3. Creating' = {r} /\ Stored' = Stored /\ r \notin Stored
    BY <2>1, <2>2 DEF Creating, Stored, CallAt
  <2> QED BY <1>0, <2>2, <2>3 DEF UniqueInv
<1>2. ASSUME NEW r \in Requests, StoreID(r) PROVE UniqueInv'
  <2>1. /\ call[r].pc = "store" /\ call'[r].pc = "clock"
        /\ \A x \in Requests : call'[x].id = call[x].id
        /\ \A x \in Requests : x # r => call'[x] = call[x]
        /\ nextID' = call[r].id + 1
    BY <1>0, <1>2 DEF StoreID, CallTypes
  <2>2. /\ Creating' = Creating /\ r \in Creating /\ Stored' = Stored \cup {r}
        /\ r \notin Stored /\ call[r].id = nextID
    BY <2>1 DEF Creating, Stored, CallAt, UniqueInv
  <2>3. \A x \in Stored' : call'[x].id < nextID'
    BY <1>0, <2>1, <2>2 DEF UniqueInv
  <2>4. \A x, y \in Stored' : call'[x].id = call'[y].id => x = y
    BY <1>0, <2>1, <2>2 DEF UniqueInv
  <2>5. \A x \in Requests : call'[x].pc # "store"
    BY <2>1, <2>2 DEF UniqueInv, Creating, CallAt
  <2> QED BY <2>2, <2>3, <2>4, <2>5 DEF UniqueInv
<1>3. ASSUME NEW r \in Requests, SampleCreateTime(r) \/ PushTimer(r) PROVE UniqueInv'
  <2>1. /\ call[r].pc \in {"clock", "push"} /\ call'[r].pc \in {"push", "returned"}
        /\ \A x \in Requests : call'[x].id = call[x].id
        /\ \A x \in Requests : x # r => call'[x] = call[x]
        /\ nextID' = nextID
    BY <1>0, <1>3 DEF SampleCreateTime, PushTimer, CallTypes
  <2>2. Stored' = Stored /\ Creating' \subseteq Creating
    BY <2>1 DEF Creating, Stored, CallAt
  <2> QED BY <1>0, <2>1, <2>2 DEF UniqueInv
<1>4. CASE UNCHANGED <<call, nextID>>
  BY <1>4 DEF UniqueInv, Creating, Stored, CallAt
<1>5. ASSUME NEW r \in Requests, CallRemove(r) \/ NoteRemoved(r)
      PROVE  UNCHANGED <<call, nextID>>
  BY <1>5 DEF CallRemove, NoteRemoved
<1>6. CASE SetExecutor \/ CallRun \/ Run \/ Stop \/ Tick
  BY <1>4, <1>6 DEF SetExecutor, CallRun, Run, BeginPass, ReturnFromRun,
        DropRemoved, HandOver, BeginCallback, EndCallback, EndPass, Stop, Tick
<1>7. CASE UNCHANGED vars
  BY <1>4, <1>7 DEF vars
<1> QED BY <1>1, <1>2, <1>3, <1>4, <1>5, <1>6, <1>7 DEF Next

\* The refinement mapping of ImplementsAlarms.
AlarmOf(r) ==
    IF r \in Returned
    THEN [from |-> call[r].created, wait |-> call[r].wait,
          periodic |-> call[r].periodic]
    ELSE NoAlarm
alarms == [r \in Requests |-> AlarmOf(r)]
cancelledOnes == {r \in Returned : call[r].id \in removed}

LEMMA AlarmsStay ==
    ASSUME TimerInv, Returned' = Returned,
           \A r \in Returned : call'[r] = call[r]
    PROVE  /\ alarms' = alarms
           /\ removed' = removed => cancelledOnes' = cancelledOnes
<1>1. \A r \in Requests : AlarmOf(r)' = AlarmOf(r)
  BY DEF AlarmOf
<1> QED BY <1>1 DEF alarms, cancelledOnes

LEMMA AlarmStep ==
    ASSUME TimerInv, UniqueInv, [Next]_vars
    PROVE  [Alarms!Next]_(Alarms!vars)
<1> DEFINE Stutters == UNCHANGED <<now, alarms, cancelledOnes, fired>>
<1>a. Stutters => UNCHANGED Alarms!vars
  BY DEF Alarms!vars, alarms, AlarmOf, cancelledOnes
<1>0. /\ call \in [Requests -> CallTypes] /\ fired \in [Requests -> Nat]
      /\ Returned \subseteq Requests /\ Returned \subseteq Stored
      /\ \A x \in Returned : call'[x] = call[x]
  BY CallsStay DEF TimerInv, CallInv, Returned, Stored, CallAt
<1>b. \A r \in Requests : alarms[r] = NoAlarm <=> r \notin Returned
  <2>1. ASSUME NEW r \in Returned PROVE AlarmOf(r) # NoAlarm
    <3>1. AlarmOf(r) \in [from : Nat, wait : Nat, periodic : BOOLEAN]
      BY <1>0 DEF AlarmOf, CallTypes
    <3> QED BY <3>1, TimerAssumption DEF TimerAssumption
  <2> QED BY <1>0, <2>1 DEF alarms, AlarmOf
<1>1. ASSUME NEW r \in Requests, LoadID(r) \/ StoreID(r) \/ SampleCreateTime(r)
      PROVE  Stutters
  <2>1. UNCHANGED <<now, fired, removed>>
    BY <1>1 DEF LoadID, StoreID, SampleCreateTime
  <2>2. /\ call[r].pc # "returned" /\ call'[r].pc # "returned"
        /\ \A x \in Requests : x # r => call'[x] = call[x]
    <3>1. CASE LoadID(r)
      BY <1>0, <3>1 DEF LoadID, CallTypes
    <3>2. CASE StoreID(r)
      BY <1>0, <3>2 DEF StoreID, CallTypes
    <3>3. CASE SampleCreateTime(r)
      BY <1>0, <3>3 DEF SampleCreateTime, CallTypes
    <3> QED BY <1>1, <3>1, <3>2, <3>3
  <2>3. Returned' = Returned
    BY <2>2 DEF Returned, CallAt
  <2> QED BY <1>0, <2>1, <2>3, AlarmsStay
<1>2. ASSUME NEW r \in Requests, PushTimer(r) PROVE Alarms!Set(r)
  <2>1. /\ call[r].pc = "push" /\ call'[r] = [call[r] EXCEPT !.pc = "returned"]
        /\ \A x \in Requests : x # r => call'[x] = call[x]
        /\ UNCHANGED <<now, fired, removed>>
    BY <1>0, <1>2 DEF PushTimer, CallTypes
  <2>2. Returned' = Returned \cup {r} /\ r \notin Returned /\ r \in Stored
    <3>1. call'[r].pc = "returned"
      BY <1>0, <2>1 DEF CallTypes
    <3> QED BY <2>1, <3>1 DEF Returned, Stored, CallAt
  <2>3. /\ call'[r].created = call[r].created /\ call'[r].wait = call[r].wait
        /\ call'[r].periodic = call[r].periodic /\ call'[r].id = call[r].id
    BY <1>0, <2>1 DEF CallTypes
  <2>4. call[r].id \notin removed
    BY <1>0, <2>2 DEF TimerInv, IdInv, UniqueInv
  <2>5. UNCHANGED cancelledOnes
    BY <1>0, <2>1, <2>2, <2>3, <2>4 DEF cancelledOnes
  <2>6. call[r].created \in 0 .. now /\ call[r].wait \in Waits
        /\ call[r].periodic \in BOOLEAN
    BY <2>1, TimerAssumption DEF TimerAssumption, TimerInv, CallInv, CallTypes
  <2>7. \A x \in Requests : AlarmOf(x)' =
            IF x = r THEN [from |-> call[r].created, wait |-> call[r].wait,
                           periodic |-> call[r].periodic]
            ELSE AlarmOf(x)
    BY <1>0, <2>1, <2>2, <2>3 DEF AlarmOf
  <2>8. alarms' = [alarms EXCEPT ![r] =
            [from |-> call[r].created, wait |-> call[r].wait,
             periodic |-> call[r].periodic]]
    BY <2>7 DEF alarms
  <2>9. alarms[r] = NoAlarm
    BY <1>b, <2>2
  <2> QED BY <2>1, <2>5, <2>6, <2>8, <2>9 DEF Alarms!Set, alarms, AlarmOf, cancelledOnes
<1>3. ASSUME NEW r \in Requests, CallRemove(r) PROVE Stutters
  BY <1>0, <1>3, AlarmsStay DEF CallRemove, Returned, CallAt
<1>4. ASSUME NEW r \in Requests, NoteRemoved(r) PROVE Alarms!Cancel(r)
  <2>1. /\ removal[r] = "called" /\ removed' = removed \cup {call[r].id}
        /\ UNCHANGED <<call, now, fired>>
    BY <1>4 DEF NoteRemoved
  <2>2. r \in Returned /\ Returned' = Returned
    BY <2>1 DEF TimerInv, CallInv, Returned, CallAt
  <2>3. \A x \in Returned : call[x].id = call[r].id => x = r
    BY <1>0, <2>2 DEF UniqueInv
  <2>4. cancelledOnes' = cancelledOnes \cup {r}
    BY <2>1, <2>2, <2>3 DEF cancelledOnes
  <2>5. alarms' = alarms /\ alarms[r] # NoAlarm
    BY <1>0, <1>b, <2>2, AlarmsStay
  <2> QED BY <2>1, <2>4, <2>5 DEF Alarms!Cancel, alarms, AlarmOf, cancelledOnes
<1>5. CASE HandOver \/ BeginCallback
  <2>1. PICK h \in timers :
            /\ nowTime >= h.next /\ h.id \notin removed
            /\ fired' = [fired EXCEPT ![h.request] = @ + 1]
    BY <1>5 DEF HandOver, BeginCallback, DueTops, Tops, IsRemoved
  <2>2. PICK r : r = h.request
    OBVIOUS
  <2>3. UNCHANGED <<call, now, removed>> /\ Returned' = Returned
    BY <1>5 DEF HandOver, BeginCallback, Returned, CallAt
  <2>4. /\ IsHandlerOf(h, fired[r] + 1) /\ (~h.periodic => fired[r] = 0)
        /\ r \in Returned /\ r \in Requests /\ h.id = call[r].id
        /\ h.periodic = call[r].periodic
        /\ h.next = call[r].created + 1 + (fired[r] + 1) * call[r].wait
    BY <1>0, <2>2 DEF TimerInv, HeapInv, IsHandlerOf
  <2>5. alarms' = alarms /\ cancelledOnes' = cancelledOnes
    BY <1>0, <2>3, AlarmsStay
  <2>6. alarms[r] # NoAlarm /\ r \notin cancelledOnes
    BY <1>b, <2>1, <2>4 DEF cancelledOnes
  <2>7. alarms[r].from = call[r].created /\ alarms[r].wait = call[r].wait
        /\ alarms[r].periodic = call[r].periodic
    BY <2>4 DEF alarms, AlarmOf
  <2>8. now >= h.next
    <3>1. h.next \in Nat /\ now \in Nat /\ nowTime \in Nat /\ nowTime <= now
      BY <2>4, TimerAssumption DEF TimerAssumption, IsHandlerOf, Handlers, TimerInv, CallInv
    <3> QED BY <2>1, <3>1
  <2>9. now >= Alarms!RingTime(alarms[r], fired[r] + 1)
    BY <2>4, <2>7, <2>8 DEF Alarms!RingTime
  <2>10. Alarms!Ring(r)
    BY <2>1, <2>2, <2>3, <2>4, <2>5, <2>6, <2>7, <2>9
       DEF Alarms!Ring, Alarms!RingTime, alarms, AlarmOf, cancelledOnes
  <2> QED BY <2>4, <2>10 DEF Alarms!Next
<1>6. CASE SetExecutor \/ CallRun \/ BeginPass \/ ReturnFromRun \/ EndPass
            \/ DropRemoved \/ EndCallback \/ Stop
  <2>1. UNCHANGED <<call, now, fired, removed>>
    BY <1>6 DEF SetExecutor, CallRun, BeginPass, ReturnFromRun, EndPass,
                DropRemoved, EndCallback, Stop
  <2> QED BY <1>a, <1>0, <2>1, AlarmsStay DEF Returned, CallAt
<1>7. CASE Tick
  <2>1. UNCHANGED <<call, fired, removed>> /\ now' = now + 1
    BY <1>7 DEF Tick
  <2>2. alarms' = alarms /\ cancelledOnes' = cancelledOnes
    BY <1>0, <2>1, AlarmsStay DEF Returned, CallAt
  <2> QED BY <2>1, <2>2 DEF Alarms!Next, Alarms!Tick, alarms, AlarmOf, cancelledOnes
<1>8. CASE UNCHANGED vars
  BY <1>a, <1>8 DEF vars, alarms, AlarmOf, cancelledOnes, Returned, CallAt
<1> HIDE DEF Stutters
<1> QED BY <1>a, <1>1, <1>2, <1>3, <1>4, <1>5, <1>6, <1>7, <1>8
        DEF Next, Run, Alarms!Next

\* Under one caller at a time a timer is an alarm: never early, a timeout once,
\* a periodic one at most once per period, none after remove_timer.
THEOREM TimersAreAlarms ==
    ASSUME MaxCallers = 1
    PROVE  Spec => ImplementsAlarms
<1>1. Init => UniqueInv
  BY DEF Init, UniqueInv, Creating, Stored, CallAt
<1>2. Init => Alarms!Init
  <2> SUFFICES ASSUME Init PROVE Alarms!Init
    OBVIOUS
  <2>1. Returned = {}
    BY DEF Init, Returned, CallAt
  <2> QED BY <2>1 DEF Init, Alarms!Init
<1>3. TimerInv /\ UniqueInv /\ [Next]_vars => UniqueInv'
  BY UniqueStep
<1>4. TimerInv /\ UniqueInv /\ [Next]_vars => [Alarms!Next]_(Alarms!vars)
  BY AlarmStep
<1> QED BY InvCorrect, <1>1, <1>2, <1>3, <1>4, PTL
        DEF Spec, ImplementsAlarms, Alarms!Spec
=============================================================================

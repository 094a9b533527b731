------------------------- MODULE Thread_Pool_proofs -------------------------
(***************************************************************************)
(* Proofs about Thread_Pool, for every pool size, batch and word width the *)
(* assumption PoolAssumption admits.                                       *)
(***************************************************************************)
EXTENDS Thread_Pool, FiniteSetTheorems, TLAPS

-----------------------------------------------------------------------------
(* Arithmetic of the uint32_t fields and shape of the next-state relation.  *)

\* The counters are unsigned: whatever is added or taken away, what is stored
\* is a word.
LEMMA WordRange ==
    ASSUME NEW n \in Int
    PROVE  /\ n % WordSize \in 0 .. WordSize - 1
           /\ n \in 0 .. WordSize - 1 => n % WordSize = n
BY PoolAssumption DEF PoolAssumption

LEMMA DecRange ==
    ASSUME NEW n \in 0 .. WordSize - 1
    PROVE  Dec(n) \in 0 .. WordSize - 1
BY WordRange DEF Dec

\* The constructor's loop over expend_thread_pool has not yet counted its
\* last thread while it is still in the loop, and what it emplaces is the
\* thread it has just started.  A thread that runs, runs a task.
ShapeInv ==
    /\ ~Constructed => spawned < MinThread
    /\ phase = "emplace" => newThread \in Workers
    /\ \A w \in Workers : pc[w] = "running" => task[w] \in Tasks

\* Every field of the pool keeps its type.
LEMMA TypeStep ==
    TypeOK /\ ShapeInv /\ [Next]_vars => TypeOK' /\ ShapeInv'
<1> SUFFICES ASSUME TypeOK, ShapeInv, [Next]_vars PROVE TypeOK' /\ ShapeInv'
  OBVIOUS
<1> USE DEF TypeOK, ShapeInv, Constructed
<1>1. CASE SpawnThread
  BY <1>1 DEF SpawnThread, At
<1>2. CASE EmplaceThread
  BY <1>2 DEF EmplaceThread, ownerVars
<1>3. CASE LoadThreadNum
  BY <1>3 DEF LoadThreadNum
<1>4. CASE StoreThreadNum
  <2>1. threadNum' \in 0 .. WordSize - 1
    <3>1. threadNum + 1 \in Int /\ loaded + 1 \in Int
      OBVIOUS
    <3>2. Inc(threadNum) \in 0 .. WordSize - 1 /\ Inc(loaded) \in 0 .. WordSize - 1
      BY <3>1, WordRange DEF Inc
    <3> QED BY <1>4, <3>2 DEF StoreThreadNum
  <2>2. spawned' \in 0 .. MinThread /\ ShapeInv'
    BY <1>4, PoolAssumption DEF PoolAssumption, StoreThreadNum
  <2>3. loaded' \in 0 .. WordSize - 1
    BY <1>4, PoolAssumption DEF PoolAssumption, StoreThreadNum
  <2> QED BY <1>4, <2>1, <2>2, <2>3 DEF StoreThreadNum
<1>5. CASE Destructor \/ Stop
  <2>1. CASE DestructorStop \/ Stop
    BY <2>1 DEF DestructorStop, Stop, ownerVars
  <2>2. CASE NotifyAll
    BY <2>2 DEF NotifyAll, ownerVars
  <2>3. CASE JoinDaemon
    BY <2>3 DEF JoinDaemon, ownerVars
  <2>4. CASE DestroyPool
    BY <2>4 DEF DestroyPool, ownerVars
  <2>5. CASE Walk
    BY <2>5 DEF Walk, JoinNext, JoinThread, JoinErased
  <2> QED BY <1>5, <2>1, <2>2, <2>3, <2>4, <2>5 DEF Destructor
<1>6. CASE Daemon
  <2>1. CASE DaemonCheckStop \/ DaemonKeep \/ DaemonWakeUp
    BY <1>6, <2>1 DEF DaemonCheckStop, DaemonKeep, DaemonWakeUp, ownerVars
  <2>2. CASE DaemonExpand
    <3>1. threadNum' \in 0 .. WordSize - 1
      <4>1. threadNum + BatchSize \in Int
        BY PoolAssumption DEF PoolAssumption
      <4> QED BY <2>2, <4>1, WordRange DEF DaemonExpand
    <3>2. threads' \in SUBSET Workers
      BY <2>2 DEF DaemonExpand, At
    <3> QED BY <2>2, <3>1, <3>2 DEF DaemonExpand, ownerVars
  <2>3. CASE DaemonReduce
    BY <2>3, PoolAssumption DEF PoolAssumption, DaemonReduce, ownerVars
  <2> QED BY <1>6, <2>1, <2>2, <2>3 DEF Daemon
<1>7. CASE NotifyOne
  BY <1>7 DEF NotifyOne, ownerVars
<1>8. ASSUME NEW t \in Tasks, Commit(t) PROVE TypeOK' /\ ShapeInv'
  BY <1>8 DEF Commit, ownerVars
<1>9. ASSUME NEW w \in Workers, SpuriousWakeup(w) PROVE TypeOK' /\ ShapeInv'
  BY <1>9 DEF SpuriousWakeup, ownerVars
<1>10. ASSUME NEW w \in Workers, Worker(w) PROVE TypeOK' /\ ShapeInv'
  <2>1. CASE EnterLoop(w) \/ Rewait(w)
    <3>1. CASE ReturnOnStop(w)
      <4>1. threadNum' \in 0 .. WordSize - 1
        BY <3>1, DecRange DEF ReturnOnStop
      <4> QED BY <2>1, <3>1, <4>1
              DEF EnterLoop, Rewait, TestLoop, ReturnOnStop, ownerVars
    <3>2. CASE TakeTask(w)
      <4>1. Head(task_queue) \in Tasks /\ Tail(task_queue) \in Seq(Tasks)
        BY <3>2 DEF TakeTask
      <4>2. workingThreadNum' \in 0 .. WordSize - 1
        BY <3>2, WordRange DEF TakeTask, Inc
      <4>3. ioTaskNum' \in 0 .. WordSize - 1
        <5>1. ioTaskNum + IOCount(Head(task_queue)) \in Int
          BY DEF IOCount
        <5> QED BY <3>2, <5>1, WordRange DEF TakeTask
      <4> QED BY <2>1, <3>2, <4>1, <4>2, <4>3
              DEF EnterLoop, Rewait, TestLoop, TakeTask, ownerVars
    <3>3. CASE DecideToWait(w)
      BY <2>1, <3>3 DEF EnterLoop, Rewait, TestLoop, DecideToWait, ownerVars
    <3> QED BY <2>1, <3>1, <3>2, <3>3 DEF EnterLoop, Rewait, TestLoop
  <2>2. CASE Wait(w)
    BY <2>2 DEF Wait, ownerVars
  <2>3. CASE Retire(w)
    <3>1. threadNum' \in 0 .. WordSize - 1
      BY <2>3, DecRange DEF Retire
    <3> QED BY <2>3, <3>1 DEF Retire, ownerVars
  <2>4. CASE RetireUnregistered(w) \/ TaskThrows(w)
    BY <2>4 DEF RetireUnregistered, TaskThrows, ownerVars
  <2>5. CASE FinishTask(w)
    <3>1. workingThreadNum' \in 0 .. WordSize - 1
      BY <2>5, DecRange DEF FinishTask
    <3>2. ioTaskNum' \in 0 .. WordSize - 1
      <4>1. ioTaskNum - IOCount(task[w]) \in Int
        BY DEF IOCount
      <4> QED BY <2>5, <4>1, WordRange DEF FinishTask
    <3>3. finished' \in SUBSET Tasks
      BY <2>5 DEF FinishTask, IsAt
    <3>4. TypeOK'
      BY <2>5, <3>1, <3>2, <3>3 DEF FinishTask, ownerVars
    <3>5. ShapeInv'
      BY <2>5 DEF FinishTask, ownerVars
    <3> QED BY <3>4, <3>5
  <2>6. CASE Unregister(w)
    <3>1. destroyedThreadNum' \in 0 .. BatchSize
      BY <2>6, PoolAssumption DEF PoolAssumption, Unregister
    <3> QED BY <2>6, <3>1 DEF Unregister, ownerVars
  <2> QED BY <1>10, <2>1, <2>2, <2>3, <2>4, <2>5, <2>6 DEF Worker
<1>11. CASE UNCHANGED vars
  BY <1>11 DEF vars, ownerVars
<1> HIDE DEF TypeOK, ShapeInv, Constructed
<1>12. CASE Constructor
  BY <1>1, <1>2, <1>3, <1>4, <1>12 DEF Constructor
<1> QED
  BY <1>5, <1>6, <1>7, <1>8, <1>9, <1>10, <1>11, <1>12 DEF Next

LEMMA TypeInit == Init => TypeOK /\ ShapeInv
<1> SUFFICES ASSUME Init PROVE TypeOK /\ ShapeInv
  OBVIOUS
<1>1. /\ 0 \in 0 .. WordSize - 1
      /\ 0 \in 0 .. BatchSize
      /\ 0 \in 0 .. MinThread
      /\ 0 < MinThread
  BY PoolAssumption DEF PoolAssumption
<1>2. TypeOK
  <2>1. <<>> \in Seq(Tasks)
    OBVIOUS
  <2>2. task \in [Workers -> Tasks \cup {NoTask}]
    BY DEF Init
  <2> QED BY <1>1, <2>1, <2>2 DEF Init, TypeOK
<1>3. ShapeInv
  BY <1>1 DEF Init, ShapeInv, Constructed
<1> QED BY <1>2, <1>3

\* Type correctness of the pool: whatever the interleaving, its unsigned
\* fields hold words, and no more retirements are owed than one batch.
THEOREM TypeCorrect == Spec => []TypeOK
BY TypeInit, TypeStep, PTL DEF Spec

-----------------------------------------------------------------------------
(* The counters the daemon decides by.                                      *)

\* A pass of work_task's loop that leaves with a task.
Takes(w) == (EnterLoop(w) \/ Rewait(w)) /\ TakeTask(w)

\* Only taking and finishing a task change which threads run what, and the
\* counters; of the other steps, only a commit and the end of the destructor
\* touch the queue.
LEMMA RunningFrame ==
    ASSUME TypeOK, [Next]_vars,
           ~ \E w \in Workers : Takes(w) \/ FinishTask(w)
    PROVE  /\ \A v \in Workers : pc'[v] = "running" <=> pc[v] = "running"
           /\ UNCHANGED <<task, workingThreadNum, ioTaskNum, finished>>
           /\ \/ UNCHANGED task_queue
              \/ DestroyPool
              \/ \E t \in Tasks : Commit(t)
<1> DEFINE Frame == /\ \A v \in Workers : pc'[v] = "running" <=> pc[v] = "running"
                    /\ UNCHANGED <<task, workingThreadNum, ioTaskNum, finished>>
                    /\ \/ UNCHANGED task_queue
                       \/ DestroyPool
                       \/ \E t \in Tasks : Commit(t)
<1> SUFFICES Frame
  OBVIOUS
<1>0. pc \in [Workers -> {"none", "start", "prewait", "waiting", "notified",
                         "running", "erased", "returned", "joined"}]
  BY DEF TypeOK
<1>1. CASE Constructor
  BY <1>0, <1>1 DEF Constructor, SpawnThread, EmplaceThread, LoadThreadNum,
                    StoreThreadNum, At
<1>2. CASE Destructor \/ Stop
  BY <1>0, <1>2 DEF Destructor, DestructorStop, NotifyAll, JoinDaemon,
                    Walk, JoinNext, JoinThread, JoinErased, DestroyPool, Stop,
                    Waiting, At
<1>3. CASE Daemon
  BY <1>0, <1>3 DEF Daemon, DaemonCheckStop, DaemonExpand, DaemonReduce,
                    DaemonKeep, DaemonWakeUp, WokenBy, Waiting, At
<1>4. CASE NotifyOne
  BY <1>0, <1>4 DEF NotifyOne, Waiting, At
<1>5. ASSUME NEW t \in Tasks, Commit(t) PROVE Frame
  BY <1>5 DEF Commit
<1>6. ASSUME NEW w \in Workers, SpuriousWakeup(w) PROVE Frame
  BY <1>0, <1>6 DEF SpuriousWakeup, IsAt
<1>7. ASSUME NEW w \in Workers, Worker(w) PROVE Frame
  <2>1. CASE EnterLoop(w) \/ Rewait(w)
    BY <1>0, <2>1 DEF EnterLoop, Rewait, TestLoop, Takes, ReturnOnStop,
                      DecideToWait, IsAt
  <2>2. CASE \/ Wait(w) \/ Unregister(w) \/ Retire(w) \/ RetireUnregistered(w)
             \/ TaskThrows(w)
    BY <1>0, <2>2 DEF Wait, Unregister, Retire, RetireUnregistered, TaskThrows,
                      IsAt
  <2> QED BY <1>7, <2>1, <2>2 DEF Worker
<1>8. CASE UNCHANGED vars
  BY <1>8 DEF vars
<1> HIDE DEF Frame
<1> QED
  BY <1>1, <1>2, <1>3, <1>4, <1>5, <1>6, <1>7, <1>8 DEF Next

\* Counting the threads in some state, which are never more than a word holds.
LEMMA CountThreads ==
    ASSUME NEW S \in SUBSET Workers
    PROVE  /\ IsFiniteSet(S)
           /\ Cardinality(S) \in 0 .. WordSize - 1
           /\ \A w \in Workers \ S :
                Cardinality(S \cup {w}) = Inc(Cardinality(S))
           /\ \A w \in S : Cardinality(S \ {w}) = Dec(Cardinality(S))
<1>1. /\ IsFiniteSet(S) /\ Cardinality(S) \in Nat
      /\ Cardinality(S) <= Cardinality(Workers)
      /\ Cardinality(Workers) \in Nat
  BY PoolAssumption, FS_Subset, FS_CardinalityType DEF PoolAssumption
<1>2. Cardinality(S) \in 0 .. WordSize - 1
  BY <1>1, PoolAssumption DEF PoolAssumption
<1>3. ASSUME NEW w \in Workers \ S
      PROVE  Cardinality(S \cup {w}) = Inc(Cardinality(S))
  <2>1. Cardinality(S \cup {w}) = Cardinality(S) + 1
    BY <1>1, FS_AddElement
  <2>2. S \cup {w} \in SUBSET Workers
    OBVIOUS
  <2>3. Cardinality(S \cup {w}) <= Cardinality(Workers)
    BY <2>2, PoolAssumption, FS_Subset DEF PoolAssumption
  <2>4. Cardinality(S) + 1 \in 0 .. WordSize - 1
    BY <1>1, <2>1, <2>3, PoolAssumption DEF PoolAssumption
  <2> QED BY <2>1, <2>4, WordRange DEF Inc
<1>4. ASSUME NEW w \in S
      PROVE  Cardinality(S \ {w}) = Dec(Cardinality(S))
  <2>1. Cardinality(S \ {w}) = Cardinality(S) - 1
    BY <1>1, FS_RemoveElement
  <2>2. Cardinality(S \ {w}) \in Nat
    BY <1>1, FS_RemoveElement, FS_CardinalityType
  <2>3. Cardinality(S) - 1 \in 0 .. WordSize - 1
    BY <1>1, <1>2, <2>1, <2>2, PoolAssumption DEF PoolAssumption
  <2> QED BY <2>1, <2>3, WordRange DEF Dec
<1> QED BY <1>1, <1>2, <1>3, <1>4

LEMMA CountersStep ==
    TypeOK /\ ShapeInv /\ CountersExact /\ [Next]_vars => CountersExact'
<1> SUFFICES ASSUME TypeOK, ShapeInv, CountersExact, [Next]_vars
             PROVE  CountersExact'
  OBVIOUS
<1> DEFINE R == At({"running"})
<1>0. /\ pc \in [Workers -> {"none", "start", "prewait", "waiting", "notified",
                            "running", "erased", "returned", "joined"}]
      /\ task \in [Workers -> Tasks \cup {NoTask}]
      /\ R \in SUBSET Workers /\ IORunning \in SUBSET Workers
      /\ workingThreadNum = Cardinality(R) /\ ioTaskNum = Cardinality(IORunning)
  BY DEF TypeOK, At, IORunning, CountersExact
<1>1. ASSUME NEW w \in Workers, Takes(w) PROVE CountersExact'
  <2>1. /\ pc[w] \in {"start", "notified"}
        /\ pc' = [pc EXCEPT ![w] = "running"]
        /\ task' = [task EXCEPT ![w] = Head(task_queue)]
        /\ workingThreadNum' = Inc(workingThreadNum)
        /\ ioTaskNum' = (ioTaskNum + IOCount(Head(task_queue))) % WordSize
    BY <1>1 DEF Takes, EnterLoop, Rewait, IsAt, TakeTask
  <2>2. w \in Workers \ R /\ R' = R \cup {w}
    BY <1>0, <2>1 DEF At
  <2>3. workingThreadNum' = Cardinality(R')
    BY <1>0, <2>1, <2>2, CountThreads
  <2>4. ioTaskNum' = Cardinality(IORunning')
    <3>1. CASE Head(task_queue) \in IOTasks
      <4>1. w \in Workers \ IORunning /\ IORunning' = IORunning \cup {w}
        BY <1>0, <2>1, <2>2, <3>1 DEF IORunning
      <4>2. ioTaskNum' = Inc(ioTaskNum)
        BY <2>1, <3>1 DEF IOCount, Inc
      <4> QED BY <1>0, <4>1, <4>2, CountThreads
    <3>2. CASE Head(task_queue) \notin IOTasks
      <4>1. IORunning' = IORunning
        BY <1>0, <2>1, <2>2, <3>2 DEF IORunning
      <4>2. ioTaskNum \in 0 .. WordSize - 1
        BY DEF TypeOK
      <4>3. ioTaskNum \in Int /\ ioTaskNum + 0 = ioTaskNum
        BY <4>2
      <4>4. ioTaskNum % WordSize = ioTaskNum
        BY <4>2, <4>3, WordRange
      <4>5. ioTaskNum' = ioTaskNum
        BY <2>1, <3>2, <4>3, <4>4 DEF IOCount
      <4> QED BY <1>0, <4>1, <4>5
    <3> QED BY <3>1, <3>2
  <2> QED BY <2>3, <2>4 DEF CountersExact
<1>2. ASSUME NEW w \in Workers, FinishTask(w) PROVE CountersExact'
  <2>1. /\ pc[w] = "running"
        /\ pc' = [pc EXCEPT ![w] = "start"]
        /\ task' = [task EXCEPT ![w] = NoTask]
        /\ workingThreadNum' = Dec(workingThreadNum)
        /\ ioTaskNum' = (ioTaskNum - IOCount(task[w])) % WordSize
    BY <1>2 DEF FinishTask, IsAt
  <2>2. w \in R /\ R' = R \ {w}
    BY <1>0, <2>1 DEF At
  <2>3. workingThreadNum' = Cardinality(R')
    BY <1>0, <2>1, <2>2, CountThreads
  <2>4. ioTaskNum' = Cardinality(IORunning')
    <3>1. CASE task[w] \in IOTasks
      <4>1. w \in IORunning /\ IORunning' = IORunning \ {w}
        BY <1>0, <2>1, <2>2, <3>1 DEF IORunning
      <4>2. ioTaskNum' = Dec(ioTaskNum)
        BY <2>1, <3>1 DEF IOCount, Dec
      <4> QED BY <1>0, <4>1, <4>2, CountThreads
    <3>2. CASE task[w] \notin IOTasks
      <4>1. IORunning' = IORunning
        BY <1>0, <2>1, <2>2, <3>2 DEF IORunning
      <4>2. ioTaskNum \in 0 .. WordSize - 1
        BY DEF TypeOK
      <4>3. ioTaskNum \in Int /\ ioTaskNum - 0 = ioTaskNum
        BY <4>2
      <4>4. ioTaskNum % WordSize = ioTaskNum
        BY <4>2, <4>3, WordRange
      <4>5. ioTaskNum' = ioTaskNum
        BY <2>1, <3>2, <4>3, <4>4 DEF IOCount
      <4> QED BY <1>0, <4>1, <4>5
    <3> QED BY <3>1, <3>2
  <2> QED BY <2>3, <2>4 DEF CountersExact
<1>3. CASE ~ \E w \in Workers : Takes(w) \/ FinishTask(w)
  <2>1. /\ \A v \in Workers : pc'[v] = "running" <=> pc[v] = "running"
        /\ UNCHANGED <<task, workingThreadNum, ioTaskNum>>
    BY <1>3, RunningFrame
  <2>2. R' = R
    BY <2>1 DEF At
  <2>3. IORunning' = IORunning
    BY <2>1, <2>2 DEF IORunning
  <2> QED BY <1>0, <2>1, <2>2, <2>3 DEF CountersExact
<1> QED BY <1>1, <1>2, <1>3

LEMMA CountersInit == Init => CountersExact
<1> SUFFICES ASSUME Init PROVE CountersExact
  OBVIOUS
<1>1. At({"running"}) = {} /\ IORunning = {}
  BY DEF Init, At, IORunning
<1> QED BY <1>1, FS_EmptySet DEF Init, CountersExact

\* The daemon decides by the truth: _workingThreadNum and _ioTaskNum are the
\* threads that run a task and those of them that run an I/O task, in every
\* state the lock-free constructor, expansions, retirements and stops lead to.
THEOREM CountersCorrect == Spec => []CountersExact
BY TypeInit, CountersInit, TypeStep, CountersStep, PTL DEF Spec

-----------------------------------------------------------------------------
(* Destruction.  Every thread inside work_task is a key of _threads, except *)
(* the one the constructor has started and not yet emplaced, and one that   *)
(* retires and has erased itself; so the walk that joins all of _threads    *)
(* leaves only such a one, unless an exception ends the process.            *)

RegisteredInv ==
    /\ \A w \in Live : \/ w \in threads
                       \/ phase = "emplace" /\ w = newThread
                       \/ phase = "terminated"
                       \/ pc[w] = "erased"
    /\ phase = "destroyed" => threads = {}

LEMMA RegisteredStep ==
    TypeOK /\ RegisteredInv /\ [Next]_vars => RegisteredInv'
<1> SUFFICES ASSUME TypeOK, RegisteredInv, [Next]_vars PROVE RegisteredInv'
  OBVIOUS
<1> DEFINE States == {"none", "start", "prewait", "waiting", "notified",
                      "running", "erased", "returned", "joined"}
<1>0. pc \in [Workers -> States] /\ threads \in SUBSET Workers
  BY DEF TypeOK
<1> USE DEF RegisteredInv, Live, At, ownerVars
<1>1. CASE Constructor
  BY <1>0, <1>1 DEF Constructor, SpawnThread, EmplaceThread, LoadThreadNum,
                    StoreThreadNum
<1>2. CASE Destructor \/ Stop
  <2>1. CASE DestroyPool
    <3>1. \A w \in Workers : w \in threads => pc[w] = "joined"
      BY <2>1 DEF DestroyPool
    <3>2. \A w \in Live : pc[w] = "erased"
      BY <2>1, <3>1 DEF DestroyPool
    <3>3. UNCHANGED pc /\ threads' = {}
      BY <2>1 DEF DestroyPool
    <3> QED BY <3>2, <3>3
  <2>2. CASE DestructorStop \/ NotifyAll \/ JoinDaemon \/ Stop
    BY <1>0, <2>2 DEF DestructorStop, NotifyAll, JoinDaemon, Stop, Waiting
  <2>3. CASE Walk
    BY <1>0, <2>3 DEF Walk, JoinNext, JoinThread, JoinErased
  <2> QED BY <1>2, <2>1, <2>2, <2>3 DEF Destructor
<1>3. CASE Daemon
  <2>1. CASE DaemonExpand
    BY <1>0, <2>1 DEF DaemonExpand, DaemonAt, Exists
  <2>2. CASE DaemonReduce
    BY <1>0, <2>2 DEF DaemonReduce, WokenBy, Waiting
  <2>3. CASE DaemonCheckStop \/ DaemonKeep \/ DaemonWakeUp
    BY <1>0, <2>3 DEF DaemonCheckStop, DaemonKeep, DaemonWakeUp
  <2> QED BY <1>3, <2>1, <2>2, <2>3 DEF Daemon
<1>4. CASE NotifyOne
  BY <1>0, <1>4 DEF NotifyOne, Waiting
<1>5. ASSUME NEW t \in Tasks, Commit(t) PROVE RegisteredInv'
  BY <1>5 DEF Commit
<1>6. ASSUME NEW w \in Workers, SpuriousWakeup(w) PROVE RegisteredInv'
  BY <1>0, <1>6 DEF SpuriousWakeup, IsAt
<1>7. ASSUME NEW w \in Workers, Worker(w) PROVE RegisteredInv'
  <2>1. CASE EnterLoop(w) \/ Rewait(w)
    BY <1>0, <2>1 DEF EnterLoop, Rewait, TestLoop, TakeTask, ReturnOnStop,
                      DecideToWait, IsAt
  <2>2. CASE Wait(w) \/ RetireUnregistered(w) \/ TaskThrows(w)
    BY <1>0, <2>2 DEF Wait, RetireUnregistered, TaskThrows, IsAt, Exists
  <2>3. CASE Unregister(w)
    <3>1. /\ pc' = [pc EXCEPT ![w] = "erased"] /\ threads' = threads \ {w}
          /\ UNCHANGED newThread /\ phase # "destroyed" /\ phase' # "destroyed"
          /\ UNCHANGED phase \/ phase' = "terminated"
      BY <2>3 DEF Unregister, IsAt, Exists
    <3>2. ASSUME NEW v \in Live'
          PROVE  \/ v \in threads'
                 \/ phase' = "emplace" /\ v = newThread'
                 \/ phase' = "terminated"
                 \/ pc'[v] = "erased"
      <4>1. CASE v = w
        BY <1>0, <3>1, <4>1
      <4>2. CASE v # w
        <5>1. v \in Live /\ pc'[v] = pc[v]
          BY <1>0, <3>1, <3>2, <4>2
        <5> QED BY <3>1, <4>2, <5>1
      <4> QED BY <4>1, <4>2
    <3> QED BY <3>1, <3>2
  <2>4. CASE FinishTask(w)
    BY <1>0, <2>4 DEF FinishTask, IsAt
  <2>5. CASE Retire(w)
    BY <1>0, <2>5 DEF Retire, IsAt
  <2> QED BY <1>7, <2>1, <2>2, <2>3, <2>4, <2>5 DEF Worker
<1>8. CASE UNCHANGED vars
  BY <1>8 DEF vars
<1> HIDE DEF RegisteredInv
<1> QED
  BY <1>1, <1>2, <1>3, <1>4, <1>5, <1>6, <1>7, <1>8 DEF Next

\* When the destructor has returned, the only thread that can be left inside
\* work_task is one that has erased itself from _threads: it owes _threadNum --
\* and the unlock, to a pool that is gone, and nothing else.
THEOREM QuietDestruction == Spec => []DestroyedIsQuiet
<1>1. Init => RegisteredInv
  BY DEF Init, RegisteredInv, Live, At
<1>2. RegisteredInv => DestroyedIsQuiet
  BY DEF RegisteredInv, DestroyedIsQuiet, Live, At
<1> QED
  BY <1>1, <1>2, TypeInit, TypeStep, RegisteredStep, PTL DEF Spec

-----------------------------------------------------------------------------
(* The pool is an executor.                                                 *)

\* No task is in the queue twice, or in the queue and running, or run by two
\* threads.
OnceInv ==
    /\ \A i, j \in 1 .. Len(task_queue) : task_queue[i] = task_queue[j] => i = j
    /\ \A i \in 1 .. Len(task_queue) : task_queue[i] \notin Running
    /\ \A v, w \in At({"running"}) : task[v] = task[w] => v = w

\* What taking a task does to what is running.
LEMMA TakesEffect ==
    ASSUME TypeOK, NEW w \in Workers, Takes(w)
    PROVE  /\ task_queue # <<>> /\ task_queue' = Tail(task_queue)
           /\ At({"running"})' = At({"running"}) \cup {w}
           /\ w \notin At({"running"})
           /\ task' = [task EXCEPT ![w] = Head(task_queue)]
           /\ Running' = Running \cup {Head(task_queue)}
           /\ UNCHANGED finished
<1>1. /\ pc \in [Workers -> {"none", "start", "prewait", "waiting", "notified",
                            "running", "erased", "returned", "joined"}]
      /\ task \in [Workers -> Tasks \cup {NoTask}]
  BY DEF TypeOK
<1>2. /\ pc[w] \in {"start", "notified"}
      /\ pc' = [pc EXCEPT ![w] = "running"]
      /\ task' = [task EXCEPT ![w] = Head(task_queue)]
      /\ task_queue # <<>> /\ task_queue' = Tail(task_queue)
      /\ UNCHANGED finished
  BY DEF Takes, EnterLoop, Rewait, IsAt, TakeTask, TestLoop
<1>3. At({"running"})' = At({"running"}) \cup {w} /\ w \notin At({"running"})
  BY <1>1, <1>2 DEF At
<1>4. Running' = Running \cup {Head(task_queue)}
  <2>1. \A v \in At({"running"}) : task'[v] = task[v]
    BY <1>1, <1>2, <1>3 DEF At
  <2>2. task'[w] = Head(task_queue)
    BY <1>1, <1>2
  <2> QED BY <1>3, <2>1, <2>2 DEF Running
<1> QED BY <1>2, <1>3, <1>4

\* Nothing else a thread runs is the task that finishes.
LEMMA FinishEffect ==
    ASSUME TypeOK, OnceInv, NEW w \in Workers, FinishTask(w)
    PROVE  /\ w \in At({"running"})
           /\ At({"running"})' = At({"running"}) \ {w}
           /\ \A v \in At({"running"})' : task'[v] = task[v]
           /\ Running' = Running \ {task[w]}
           /\ finished' = finished \cup {task[w]}
           /\ UNCHANGED task_queue
<1>1. /\ pc \in [Workers -> {"none", "start", "prewait", "waiting", "notified",
                            "running", "erased", "returned", "joined"}]
      /\ task \in [Workers -> Tasks \cup {NoTask}]
  BY DEF TypeOK
<1>2. /\ pc[w] = "running" /\ pc' = [pc EXCEPT ![w] = "start"]
      /\ task' = [task EXCEPT ![w] = NoTask]
      /\ finished' = finished \cup {task[w]}
      /\ UNCHANGED task_queue
  BY DEF FinishTask, IsAt
<1>3. w \in At({"running"}) /\ At({"running"})' = At({"running"}) \ {w}
  BY <1>1, <1>2 DEF At
<1>4. \A v \in At({"running"})' : task'[v] = task[v]
  BY <1>1, <1>2, <1>3 DEF At
<1>5. Running' = Running \ {task[w]}
  BY <1>3, <1>4 DEF Running, OnceInv
<1> QED BY <1>2, <1>3, <1>4, <1>5

LEMMA OnceStep == TypeOK /\ OnceInv /\ [Next]_vars => OnceInv'
<1> SUFFICES ASSUME TypeOK, OnceInv, [Next]_vars PROVE OnceInv'
  OBVIOUS
<1>0. task_queue \in Seq(Tasks)
  BY DEF TypeOK
<1>1. ASSUME NEW w \in Workers, Takes(w) PROVE OnceInv'
  <2>1. /\ task_queue # <<>> /\ task_queue' = Tail(task_queue)
        /\ At({"running"})' = At({"running"}) \cup {w}
        /\ w \notin At({"running"})
        /\ task' = [task EXCEPT ![w] = Head(task_queue)]
        /\ Running' = Running \cup {Head(task_queue)}
    BY <1>1, TakesEffect
  <2>2. /\ Len(task_queue') = Len(task_queue) - 1
        /\ \A i \in 1 .. Len(task_queue') :
             task_queue'[i] = task_queue[i + 1] /\ i + 1 \in 1 .. Len(task_queue)
        /\ Head(task_queue) = task_queue[1] /\ 1 \in 1 .. Len(task_queue)
    BY <1>0, <2>1
  <2>3. \A i, j \in 1 .. Len(task_queue') : task_queue'[i] = task_queue'[j] => i = j
    <3> SUFFICES ASSUME NEW i \in 1 .. Len(task_queue'),
                        NEW j \in 1 .. Len(task_queue'),
                        task_queue'[i] = task_queue'[j]
                 PROVE  i = j
      OBVIOUS
    <3>1. i + 1 = j + 1
      BY <2>2 DEF OnceInv
    <3> QED BY <3>1
  <2>4. \A i \in 1 .. Len(task_queue') : task_queue'[i] \notin Running'
    <3> SUFFICES ASSUME NEW i \in 1 .. Len(task_queue')
                 PROVE  task_queue'[i] \notin Running'
      OBVIOUS
    <3>1. task_queue[i + 1] \notin Running
      BY <2>2 DEF OnceInv
    <3>2. task_queue[i + 1] # task_queue[1]
      <4>1. i + 1 # 1
        OBVIOUS
      <4> QED BY <2>2, <4>1 DEF OnceInv
    <3> QED BY <2>1, <2>2, <3>1, <3>2
  <2>5. \A u, v \in At({"running"})' : task'[u] = task'[v] => u = v
    <3>1. task \in [Workers -> Tasks \cup {NoTask}] /\ At({"running"}) \subseteq Workers
      BY DEF TypeOK, At
    <3>2. task'[w] = task_queue[1] /\ task_queue[1] \notin Running
      BY <2>1, <2>2, <3>1 DEF OnceInv
    <3>3. \A v \in At({"running"}) : task'[v] = task[v] /\ task[v] \in Running
      BY <2>1, <3>1 DEF Running
    <3> QED BY <2>1, <3>2, <3>3 DEF OnceInv
  <2> QED BY <2>3, <2>4, <2>5 DEF OnceInv
<1>2. ASSUME NEW w \in Workers, FinishTask(w) PROVE OnceInv'
  BY <1>2, FinishEffect DEF OnceInv
<1>3. CASE ~ \E w \in Workers : Takes(w) \/ FinishTask(w)
  <2>1. /\ \A v \in Workers : pc'[v] = "running" <=> pc[v] = "running"
        /\ UNCHANGED task
        /\ \/ UNCHANGED task_queue
           \/ DestroyPool
           \/ \E t \in Tasks : Commit(t)
    BY <1>3, RunningFrame
  <2>2. At({"running"})' = At({"running"}) /\ Running' = Running
    BY <2>1 DEF At, Running
  <2>3. CASE UNCHANGED task_queue
    BY <2>1, <2>2, <2>3 DEF OnceInv
  <2>4. CASE DestroyPool
    <3>1. Len(task_queue') = 0
      BY <2>4 DEF DestroyPool
    <3> QED BY <2>1, <2>2, <3>1 DEF OnceInv
  <2>5. ASSUME NEW t \in Tasks, Commit(t) PROVE OnceInv'
    <3>1. /\ Len(task_queue') = Len(task_queue) + 1
          /\ \A i \in 1 .. Len(task_queue) : task_queue'[i] = task_queue[i]
          /\ task_queue'[Len(task_queue) + 1] = t
          /\ Len(task_queue) \in Nat
      BY <1>0, <2>5 DEF Commit
    <3>2. t \notin Running /\ \A i \in 1 .. Len(task_queue) : task_queue[i] # t
      BY <1>0, <2>5 DEF Commit, Queued
    <3>3. \A i \in 1 .. Len(task_queue') :
             i \in 1 .. Len(task_queue) \/ i = Len(task_queue) + 1
      BY <3>1
    <3> QED BY <2>1, <2>2, <3>1, <3>2, <3>3 DEF OnceInv
  <2> QED BY <2>1, <2>3, <2>4, <2>5
<1> QED BY <1>1, <1>2, <1>3

\* The pool implements the abstract executor: each committed task is started
\* once, in commit order, whichever thread gets it, and what is thrown away
\* by the destructor is thrown away when nothing runs any more.
THEOREM PoolIsExecutor == Spec => ImplementsExecutor
<1>1. Init => OnceInv /\ RegisteredInv /\ Ex!Init
  BY DEF Init, OnceInv, RegisteredInv, Running, Live, At, Ex!Init
<1>2. TypeOK /\ ShapeInv /\ OnceInv /\ RegisteredInv /\ [Next]_vars
        => [Ex!Next]_(Ex!vars)
  <2> SUFFICES ASSUME TypeOK, ShapeInv, OnceInv, RegisteredInv, [Next]_vars
               PROVE  [Ex!Next]_(Ex!vars)
    OBVIOUS
  <2>1. ASSUME NEW w \in Workers, Takes(w) PROVE Ex!Next
    BY <2>1, TakesEffect DEF Ex!Next, Ex!Start
  <2>2. ASSUME NEW w \in Workers, FinishTask(w) PROVE Ex!Next
    <3>1. task[w] \in Tasks /\ task[w] \in Running
      BY <2>2, FinishEffect DEF ShapeInv, At, Running
    <3>2. Ex!Finish(task[w])
      BY <2>2, <3>1, FinishEffect DEF Ex!Finish
    <3> QED BY <3>1, <3>2 DEF Ex!Next
  <2>3. CASE ~ \E w \in Workers : Takes(w) \/ FinishTask(w)
    <3>1. /\ \A v \in Workers : pc'[v] = "running" <=> pc[v] = "running"
          /\ UNCHANGED <<task, finished>>
          /\ \/ UNCHANGED task_queue
             \/ DestroyPool
             \/ \E t \in Tasks : Commit(t)
      BY <2>3, RunningFrame
    <3>2. Running' = Running
      BY <3>1 DEF At, Running
    <3>3. CASE UNCHANGED task_queue
      BY <3>1, <3>2, <3>3 DEF Ex!vars
    <3>4. CASE DestroyPool
      <4>1. At({"running"}) = {}
        BY <3>4 DEF DestroyPool, RegisteredInv, Live, At
      <4> QED BY <3>1, <3>2, <3>4, <4>1 DEF DestroyPool, Running, Ex!Next, Ex!Discard
    <3>5. ASSUME NEW t \in Tasks, Commit(t) PROVE Ex!Next
      BY <3>1, <3>2, <3>5 DEF Commit, Queued, Ex!Next, Ex!Submit, Ex!Queued
    <3> QED BY <3>1, <3>3, <3>4, <3>5
  <2> QED BY <2>1, <2>2, <2>3
<1> QED
  BY <1>1, <1>2, TypeInit, TypeStep, RegisteredStep, OnceStep, PTL
  DEF Spec, ImplementsExecutor, Ex!Spec

-----------------------------------------------------------------------------
(* The size of the pool.  _threadNum is trustworthy, and its floor is kept, *)
(* as long as the daemon, which the constructor starts first, asks for no   *)
(* retirement before the constructor is through.  Run pool_ctor has a pool  *)
(* large enough for that to happen.                                         *)

QuietStart == ~Constructed => destroyedThreadNum = 0

\* A thread is counted from the end of the constructor's store on.
Counted == Live \ {newThread}

SizeInv ==
    /\ threadNum = Cardinality(Counted)
    /\ phase \in {"emplace", "load", "store"} => newThread \in Live
    /\ phase \notin {"emplace", "load", "store"} => newThread = NoWorker
    /\ phase = "store" => loaded = threadNum
    /\ ~Constructed => /\ ~isStop
                       /\ task_queue = <<>>
                       /\ At({"running", "erased"}) = {}
                       /\ threadNum = spawned

\* The steps that change how many threads are inside work_task.
Leaves(w) == (EnterLoop(w) \/ Rewait(w)) /\ ReturnOnStop(w)
Resizes == \/ Constructor \/ DaemonExpand
           \/ \E w \in Workers : Leaves(w) \/ Retire(w)

\* The other steps leave the set of threads as it is, and before the
\* constructor is through they do nothing SizeInv speaks of.
LEMMA SizeFrame ==
    ASSUME TypeOK, SizeInv, QuietStart, [Next]_vars, ~Resizes
    PROVE  /\ Live' = Live
           /\ UNCHANGED <<threadNum, spawned, newThread, loaded>>
           /\ UNCHANGED phase \/ (Constructed /\ Constructed')
           /\ ~Constructed => /\ UNCHANGED <<isStop, task_queue>>
                              /\ At({"running", "erased"})' = {}
<1> DEFINE Frame ==
      /\ Live' = Live
      /\ UNCHANGED <<threadNum, spawned, newThread, loaded>>
      /\ UNCHANGED phase \/ (Constructed /\ Constructed')
      /\ ~Constructed => /\ UNCHANGED <<isStop, task_queue>>
                         /\ At({"running", "erased"})' = {}
<1> SUFFICES Frame
  OBVIOUS
<1>0. /\ pc \in [Workers -> {"none", "start", "prewait", "waiting", "notified",
                            "running", "erased", "returned", "joined"}]
      /\ ~Constructed => /\ ~isStop /\ task_queue = <<>>
                         /\ \A w \in Workers : pc[w] \notin {"running", "erased"}
  BY DEF TypeOK, SizeInv, At
<1>1. CASE Destructor \/ Stop
  <2>1. CASE DestructorStop \/ NotifyAll \/ JoinDaemon \/ DestroyPool \/ Stop
    BY <1>0, <2>1 DEF DestructorStop, NotifyAll, JoinDaemon, DestroyPool, Stop,
                      Waiting, Live, At, Constructed, ownerVars
  <2>2. CASE Walk
    BY <1>0, <2>2 DEF Walk, JoinNext, JoinThread, JoinErased, Live, At,
                      Constructed
  <2> QED BY <1>1, <2>1, <2>2 DEF Destructor
<1>2. CASE Daemon
  <2>1. CASE DaemonReduce
    BY <1>0, <2>1 DEF DaemonReduce, WokenBy, Waiting, Live, At, ownerVars
  <2>2. CASE DaemonCheckStop \/ DaemonKeep \/ DaemonWakeUp
    BY <1>0, <2>2 DEF DaemonCheckStop, DaemonKeep, DaemonWakeUp, Live, At,
                      ownerVars
  <2> QED BY <1>2, <2>1, <2>2 DEF Daemon, Resizes
<1>3. CASE NotifyOne
  BY <1>0, <1>3 DEF NotifyOne, Waiting, Live, At, ownerVars
<1>4. ASSUME NEW t \in Tasks, Commit(t) PROVE Frame
  <2>1. Constructed
    BY <1>4 DEF Commit, CanCommit, SizeInv, Constructed, At
  <2> QED BY <1>4, <2>1 DEF Commit, Live, At, Constructed, ownerVars
<1>5. ASSUME NEW w \in Workers, SpuriousWakeup(w) PROVE Frame
  BY <1>0, <1>5 DEF SpuriousWakeup, IsAt, Live, At, ownerVars
<1>6. ASSUME NEW w \in Workers, Worker(w) PROVE Frame
  <2>1. CASE (EnterLoop(w) \/ Rewait(w)) /\ TakeTask(w)
    BY <1>0, <2>1 DEF EnterLoop, Rewait, TestLoop, TakeTask, IsAt, Live, At,
                      Constructed, ownerVars
  <2>2. CASE (EnterLoop(w) \/ Rewait(w)) /\ DecideToWait(w)
    BY <1>0, <2>2 DEF EnterLoop, Rewait, TestLoop, DecideToWait, IsAt, Live, At,
                      ownerVars
  <2>3. CASE Wait(w)
    BY <1>0, <2>3 DEF Wait, IsAt, Live, At, ownerVars
  <2>4. CASE RetireUnregistered(w) \/ TaskThrows(w)
    BY <1>0, <2>4 DEF RetireUnregistered, TaskThrows, IsAt, Live, At,
                      QuietStart, Constructed, ownerVars
  <2>5. CASE FinishTask(w)
    BY <1>0, <2>5 DEF FinishTask, IsAt, Live, At, Constructed, ownerVars
  <2>6. CASE Unregister(w)
    <3>1. Constructed
      BY <2>6 DEF Unregister, QuietStart, TypeOK
    <3>2. UNCHANGED phase \/ Constructed'
      BY <2>6 DEF Unregister, Constructed
    <3> QED BY <1>0, <2>6, <3>1, <3>2 DEF Unregister, IsAt, Live, At, ownerVars
  <2> QED BY <1>6, <2>1, <2>2, <2>3, <2>4, <2>5, <2>6
          DEF Worker, EnterLoop, Rewait, TestLoop, Resizes, Leaves
<1>7. CASE UNCHANGED vars
  BY <1>0, <1>7 DEF vars, Live, At, Constructed, ownerVars
<1> HIDE DEF Frame
<1> QED
  BY <1>1, <1>2, <1>3, <1>4, <1>5, <1>6, <1>7 DEF Next, Resizes

\* expend_thread_pool called by the daemon adds a whole batch.
LEMMA ExpandEffect ==
    ASSUME TypeOK, CountersExact, SizeInv, DaemonExpand
    PROVE  /\ Constructed
           /\ threadNum' = threadNum + BatchSize
           /\ threadNum' = Cardinality(Counted')
<1>0. /\ pc \in [Workers -> {"none", "start", "prewait", "waiting", "notified",
                            "running", "erased", "returned", "joined"}]
      /\ threadNum \in 0 .. WordSize - 1
      /\ BatchSize \in Nat /\ WordSize \in Nat
  BY PoolAssumption DEF TypeOK, PoolAssumption
<1>1. Constructed
  <2> SUFFICES ASSUME ~Constructed PROVE FALSE
    OBVIOUS
  <2>1. workingThreadNum = 0
    <3>1. At({"running"}) = {}
      BY DEF SizeInv, At
    <3> QED BY <3>1, FS_EmptySet DEF CountersExact
  <2>2. (threadNum * 4) \div 5 >= 0
    BY <1>0
  <2> QED BY <1>0, <2>1, <2>2 DEF DaemonExpand, ShouldExpand
<1>2. Counted = Live /\ newThread = NoWorker /\ NoWorker \notin Workers
  BY <1>1, PoolAssumption
     DEF SizeInv, Constructed, Counted, Live, At, PoolAssumption
<1>3. PICK new \in SUBSET At({"none"}) :
        /\ Cardinality(new) = BatchSize
        /\ pc' = [w \in Workers |-> IF w \in new THEN "start" ELSE pc[w]]
  BY DEF DaemonExpand
<1>4. /\ Live' = Live \cup new /\ Live \cap new = {}
      /\ Live \in SUBSET Workers /\ new \in SUBSET Workers
      /\ Live' \in SUBSET Workers
  BY <1>0, <1>3 DEF Live, At
<1>5. Counted' = Live'
  BY <1>2, <1>4 DEF DaemonExpand, ownerVars, Counted
<1>6. Cardinality(Live') = threadNum + BatchSize
  <2>1. IsFiniteSet(Live) /\ IsFiniteSet(new)
    BY <1>4, CountThreads
  <2>2. Cardinality(Live \cup new) = Cardinality(Live) + Cardinality(new) - 0
    BY <1>4, <2>1, FS_Union, FS_EmptySet
  <2> QED BY <1>0, <1>2, <1>3, <1>4, <2>2 DEF SizeInv
<1>7. threadNum' = threadNum + BatchSize
  <2>1. threadNum + BatchSize \in 0 .. WordSize - 1
    BY <1>4, <1>6, CountThreads
  <2>2. (threadNum + BatchSize) % WordSize = threadNum + BatchSize
    BY <1>0, <2>1, WordRange
  <2> QED BY <2>2 DEF DaemonExpand
<1> QED BY <1>1, <1>5, <1>6, <1>7

LEMMA SizeStep ==
    /\ TypeOK /\ ShapeInv /\ CountersExact /\ SizeInv /\ QuietStart
    /\ [Next]_vars
    => SizeInv'
<1> SUFFICES ASSUME TypeOK, ShapeInv, CountersExact, SizeInv, QuietStart,
                    [Next]_vars
             PROVE  SizeInv'
  OBVIOUS
<1>0. /\ pc \in [Workers -> {"none", "start", "prewait", "waiting", "notified",
                            "running", "erased", "returned", "joined"}]
      /\ NoWorker \notin Workers
      /\ threadNum \in 0 .. WordSize - 1
      /\ Live \in SUBSET Workers /\ Counted \in SUBSET Workers
  BY PoolAssumption DEF TypeOK, PoolAssumption, Live, At, Counted
<1>1. CASE SpawnThread
  <2>1. PICK w \in At({"none"}) :
          newThread' = w /\ pc' = [pc EXCEPT ![w] = "start"]
    BY <1>1 DEF SpawnThread
  <2>2. Live' = Live \cup {w} /\ w \notin Live /\ newThread = NoWorker
    BY <1>0, <1>1, <2>1 DEF Live, At, SpawnThread, SizeInv
  <2>3. Counted' = Counted
    BY <1>0, <2>1, <2>2 DEF Counted
  <2>4. At({"running", "erased"})' = At({"running", "erased"})
    BY <1>0, <2>1 DEF At
  <2> QED BY <1>1, <2>1, <2>2, <2>3, <2>4
          DEF SpawnThread, SizeInv, Constructed
<1>2. CASE EmplaceThread \/ LoadThreadNum
  <2>1. /\ Live' = Live /\ Counted' = Counted
        /\ At({"running", "erased"})' = At({"running", "erased"})
    BY <1>2 DEF EmplaceThread, LoadThreadNum, ownerVars, Live, At, Counted
  <2> QED BY <1>2, <2>1
          DEF EmplaceThread, LoadThreadNum, ownerVars, SizeInv, Constructed
<1>3. CASE StoreThreadNum
  <2>1. /\ loaded = threadNum /\ newThread \in Live /\ ~Constructed
        /\ threadNum' = Inc(threadNum) /\ UNCHANGED pc
        /\ newThread' = NoWorker
    BY <1>3 DEF StoreThreadNum, SizeInv, Constructed
  <2>2. /\ Live' = Live
        /\ At({"running", "erased"})' = At({"running", "erased"})
    BY <2>1 DEF Live, At
  <2>3. Counted' = Counted \cup {newThread} /\ newThread \in Workers \ Counted
    BY <1>0, <2>1, <2>2 DEF Counted
  <2>4. threadNum' = Cardinality(Counted')
    BY <1>0, <2>1, <2>3, CountThreads DEF SizeInv
  <2>5. threadNum' = threadNum + 1
    <3>1. threadNum + 1 \in 0 .. WordSize - 1
      BY <1>0, <2>1, PoolAssumption
         DEF SizeInv, ShapeInv, TypeOK, PoolAssumption
    <3> QED BY <2>1, <3>1, WordRange DEF Inc
  <2> QED BY <1>3, <2>1, <2>2, <2>4, <2>5 DEF StoreThreadNum, SizeInv, Constructed
<1>4. CASE DaemonExpand
  BY <1>4, ExpandEffect
     DEF DaemonExpand, ownerVars, SizeInv, Constructed
<1>5. ASSUME NEW w \in Workers, Leaves(w) \/ Retire(w) PROVE SizeInv'
  <2>1. /\ w \in Live /\ Live' = Live \ {w}
        /\ Constructed /\ UNCHANGED <<phase, ownerVars>>
        /\ threadNum' = Dec(threadNum)
    <3>1. CASE Leaves(w)
      BY <1>0, <3>1 DEF Leaves, EnterLoop, Rewait, TestLoop, ReturnOnStop, IsAt,
                        Live, At, SizeInv
    <3>2. CASE Retire(w)
      <4>1. Constructed
        BY <1>0, <3>2 DEF Retire, IsAt, At, SizeInv
      <4> QED BY <1>0, <3>2, <4>1 DEF Retire, IsAt, Live, At
    <3> QED BY <1>5, <3>1, <3>2
  <2>2. newThread = NoWorker /\ Counted = Live /\ Counted' = Counted \ {w}
    BY <1>0, <2>1 DEF SizeInv, Constructed, ownerVars, Counted
  <2>3. threadNum' = Cardinality(Counted')
    BY <1>0, <2>1, <2>2, CountThreads DEF SizeInv
  <2> QED BY <2>1, <2>2, <2>3 DEF SizeInv, Constructed, ownerVars
<1>6. CASE ~Resizes
  <2>1. /\ Live' = Live
        /\ UNCHANGED <<threadNum, spawned, newThread, loaded>>
        /\ UNCHANGED phase \/ (Constructed /\ Constructed')
        /\ ~Constructed => /\ UNCHANGED <<isStop, task_queue>>
                           /\ At({"running", "erased"})' = {}
    BY <1>6, SizeFrame
  <2>2. Counted' = Counted
    BY <2>1 DEF Counted
  <2> QED BY <2>1, <2>2 DEF SizeInv, Constructed
<1> QED
  BY <1>1, <1>2, <1>3, <1>4, <1>5, <1>6 DEF Resizes, Constructor

LEMMA SizeInit == Init => SizeInv /\ QuietStart
<1> SUFFICES ASSUME Init PROVE SizeInv /\ QuietStart
  OBVIOUS
<1>1. Live = {} /\ Counted = {} /\ At({"running", "erased"}) = {}
  BY DEF Init, Live, At, Counted
<1> QED BY <1>1, FS_EmptySet DEF Init, SizeInv, QuietStart, Constructed

\* Nothing is asked of a pool under construction: up to five threads a batch,
\* or up to five threads in all, the daemon's test cannot ask for a
\* retirement there.
LEMMA QuietStep ==
    ASSUME BatchSize <= 5 \/ MinThread <= 5
    PROVE  TypeOK /\ ShapeInv /\ SizeInv /\ QuietStart /\ [Next]_vars
             => QuietStart'
<1> SUFFICES ASSUME TypeOK, ShapeInv, SizeInv, QuietStart, [Next]_vars,
                    ~Constructed'
             PROVE  destroyedThreadNum' = 0
  BY DEF QuietStart
<1>1. ~Constructed
  <2> SUFFICES ASSUME Constructed PROVE FALSE
    OBVIOUS
  <2>1. ~Constructor
    BY DEF Constructor, SpawnThread, EmplaceThread, LoadThreadNum,
           StoreThreadNum, Constructed
  <2>2. ~Resizes => UNCHANGED phase \/ Constructed'
    BY SizeFrame
  <2>3. Resizes => UNCHANGED phase
    BY <2>1 DEF Resizes, DaemonExpand, Leaves, EnterLoop, Rewait, TestLoop, Retire
  <2> QED BY <2>2, <2>3 DEF Constructed
<1>2. destroyedThreadNum = 0
  BY <1>1 DEF QuietStart
<1>3. ~DaemonReduce
  <2> SUFFICES ASSUME DaemonReduce PROVE FALSE
    OBVIOUS
  <2>0. /\ threadNum \in 0 .. WordSize - 1 /\ workingThreadNum \in Nat
        /\ WordSize \in Nat /\ BatchSize \in Nat /\ MinThread \in Nat
    BY PoolAssumption DEF PoolAssumption, TypeOK
  <2>1. threadNum < MinThread
    BY <1>1 DEF ShapeInv, SizeInv
  <2>2. workingThreadNum < threadNum \div 5
    BY DEF DaemonReduce, ShouldReduce
  <2>3. threadNum >= 5
    BY <2>0, <2>2
  <2>4. threadNum - BatchSize \in 0 .. WordSize - 1
    BY <2>0, <2>1, <2>3
  <2>5. (threadNum - BatchSize) % WordSize = threadNum - BatchSize
    BY <2>0, <2>4, WordRange
  <2>6. threadNum - BatchSize >= MinThread
    BY <2>5 DEF DaemonReduce, ShouldReduce
  <2> QED BY <2>0, <2>1, <2>6
<1>4. CASE Constructor
  BY <1>2, <1>4 DEF Constructor, SpawnThread, EmplaceThread, LoadThreadNum,
                    StoreThreadNum
<1>5. CASE Destructor \/ Stop
  BY <1>2, <1>5 DEF Destructor, DestructorStop, NotifyAll, JoinDaemon,
                    Walk, JoinNext, JoinThread, JoinErased, DestroyPool, Stop
<1>6. CASE Daemon
  BY <1>2, <1>3, <1>6 DEF Daemon, DaemonCheckStop, DaemonExpand, DaemonKeep,
                          DaemonWakeUp
<1>7. CASE NotifyOne \/ \E t \in Tasks : Commit(t)
  BY <1>2, <1>7 DEF NotifyOne, Commit
<1>8. ASSUME NEW w \in Workers, Worker(w) \/ SpuriousWakeup(w)
      PROVE  destroyedThreadNum' = 0
  BY <1>2, <1>8 DEF Worker, SpuriousWakeup, EnterLoop, Rewait, TestLoop, Wait,
                    Unregister, Retire, RetireUnregistered, FinishTask,
                    TaskThrows
<1>9. CASE UNCHANGED vars
  BY <1>2, <1>9 DEF vars
<1> QED
  BY <1>4, <1>5, <1>6, <1>7, <1>8, <1>9 DEF Next

LEMMA SizeMeansExact == SizeInv => ThreadNumExact
<1> SUFFICES ASSUME SizeInv, Constructed PROVE threadNum = Cardinality(Live)
  BY DEF ThreadNumExact
<1>1. newThread = NoWorker /\ NoWorker \notin Workers
  BY PoolAssumption DEF SizeInv, Constructed, PoolAssumption
<1>2. Counted = Live
  BY <1>1 DEF Counted, Live, At
<1> QED BY <1>2 DEF SizeInv

\* _threadNum counts the threads inside work_task exactly, unsynchronised ++
\* of the constructor included, for every pool that adds or starts with at
\* most five threads.
THEOREM ThreadNumCorrect ==
    ASSUME BatchSize <= 5 \/ MinThread <= 5
    PROVE  Spec => []ThreadNumExact
BY TypeInit, SizeInit, CountersInit, TypeStep, CountersStep, SizeStep, QuietStep,
   SizeMeansExact, PTL DEF Spec

\* A thread that has erased itself no longer owes its retirement but is still
\* counted; it holds the lock, so there is at most one.
FloorInv ==
    /\ \A v, w \in At({"erased"}) : v = w
    /\ phase = "alive" /\ ~isStop =>
         threadNum - destroyedThreadNum
           >= IF At({"erased"}) = {} THEN MinThread ELSE MinThread + 1

LEMMA FloorMeansMin == TypeOK /\ FloorInv => KeepsMinThread
BY PoolAssumption DEF PoolAssumption, TypeOK, FloorInv, KeepsMinThread

\* Only a retirement begins or ends an erasure.
LEMMA ErasedFrame ==
    ASSUME TypeOK, [Next]_vars, ~ \E w \in Workers : Unregister(w) \/ Retire(w)
    PROVE  At({"erased"})' = At({"erased"})
<1> SUFFICES \A v \in Workers : pc'[v] = "erased" <=> pc[v] = "erased"
  BY DEF At
<1> DEFINE Frame == \A v \in Workers : pc'[v] = "erased" <=> pc[v] = "erased"
<1>0. pc \in [Workers -> {"none", "start", "prewait", "waiting", "notified",
                         "running", "erased", "returned", "joined"}]
  BY DEF TypeOK
<1>1. CASE Constructor
  BY <1>0, <1>1 DEF Constructor, SpawnThread, EmplaceThread, LoadThreadNum,
                    StoreThreadNum, At
<1>2. CASE Destructor \/ Stop
  BY <1>0, <1>2 DEF Destructor, DestructorStop, NotifyAll, JoinDaemon, Walk,
                    JoinNext, JoinThread, JoinErased, DestroyPool, Stop,
                    Waiting, At
<1>3. CASE Daemon
  BY <1>0, <1>3 DEF Daemon, DaemonCheckStop, DaemonExpand, DaemonReduce,
                    DaemonKeep, DaemonWakeUp, WokenBy, Waiting, At
<1>4. CASE NotifyOne
  BY <1>0, <1>4 DEF NotifyOne, Waiting, At
<1>5. CASE \E t \in Tasks : Commit(t)
  BY <1>5 DEF Commit
<1>6. ASSUME NEW w \in Workers, SpuriousWakeup(w) PROVE Frame
  BY <1>0, <1>6 DEF SpuriousWakeup, IsAt
<1>7. ASSUME NEW w \in Workers, Worker(w) PROVE Frame
  <2>1. CASE EnterLoop(w) \/ Rewait(w)
    BY <1>0, <2>1 DEF EnterLoop, Rewait, TestLoop, ReturnOnStop, TakeTask,
                      DecideToWait, IsAt
  <2>2. CASE Wait(w) \/ RetireUnregistered(w) \/ FinishTask(w) \/ TaskThrows(w)
    BY <1>0, <2>2 DEF Wait, RetireUnregistered, FinishTask, TaskThrows, IsAt
  <2> QED BY <1>7, <2>1, <2>2 DEF Worker
<1>8. CASE UNCHANGED vars
  BY <1>8 DEF vars
<1> HIDE DEF Frame
<1> QED
  BY <1>1, <1>2, <1>3, <1>4, <1>5, <1>6, <1>7, <1>8 DEF Next, Frame

LEMMA FloorStep ==
    ASSUME BatchSize <= MinThread
    PROVE  /\ TypeOK /\ ShapeInv /\ CountersExact /\ SizeInv /\ QuietStart
           /\ FloorInv /\ [Next]_vars
           => FloorInv'
<1> SUFFICES ASSUME TypeOK, ShapeInv, CountersExact, SizeInv, QuietStart,
                    FloorInv, [Next]_vars
             PROVE  FloorInv'
  OBVIOUS
<1>0. /\ threadNum \in 0 .. WordSize - 1 /\ destroyedThreadNum \in 0 .. BatchSize
      /\ WordSize \in Nat /\ BatchSize \in Nat \ {0} /\ MinThread \in Nat \ {0}
      /\ pc \in [Workers -> {"none", "start", "prewait", "waiting", "notified",
                            "running", "erased", "returned", "joined"}]
  BY PoolAssumption DEF PoolAssumption, TypeOK
<1>1. ASSUME NEW w \in Workers, Unregister(w) PROVE FloorInv'
  <2>1. At({"erased"}) = {} /\ At({"erased"})' = {w}
    BY <1>0, <1>1 DEF Unregister, LockFree, At
  <2>2. destroyedThreadNum' = destroyedThreadNum - 1 /\ UNCHANGED threadNum
    BY <1>1 DEF Unregister
  <2>3. phase' = "alive" /\ ~isStop' => phase = "alive" /\ ~isStop
    BY <1>1 DEF Unregister
  <2> QED BY <1>0, <2>1, <2>2, <2>3 DEF FloorInv
<1>2. ASSUME NEW w \in Workers, Retire(w) PROVE FloorInv'
  <2>1. At({"erased"}) # {} /\ At({"erased"})' = {}
    BY <1>0, <1>2 DEF Retire, IsAt, At, FloorInv
  <2>2. UNCHANGED <<destroyedThreadNum, phase, isStop>> /\ threadNum' = Dec(threadNum)
    BY <1>2 DEF Retire
  <2>3. CASE phase = "alive" /\ ~isStop
    <3>1. threadNum - destroyedThreadNum >= MinThread + 1
      BY <2>1, <2>3 DEF FloorInv
    <3>2. threadNum - 1 \in 0 .. WordSize - 1
      BY <1>0, <3>1
    <3>3. threadNum' = threadNum - 1
      BY <1>0, <2>2, <3>2, WordRange DEF Dec
    <3> QED BY <1>0, <2>1, <2>2, <3>1, <3>3 DEF FloorInv
  <2> QED BY <2>1, <2>2, <2>3 DEF FloorInv
<1>3. CASE ~ \E w \in Workers : Unregister(w) \/ Retire(w)
  <2>0. At({"erased"})' = At({"erased"})
    BY <1>3, ErasedFrame
  <2> SUFFICES ASSUME phase' = "alive", ~isStop'
               PROVE  threadNum' - destroyedThreadNum'
                        >= IF At({"erased"}) = {} THEN MinThread
                                                  ELSE MinThread + 1
    BY <2>0 DEF FloorInv
  <2>1. CASE StoreThreadNum
    <3>1. /\ loaded = threadNum /\ threadNum' = Inc(threadNum)
          /\ spawned + 1 = MinThread /\ threadNum = spawned
          /\ UNCHANGED destroyedThreadNum /\ destroyedThreadNum = 0
      BY <2>1 DEF StoreThreadNum, SizeInv, Constructed, QuietStart
    <3>2. At({"erased"}) = {}
      BY <2>1 DEF StoreThreadNum, SizeInv, Constructed, At
    <3>3. threadNum + 1 \in 0 .. WordSize - 1
      BY <1>0, <3>1, PoolAssumption DEF PoolAssumption
    <3>4. Inc(threadNum) = threadNum + 1
      BY <3>3, WordRange DEF Inc
    <3> QED BY <1>0, <3>1, <3>2, <3>4
  <2>2. CASE ~StoreThreadNum
    <3>1. phase = "alive" /\ ~isStop
      <4>1. CASE Constructor
        BY <2>2, <4>1 DEF Constructor, SpawnThread, EmplaceThread, LoadThreadNum
      <4>2. CASE Destructor \/ Stop
        BY <4>2 DEF Destructor, DestructorStop, NotifyAll, JoinDaemon, Walk,
                    JoinNext, JoinThread, JoinErased, DestroyPool, Stop
      <4>3. CASE Daemon
        BY <4>3 DEF Daemon, DaemonCheckStop, DaemonExpand, DaemonReduce,
                    DaemonKeep, DaemonWakeUp
      <4>4. CASE NotifyOne \/ \E t \in Tasks : Commit(t)
        BY <4>4 DEF NotifyOne, Commit
      <4>5. ASSUME NEW w \in Workers, Worker(w) \/ SpuriousWakeup(w)
            PROVE  phase = "alive" /\ ~isStop
        BY <1>3, <4>5 DEF Worker, SpuriousWakeup, EnterLoop, Rewait, TestLoop,
                          Wait, RetireUnregistered, FinishTask, TaskThrows
      <4>6. CASE UNCHANGED vars
        BY <4>6 DEF vars
      <4> QED BY <4>1, <4>2, <4>3, <4>4, <4>5, <4>6 DEF Next
    <3>2. threadNum - destroyedThreadNum
            >= IF At({"erased"}) = {} THEN MinThread ELSE MinThread + 1
      BY <3>1 DEF FloorInv
    <3>3. CASE DaemonExpand
      <4>1. threadNum' = threadNum + BatchSize
        BY <3>3, ExpandEffect
      <4> QED BY <1>0, <3>2, <3>3, <4>1 DEF DaemonExpand
    <3>4. CASE DaemonReduce
      <4>1. At({"erased"}) = {}
        BY <3>4 DEF DaemonReduce, LockFree, At
      <4>2. threadNum - BatchSize \in 0 .. WordSize - 1
        BY <1>0, <3>2, <4>1
      <4>3. (threadNum - BatchSize) % WordSize = threadNum - BatchSize
        BY <1>0, <4>2, WordRange
      <4> QED BY <3>4, <4>1, <4>3 DEF DaemonReduce, ShouldReduce
    <3>5. ASSUME NEW w \in Workers, Worker(w) \/ SpuriousWakeup(w)
          PROVE  UNCHANGED <<threadNum, destroyedThreadNum>>
      BY <1>3, <3>1, <3>5 DEF Worker, EnterLoop, Rewait, TestLoop, TakeTask,
         DecideToWait, ReturnOnStop, Wait, RetireUnregistered, FinishTask,
         TaskThrows, SpuriousWakeup
    <3>6. CASE \/ Destructor \/ Stop \/ NotifyOne \/ UNCHANGED vars
               \/ DaemonCheckStop \/ DaemonKeep \/ DaemonWakeUp
               \/ \E t \in Tasks : Commit(t)
      BY <3>2, <3>6 DEF Destructor, DestructorStop, NotifyAll, JoinDaemon, Walk,
         JoinNext, JoinThread, JoinErased, DestroyPool, Stop, NotifyOne, vars,
         DaemonCheckStop, DaemonKeep, DaemonWakeUp, Commit
    <3>7. ~Constructor
      BY <3>1 DEF Constructor, SpawnThread, EmplaceThread, LoadThreadNum,
                  StoreThreadNum
    <3> QED BY <3>2, <3>3, <3>4, <3>5, <3>6, <3>7 DEF Next, Daemon
  <2> QED BY <2>1, <2>2
<1> QED BY <1>1, <1>2, <1>3

LEMMA FloorInit == Init => FloorInv
<1> SUFFICES ASSUME Init PROVE FloorInv
  OBVIOUS
<1>1. At({"erased"}) = {}
  BY DEF Init, At
<1> QED BY <1>1 DEF Init, FloorInv

\* Retiring never takes a living pool below _minThread, whatever retirements
\* are still owed, provided the daemon asked for none before the constructor
\* was through and a batch is no larger than the floor (as in Thread_Pool()).
THEOREM FloorAfterQuietStart ==
    ASSUME BatchSize <= MinThread
    PROVE  Spec /\ []QuietStart => []KeepsMinThread
BY FloorInit, TypeInit, SizeInit, CountersInit, TypeStep, CountersStep,
   SizeStep, FloorStep, FloorMeansMin, PTL DEF Spec

\* With batches of at most five threads the first proviso always holds.
THEOREM FloorKept ==
    ASSUME BatchSize <= MinThread, BatchSize <= 5
    PROVE  Spec => []KeepsMinThread
BY FloorInit, TypeInit, SizeInit, CountersInit, TypeStep, CountersStep,
   SizeStep, QuietStep, FloorStep, FloorMeansMin, PTL DEF Spec

-----------------------------------------------------------------------------
(* The ceiling.  The daemon tests _threadNum + _batchSize, which is the     *)
(* number of threads only where _threadNum is exact.                        *)

CeilingInv == threadNum <= MaxThread

\* A thread that leaves work_task takes itself off a count that has it.
LEMMA LeaveEffect ==
    ASSUME TypeOK, SizeInv, QuietStart, NEW w \in Workers, Leaves(w) \/ Retire(w)
    PROVE  threadNum' = threadNum - 1
<1>0. /\ NoWorker \notin Workers /\ Counted \in SUBSET Workers
      /\ threadNum = Cardinality(Counted)
  BY PoolAssumption DEF PoolAssumption, SizeInv, Counted, Live, At
<1>1. w \in Live /\ Constructed /\ threadNum' = Dec(threadNum)
  <2>1. CASE Leaves(w)
    BY <2>1 DEF Leaves, EnterLoop, Rewait, TestLoop, ReturnOnStop, IsAt, Live,
                At, SizeInv
  <2>2. CASE Retire(w)
    <3>1. Constructed
      BY <2>2 DEF Retire, IsAt, At, SizeInv
    <3> QED BY <2>2, <3>1 DEF Retire, IsAt, Live, At
  <2> QED BY <2>1, <2>2
<1>2. w \in Counted
  BY <1>0, <1>1 DEF SizeInv, Constructed, Counted
<1>3. IsFiniteSet(Counted) /\ Cardinality(Counted \ {w}) = Dec(threadNum)
  BY <1>0, <1>2, CountThreads
<1>4. Cardinality(Counted \ {w}) = threadNum - 1
  BY <1>0, <1>2, <1>3, FS_RemoveElement
<1> QED BY <1>1, <1>3, <1>4

LEMMA CeilingStep ==
    /\ TypeOK /\ ShapeInv /\ CountersExact /\ SizeInv /\ QuietStart
    /\ CeilingInv /\ [Next]_vars
    => CeilingInv'
<1> SUFFICES ASSUME TypeOK, ShapeInv, CountersExact, SizeInv, QuietStart,
                    CeilingInv, [Next]_vars
             PROVE  threadNum' <= MaxThread
  BY DEF CeilingInv
<1>0. /\ threadNum \in Nat /\ threadNum <= MaxThread
      /\ MinThread \in Nat /\ MaxThread \in Nat /\ MinThread <= MaxThread
      /\ MaxThread + BatchSize < WordSize /\ BatchSize \in Nat \ {0}
      /\ WordSize \in Nat
  BY PoolAssumption DEF PoolAssumption, TypeOK, CeilingInv
<1>1. CASE SpawnThread \/ EmplaceThread \/ LoadThreadNum
  BY <1>0, <1>1 DEF SpawnThread, EmplaceThread, LoadThreadNum
<1>2. CASE StoreThreadNum
  <2>1. /\ loaded = threadNum /\ threadNum' = Inc(threadNum)
        /\ threadNum < MinThread
    BY <1>2 DEF StoreThreadNum, SizeInv, ShapeInv, Constructed
  <2>2. threadNum + 1 \in 0 .. WordSize - 1
    BY <1>0, <2>1
  <2>3. Inc(threadNum) = threadNum + 1
    BY <2>2, WordRange DEF Inc
  <2> QED BY <1>0, <2>1, <2>3
<1>3. CASE DaemonExpand
  BY <1>3 DEF DaemonExpand, ShouldExpand
<1>4. ASSUME NEW w \in Workers, Leaves(w) \/ Retire(w)
      PROVE  threadNum' <= MaxThread
  BY <1>0, <1>4, LeaveEffect
<1>5. CASE ~Resizes
  BY <1>0, <1>5, SizeFrame
<1> QED BY <1>1, <1>2, <1>3, <1>4, <1>5 DEF Resizes, Constructor

\* The one thread that may not be counted yet is the constructor's, and the
\* constructor makes no more than _minThread.
LEMMA CeilingMeansMax ==
    TypeOK /\ ShapeInv /\ SizeInv /\ CeilingInv => KeepsMaxThread
<1> SUFFICES ASSUME TypeOK, ShapeInv, SizeInv, CeilingInv
             PROVE  Cardinality(Live) <= MaxThread
  BY DEF KeepsMaxThread
<1>0. /\ Counted \in SUBSET Workers /\ Live \in SUBSET Workers
      /\ NoWorker \notin Workers
      /\ threadNum = Cardinality(Counted) /\ threadNum \in Nat
      /\ threadNum <= MaxThread
      /\ MinThread \in Nat /\ MaxThread \in Nat /\ MinThread <= MaxThread
  BY PoolAssumption DEF PoolAssumption, TypeOK, SizeInv, CeilingInv, Counted,
                        Live, At
<1>1. CASE newThread \notin Live
  <2>1. Live = Counted
    BY <1>1 DEF Counted
  <2> QED BY <1>0, <2>1
<1>2. CASE newThread \in Live
  <2>1. ~Constructed
    BY <1>0, <1>2 DEF SizeInv, Constructed
  <2>2. threadNum < MinThread
    BY <2>1 DEF SizeInv, ShapeInv
  <2>3. Live = Counted \cup {newThread} /\ newThread \notin Counted
    BY <1>2 DEF Counted
  <2>4. IsFiniteSet(Counted)
    BY <1>0, CountThreads
  <2>5. Cardinality(Live) = threadNum + 1
    BY <1>0, <2>3, <2>4, FS_AddElement
  <2> QED BY <1>0, <2>2, <2>5
<1> QED BY <1>1, <1>2

\* There are never more threads than _maxThread, retirements still owed and
\* the constructor's unlocked count included, for every pool that adds or
\* starts with at most five threads.
THEOREM CeilingKept ==
    ASSUME BatchSize <= 5 \/ MinThread <= 5
    PROVE  Spec => []KeepsMaxThread
<1>1. Init => CeilingInv
  BY PoolAssumption DEF Init, CeilingInv, PoolAssumption
<1> QED
  BY <1>1, TypeInit, SizeInit, CountersInit, TypeStep, CountersStep, SizeStep,
     QuietStep, CeilingStep, CeilingMeansMax, PTL DEF Spec
=============================================================================

---------------------------- MODULE Thread_Pool ----------------------------
(***************************************************************************)
(* Core/Thread_Pool.{h,cpp}: the pool every other part of ZeroRPC runs on. *)
(* One action is one critical section of _pool_lock, or one access to      *)
(* shared state made outside it: the constructor registers threads, stop() *)
(* writes _isStop and every notify happens without the lock.               *)
(* std::thread ids are the elements of Workers; an id whose thread is gone *)
(* may be given to a later thread.                                         *)
(***************************************************************************)
EXTENDS Integers, Sequences, FiniteSets

CONSTANTS
    Workers,        \* thread ids
    Tasks,          \* the calls of commit, one task each
    IOTasks,        \* those committed with isIOTask = true
    EndlessTasks,   \* tasks that never return, like Timer::run
    ThrowingTasks,  \* tasks an exception may escape from
    NoWorker, NoTask,
    MinThread, MaxThread, BatchSize, HardwareCore,
    WordSize        \* 2^32 in the code: the modulus of its uint32_t fields

ASSUME PoolAssumption ==
    /\ IsFiniteSet(Workers) /\ NoWorker \notin Workers
    /\ NoTask \notin Tasks
    /\ IOTasks \subseteq Tasks
    /\ EndlessTasks \subseteq Tasks
    /\ ThrowingTasks \subseteq Tasks
    /\ MinThread \in Nat \ {0}
    /\ MaxThread \in Nat /\ MinThread <= MaxThread
    /\ BatchSize \in Nat \ {0}
    /\ HardwareCore \in Nat \ {0}
    /\ WordSize \in Nat
    /\ MaxThread + BatchSize < WordSize
    /\ Cardinality(Workers) < WordSize

VARIABLES
    isStop, threadNum, workingThreadNum, ioTaskNum, destroyedThreadNum,
    task_queue,
    threads,        \* the keys of _threads
    pc,             \* where each thread is in work_task
    task,           \* the Handle a thread is running
    notifiers,      \* commit calls that have unlocked but not yet notified
    daemon,         \* where _daemon_thread is in daemon_task
    phase,          \* where the owner is: constructor, life, destructor
    spawned, newThread, loaded,     \* i, newThread and _threadNum as loaded by
                                    \* the constructor's expend_thread_pool
    joining,        \* the thread the destructor's walk of _threads stands at
    finished        \* history: the tasks that have run to their end

ownerVars == <<spawned, newThread, loaded, joining>>
vars == <<isStop, threadNum, workingThreadNum, ioTaskNum, destroyedThreadNum,
          task_queue, threads, pc, task, notifiers, daemon, phase, ownerVars,
          finished>>

At(states) == {w \in Workers : pc[w] \in states}
Waiting == At({"waiting"})
Live    == At({"start", "prewait", "waiting", "notified", "running", "erased"})
Running == {task[w] : w \in At({"running"})}
IORunning == {w \in At({"running"}) : task[w] \in IOTasks}
Queued  == {task_queue[i] : i \in DOMAIN task_queue}

\* Two stretches under _pool_lock are two steps, because the destructor, which
\* takes no lock, can come between: from the test of the wait loop to the wait,
\* and from the erase of a retiring thread to its unlock.
LockFree == At({"prewait", "erased"}) = {}

\* After the destructor, or an escaped exception, no thread takes a step.
Exists == phase \notin {"destroyed", "terminated"}
IsAt(w, state) == Exists /\ pc[w] = state
DaemonAt(state) == Exists /\ daemon = state

Constructed == phase \notin {"spawn", "emplace", "load", "store"}

Inc(n) == (n + 1) % WordSize
Dec(n) == (n - 1) % WordSize
\* Mutant: I/O tasks are not counted.
IOCount_Uncounted(t) == 0
IOCount(t) == IF t \in IOTasks THEN 1 ELSE 0

Init ==
    /\ isStop = FALSE
    /\ threadNum = 0 /\ workingThreadNum = 0 /\ ioTaskNum = 0
    /\ destroyedThreadNum = 0
    /\ task_queue = <<>>
    /\ threads = {}
    /\ pc = [w \in Workers |-> "none"]
    /\ task = [w \in Workers |-> NoTask]
    /\ notifiers = 0
    /\ daemon = "check"
    /\ phase = "spawn"
    /\ spawned = 0 /\ newThread = NoWorker /\ loaded = 0 /\ joining = NoWorker
    /\ finished = {}

-----------------------------------------------------------------------------
(* init_thread_pool: the daemon is already running when expend_thread_pool  *)
(* starts the first threads, and it takes no lock.                          *)

\* The new thread runs from here on, before it is in _threads.
SpawnThread ==
    /\ phase = "spawn"
    /\ \E w \in At({"none"}) :
        /\ newThread' = w
        /\ pc' = [pc EXCEPT ![w] = "start"]
    /\ phase' = "emplace"
    /\ UNCHANGED <<isStop, threadNum, workingThreadNum, ioTaskNum,
                   destroyedThreadNum, task_queue, threads, task, notifiers,
                   daemon, spawned, loaded, joining, finished>>

EmplaceThread ==
    /\ phase = "emplace"
    /\ threads' = threads \cup {newThread}
    /\ phase' = "load"
    /\ UNCHANGED <<isStop, threadNum, workingThreadNum, ioTaskNum,
                   destroyedThreadNum, task_queue, pc, task, notifiers,
                   daemon, ownerVars, finished>>

\* _threadNum ++ outside the lock, against the locked _threadNum -- of a
\* retiring thread: a data race in which either update can be lost.
LoadThreadNum ==
    /\ phase = "load"
    /\ loaded' = threadNum
    /\ phase' = "store"
    /\ UNCHANGED <<isStop, threadNum, workingThreadNum, ioTaskNum,
                   destroyedThreadNum, task_queue, threads, pc, task,
                   notifiers, daemon, spawned, newThread, joining, finished>>

StoreThreadNum ==
    /\ phase = "store"
    /\ threadNum' \in IF threadNum = loaded THEN {Inc(loaded)}
                      ELSE {Inc(loaded), Inc(threadNum), threadNum}
    /\ spawned' = spawned + 1
    /\ newThread' = NoWorker
    /\ loaded' = 0
    /\ phase' = IF spawned + 1 = MinThread THEN "alive" ELSE "spawn"
    /\ UNCHANGED <<isStop, workingThreadNum, ioTaskNum, destroyedThreadNum,
                   task_queue, threads, pc, task, notifiers, daemon, joining,
                   finished>>

-----------------------------------------------------------------------------
(* commit: the push is inside the lock, the notify after it.                *)

\* Tasks are handed in while the pool lives, and by the tasks it is running.
CanCommit == Exists /\ (phase = "alive" \/ At({"running"}) # {})

Commit(t) ==
    /\ CanCommit /\ LockFree
    /\ t \notin Queued \cup Running \cup finished
    /\ task_queue' = Append(task_queue, t)
    /\ notifiers' = notifiers + 1
    /\ UNCHANGED <<isStop, threadNum, workingThreadNum, ioTaskNum,
                   destroyedThreadNum, threads, pc, task, daemon, phase,
                   ownerVars, finished>>

\* notify_one wakes some waiter; with nobody waiting it has no effect.
NotifyOne ==
    /\ Exists
    /\ notifiers > 0
    /\ notifiers' = notifiers - 1
    /\ \/ \E w \in Waiting : pc' = [pc EXCEPT ![w] = "notified"]
       \/ Waiting = {} /\ UNCHANGED pc
    /\ UNCHANGED <<isStop, threadNum, workingThreadNum, ioTaskNum,
                   destroyedThreadNum, task_queue, threads, task, daemon,
                   phase, ownerVars, finished>>

\* A condition variable may wake a waiter for no reason.
SpuriousWakeup(w) ==
    /\ IsAt(w, "waiting")
    /\ pc' = [pc EXCEPT ![w] = "notified"]
    /\ UNCHANGED <<isStop, threadNum, workingThreadNum, ioTaskNum,
                   destroyedThreadNum, task_queue, threads, task, notifiers,
                   daemon, phase, ownerVars, finished>>

-----------------------------------------------------------------------------
(* work_task                                                                *)

\* Mutant: the thread leaves without _threadNum --.
ReturnOnStop_KeepsCount(w) ==
    /\ isStop
    /\ pc' = [pc EXCEPT ![w] = "returned"]
    /\ UNCHANGED <<threadNum, workingThreadNum, ioTaskNum, task_queue, task>>

ReturnOnStop(w) ==
    /\ isStop
    /\ threadNum' = Dec(threadNum)
    /\ pc' = [pc EXCEPT ![w] = "returned"]
    /\ UNCHANGED <<workingThreadNum, ioTaskNum, task_queue, task>>

\* Mutant: the front task is run but not popped.
TakeTask_NoPop(w) ==
    /\ ~isStop
    /\ task_queue # <<>>
    /\ task' = [task EXCEPT ![w] = Head(task_queue)]
    /\ workingThreadNum' = Inc(workingThreadNum)
    /\ ioTaskNum' = (ioTaskNum + IOCount(Head(task_queue))) % WordSize
    /\ pc' = [pc EXCEPT ![w] = "running"]
    /\ UNCHANGED <<threadNum, task_queue>>

TakeTask(w) ==
    /\ ~isStop
    /\ task_queue # <<>>
    /\ task' = [task EXCEPT ![w] = Head(task_queue)]
    /\ task_queue' = Tail(task_queue)
    /\ workingThreadNum' = Inc(workingThreadNum)
    /\ ioTaskNum' = (ioTaskNum + IOCount(Head(task_queue))) % WordSize
    /\ pc' = [pc EXCEPT ![w] = "running"]
    /\ UNCHANGED threadNum

\* The wait loop's test is true; the lock stays held until the wait.
DecideToWait(w) ==
    /\ ~isStop
    /\ task_queue = <<>>
    /\ pc' = [pc EXCEPT ![w] = "prewait"]
    /\ UNCHANGED <<threadNum, workingThreadNum, ioTaskNum, task_queue, task>>

TestLoop(w) ==
    /\ ReturnOnStop(w) \/ TakeTask(w) \/ DecideToWait(w)
    /\ UNCHANGED <<isStop, destroyedThreadNum, threads, notifiers, daemon,
                   phase, ownerVars, finished>>

EnterLoop(w) ==
    /\ IsAt(w, "start") /\ LockFree
    /\ TestLoop(w)

Wait(w) ==
    /\ IsAt(w, "prewait")
    /\ pc' = [pc EXCEPT ![w] = "waiting"]
    /\ UNCHANGED <<isStop, threadNum, workingThreadNum, ioTaskNum,
                   destroyedThreadNum, task_queue, threads, task, notifiers,
                   daemon, phase, ownerVars, finished>>

\* Woken while threads are to be destroyed: this thread goes, whatever it was
\* woken for.  First it detaches itself and erases itself from _threads.  If
\* the destructor is walking _threads and not waiting for another thread, it
\* may come upon this one half way, and a failed join ends the process.
Unregister(w) ==
    /\ IsAt(w, "notified") /\ LockFree
    /\ destroyedThreadNum > 0
    /\ w \in threads
    /\ destroyedThreadNum' = destroyedThreadNum - 1
    /\ threads' = threads \ {w}
    /\ pc' = [pc EXCEPT ![w] = "erased"]
    /\ \/ UNCHANGED phase
       \/ /\ phase = "join_threads" /\ joining \in {NoWorker, w}
          /\ phase' = "terminated"
    /\ UNCHANGED <<isStop, threadNum, workingThreadNum, ioTaskNum, task_queue,
                   task, notifiers, daemon, ownerVars, finished>>

\* Then it counts itself off and gives up the lock: the last it does to the pool.
Retire(w) ==
    /\ IsAt(w, "erased")
    /\ threadNum' = Dec(threadNum)
    /\ pc' = [pc EXCEPT ![w] = "none"]
    /\ UNCHANGED <<isStop, workingThreadNum, ioTaskNum, destroyedThreadNum,
                   task_queue, threads, task, notifiers, daemon, phase,
                   ownerVars, finished>>

\* _threads[id] creates an empty std::thread when the constructor has not yet
\* emplaced this one, and detach() of that throws in a thread function.
RetireUnregistered(w) ==
    /\ IsAt(w, "notified") /\ LockFree
    /\ destroyedThreadNum > 0
    /\ w \notin threads
    /\ phase' = "terminated"
    /\ UNCHANGED <<isStop, threadNum, workingThreadNum, ioTaskNum,
                   destroyedThreadNum, task_queue, threads, pc, task,
                   notifiers, daemon, ownerVars, finished>>

Rewait(w) ==
    /\ IsAt(w, "notified") /\ LockFree
    /\ destroyedThreadNum = 0
    /\ TestLoop(w)

\* The task returned; the counters are taken back under the lock.
FinishTask(w) ==
    /\ IsAt(w, "running") /\ LockFree
    /\ task[w] \notin EndlessTasks
    /\ finished' = finished \cup {task[w]}
    /\ workingThreadNum' = Dec(workingThreadNum)
    /\ ioTaskNum' = (ioTaskNum - IOCount(task[w])) % WordSize
    /\ task' = [task EXCEPT ![w] = NoTask]
    /\ pc' = [pc EXCEPT ![w] = "start"]
    /\ UNCHANGED <<isStop, threadNum, destroyedThreadNum, task_queue, threads,
                   notifiers, daemon, phase, ownerVars>>

\* work_task catches nothing: an exception ends the process.
TaskThrows(w) ==
    /\ IsAt(w, "running")
    /\ task[w] \in ThrowingTasks
    /\ phase' = "terminated"
    /\ UNCHANGED <<isStop, threadNum, workingThreadNum, ioTaskNum,
                   destroyedThreadNum, task_queue, threads, pc, task,
                   notifiers, daemon, ownerVars, finished>>

-----------------------------------------------------------------------------
(* daemon_task                                                              *)

CpuTaskNum == (workingThreadNum - ioTaskNum) % WordSize

\* Mutant: "all threads work" is tested as more than all.
ShouldExpand_TooLate ==
    /\ workingThreadNum > threadNum
    /\ CpuTaskNum < HardwareCore
    /\ (threadNum + BatchSize) % WordSize <= MaxThread

ShouldExpand ==
    /\ workingThreadNum > (threadNum * 4) \div 5
    /\ CpuTaskNum < HardwareCore
    /\ (threadNum + BatchSize) % WordSize <= MaxThread

\* Mutant: the batch is not counted against _minThread.
ShouldReduce_NoBatch ==
    /\ workingThreadNum < threadNum \div 5
    /\ threadNum >= MinThread

ShouldReduce ==
    /\ workingThreadNum < threadNum \div 5
    /\ (threadNum - BatchSize) % WordSize >= MinThread

\* _isStop is read before the lock is taken.
DaemonCheckStop ==
    /\ DaemonAt("check")
    /\ daemon' = IF isStop THEN "returned" ELSE "scan"
    /\ UNCHANGED <<isStop, threadNum, workingThreadNum, ioTaskNum,
                   destroyedThreadNum, task_queue, threads, pc, task,
                   notifiers, phase, ownerVars, finished>>

\* Mutant: the loop of expend_thread_pool runs once too often.
DaemonExpand_OneMore ==
    /\ DaemonAt("scan") /\ LockFree
    /\ ShouldExpand
    /\ \E new \in SUBSET At({"none"}) :
        /\ Cardinality(new) = BatchSize + 1
        /\ pc' = [w \in Workers |-> IF w \in new THEN "start" ELSE pc[w]]
        /\ threads' = threads \cup new
    /\ threadNum' = (threadNum + BatchSize + 1) % WordSize
    /\ daemon' = "sleep"
    /\ UNCHANGED <<isStop, workingThreadNum, ioTaskNum, destroyedThreadNum,
                   task_queue, task, notifiers, phase, ownerVars, finished>>

DaemonExpand ==
    /\ DaemonAt("scan") /\ LockFree
    /\ ShouldExpand
    /\ \E new \in SUBSET At({"none"}) :
        /\ Cardinality(new) = BatchSize
        /\ pc' = [w \in Workers |-> IF w \in new THEN "start" ELSE pc[w]]
        /\ threads' = threads \cup new
    /\ threadNum' = (threadNum + BatchSize) % WordSize
    /\ daemon' = "sleep"
    /\ UNCHANGED <<isStop, workingThreadNum, ioTaskNum, destroyedThreadNum,
                   task_queue, task, notifiers, phase, ownerVars, finished>>

\* k calls of notify_one in a row wake k waiters; those that find none are lost.
WokenBy(k) ==
    {S \in SUBSET Waiting :
        Cardinality(S) = k \/ (S = Waiting /\ Cardinality(S) < k)}

\* Mutant: what is still owed is added to the new batch.
DaemonReduce_Adds ==
    /\ DaemonAt("scan") /\ LockFree
    /\ ~ShouldExpand /\ ShouldReduce
    /\ destroyedThreadNum' = destroyedThreadNum + BatchSize
    /\ \E woken \in WokenBy(BatchSize) :
        pc' = [w \in Workers |-> IF w \in woken THEN "notified" ELSE pc[w]]
    /\ daemon' = "sleep"
    /\ UNCHANGED <<isStop, threadNum, workingThreadNum, ioTaskNum, task_queue,
                   threads, task, notifiers, phase, ownerVars, finished>>

\* Mutant: nobody is told to retire.
DaemonReduce_Silent ==
    /\ DaemonAt("scan") /\ LockFree
    /\ ~ShouldExpand /\ ShouldReduce
    /\ destroyedThreadNum' = BatchSize
    /\ daemon' = "sleep"
    /\ UNCHANGED <<isStop, threadNum, workingThreadNum, ioTaskNum, task_queue,
                   threads, pc, task, notifiers, phase, ownerVars, finished>>

DaemonReduce ==
    /\ DaemonAt("scan") /\ LockFree
    /\ ~ShouldExpand /\ ShouldReduce
    /\ destroyedThreadNum' = BatchSize
    /\ \E woken \in WokenBy(BatchSize) :
        pc' = [w \in Workers |-> IF w \in woken THEN "notified" ELSE pc[w]]
    /\ daemon' = "sleep"
    /\ UNCHANGED <<isStop, threadNum, workingThreadNum, ioTaskNum, task_queue,
                   threads, task, notifiers, phase, ownerVars, finished>>

DaemonKeep ==
    /\ DaemonAt("scan") /\ LockFree
    /\ ~ShouldExpand /\ ~ShouldReduce
    /\ daemon' = "sleep"
    /\ UNCHANGED <<isStop, threadNum, workingThreadNum, ioTaskNum,
                   destroyedThreadNum, task_queue, threads, pc, task,
                   notifiers, phase, ownerVars, finished>>

DaemonWakeUp ==
    /\ DaemonAt("sleep")
    /\ daemon' = "check"
    /\ UNCHANGED <<isStop, threadNum, workingThreadNum, ioTaskNum,
                   destroyedThreadNum, task_queue, threads, pc, task,
                   notifiers, phase, ownerVars, finished>>

-----------------------------------------------------------------------------
(* stop and the destructor                                                  *)

Stop ==
    /\ phase = "alive"
    /\ isStop' = TRUE
    /\ UNCHANGED <<threadNum, workingThreadNum, ioTaskNum, destroyedThreadNum,
                   task_queue, threads, pc, task, notifiers, daemon, phase,
                   ownerVars, finished>>

DestructorStop ==
    /\ phase = "alive"
    /\ isStop' = TRUE
    /\ phase' = "notify_all"
    /\ UNCHANGED <<threadNum, workingThreadNum, ioTaskNum, destroyedThreadNum,
                   task_queue, threads, pc, task, notifiers, daemon, ownerVars,
                   finished>>

\* Mutant: one waiter is told of the stop.
NotifyAll_One ==
    /\ phase = "notify_all"
    /\ \/ \E w \in Waiting : pc' = [pc EXCEPT ![w] = "notified"]
       \/ Waiting = {} /\ UNCHANGED pc
    /\ phase' = "join_daemon"
    /\ UNCHANGED <<isStop, threadNum, workingThreadNum, ioTaskNum,
                   destroyedThreadNum, task_queue, threads, task, notifiers,
                   daemon, ownerVars, finished>>

\* Without the lock: a thread that has decided to wait but does not wait yet
\* misses this.
NotifyAll ==
    /\ phase = "notify_all"
    /\ pc' = [w \in Workers |-> IF w \in Waiting THEN "notified" ELSE pc[w]]
    /\ phase' = "join_daemon"
    /\ UNCHANGED <<isStop, threadNum, workingThreadNum, ioTaskNum,
                   destroyedThreadNum, task_queue, threads, task, notifiers,
                   daemon, ownerVars, finished>>

JoinDaemon ==
    /\ phase = "join_daemon" /\ daemon = "returned"
    /\ phase' = "join_threads"
    /\ UNCHANGED <<isStop, threadNum, workingThreadNum, ioTaskNum,
                   destroyedThreadNum, task_queue, threads, pc, task,
                   notifiers, daemon, ownerVars, finished>>

\* The walk of _threads, without the lock, in the container's order.
JoinNext(w) ==
    /\ phase = "join_threads" /\ joining = NoWorker
    /\ w \in threads \ At({"joined"})
    /\ joining' = w
    /\ UNCHANGED <<isStop, threadNum, workingThreadNum, ioTaskNum,
                   destroyedThreadNum, task_queue, threads, pc, task,
                   notifiers, daemon, phase, spawned, newThread, loaded,
                   finished>>

JoinThread(w) ==
    /\ phase = "join_threads" /\ joining = w
    /\ pc[w] = "returned"
    /\ pc' = [pc EXCEPT ![w] = "joined"]
    /\ joining' = NoWorker
    /\ UNCHANGED <<isStop, threadNum, workingThreadNum, ioTaskNum,
                   destroyedThreadNum, task_queue, threads, task, notifiers,
                   daemon, phase, spawned, newThread, loaded, finished>>

\* The thread has retired under the walk.  The walk goes on from an element
\* that has been freed: undefined, it finds the next one or the process ends.
JoinErased(w) ==
    /\ phase = "join_threads" /\ joining = w
    /\ pc[w] = "none"
    /\ phase' \in {"join_threads", "terminated"}
    /\ joining' = NoWorker
    /\ UNCHANGED <<isStop, threadNum, workingThreadNum, ioTaskNum,
                   destroyedThreadNum, task_queue, threads, pc, task,
                   notifiers, daemon, spawned, newThread, loaded, finished>>

\* Mutant: the walk joins nobody.
DestroyPool_Unjoined ==
    /\ phase = "join_threads" /\ joining = NoWorker
    /\ phase' = "destroyed"
    /\ task_queue' = <<>>
    /\ threads' = {}
    /\ UNCHANGED <<isStop, threadNum, workingThreadNum, ioTaskNum,
                   destroyedThreadNum, pc, task, notifiers, daemon, ownerVars,
                   finished>>

DestroyPool ==
    /\ phase = "join_threads" /\ joining = NoWorker
    /\ threads \subseteq At({"joined"})
    /\ phase' = "destroyed"
    /\ task_queue' = <<>>
    /\ threads' = {}
    /\ UNCHANGED <<isStop, threadNum, workingThreadNum, ioTaskNum,
                   destroyedThreadNum, pc, task, notifiers, daemon, ownerVars,
                   finished>>

-----------------------------------------------------------------------------
Constructor == SpawnThread \/ EmplaceThread \/ LoadThreadNum \/ StoreThreadNum
Walk == \E w \in Workers : JoinNext(w) \/ JoinThread(w) \/ JoinErased(w)
Destructor  == DestructorStop \/ NotifyAll \/ JoinDaemon \/ Walk \/ DestroyPool
Daemon == \/ DaemonCheckStop \/ DaemonExpand \/ DaemonReduce \/ DaemonKeep
          \/ DaemonWakeUp
Worker(w) == \/ EnterLoop(w) \/ Wait(w) \/ Rewait(w) \/ Unregister(w)
             \/ Retire(w) \/ RetireUnregistered(w) \/ FinishTask(w)
             \/ TaskThrows(w)

Next ==
    \/ Constructor \/ Destructor \/ Stop \/ Daemon
    \/ NotifyOne
    \/ \E t \in Tasks : Commit(t)
    \/ \E w \in Workers : Worker(w) \/ SpuriousWakeup(w)

Spec == Init /\ [][Next]_vars

(* Every thread keeps running; a thread that asks for _pool_lock again and  *)
(* again while it is free again and again gets it.  Nobody has to commit,   *)
(* stop or destroy anything, and no wakeup is spurious by right.            *)
Fairness ==
    /\ WF_vars(Constructor)
    /\ WF_vars(NotifyOne)
    /\ WF_vars(NotifyAll \/ JoinDaemon \/ Walk \/ DestroyPool)
    /\ SF_vars(Daemon)
    /\ \A w \in Workers :
        /\ WF_vars(Wait(w) \/ Retire(w))
        /\ SF_vars(EnterLoop(w) \/ Rewait(w) \/ Unregister(w)
                     \/ FinishTask(w))

FairSpec == Spec /\ Fairness

-----------------------------------------------------------------------------
(* Properties                                                               *)

\* Every variable has its type: no counter leaves the range of its word, and no
\* more threads are owed to retirement than one batch.
TypeOK ==
    /\ isStop \in BOOLEAN
    /\ threadNum \in 0 .. WordSize - 1
    /\ workingThreadNum \in 0 .. WordSize - 1
    /\ ioTaskNum \in 0 .. WordSize - 1
    /\ destroyedThreadNum \in 0 .. BatchSize
    /\ task_queue \in Seq(Tasks)
    /\ threads \in SUBSET Workers
    /\ pc \in [Workers -> {"none", "start", "prewait", "waiting", "notified",
                           "running", "erased", "returned", "joined"}]
    /\ task \in [Workers -> Tasks \cup {NoTask}]
    /\ notifiers \in Nat
    /\ daemon \in {"check", "scan", "sleep", "returned"}
    /\ phase \in {"spawn", "emplace", "load", "store", "alive", "notify_all",
                  "join_daemon", "join_threads", "destroyed", "terminated"}
    /\ spawned \in 0 .. MinThread
    /\ newThread \in Workers \cup {NoWorker}
    /\ loaded \in 0 .. WordSize - 1
    /\ joining \in Workers \cup {NoWorker}
    /\ finished \in SUBSET Tasks

\* The two counters the daemon decides by are the threads that really run a
\* task, and those of them on an I/O task; so cpuTaskNum never wraps below 0.
CountersExact ==
    /\ workingThreadNum = Cardinality(At({"running"}))
    /\ ioTaskNum = Cardinality(IORunning)

\* Once constructed, _threadNum is the number of threads inside work_task,
\* whatever expansions, retirements and stops have happened.
ThreadNumExact == Constructed => threadNum = Cardinality(Live)

\* Retiring never takes a living pool below _minThread, even when every
\* retirement that is still owed happens (Thread_Pool.h:59).
KeepsMinThread ==
    phase = "alive" /\ ~isStop => threadNum - destroyedThreadNum >= MinThread

\* There are never more threads than _maxThread (Thread_Pool.h:60), however
\* expansions overlap with retirements that are still owed.
KeepsMaxThread == Cardinality(Live) <= MaxThread

\* When the destructor has returned, no thread is left that waits, runs a task
\* or looks for one.  What can be left is a thread that retires during the
\* walk: it has taken itself out of _threads, is joined by nobody and still
\* counts itself off and unlocks the mutex, in a pool that is gone.
DestroyedIsQuiet == phase = "destroyed" => Live \subseteq At({"erased"})

\* As an executor the pool starts each committed task once, in commit order,
\* and lets it run to its end.
Ex == INSTANCE Executor WITH queue <- task_queue, running <- Running,
                             finished <- finished
ImplementsExecutor == Ex!Spec

\* A task in the queue of a living pool does not depend on a thread that
\* nobody will wake: some thread is on its way to the queue, or a notify is.
NoStrandedTask ==
    phase = "alive" /\ ~isStop /\ task_queue # <<>> =>
        notifiers > 0 \/ At({"start", "notified", "running"}) # {}

\* Every committed task is started, unless the pool is stopped.
CommittedTaskStarts ==
    \A t \in Tasks : t \in Queued ~> (t \notin Queued \/ isStop)

\* When stop() meets no thread between its test and its wait, no retirement is
\* owed or being decided and no task runs for ever, the destructor returns.
DestructorReturns ==
    (/\ phase = "notify_all" /\ LockFree
     /\ destroyedThreadNum = 0 /\ daemon # "scan"
     /\ Running \cap EndlessTasks = {})
        ~> phase = "destroyed"

\* With nothing left to run, the pool gives back what it grew by, down to
\* where one more batch would cut below _minThread (or below the 5 threads
\* at which a fifth of _threadNum rounds to 0).
ShrinksBack ==
    []<>( \/ threadNum < MinThread + BatchSize \/ threadNum < 5
         \/ task_queue # <<>> \/ workingThreadNum > 0 \/ isStop)
=============================================================================

# ZeroRPC: a verification project

TLA+ models of the concurrent core of ZeroRPC, TLC runs that check them on
small instances, and TLAPS proofs for every size where the prover reaches.
Every definition is translated from the source; `PROJECT.json` ("map") gives
its lines.

## 1. The system

ZeroRPC is a C++20 RPC library for Linux. A `Rpc_Client` turns a function call
into a request with a UUID, sends it over one TCP connection and waits on a
future; a `Rpc_Server` finds the function by name, runs it and answers. Both
stand on the same parts.

| Component | State | Operations | Correct when |
|---|---|---|---|
| `Thread_Pool` (Core) | `_threads`, `_task_queue`, five counters, `_isStop` under `_pool_lock`; a daemon thread | constructor, `commit`, `work_task`, `daemon_task` (grow, shrink), `stop`, destructor | each task runs once and in commit order; counters are what the threads do; the pool stays between its floor and its ceiling and comes back to rest; tasks start; the destructor ends, and quietly |
| `Timer` (Core) | heap `_timers`, `_removed_timer_ID`, `_nextID`, `_running`, an executor | `set_*_timer`, `remove_timer`, `run`, `stop`, `set_executor` | never early, once or once per period, no drift, no loss, nothing after removal; due timers fire; a removal returns once stopped |
| `Buffer` (Common) | ring `_data`, `_head`, `_tail`, `_size` under `_lock` | `enqueue`, `dequeue`, `at`, `[]`, `clear` | a bounded FIFO for every batch and position |
| `Thread_Safe_Queue` (Common) | a queue under a lock | `enqueue`, `front`, `front_pop`, `empty` | each method is one step |
| `Socket_Channel` (Core) | `_send_messages`, `_send_offset`, `_send_lock`, `_read_buffer`, `_read_buffer_length`, `_read_messages` | `write_data`, the send callback, `parse_message` | message boundaries survive the stream: nothing lost, doubled, moved, nothing made up while frames stay whole; all arrives |
| `Tcp_Client` (Core) | `_fd`, `_running`, a channel | `run`, send callback, `read_data`, `disconnect`, `stop` | disconnects at the end of the connection and only then |
| `Tcp_Server` (Core) | listening fd, sub-reactors with epoll, `_channels`, `_fd_location` | `run` with `handle_new_connections`, `sub_reactor_run`, `read_data`, `try_send`, `close_connection` | epoll, maps and users agree about every descriptor; a connection is closed once, and when its client leaves; a descriptor is not mistaken for its successor |
| `Rpc_Client` (RPC) | `_pending_request` | `call`, response callback, `heartbeat_signal`, `run`, destructor | every response ends its own call; calls end |
| `Rpc_Server`, `Rpc_User_Manager` (RPC) | functions; users with heartbeat times | `create_user`, `remove_user`, `update_heartbeat`, `check_invalid_user`, request handling | only inactive users are thrown out, and in time; no user outlives its connection |
| `Data_Stream`, `Rpc_Package`, `enable_serializable` | a byte vector, a read position, a byte order | `<<`, `>>` per type | what was written is read, in order, and no read runs off the memory |
| `Function_Handler` (RPC) | the registered functions | lookup, `get_args`, `call` | the function sees the caller's arguments, the caller its result or exception |
| `Compression`, `Thread_Pool_Monitor`, `Singleton`, `ID_Genertor`, `prg_cfg` | little or none | | see section 12 |

How they interact: the pool runs everything: `Timer::run` and one
`sub_reactor_run` per worker as tasks that never return, every `read_data` of a
server and the one of a client, every timer callback (through `set_executor`)
and so every heartbeat. A reactor thread turns an EPOLLIN edge into a
`read_data` task; `read_data` fills the channel's `Buffer` and calls
`parse_message`; that puts messages in a `Thread_Safe_Queue` and hands them to
the RPC layer's callback, which on the client fulfils a promise and on the
server commits the call and later writes the answer.

What is hard: accesses made outside the lock that guards their data (the pool's
constructor, `stop` and every `notify`; `_nextID`; `_read_buffer_length`; the
server's maps); a condition variable whose signal means two things (a task, or
"one of you go"); TCP cutting the stream anywhere and a socket that takes part
of a send; a callback run under the lock it may need; a send queue that whoever holds its
lock empties for all; a stream that cannot be read again once a frame was cut;
unsigned arithmetic at 0;
closing a connection while it is read or answered; and exceptions, which on a
pool thread end the process. `PROJECT.json` ("hazards") lists each at its line,
with the properties that cover it.

## 2. The plan

Ordered by how much of the system stands on the part.

1. **Done.** `Thread_Pool`, its abstract `Executor`, and its proofs.
2. **Done.** `Buffer`, its abstract `Bounded_Fifo`, and its proofs.
3. **Done.** `Timer`, its abstract `Alarm_Service`.
4. **Done.** `Socket_Channel` with both peers' sending and reading.
5. **Done but for the destructor.** `Rpc_Client` over `Tcp_Client`.
6. **Done.** `Tcp_Server` with `Rpc_Server` and `Rpc_User_Manager`: the life
   of a connection, from accept to the inactivity check.
7. **Done.** `Data_Stream` as operators, and `Rpc_Call`, one call from the
   caller's arguments to its result, with its abstract `Local_Call`.
8. **Done.** Proofs about `Timer`, `Rpc_Client`, `Tcp_Server`,
   `Socket_Channel`, `Data_Stream` and `Rpc_Call`.
9. Compositions: `Timer` over `Executor` (a callback still queued when
   `remove_timer` returns), `Rpc_Client` over `Message_Channel`, which
   `Socket_Channel` implements.

Abstract specifications: an executor (`Executor`), a bounded FIFO
(`Bounded_Fifo`), an alarm service (`Alarm_Service`), a message channel
(`Message_Channel`) and a call (`Local_Call`) are stated and shown to be
implemented.

## 3. Thread_Pool

`Thread_Pool.tla` has every method. Variables carry the names of the fields
(`threadNum` for `_threadNum`). `pc[w]` is where thread `w` is in `work_task`:

| `pc` | in the code |
|---|---|
| `start` | about to take `_pool_lock` (:118-119) |
| `prewait` | its loop test was true, the lock still held (:120) |
| `waiting`, `notified` | inside and after `_taskCV.wait` (:121) |
| `running` | in the task, no lock (:144) |
| `erased` | detached and out of `_threads` (:125), not yet past `_threadNum--` and the unlock (:126-127) |
| `returned`, `joined` | left at :133, and joined by the destructor (:108) |
| `none` | no such thread, or one that has retired |

An action is one critical section, or one access outside the lock. Two critical
sections are two steps each, because the destructor, which takes no lock, can
come between: the test and the wait (`prewait`), which is what `NotifyAll`
(:104) can miss, and a retirement (`Unregister`, `Retire`), of which the walk of
`_threads` (:107-109) can see the half. `LockFree` says that no thread is at
either place. The walk is `JoinNext`, `JoinThread` and `JoinErased`, with
`joining` the element it stands at. A thread that erases that element, or any
element while the walk is moving, leaves it with freed memory; the model lets
the walk go on or the process end. A thread that erased itself is joined by
nobody, so the destructor may return while it is still at `erased`: that is the
exception `DestroyedIsQuiet` makes, and what such a thread then does to a mutex
that is gone is not modelled. `StoreThreadNum` is the racing
`_threadNum++` of the constructor: when a retiring thread has changed the field
since it was loaded, either update may be lost. `SpuriousWakeup` may happen at
any time. Counters are modulo `WordSize`, because `_threadNum - _batchSize`
really wraps; 64 stands for 2^32, and `PoolAssumption` keeps everything but
that subtraction far from it.

`Executor.tla` is the promise: a queue, a set of running and a set of finished
tasks. `ImplementsExecutor` maps the pool to it.

| Run | Instance | Shows |
|---|---|---|
| `pool_shrink` | min 2, max 6, batch 4, 7 ids, 2 tasks | `CountersExact`, `ThreadNumExact`, `KeepsMinThread`, `KeepsMaxThread`, `DestroyedIsQuiet`, `ImplementsExecutor` |
| `pool_ctor` | min 6, batch 6, 1 throwing task | `TypeOK`; reaches the early reduction, the unregistered retirement, the escaped exception |
| `pool_live` | min 1, max 3, batch 2; a short, an I/O and an endless task | `CommittedTaskStarts`, `DestructorReturns` |
| `pool_idle` | min 1, max 5, batch 4, 1 task, until stopped | `ShrinksBack` |
| `pool_stranded` | min 1, max 5, batch 4, 2 tasks | a violation, section 10 |

Bounds. Reduction is possible only from 5 threads on (`_threadNum * 0.2` is cut
to an integer), so the pools that shrink have 5 or 6; 6 is where the floor
test at :36 decides anything, because after one retirement of a batch another
could begin. The seventh id lets an expansion that makes one thread too many
happen. Two tasks are what a pool of two needs to expand. In `pool_live` the
endless task stands for `Timer::run`: with as many endless tasks as cores the
daemon no longer expands by design, so one core is left free. Ids are
symmetric and only used so in runs without liveness. `UntilStop` cuts `pool_idle`
where the pool is stopped, of which `ShrinksBack` asks nothing.

Fairness: weak for the constructor, the destructor's steps, `notify_one`, the
wait and the end of a retirement; strong for the daemon and for the steps of a
worker that take `_pool_lock`. `std::mutex` does not promise the latter; it is
justified by how the lock is used: who holds it does so for a few statements,
and then sleeps, waits or runs a task before it asks again, so that no thread is
passed over for ever by one that spins. (In `Timer` one does, see there.) Nobody
is obliged to commit, stop or destroy, and no wake-up is spurious by right.

`DestructorReturns` has three conditions, all hazards of the code: no thread in
the window of the missed notify, no retirement still owed, no endless task.
`ShrinksBack` stops at the threshold below which the code never reduces.

## 4. Buffer

`Buffer.tla` has every method of `Buffer.hpp`; each is one critical section.
`Stored` and `Loaded` are the copies in two parts, `Advance` the moves of
`_head` and `_tail` in both branches; a refused call is an exception.
`TriviallyCopyable` chooses the branch. `Bounded_Fifo.tla` is a sequence with
the same calls. Both remember the last call with its arguments (`call`), so that
a step of the ring has to be the queue's step for the same call: without it a
ring that stored something else would pass for a queue given something else.

Run `buffer` (capacity 4, two values, batches of up to 5, so that every wrap,
full, empty and refused call occurs): `TypeOK`, which says with `EndsMeet`
that the three fields agree, and `ImplementsFifo`. The branch for types that are not
trivially copyable advances the index in its loop and once more after it
(:115/:119, :145/:149) and does not implement the queue: with
`TriviallyCopyable = FALSE` TLC finds it at once. No code uses that branch,
so there is no run of it.

## 5. Timer

`Timer.tla`: one thread in `run()`, which holds `_timer_lock` for a whole pass
over the due handlers; `LockFree` says it is between passes. `create_timer`
loads and stores `_nextID` and samples the clock before it locks, each a step.
`_timers` is a set of which only a top is looked at, as with the heap. The
executor is the inline one, which runs the callback in the pass and under the
lock (`BeginCallback`, `EndCallback`), or the pool's, which queues it
(`HandOver`). A clock unit is a millisecond; `wait + 1` is the extra millisecond of
`Handler`. `Alarm_Service.tla` is the promise to users of timers.

Run `timer` (two timers, waits 1 and 2, clock to 3, one callback that removes
its own timer, both executors): `TypeOK`, `NothingLost` (each timer is in the
heap and due exactly one period after it was last due, or accounted for),
`PassCatchesUp`, `ImplementsAlarms`, `DueFires`, `RemovalReturns`. Clock 3 lets
a timer of wait 1 be due twice before a pass looks, so that catching up and
drift are seen; two timers are what an order in the heap needs.

Fairness is weak: `run()` goes on, the clock moves, a call that finds the lock
free for good takes it. `run()` gives `_timer_lock` up between passes and takes
it again at once, and `std::mutex` promises the others nothing: while `run()`
spins, `remove_timer` may starve, and no property says otherwise. So
`RemovalReturns` is stated of the time after `stop()`, when `run()` leaves the
lock alone; that `stop()` is seen at the end of a pass and that a pass ends are
what it rests on. `DueFires` needs nothing but `run()` itself. Both exempt one
state, `WaitsForItself`: a callback under the default executor that has called
`remove_timer` waits for the lock of its own thread.

Bounded or left out: `MaxCallers = 1` keeps two calls of `create_timer` apart
(otherwise they can get one id, :65); wait 0 (a periodic one never lets a pass
end); `ExecutorGiven = TRUE` (the constructor then leaves `_running` false and
`run()` returns at once, :88).

## 6. Socket_Channel

`Socket_Channel.tla` is one direction of a connection, byte by byte: a byte is
<<message, position in its frame>>, so a run can tell which one is lost.
`sender` is the peer that sends: a client pops a message, sends once and
ignores how much was taken; a server (`try_send`) keeps it at the front with
`_send_offset`. A client reads with one `read_data` task for ever, a server
with one per EPOLLIN edge, of which several may run. In `parse_message` every
access to the buffer is a step of its own. The parser does not know a head when
it sees one: :33-34 takes any four bytes for a length, and :42-50 decodes and
hands on whatever fills it. So `TakeHead` sets the length of the frame whose
head is there, and otherwise any (`LengthsRead`; one value above `BufferSize`
stands for all that no buffer holds); `TakeBody` delivers the message whose
body is there, and otherwise something nobody wrote (`Garbage`), unless
`decode_string` throws (`"garbled"`). What else ends the process is a dequeue of
more than there is (`"underflow"`) and an enqueue of what does not fit
(`"overflow"`); the buffer is the queue that `Buffer` was proved to implement.
History variables: `start` says where each frame begins in the stream of all
that were pushed, so that every byte has a place in that stream (`Place`),
wherever it is; `truncated`, that a client's send took part of a frame;
`overlapped`, that two `read_data` tasks ran at once.

| Run | Instance | Shows |
|---|---|---|
| `channel` | both senders, 3 messages, 2 readers, head 2, buffer 5, socket 4, cuts anywhere | `TypeOK`, `StreamExact`, `WholeUntilCut`, `DeliveredInOrder`, `DeliveredOnce`, `ImplementsChannel` |
| `channel_live` | server to client, 2 messages, buffer 5, socket 5, cuts anywhere | `EveryMessageArrives` |

Bounds: frames of 3 and 4 bytes with a head of 2 give every way to cut head
and body; a socket of 4 is full after the longer frame, or takes a byte of it
after the shorter, so that sends are cut and refused; a buffer of 5 overflows.
Two messages are one boundary, which is what framing is about; the third is
there for a stream that goes on behind a cut frame. What bytes out of step can
be taken for has no end, so `FirstGarbage` bounds the run: at most one task
waits, the third message is pushed last, a stream that overlapping tasks read is
followed for two messages, up to its first garbage or cut frame, any other up to
its second garbage. (The proofs have no such bounds.) Fairness: a writer goes on (weak: each takes the lock once), TCP
delivers, the reactor polls, a reader goes on.

Conditions in the properties are conditions in the code: `StreamExact` is of a
server's sending (a client drops the rest of a partial send), and an overflow
ends the process. `WholeUntilCut` is of both senders: as long as no frame was
cut and no tasks overlapped, everything decoded is a message somebody wrote,
even behind requests a client lost whole to EAGAIN, and nothing throws but an
overflow; the run reaches garbage by a cut and by an overlap, and these are the
only ways. `DeliveredInOrder` excludes overlapping tasks, which swap messages,
and allows garbage between messages. `DeliveredOnce` has no condition: what is
delivered out of step is garbage, or a whole body that was not delivered
before. `EveryMessageArrives` excludes two ways
to get stuck for ever, each named by an operator: `StuckInBody`, a body that is
not all there (:40 has no way out of the loop, and nobody else reads), and
`StuckInQueue`, a socket that was full (nobody handles EPOLLOUT). TLC reaches
both; the property says there is no third.

`Message_Channel.tla` is the promise to the two peers: every message is written
once, and delivered at most once, in the order of the writes while one thread
has read at a time (`readByOne`, mapped to `~overlapped`), and as the very next
one from a sender that keeps what is not sent (`kept`, mapped to a server's
sending). Something nobody wrote (`DeliverGarbage`) comes only when the channel
is no longer `intact`: that is, after an overlap or a cut frame. `ImplementsChannel` maps `written` to `pushed`; it adds to the
invariants that nothing but `front_pop` delivers and nothing is taken back, and
that each delivery was due at its step. The six properties of `channel` are
proved for every size (section 11).

## 7. Rpc_Client

`Rpc_Client.tla`: `call` (register, queue, test `_running`, send, wait), the
response callback, heartbeats as calls made on a pool thread, and `Tcp_Client`'s
`read_data` with `errno` and the two steps of `disconnect`. Requests and
responses are whole messages. The server is external: it answers each request
once, with a value or an error, in any order, and may close.

The callers share the channel's send queue (`send_messages`). A call queues its
request (`PushRequest`) before it takes the lock and tests `_running`; a refused
one stays queued (`RefuseSend`). Who has the lock sends what is in front,
whosever it is, until the queue is empty (`SendRequest`, `EndSend`); when a send
fails the request in front is gone and the sender throws (`FailSend`), although
its own may be out, while the call whose request it was goes on to wait for an
answer that never comes. Neither is excluded by a property, and both are hazards.
What holds is `AnswerFindsCall`: a response finds its promise, whoever sent the
request and whether or not the caller has thrown, and a call that waits has its
request out of the queue.

Run `client` (three calls, one a heartbeat: one answered by a value, one by an
error, one late): `TypeOK`, `AnswerFindsCall`,
`ResultIsAnswer`, `DisconnectsAtEnd`, `AnsweredCallEnds`, `LateCallRefused`.
Fairness: weak, for callers, who hold the send lock once each, and for the
reader the pool started; nobody has to answer, close or
stop. `Connect` once per object, as `run()` is used.

`errno` is a variable because `Tcp_Client.cpp:93` tests it after a read that
succeeded: a thread whose `errno` happens not to be EAGAIN drops its first
response and disconnects. `DisconnectsAtEnd` is therefore stated of connections
that have brought a response, for which it holds: `errno` is EAGAIN from then on.

## 8. Data_Stream, Rpc_Call

`Data_Stream.tla` has the streams as values: memory, size, position and the two
byte orders (`is_big_endian`, which travels with a stream, and the machine's).
A type is a kind with the types inside it; `Written` and `Read` are `operator<<`
and `operator>>` by type. `Encoded`, what a value is written as, and `Decoded`,
what a read finds at each position, are functions on the values and types a
program has, each with its parts (`Given`, `Types`; `Nesting` is how deep the
parts go), so that proofs can unfold them. What the code does on a mismatch is
kept: a wrong tag is left in place, but a class reads its tag away first
(`enable_serializable.h:27`), a container does not look whether its elements
could be read and `read_args` stops at the first that could not (`InARow`);
`load` copies over what is there and does not resize. A position beyond the
memory is a read that ran off it. A length that cannot be read leaves a local
unset, which the model takes for a huge one (`HugeLength`, more than anything
that is written has).

`Rpc_Call.tla` is one call as data, each argument written and read a step:
the client writes the arguments last to first into `params`, a stream which is
itself a field of the request; the server looks the method up, reads the
arguments in the order its compiler evaluates `get<Args>()...` (`RightToLeft`),
applies any function of that type or throws, and answers with a stream within
a stream again. `Local_Call.tla` is the promise.

Run `call`: every list of up to two types out of twelve samples (each scalar, a
string, each container, a map of sets, a list of vectors, a class in a class),
each called rightly, with a wrong type in second place, with an argument
missing, by an unknown name, between two machines of either byte order and a
mixed pair. Bytes in the samples are tags elsewhere. Two arguments are what an
order is; a third would repeat the second's boundary.

- `ReadsInStep`: before each read the stream holds exactly what is still to
  come. It needs the order of evaluation of GCC, right to left: with
  `RightToLeft = FALSE` (other compilers) TLC refutes it and
  `ImplementsLocalCall` with two arguments of different types.
- `ImplementsLocalCall`: a well-matched remote call is a call. Peers of
  different byte orders are not well matched: `params` brings its sender's
  `is_big_endian` and is read by it, so numbers arrive reversed. The run has
  such pairs; the property is not stated of them.
- `StaysInData`: no wrong argument makes the server read beyond the request,
  where no class is expected; the tag a class takes shifts what follows.

`Errors` has no empty text: an exception whose `what()` is empty is taken for
success by the client.

## 9. Tcp_Server

`Tcp_Server.tla` composes the server with its users: the main thread
(`acceptor`: accept, epoll, maps, `create_user`, each a step), the reactors'
`CommitRead`, readers, and the inactivity check, which is an actor of its own
(`Checker`). `at[a]` is where an actor is:

| `at` | in the code |
|---|---|
| `read` | `read_data`, before `read` |
| `heartbeat` | the read callback, before `update_heartbeat` |
| `arm`, `send`, `rearm` | `write_data`: `mod_fd` for EPOLLOUT, `try_send`, `mod_fd` back |
| `remove`, `erase`, `close`, `forget` | `close_connection`: `remove_fd`, the two maps, `close`, the disconnect callback |

An edge is epoll's: it comes when something arrives, and when a readable
descriptor is added or modified; a `close` takes it away. A descriptor is the
lowest free number, as the kernel gives it. A reader holds what it looked up
(`channel`) across its steps. Times are ages, counted to `2 * Timeout + 1`,
beyond which nothing tells them apart; the clock stands still while a check is
due or at work, because a pool that is behind would make every bound on time
void.

The code does not protect its four records of a connection from each other's
users. What can come between is recorded in `mishaps`, and each is a hazard:
`early` (a connection read before the main thread has entered it), `double`
(closed under another user of the descriptor), `gone` (a reply that fails, after
which `read_data` goes on with the closed descriptor), `limit` (no descriptor
left: the loop calls `accept4` again after it has given the last one, and that
throws, client or no client) and `reuse` (a descriptor given away while the old connection's is in
use). `down` is what then ends the process: an exception out of epoll's wrapper
or of `accept`, or a null channel or user.

Run `server` (two connections that want one descriptor, two readers, a timeout
of 2, one request each): `TypeOK`; `FallsOnlyToMishaps`, that nothing else ends
the process; `RegistryExact`, that epoll, both maps and the users agree about
each descriptor nobody is accepting or closing; `EvictedInTime` (within two
periods, as `RpcClientTest.cpp` expects) and `EvictsOnlySilent` for the
inactivity check; and `GoneClientForgotten`, that the edge of a client's leaving
is not lost. One descriptor is the fewest for which reuse, a full table and two
closers occur; descriptors meet only in the check's list. Two reactors make a
location of 0 and one that is not. `UntilReuse` cuts behaviours at the first
`reuse`: of what follows only `TypeOK` says anything, which is proved for all
behaviours; a behaviour that comes to a `reuse` satisfies the others by their
conditions, `GoneClientForgotten` included. Fairness: weak, for every thread of
the server, the main thread while a client waits or is being entered; clients and the clock need do nothing.

Left out: what an unsynchronised `std::unordered_map` does when it is torn (each
access is a step), a reply that meets a full socket and overlapping parses
(`Socket_Channel` has both), and `num_workers` 0.

## 10. Where code and documents part

One run expects a violation: `pool_stranded`. A retirement whose `notify_one`
found no waiter is paid by the thread the next `commit` wakes; it exits without
taking the task, and the task waits with all threads asleep.

What else differs from what one would expect is a named condition of a property
that holds outside it, and stands in "hazards" with its line: the spin in
`parse_message` on an incomplete body and the missing EPOLLOUT (`StuckInBody`,
`StuckInQueue`), the test of `errno` after a successful read
(`DisconnectsAtEnd`), the client's partial send, after which the server may
be given a message nobody wrote (`WholeUntilCut`), overlapping readers, a thread
that retires while the pool is destroyed (`DestroyedIsQuiet`), `remove_timer`
beside a `run()` that spins (`RemovalReturns`), the server's five mishaps, the byte order and the class tag of `Data_Stream`. Others
are reached by the same modules under other constants: the early reduction in
`init_thread_pool`, the shared timer id, a timer constructed with an executor,
the order in which arguments are evaluated.

## 11. What is proved

TLAPS checks the proofs to the last leaf, for every value of the constants that
meets the module's assumption.

`Thread_Pool_proofs.tla`, from `PoolAssumption` (finite ids, sizes far below the
word, task sets that are subsets):

- `TypeCorrect`, `CountersCorrect` (`CountersExact`), `PoolIsExecutor`
  (`ImplementsExecutor`).
- `QuietDestruction` (`DestroyedIsQuiet`): who is not joined has at least erased
  itself, wherever the walk stood.
- `ThreadNumCorrect`: `ThreadNumExact` when a batch or the floor is at most 5
  threads. Then no reduction can begin before the constructor's last thread is
  counted, and its unlocked increment races nobody.
- `FloorAfterQuietStart`: `KeepsMinThread` when a batch is no more than the floor
  and the daemon decides on no reduction before the constructor has returned;
  `FloorKept`: the same without the second condition when a batch is at most 5.
- `CeilingKept`: `KeepsMaxThread` under the condition of `ThreadNumCorrect`: the
  daemon's test bounds `_threadNum`, which has to be the number of threads for
  that to bound them too.

The argument. No counter is right by itself, so the invariant is built in
layers: `ShapeInv` says where the constructor is in its loop and that a thread
that runs, runs a task; `CountersExact` is inductive on top of it, by
cardinality lemmas (`CountThreads`) that say what moving one thread between two
states does to a count; `RegisteredInv` says which threads are in `_threads`
(all but the one the constructor has started and not yet emplaced, and those
that have erased themselves), without which the join in the destructor would prove nothing; `OnceInv` says a task is
queued once or run by one thread, without which a step of the pool would not be
a step of the executor; `SizeInv` says which threads `_threadNum` counts at each
point of the constructor; `QuietStart` is the absence of early retirements.

`Buffer_proofs.tla`, from `BufferAssumption` and `TriviallyCopyable`:
`BufferTypeCorrect` and `BufferIsFifo` (`ImplementsFifo`) for every capacity and
every set of batches. `TypeOK`, of which `EndsMeet` is a part, is inductive; the
steps reduce to lemmas on indices modulo the
capacity.

`Timer_proofs.tla`, from `TimerAssumption` (finitely many requests, positive
waits): `TimerTypeCorrect`, `NoTimerLost` (`NothingLost`) and `PassesCatchUp`
for any number of overlapping callers, and `TimersAreAlarms`
(`ImplementsAlarms`) when `MaxCallers = 1`. `NothingLost` says where each
timer is, but not that the heap holds nothing else, nor that two entries are
never of one timer; `CallInv` (how far each call has come), `IdInv` (ids and `_nextID` against the
number of requests stored) and `HeapInv` (every handler is the next one of its
request, one of each) make it inductive. `PassCatchesUp` needs the order of the
heap: a top exists and has the least `next`, as the naturals are well-ordered. The refinement needs that
ids are unique (`UniqueInv`), which is where overlapping callers would break it.

`Rpc_Client_proofs.tla`, for every set of calls: `ClientTypeCorrect`,
`AnswersExpected` (`AnswerFindsCall`), `ResultsCorrect` (`ResultIsAnswer`), `DisconnectsCorrectly` (`DisconnectsAtEnd`), `LateCallsRefused`
(`LateCallRefused`). The core is `FlightInv`: the responses on the wire and in
the reader's hand are of distinct calls that still wait, with the answer the
server gave, which needs lemmas on sequences without repetitions; `CallInv`
relates the caller, its promise and the server; `QueueInv` says whose
requests can be in the send queue, each once, and none that is out already;
`ReaderInv` says what `errno`
must be once a response was delivered.

`Tcp_Server_proofs.tla`, from `ServerAssumption`, for any number of
connections, descriptors, reactors and readers, and without `UntilReuse`:

- `ServerTypeCorrect`.
- `RegistryKept` (`RegistryExact`). It is not inductive, as it says nothing of a
  descriptor on its way in or out. `RegInv` adds both: `Entering` (which of the
  four places have it after each step of the main thread, and that nobody
  uses it yet) and `Leaving` (which still have it after each step of
  `close_connection`, and that only one thread is that far, because the first
  took it out of epoll and the second would have fallen there).
- `SilentAreEvicted` (`EvictedInTime`): the age of a live connection and the
  time to the next check add up to no more than two periods, unless the check
  has it in its list or in hand, while which the clock stands still.
- `OnlySilentAreEvicted` (`EvictsOnlySilent`), from both.
- `NoMishapNoFall` (`FallsOnlyToMishaps`): whoever works with a descriptor
  finds a connection there (`Serving`), and whoever closes one is alone with it
  (`Alone`), so with `RegInv` every lookup finds what it looks for.

`Socket_Channel_proofs.tla`, from `ChannelAssumption`, for any messages and
lengths, any sizes of head, buffer and socket and any number of readers:

- `ChannelTypeCorrect`.
- `NoByteLost` (`StreamExact`). The invariant, `ChannelInv`, is about a server
  and its client: the queue is the tail of what was pushed (`QueueInv`) and the
  frames lie one behind the other (`PushInv`); the messages parsed are the first
  of them, and the length that was read is the next one's (`ParseInv`); buffer,
  chunk and wire are the bytes between parser and sender, place by place
  (`StreamInv`); and what the only reader saw before it let go of a lock still
  holds (`SeenInv`).
- `FramesKept` (`WholeUntilCut`). `FramesInv`: until a cut or an overlap, what
  lies before the parser begins with a head, or with the body of the length that
  was read, and goes on frame by frame (`Framed`); and what the reader saw of it
  before it let go of a lock still holds (`SeenBy`). Requests a client lost whole
  leave no trace in it.
- `ParsedOnlyOnce` (`DeliveredOnce`), for either sender and any number of
  readers at once, in a stream that may be out of step. `BytesInv`: no place is twice in buffer, chunks and wire, all
  of them were sent (`Frontier`), and a parsed message is marked by the place of
  its body's first byte, which is in none of them any more.
- `OrderOfDelivery` (`DeliveredInOrder`). `OneReader`: until two tasks overlap,
  those places are also in order, and the marks of what was parsed before them.
- `ChannelRefinement` (`ImplementsChannel`). `PushMessage` maps to `Write`,
  `DeliverMessage` to `Deliver`, all other steps to a stutter. What is popped is
  the first message parsed and not delivered (`FrontOf`): `ParsedOnce` says that
  it is none of those before it, `OneReader` that its frame begins after theirs,
  so it was written after them (`BeginsBefore`), and `ParseInv` that from a
  server it is the next. Garbage maps to `DeliverGarbage`, which `FramesInv`
  allows only after a cut or an overlap (`GarbageMaps`).

`Data_Stream_proofs.tla`, from `DataAssumption` (finitely many well-formed types,
values with their parts, nothing longer than a length can say), about every type
and value:

- `RoundTrip`: a value that stands in a stream is read from there as it was
  written, and the read ends where the value does. By induction on `Nesting`:
  `Layout` says that behind the header of a value stand its parts, `RowReads`
  that reads in a row find what stands in a row, `Gathered` that what a loop
  collects is the container that was written (for a map, that the last of equal
  keys counts and there are no equal keys).
- `ReadKeeps`: a read of a type with no class in it, whatever stands there,
  takes at most one of the values that are ahead. This is what a wrong type
  cannot break: a tag that is another's is left in place, and one that is the
  same is followed by a value of the same kind, whose parts are as many
  (`AheadParts`). A class takes a byte in any case, hence the restriction.

The functions are recursive, so each is first shown to satisfy its equation
(`EncodedEquation`, `DecodedEquation`): by induction on the depth there is a
function that does, and CHOOSE then gives one.

`Rpc_Call_proofs.tla`, from `CallAssumption` as well, for every set of calls and
methods and every type of parameter and result:

- `Invariance`: `IInv`, which follows the bytes. `LaidOut` says where each
  argument stands in the stream, the last one first; `InvSent` and `InvAnswered`
  that the packet is the request, or the response, as it is written between like
  machines; `InvRead` that the position is where the next argument stands and
  that `received` has those behind it; `InvAhead` that where no class is expected
  at least as many values are ahead as there are reads left; `InvResponse` that
  the response has what the function did.
- `DataSafety` (`StaysInData`), from `InvAhead`, in either order of evaluation.
- `InStepAlways` (`ReadsInStep`) and `CallRefinement` (`ImplementsLocalCall`),
  which need `RightToLeft`: for the other order they are false, see section 8.

Only model-checked: liveness (`CommittedTaskStarts`, `DestructorReturns`,
`ShrinksBack`, `DueFires`, `RemovalReturns`, `EveryMessageArrives`,
`AnsweredCallEnds`, `GoneClientForgotten`), because fairness and ENABLED are
beyond the prover. Every other property of a passing run is stated by a theorem,
some under the conditions given above.

## 12. What is not modelled, and why

- `Thread_Pool_Monitor`: a loop that prints counters; nothing depends on what
  it reads.
- The destructor of `Rpc_Client`, marked as unfinished in the code: it does not
  wait for the two pool tasks that use the object, so that what follows is a
  matter of memory.
- `Compression`: a pure conversion by Brotli; its length is part of a message's
  length. `Singleton`, `ID_Genertor`, `prg_cfg`: no state of their own; UUIDs are
  distinct in the model.
- The setting up of the listening socket, before anything else runs.
- Socket options, address parsing, printing: no property depends on them.
- Memory: lifetimes of the objects a detached task refers to, and data races
  other than those named above.

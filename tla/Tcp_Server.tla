----------------------------- MODULE Tcp_Server -----------------------------
(***************************************************************************)
(* Core/Tcp_Server.{h,cpp} under RPC/Rpc_Server.cpp and                    *)
(* RPC/Rpc_User_Manager.{h,cpp}: the life of a connection.  The main       *)
(* thread accepts it, pool threads read, answer and close it, the          *)
(* inactivity check of the timer closes it when its user has been silent.  *)
(* They share _fd_location and _channels, which no lock guards, and the    *)
(* descriptor, a number the kernel gives away again once it is closed.     *)
(* A request is read whole (Socket_Channel has the bytes); what it asks    *)
(* for is Rpc_Call's matter.                                               *)
(***************************************************************************)
EXTENDS Integers, FiniteSets

CONSTANTS
    Connections,    \* the connections clients make, each once
    Fds,            \* the descriptors the kernel has for them
    SubReactors,    \* num_workers
    Readers,        \* pool threads that may run read_data
    Timeout,        \* HEARTBEAT_TIMEOUT, the period of the check too
    MaxRequests,    \* bound: requests of one connection
    MaxTasks,       \* bound: read_data tasks in the pool for one descriptor
    Checker, NoConnection, NoUser

ASSUME ServerAssumption ==
    /\ Fds \subseteq Nat
    /\ SubReactors \in Nat \ {0}
    /\ Timeout \in Nat \ {0}
    /\ MaxRequests \in Nat /\ MaxTasks \in Nat
    /\ Checker \notin Readers
    /\ NoConnection \notin Connections /\ NoUser \notin Nat

VARIABLES
    client,         \* each connection: none yet, connected, left by its
                    \* client, closed by the server
    requests, unread,   \* requests each has sent, and those not yet read
    open,           \* the connection each open descriptor is of
    registered, event,  \* the descriptors in an epoll; those with EPOLLIN due
    tasks,          \* read_data tasks the pool has not started, by descriptor
    fd_location,    \* _fd_location, 0 where operator[] would insert
    channels,       \* _channels, NoConnection where it is null or missing
    users,          \* _user_store: the time since each user's last update
    acceptor,       \* where the main thread is, and with which descriptor
    at, fd,         \* where a reader or the check is, with which descriptor
    channel,        \* the channel a reader looked up
    afterClose,     \* where close_connection will return to
    listed,         \* inactive users the check has still to close
    nextCheck,      \* the time until the check is due
    down,           \* what ended the process, if anything did
    heard,          \* history: the time since the connection of a descriptor
                    \* was accepted or last heard
    mishaps         \* history: what came between two users of a descriptor

clientVars == <<client, requests, unread>>
kernelVars == <<open, registered, event>>
mapVars == <<fd_location, channels>>
userVars == <<users, heard>>
threadVars == <<at, fd, channel, afterClose>>
clockVars == <<nextCheck, listed>>
vars == <<clientVars, kernelVars, mapVars, userVars, threadVars, clockVars,
          mishaps, tasks, acceptor, down>>

Actors == Readers \cup {Checker}
Idle(a) == at[a] = "idle"
Up == down = "no"

Init ==
    /\ client = [c \in Connections |-> "none"]
    /\ requests = [c \in Connections |-> 0]
    /\ unread = [c \in Connections |-> 0]
    /\ open = [f \in Fds |-> NoConnection]
    /\ registered = {} /\ event = {}
    /\ tasks = [f \in Fds |-> 0]
    /\ fd_location = [f \in Fds |-> 0]
    /\ channels = [f \in Fds |-> NoConnection]
    /\ users = [f \in Fds |-> NoUser]
    /\ acceptor = [at |-> "accept", fd |-> 0, of |-> NoConnection]
    /\ at = [a \in Actors |-> "idle"]
    /\ fd = [a \in Actors |-> 0]
    /\ channel = [a \in Actors |-> NoConnection]
    /\ afterClose = [a \in Actors |-> "idle"]
    /\ listed = {} /\ nextCheck = Timeout
    /\ down = "no"
    /\ heard = [f \in Fds |-> 0]
    /\ mishaps = {}

-----------------------------------------------------------------------------
(* Who else uses a descriptor: the acceptor until create_user, a thread in  *)
(* read_data or close_connection, a task not yet started, the check's list. *)

Accepting(f) == acceptor.at # "accept" /\ acceptor.fd = f
Held(f, others) == tasks[f] > 0 \/ \E a \in others : ~Idle(a) /\ fd[a] = f
Used(f, others) == Held(f, others) \/ f \in listed

\* early: a task to read a connection that is still being accepted;
\* double: a close while others use the descriptor, or a use while it closes;
\* reuse: a descriptor given to a new connection while the old one's is in use;
\* gone: a reply that failed, for its client had left or its descriptor was closed;
\* limit: a client and no descriptor for it.
Note(happened, mishap) == mishaps' = IF happened THEN mishaps \cup {mishap} ELSE mishaps

ClosesNow(a) == at[a] \in {"remove", "erase", "close", "forget"}

-----------------------------------------------------------------------------
(* The clients and the kernel                                               *)

Serves(f) == open[f] # NoConnection
FdsOf(c) == {f \in Fds : open[f] = c}
Raise(c) == event' = event \cup (FdsOf(c) \cap registered)

Connect(c) ==
    /\ Up /\ client[c] = "none"
    /\ client' = [client EXCEPT ![c] = "connected"]
    /\ UNCHANGED <<requests, unread, kernelVars, mapVars, userVars, threadVars,
                   clockVars, mishaps, tasks, acceptor, down>>

SendRequest(c) ==
    /\ Up /\ client[c] = "connected" /\ requests[c] < MaxRequests
    /\ requests' = [requests EXCEPT ![c] = @ + 1]
    /\ unread' = [unread EXCEPT ![c] = @ + 1]
    /\ Raise(c)
    /\ UNCHANGED <<client, open, registered, mapVars, userVars, threadVars,
                   clockVars, mishaps, tasks, acceptor, down>>

Leave(c) ==
    /\ Up /\ client[c] = "connected"
    /\ client' = [client EXCEPT ![c] = "left"]
    /\ Raise(c)
    /\ UNCHANGED <<requests, unread, open, registered, mapVars, userVars,
                   threadVars, clockVars, mishaps, tasks, acceptor, down>>

\* Times are counted up to where nothing tells them apart any more.  They stand
\* still while a check is due or at work: the pool is not behind.
Long == 2 * Timeout + 1
Older(age) == IF age = Long THEN Long ELSE age + 1

Tick ==
    /\ Up /\ nextCheck > 0 /\ listed = {} /\ Idle(Checker)
    /\ nextCheck' = nextCheck - 1
    /\ users' = [f \in Fds |-> IF users[f] = NoUser THEN NoUser ELSE Older(users[f])]
    /\ heard' = [f \in Fds |-> IF Serves(f) THEN Older(heard[f]) ELSE heard[f]]
    /\ UNCHANGED <<listed, clientVars, kernelVars, mapVars, threadVars, mishaps,
                   tasks, acceptor, down>>

-----------------------------------------------------------------------------
(* The main thread: handle_new_connections                                  *)

Lowest(S) == CHOOSE f \in S : \A g \in S : f <= g

Pending(c) == client[c] \in {"connected", "left"} /\ FdsOf(c) = {}
FreeFds == {f \in Fds : ~Serves(f)}

Accept(c) ==
    /\ Up /\ acceptor.at = "accept" /\ Pending(c) /\ FreeFds # {}
    /\ LET f == Lowest(FreeFds) IN
        /\ open' = [open EXCEPT ![f] = c]
        /\ acceptor' = [at |-> "add", fd |-> f, of |-> c]
        /\ heard' = [heard EXCEPT ![f] = 0]
        /\ Note(Used(f, Actors), "reuse")
    /\ UNCHANGED <<clientVars, registered, event, mapVars, users, threadVars,
                   clockVars, tasks, down>>

\* accept4 fails with EMFILE, whether a client waits or not, and the loop calls
\* it again after it has given the last descriptor: that exception leaves run().
AcceptFails ==
    /\ Up /\ acceptor.at = "accept" /\ FreeFds = {}
    /\ down' = "accept" /\ Note(TRUE, "limit")
    /\ UNCHANGED <<clientVars, kernelVars, mapVars, userVars, threadVars,
                   clockVars, tasks, acceptor>>

\* Mutant: the index counts from one.
ReactorOf_FromOne(f) == (f % SubReactors) + 1
ReactorOf(f) == f % SubReactors

\* What a level that is already high does when the descriptor is added or
\* modified: the edge comes at once.
Readable(f) ==
    /\ Serves(f)
    /\ unread[open[f]] > 0 \/ client[open[f]] = "left"
\* Mutant: only what arrives later makes an edge.
Armed_Never(f) == event
Armed(f) == IF Readable(f) THEN event \cup {f} ELSE event

AddFd ==
    /\ Up /\ acceptor.at = "add"
    /\ registered' = registered \cup {acceptor.fd}
    /\ event' = Armed(acceptor.fd)
    /\ acceptor' = [acceptor EXCEPT !.at = "enter"]
    /\ UNCHANGED <<open, clientVars, mapVars, userVars, threadVars, clockVars,
                   mishaps, tasks, down>>

EnterMaps ==
    /\ Up /\ acceptor.at = "enter"
    /\ fd_location' = [fd_location EXCEPT ![acceptor.fd] = ReactorOf(acceptor.fd)]
    /\ channels' = [channels EXCEPT ![acceptor.fd] = acceptor.of]
    /\ acceptor' = [acceptor EXCEPT !.at = "announce"]
    /\ UNCHANGED <<clientVars, kernelVars, userVars, threadVars, clockVars,
                   mishaps, tasks, down>>

\* Mutant: a connection gets no user.
CreateUser_Not ==
    /\ Up /\ acceptor.at = "announce"
    /\ acceptor' = [acceptor EXCEPT !.at = "accept"]
    /\ UNCHANGED <<clientVars, kernelVars, mapVars, userVars, threadVars, clockVars,
                   mishaps, tasks, down>>
CreateUser ==
    /\ Up /\ acceptor.at = "announce"
    /\ users' = [users EXCEPT ![acceptor.fd] = 0]
    /\ heard' = [heard EXCEPT ![acceptor.fd] = 0]
    /\ acceptor' = [acceptor EXCEPT !.at = "accept"]
    /\ UNCHANGED <<clientVars, kernelVars, mapVars, threadVars, clockVars,
                   mishaps, tasks, down>>

-----------------------------------------------------------------------------
(* sub_reactor_run: an edge becomes a task                                  *)

Closing(f, others) == \E a \in others : ClosesNow(a) /\ fd[a] = f

CommitRead(f) ==
    /\ Up /\ f \in event /\ tasks[f] < MaxTasks
    /\ event' = event \ {f}
    /\ tasks' = [tasks EXCEPT ![f] = IF Readable(f) THEN @ + 1 ELSE @]
    /\ mishaps' = mishaps \cup (IF Accepting(f) /\ Readable(f) THEN {"early"} ELSE {})
                          \cup (IF Closing(f, Actors) THEN {"double"} ELSE {})
    /\ UNCHANGED <<open, registered, clientVars, mapVars, userVars, threadVars,
                   clockVars, acceptor, down>>

-----------------------------------------------------------------------------
(* A reader: read_data, and the reply to what it reads                      *)

Goto(a, place) == at' = [at EXCEPT ![a] = place]
\* A task that ends takes its local variables with it.
TaskEnds(a) ==
    /\ Goto(a, "idle")
    /\ fd' = [fd EXCEPT ![a] = 0]
    /\ channel' = [channel EXCEPT ![a] = NoConnection]
    /\ UNCHANGED afterClose
Fall(cause) == down' = cause

\* read_data: _channels[fd], whatever is there.
StartTask(r, f) ==
    /\ Up /\ Idle(r) /\ tasks[f] > 0
    /\ tasks' = [tasks EXCEPT ![f] = @ - 1]
    /\ fd' = [fd EXCEPT ![r] = f]
    /\ channel' = [channel EXCEPT ![r] = channels[f]]
    /\ Goto(r, "read")
    /\ UNCHANGED <<afterClose, clientVars, kernelVars, mapVars, userVars,
                   clockVars, mishaps, acceptor, down>>

BeginClose(a, next) ==
    /\ Goto(a, "remove")
    /\ afterClose' = [afterClose EXCEPT ![a] = next]

InUse(a) == Used(fd[a], Actors \ {a}) \/ Accepting(fd[a])

\* read returns 0, or fails because the descriptor is closed.
ReadEnds(r) ==
    /\ Up /\ at[r] = "read"
    /\ Serves(fd[r]) => unread[open[fd[r]]] = 0 /\ client[open[fd[r]]] = "left"
    /\ BeginClose(r, "idle")
    /\ Note(InUse(r), "double")
    /\ UNCHANGED <<fd, channel, clientVars, kernelVars, mapVars, userVars,
                   clockVars, tasks, acceptor, down>>

\* A request: into the channel's buffer, and out of it again by parse_message.
ReadRequest(r) ==
    /\ Up /\ at[r] = "read" /\ Serves(fd[r])
    /\ unread[open[fd[r]]] > 0
    /\ unread' = [unread EXCEPT ![open[fd[r]]] = @ - 1]
    /\ IF channel[r] = NoConnection
        THEN Fall("no channel") /\ UNCHANGED at
        ELSE Goto(r, "heartbeat") /\ UNCHANGED down
    /\ UNCHANGED <<fd, channel, afterClose, client, requests, kernelVars, mapVars,
                   userVars, clockVars, mishaps, tasks, acceptor>>

\* EAGAIN, and the last parse_message.
ReadDone(r) ==
    /\ Up /\ at[r] = "read" /\ Serves(fd[r])
    /\ unread[open[fd[r]]] = 0 /\ client[open[fd[r]]] # "left"
    /\ IF channel[r] = NoConnection
        THEN Fall("no channel") /\ UNCHANGED threadVars
        ELSE TaskEnds(r) /\ UNCHANGED down
    /\ UNCHANGED <<clientVars, kernelVars, mapVars,
                   userVars, clockVars, mishaps, tasks, acceptor>>

\* _user_store[fd]->update_heartbeat()
UpdateHeartbeat(r) ==
    /\ Up /\ at[r] = "heartbeat"
    /\ IF users[fd[r]] = NoUser
        THEN Fall("no user") /\ UNCHANGED <<at, userVars>>
        ELSE /\ users' = [users EXCEPT ![fd[r]] = 0]
             /\ heard' = [heard EXCEPT ![fd[r]] = 0]
             /\ Goto(r, "arm") /\ UNCHANGED down
    /\ UNCHANGED <<fd, channel, afterClose, clientVars, kernelVars, mapVars,
                   clockVars, mishaps, tasks, acceptor>>

\* What epoll_ctl finds in the reactor _fd_location names (0 when it has none).
InEpoll(f) == f \in registered /\ fd_location[f] = ReactorOf(f)

Modify(r, next) ==
    /\ IF InEpoll(fd[r])
        THEN event' = Armed(fd[r]) /\ Goto(r, next) /\ UNCHANGED down
        ELSE Fall("epoll") /\ UNCHANGED <<event, at>>
    /\ UNCHANGED <<open, registered, fd, channel, clientVars, mapVars,
                   userVars, clockVars, tasks, acceptor>>

\* The send callback: EPOLLOUT is asked for.
ModifyForSend(r) ==
    /\ Up /\ at[r] = "arm"
    /\ Modify(r, "send")
    /\ UNCHANGED <<afterClose, mishaps>>

\* try_send, under the channel's lock until the callback returns.
Sends(r) == at[r] = "rearm" \/ (ClosesNow(r) /\ afterClose[r] = "read")
SendLockFree(r) ==
    \A x \in Readers \ {r} : Sends(x) => channel[x] # channel[r]

SendReply(r) ==
    /\ Up /\ at[r] = "send" /\ SendLockFree(r)
    /\ Serves(fd[r])
    /\ Goto(r, "rearm")
    /\ UNCHANGED <<fd, channel, afterClose, clientVars, kernelVars, mapVars,
                   userVars, clockVars, mishaps, tasks, acceptor, down>>

SendFails(r) ==
    /\ Up /\ at[r] = "send" /\ SendLockFree(r)
    /\ Serves(fd[r]) => client[open[fd[r]]] = "left"
    /\ BeginClose(r, "read")
    /\ mishaps' = mishaps \cup {"gone"} \cup (IF InUse(r) THEN {"double"} ELSE {})
    /\ UNCHANGED <<fd, channel, clientVars, kernelVars, mapVars, userVars,
                   clockVars, tasks, acceptor, down>>

\* The queue is empty: EPOLLOUT is given up, and read_data goes on.
ModifyAfterSend(r) ==
    /\ Up /\ at[r] = "rearm"
    /\ Modify(r, "read")
    /\ UNCHANGED <<afterClose, mishaps>>

-----------------------------------------------------------------------------
(* close_connection, by a reader or by the check                            *)

RemoveFd(a) ==
    /\ Up /\ at[a] = "remove"
    /\ IF InEpoll(fd[a])
        THEN /\ registered' = registered \ {fd[a]}
             /\ event' = event \ {fd[a]}
             /\ Goto(a, "erase") /\ UNCHANGED down
        ELSE Fall("epoll") /\ UNCHANGED <<registered, event, at>>
    /\ UNCHANGED <<open, fd, channel, afterClose, clientVars, mapVars,
                   userVars, clockVars, mishaps, tasks, acceptor>>

EraseMaps(a) ==
    /\ Up /\ at[a] = "erase"
    /\ fd_location' = [fd_location EXCEPT ![fd[a]] = 0]
    /\ channels' = [channels EXCEPT ![fd[a]] = NoConnection]
    /\ Goto(a, "close")
    /\ UNCHANGED <<fd, channel, afterClose, clientVars, kernelVars, userVars,
                   clockVars, mishaps, tasks, acceptor, down>>

\* The number is free again before the user is forgotten.
CloseFd(a) ==
    /\ Up /\ at[a] = "close"
    /\ IF Serves(fd[a])
        THEN LET c == open[fd[a]] IN
             /\ client' = [client EXCEPT ![c] = "closed"]
             /\ requests' = [requests EXCEPT ![c] = 0]
             /\ unread' = [unread EXCEPT ![c] = 0]
        ELSE UNCHANGED clientVars
    /\ open' = [open EXCEPT ![fd[a]] = NoConnection]
    /\ registered' = registered \ {fd[a]}
    /\ event' = event \ {fd[a]}
    /\ heard' = [heard EXCEPT ![fd[a]] = 0]
    /\ Goto(a, "forget")
    /\ UNCHANGED <<fd, channel, afterClose, mapVars, users, clockVars,
                   mishaps, tasks, acceptor, down>>

\* Mutant: the user stays.
Forget_Not(a) ==
    /\ Up /\ at[a] = "forget"
    /\ users' = users
    /\ IF afterClose[a] = "read"
        THEN Goto(a, "read") /\ afterClose' = [afterClose EXCEPT ![a] = "idle"]
                             /\ UNCHANGED <<fd, channel>>
        ELSE TaskEnds(a)
    /\ UNCHANGED <<clientVars, kernelVars, mapVars,
                   heard, clockVars, mishaps, tasks, acceptor, down>>
\* The disconnect callback: remove_user.
Forget(a) ==
    /\ Up /\ at[a] = "forget"
    /\ users' = [users EXCEPT ![fd[a]] = NoUser]
    /\ IF afterClose[a] = "read"
        THEN Goto(a, "read") /\ afterClose' = [afterClose EXCEPT ![a] = "idle"]
                             /\ UNCHANGED <<fd, channel>>
        ELSE TaskEnds(a)
    /\ UNCHANGED <<clientVars, kernelVars, mapVars,
                   heard, clockVars, mishaps, tasks, acceptor, down>>

-----------------------------------------------------------------------------
(* The inactivity check, every Timeout, on a pool thread                    *)

\* Mutants: of the comparison with HEARTBEAT_TIMEOUT.
IsActive_Less(f) == users[f] < Timeout
IsActive_More(f) == users[f] <= Timeout + 1
IsActive(f) == users[f] <= Timeout
CheckInvalidUser == {f \in Fds : users[f] # NoUser /\ ~IsActive(f)}

StartCheck ==
    /\ Up /\ nextCheck = 0
    /\ nextCheck' = Timeout
    /\ listed' = CheckInvalidUser
    /\ Note(\E f \in listed' : Closing(f, Actors), "double")
    /\ UNCHANGED <<clientVars, kernelVars, mapVars, userVars, threadVars,
                   tasks, acceptor, down>>

Evict(f) ==
    /\ Up /\ Idle(Checker) /\ f \in listed
    /\ listed' = listed \ {f}
    /\ fd' = [fd EXCEPT ![Checker] = f]
    /\ BeginClose(Checker, "idle")
    /\ Note(Held(f, Readers) \/ Accepting(f), "double")
    /\ UNCHANGED <<channel, nextCheck, clientVars, kernelVars, mapVars,
                   userVars, tasks, acceptor, down>>

-----------------------------------------------------------------------------
Clients == \E c \in Connections : Connect(c) \/ SendRequest(c) \/ Leave(c)
Enter == (\E c \in Connections : Accept(c)) \/ AddFd \/ EnterMaps \/ CreateUser
Acceptor == Enter \/ AcceptFails
Reader(r) ==
    \/ \E f \in Fds : StartTask(r, f)
    \/ ReadEnds(r) \/ ReadRequest(r) \/ ReadDone(r) \/ UpdateHeartbeat(r)
    \/ ModifyForSend(r) \/ SendReply(r) \/ SendFails(r) \/ ModifyAfterSend(r)
Close(a) == RemoveFd(a) \/ EraseMaps(a) \/ CloseFd(a) \/ Forget(a)
Check == StartCheck \/ \E f \in Fds : Evict(f)

Next ==
    \/ Clients \/ Tick \/ Acceptor \/ Check
    \/ \E f \in Fds : CommitRead(f)
    \/ \E r \in Readers : Reader(r)
    \/ \E a \in Actors : Close(a)

Spec == Init /\ [][Next]_vars

\* Every thread of the server goes on, the main thread as long as a client waits
\* or is being entered; clients and the clock need not.
Fairness ==
    /\ WF_vars(Enter \/ (AcceptFails /\ \E c \in Connections : Pending(c)))
    /\ WF_vars(Check)
    /\ \A f \in Fds : WF_vars(CommitRead(f))
    /\ \A r \in Readers : WF_vars(Reader(r))
    /\ \A a \in Actors : WF_vars(Close(a))
FairSpec == Spec /\ Fairness

-----------------------------------------------------------------------------
\* Every variable has its type, and an edge is due only of what is in epoll.
TypeOK ==
    /\ client \in [Connections -> {"none", "connected", "left", "closed"}]
    /\ requests \in [Connections -> 0..MaxRequests]
    /\ unread \in [Connections -> 0..MaxRequests]
    /\ open \in [Fds -> Connections \cup {NoConnection}]
    /\ registered \subseteq Fds /\ event \subseteq registered
    /\ tasks \in [Fds -> 0..MaxTasks]
    /\ fd_location \in [Fds -> 0..(SubReactors - 1)]
    /\ channels \in [Fds -> Connections \cup {NoConnection}]
    /\ users \in [Fds -> 0..Long \cup {NoUser}]
    /\ heard \in [Fds -> 0..Long]
    /\ at \in [Actors -> {"idle", "read", "heartbeat", "arm", "send", "rearm",
                          "remove", "erase", "close", "forget"}]
    /\ fd \in [Actors -> Fds \cup {0}]
    /\ afterClose \in [Actors -> {"idle", "read"}]
    /\ acceptor.at \in {"accept", "add", "enter", "announce"}
    /\ listed \subseteq Fds
    /\ nextCheck \in 0..Timeout
    /\ down \in {"no", "accept", "no channel", "no user", "epoll"}
    /\ mishaps \subseteq {"early", "double", "reuse", "gone", "limit"}

\* The process ends only if a connection was read before it was in the maps,
\* closed by two at once or under a reader, answered after its client had left,
\* or not accepted for want of a descriptor (the exceptions of Reactor and of
\* handle_new_connections, and the null channels and users of read_data).
FallsOnlyToMishaps == ~Up => mishaps # {}

\* Between accept and close, and only there, a descriptor is in the epoll its
\* location names, has its own channel and has a user: the four places that
\* handle_new_connections and close_connection keep in step, whoever closes.
RegistryExact ==
    mishaps \cap {"early", "reuse"} = {} =>
    \A f \in Fds : ~Accepting(f) /\ ~Closing(f, Actors) =>
        /\ Serves(f) <=> (f \in registered)
        /\ channels[f] = open[f]
        /\ Serves(f) <=> (users[f] # NoUser)
        /\ fd_location[f] = IF Serves(f) THEN ReactorOf(f) ELSE 0

\* The inactivity check closes no connection that was heard within Timeout,
\* unless it was heard while the check ran: its list is not looked at again.
EvictsOnlySilent ==
    [][\A f \in Fds :
        CloseFd(Checker) /\ fd[Checker] = f /\ Serves(f) =>
            \/ heard[f] > Timeout \/ heard[f] = 0
            \/ mishaps \cap {"early", "reuse"} # {}]_vars

\* A silent connection is closed within two periods (RpcClientTest.cpp waits for
\* twice HEARTBEAT_TIMEOUT), whatever else closes or reads meanwhile.
EvictedInTime ==
    "reuse" \notin mishaps =>
    \A f \in Fds : Serves(f) /\ ~Accepting(f) => heard[f] <= 2 * Timeout

\* The edge of a client's leaving is never lost: not before the descriptor is in
\* epoll, not among requests, replies and tasks.  Its connection is closed
\* without waiting for the check.
GoneClientForgotten ==
    \A c \in Connections :
        client[c] = "left" ~> client[c] = "closed" \/ ~Up \/ "reuse" \in mishaps

=============================================================================

-------------------------- MODULE Tcp_Server_proofs --------------------------
(***************************************************************************)
(* Proofs about Tcp_Server for any connections, descriptors, reactors and  *)
(* readers, any timeout and any bounds.                                    *)
(***************************************************************************)
EXTENDS Tcp_Server, WellFoundedInduction, TLAPS

Places == {"idle", "read", "heartbeat", "arm", "send", "rearm",
           "remove", "erase", "close", "forget"}

\* What TypeOK leaves out, and a client's unread requests are among those it sent.
TypeInv ==
    /\ TypeOK
    /\ acceptor \in [at : {"accept", "add", "enter", "announce"}, fd : Nat,
                     of : Connections \cup {NoConnection}]
    /\ acceptor.at # "accept" => acceptor.fd \in Fds /\ acceptor.of \in Connections
    /\ channel \in [Actors -> Connections \cup {NoConnection}]
    /\ \A a \in Actors : ~Idle(a) => fd[a] \in Fds
    /\ \A c \in Connections : unread[c] <= requests[c]
    /\ at[Checker] \in {"idle", "remove", "erase", "close", "forget"}
    /\ afterClose[Checker] = "idle"

-----------------------------------------------------------------------------
(* Descriptors                                                              *)

Less == {ss \in Nat \X Nat : ss[1] < ss[2]}

LEMMA LessWellFounded == IsWellFoundedOn(Less, Nat)
BY NatLessThanWellFounded DEF OpToRel, Less

\* The kernel has a lowest free descriptor whenever it has a free one.
LEMMA LowestFree ==
    ASSUME FreeFds # {}
    PROVE  Lowest(FreeFds) \in FreeFds
<1>1. FreeFds \subseteq Nat
  BY ServerAssumption DEF ServerAssumption, FreeFds
<1>2. PICK f \in FreeFds : \A g \in FreeFds : <<g, f>> \notin Less
  BY <1>1, LessWellFounded, WFMin
<1>3. ASSUME NEW g \in FreeFds PROVE f <= g
  <2>1. f \in Nat /\ g \in Nat /\ ~(g < f)
    BY <1>1, <1>2 DEF Less
  <2> QED BY <2>1
<1> QED BY <1>3 DEF Lowest

LEMMA ReactorRange ==
    ASSUME NEW f \in Fds
    PROVE  ReactorOf(f) \in 0 .. SubReactors - 1
<1>1. f \in Nat /\ SubReactors \in Nat \ {0}
  BY ServerAssumption DEF ServerAssumption
<1> QED BY <1>1 DEF ReactorOf

-----------------------------------------------------------------------------
(* The types                                                                *)

LEMMA LongRange == Long \in Nat /\ 0 \in 0 .. Long
BY ServerAssumption DEF ServerAssumption, Long

LEMMA TypeInit == Init => TypeInv
BY ServerAssumption DEF ServerAssumption, Init, TypeInv, TypeOK, Long, Idle, Actors

LEMMA OneMore ==
    ASSUME NEW m \in Nat, NEW r \in 0 .. m, NEW u \in 0 .. m, r < m, u <= r
    PROVE  u + 1 \in 0 .. m /\ r + 1 \in 0 .. m /\ u + 1 <= r + 1
OBVIOUS

LEMMA ClientsType ==
    ASSUME TypeInv, NEW c \in Connections,
           Connect(c) \/ SendRequest(c) \/ Leave(c)
    PROVE  TypeInv'
<1> USE ServerAssumption DEF ServerAssumption, TypeInv, TypeOK, Idle,
        userVars, mapVars, threadVars, clockVars, kernelVars
<1>1. CASE Connect(c)
  BY <1>1 DEF Connect
<1>2. CASE Leave(c)
  BY <1>2 DEF Leave, Raise, FdsOf
<1>3. CASE SendRequest(c)
  <2>1. unread[c] + 1 \in 0 .. MaxRequests /\ requests[c] + 1 \in 0 .. MaxRequests
        /\ unread[c] + 1 <= requests[c] + 1
    <3>1. /\ requests[c] \in 0 .. MaxRequests /\ unread[c] \in 0 .. MaxRequests
          /\ requests[c] < MaxRequests /\ unread[c] <= requests[c]
          /\ MaxRequests \in Nat
      BY <1>3 DEF SendRequest
    <3> QED BY <3>1, OneMore
  <2>2. event' \subseteq registered
    BY <1>3 DEF SendRequest, Raise
  <2> QED BY <1>3, <2>1, <2>2 DEF SendRequest
<1> QED BY <1>1, <1>2, <1>3

LEMMA TickType ==
    ASSUME TypeInv, Tick
    PROVE  TypeInv'
<1>0. Long \in Nat /\ \A age \in 0 .. Long : Older(age) \in 0 .. Long
  BY ServerAssumption DEF ServerAssumption, Long, Older
<1>1. users' \in [Fds -> 0 .. Long \cup {NoUser}] /\ heard' \in [Fds -> 0 .. Long]
  BY <1>0 DEF Tick, TypeInv, TypeOK
<1>2. nextCheck' \in 0 .. Timeout
  <2>1. nextCheck \in 0 .. Timeout /\ nextCheck > 0 /\ nextCheck' = nextCheck - 1
        /\ Timeout \in Nat
    BY ServerAssumption DEF ServerAssumption, Tick, TypeInv, TypeOK
  <2> QED BY <2>1
<1> QED BY <1>1, <1>2 DEF Tick, TypeInv, TypeOK, Idle, clientVars, mapVars,
           threadVars, clockVars, kernelVars

LEMMA AcceptorType ==
    ASSUME TypeInv, Acceptor
    PROVE  TypeInv'
<1> USE LongRange DEF TypeInv, TypeOK, Idle, userVars, mapVars, threadVars,
        clockVars, kernelVars, clientVars, Note
<1>1. ASSUME NEW c \in Connections, Accept(c) PROVE TypeInv'
  <2>1. PICK f : f = Lowest(FreeFds)
    OBVIOUS
  <2>2. f \in Fds
    BY <1>1, <2>1, LowestFree DEF Accept, FreeFds
  <2>3. /\ open' = [open EXCEPT ![f] = c]
        /\ acceptor' = [at |-> "add", fd |-> f, of |-> c]
        /\ heard' = [heard EXCEPT ![f] = 0]
        /\ mishaps' \in {mishaps, mishaps \cup {"reuse"}}
    BY <1>1, <2>1 DEF Accept
  <2>4. /\ open' \in [Fds -> Connections \cup {NoConnection}]
        /\ heard' \in [Fds -> 0 .. Long]
        /\ mishaps' \subseteq {"early", "double", "reuse", "gone", "limit"}
    BY <2>2, <2>3
  <2>5. /\ acceptor' \in [at : {"accept", "add", "enter", "announce"}, fd : Nat,
                          of : Connections \cup {NoConnection}]
        /\ acceptor'.at = "add" /\ acceptor'.fd \in Fds /\ acceptor'.of \in Connections
    BY <2>2, <2>3, ServerAssumption DEF ServerAssumption
  <2> QED BY <1>1, <2>4, <2>5 DEF Accept
<1>2. CASE AcceptFails
  BY <1>2 DEF AcceptFails
<1>3. CASE AddFd
  BY <1>3 DEF AddFd, Armed
<1>4. CASE EnterMaps
  <2>1. acceptor.fd \in Fds
    BY <1>4 DEF EnterMaps
  <2>2. ReactorOf(acceptor.fd) \in 0 .. SubReactors - 1
    BY <2>1, ReactorRange
  <2>3. /\ acceptor' \in [at : {"accept", "add", "enter", "announce"}, fd : Nat,
                          of : Connections \cup {NoConnection}]
        /\ acceptor'.fd \in Fds /\ acceptor'.of \in Connections
        /\ acceptor'.at = "announce"
    BY <1>4 DEF EnterMaps
  <2> QED BY <1>4, <2>1, <2>2, <2>3 DEF EnterMaps
<1>5. CASE CreateUser
  BY <1>5 DEF CreateUser
<1> QED BY <1>1, <1>2, <1>3, <1>4, <1>5 DEF Acceptor, Enter

LEMMA CommitType ==
    ASSUME TypeInv, NEW f \in Fds, CommitRead(f)
    PROVE  TypeInv'
<1>1. /\ tasks[f] \in 0 .. MaxTasks /\ tasks[f] < MaxTasks /\ MaxTasks \in Nat
  BY ServerAssumption DEF ServerAssumption, CommitRead, TypeInv, TypeOK
<1>2. tasks[f] + 1 \in 0 .. MaxTasks
  BY <1>1
<1> QED BY <1>1, <1>2 DEF CommitRead, TypeInv, TypeOK, Idle, userVars, mapVars,
           threadVars, clockVars, clientVars

\* Where a task goes next, with the same descriptor.
LEMMA PlaceType ==
    ASSUME TypeInv, NEW a \in Actors, ~Idle(a), NEW place \in Places,
           Goto(a, place), UNCHANGED fd,
           a = Checker => place \in {"idle", "remove", "erase", "close", "forget"}
    PROVE  /\ at' \in [Actors -> Places]
           /\ \A b \in Actors : ~Idle(b)' => fd'[b] \in Fds
           /\ at'[Checker] \in {"idle", "remove", "erase", "close", "forget"}
BY DEF TypeInv, TypeOK, Places, Goto, Idle, Actors

LEMMA EndType ==
    ASSUME TypeInv, NEW a \in Actors, TaskEnds(a)
    PROVE  /\ at' \in [Actors -> Places] /\ fd' \in [Actors -> Fds \cup {0}]
           /\ channel' \in [Actors -> Connections \cup {NoConnection}]
           /\ \A b \in Actors : ~Idle(b)' => fd'[b] \in Fds
           /\ at'[Checker] \in {"idle", "remove", "erase", "close", "forget"}
           /\ UNCHANGED afterClose
BY DEF TypeInv, TypeOK, Places, Goto, Idle, Actors, TaskEnds

LEMMA ReaderIsActor ==
    ASSUME NEW r \in Readers
    PROVE  r \in Actors /\ r # Checker
BY ServerAssumption DEF ServerAssumption, Actors

LEMMA ReaderType ==
    ASSUME TypeInv, NEW r \in Readers, Reader(r)
    PROVE  TypeInv'
<1> USE ReaderIsActor, LongRange DEF userVars, mapVars, threadVars, clockVars,
        kernelVars, clientVars, Note, Fall
<1>0. at[r] # "idle" => ~Idle(r) /\ fd[r] \in Fds
  BY DEF TypeInv, Idle
<1>a. r \in Actors /\ r # Checker /\ Checker \in Actors
  BY DEF Actors
<1>1. ASSUME NEW f \in Fds, StartTask(r, f) PROVE TypeInv'
  <2>1. tasks[f] \in 0 .. MaxTasks /\ tasks[f] > 0 /\ MaxTasks \in Nat
    BY <1>1, ServerAssumption DEF ServerAssumption, StartTask, TypeInv, TypeOK
  <2>2. tasks[f] - 1 \in 0 .. MaxTasks
    BY <2>1
  <2>3. tasks' \in [Fds -> 0 .. MaxTasks]
    BY <1>1, <2>2 DEF StartTask, TypeInv, TypeOK
  <2>4. /\ fd' \in [Actors -> Fds \cup {0}]
        /\ channel' \in [Actors -> Connections \cup {NoConnection}]
        /\ at' \in [Actors -> Places]
    BY <1>1 DEF StartTask, Goto, TypeInv, TypeOK, Places
  <2>5. \A a \in Actors : ~Idle(a)' => fd'[a] \in Fds
    BY <1>1 DEF StartTask, Goto, Idle, TypeInv, TypeOK
  <2>6. at'[Checker] = at[Checker]
    BY <1>a, <1>1 DEF StartTask, Goto, TypeInv, TypeOK
  <2> QED BY <1>1, <2>3, <2>4, <2>5, <2>6 DEF StartTask, TypeInv, TypeOK, Places
<1>2. CASE ReadEnds(r)
  <2>1. Goto(r, "remove") /\ afterClose' = [afterClose EXCEPT ![r] = "idle"]
        /\ ~Idle(r) /\ UNCHANGED fd
    BY <1>0, <1>2 DEF ReadEnds, BeginClose
  <2>2. "remove" \in Places
    BY DEF Places
  <2>3. /\ afterClose' \in [Actors -> {"idle", "read"}] /\ afterClose'[Checker] = "idle"
        /\ mishaps' \subseteq {"early", "double", "reuse", "gone", "limit"}
    BY <1>a, <1>2, <2>1 DEF ReadEnds, TypeInv, TypeOK
  <2>4. /\ at' \in [Actors -> Places]
        /\ \A b \in Actors : ~Idle(b)' => fd'[b] \in Fds
        /\ at'[Checker] \in {"idle", "remove", "erase", "close", "forget"}
    BY <1>a, <2>1, <2>2, PlaceType
  <2> QED BY <1>2, <2>3, <2>4 DEF ReadEnds, TypeInv, TypeOK, Places
<1>3. CASE ReadRequest(r)
  <2>1. /\ open[fd[r]] \in Connections
        /\ unread' = [unread EXCEPT ![open[fd[r]]] = @ - 1]
        /\ unread[open[fd[r]]] > 0
    BY <1>0, <1>3 DEF ReadRequest, Serves, TypeInv, TypeOK
  <2>2. PICK c \in Connections : c = open[fd[r]]
    BY <2>1
  <2>3. unread[c] \in 0 .. MaxRequests /\ unread[c] > 0 /\ MaxRequests \in Nat
        /\ requests[c] \in 0 .. MaxRequests /\ unread[c] <= requests[c]
    BY <2>1, <2>2, ServerAssumption DEF ServerAssumption, TypeInv, TypeOK
  <2>4. unread[c] - 1 \in 0 .. MaxRequests /\ unread[c] - 1 <= requests[c]
    BY <2>3
  <2>5. /\ unread' \in [Connections -> 0 .. MaxRequests]
        /\ \A x \in Connections : unread'[x] <= requests[x]
    BY <2>1, <2>2, <2>4 DEF TypeInv, TypeOK
  <2>6. "heartbeat" \in Places /\ ~Idle(r)
    BY <1>0, <1>3 DEF Places, ReadRequest
  <2>7. CASE channel[r] = NoConnection
    BY <1>3, <2>5, <2>7 DEF ReadRequest, TypeInv, TypeOK, Idle
  <2>8. CASE channel[r] # NoConnection
    BY <1>3, <2>5, <2>6, <2>8, PlaceType DEF ReadRequest, TypeInv, TypeOK, Places
  <2> QED BY <2>7, <2>8
<1>4. CASE ReadDone(r)
  <2>1. CASE channel[r] = NoConnection
    BY <1>4, <2>1 DEF ReadDone, TypeInv, TypeOK, Idle
  <2>2. CASE channel[r] # NoConnection
    BY <1>4, <2>2, EndType DEF ReadDone, TypeInv, TypeOK, Places
  <2> QED BY <2>1, <2>2
<1>5. CASE UpdateHeartbeat(r)
  <2>1. CASE users[fd[r]] = NoUser
    BY <1>5, <2>1 DEF UpdateHeartbeat, TypeInv, TypeOK, Idle
  <2>2. CASE users[fd[r]] # NoUser
    <3>1. "arm" \in Places /\ ~Idle(r) /\ Goto(r, "arm") /\ UNCHANGED fd
      BY <1>0, <1>5, <2>2 DEF Places, UpdateHeartbeat
    <3>2. users' \in [Fds -> 0 .. Long \cup {NoUser}] /\ heard' \in [Fds -> 0 .. Long]
      <4>1. fd[r] \in Fds /\ users' = [users EXCEPT ![fd[r]] = 0]
            /\ heard' = [heard EXCEPT ![fd[r]] = 0]
        BY <1>0, <1>5, <2>2 DEF UpdateHeartbeat
      <4> QED BY <4>1 DEF TypeInv, TypeOK
    <3> QED BY <1>5, <2>2, <3>1, <3>2, PlaceType
            DEF UpdateHeartbeat, TypeInv, TypeOK, Places
  <2> QED BY <2>1, <2>2
<1>6. ASSUME NEW next \in {"send", "read"}, Modify(r, next), ~Idle(r),
             UNCHANGED <<afterClose, mishaps>>
      PROVE  TypeInv'
  <2>1. next \in Places
    BY DEF Places
  <2>2. CASE InEpoll(fd[r])
    <3>1. event' \subseteq registered
      <4>1. event' = Armed(fd[r]) /\ fd[r] \in registered /\ event \subseteq registered
        BY <1>6, <2>2 DEF Modify, InEpoll, TypeInv, TypeOK
      <4> QED BY <4>1 DEF Armed
    <3>2. /\ at' \in [Actors -> Places]
          /\ \A b \in Actors : ~Idle(b)' => fd'[b] \in Fds
          /\ at'[Checker] \in {"idle", "remove", "erase", "close", "forget"}
      BY <1>a, <1>6, <2>1, <2>2, PlaceType DEF Modify
    <3> QED BY <1>6, <2>2, <3>1, <3>2 DEF Modify, TypeInv, TypeOK, Places
  <2>3. CASE ~InEpoll(fd[r])
    BY <1>6, <2>3 DEF Modify, TypeInv, TypeOK, Idle
  <2> QED BY <2>2, <2>3
<1>7. CASE ModifyForSend(r) \/ ModifyAfterSend(r)
  BY <1>0, <1>6, <1>7 DEF ModifyForSend, ModifyAfterSend
<1>8. CASE SendReply(r)
  <2>1. "rearm" \in Places /\ ~Idle(r)
    BY <1>0, <1>8 DEF Places, SendReply
  <2> QED BY <1>8, <2>1, PlaceType DEF SendReply, TypeInv, TypeOK, Places
<1>9. CASE SendFails(r)
  <2>1. "remove" \in Places /\ ~Idle(r) /\ Goto(r, "remove") /\ UNCHANGED fd
        /\ afterClose' = [afterClose EXCEPT ![r] = "read"]
    BY <1>0, <1>9 DEF Places, SendFails, BeginClose
  <2>3. /\ afterClose' \in [Actors -> {"idle", "read"}] /\ afterClose'[Checker] = "idle"
        /\ mishaps' \subseteq {"early", "double", "reuse", "gone", "limit"}
    BY <1>a, <1>9, <2>1 DEF SendFails, TypeInv, TypeOK
  <2>4. /\ at' \in [Actors -> Places]
        /\ \A b \in Actors : ~Idle(b)' => fd'[b] \in Fds
        /\ at'[Checker] \in {"idle", "remove", "erase", "close", "forget"}
    BY <1>a, <2>1, PlaceType
  <2> QED BY <1>9, <2>3, <2>4 DEF SendFails, TypeInv, TypeOK, Places
<1> QED BY <1>1, <1>2, <1>3, <1>4, <1>5, <1>7, <1>8, <1>9 DEF Reader

LEMMA CloseType ==
    ASSUME TypeInv, NEW a \in Actors, Close(a)
    PROVE  TypeInv'
<1> USE LongRange DEF userVars, mapVars, threadVars, clockVars, kernelVars,
        clientVars, Fall
<1>0. ~Idle(a) /\ fd[a] \in Fds /\ {"erase", "close", "forget", "read"} \subseteq Places
  BY DEF Close, RemoveFd, EraseMaps, CloseFd, Forget, TypeInv, Idle, Places
<1>1. CASE RemoveFd(a)
  <2>1. CASE InEpoll(fd[a])
    <3>1. event' \subseteq registered' /\ registered' \subseteq Fds
      BY <1>1, <2>1 DEF RemoveFd, TypeInv, TypeOK
    <3> QED BY <1>0, <1>1, <2>1, <3>1, PlaceType DEF RemoveFd, TypeInv, TypeOK, Places
  <2>2. CASE ~InEpoll(fd[a])
    BY <1>1, <2>2 DEF RemoveFd, TypeInv, TypeOK, Idle
  <2> QED BY <2>1, <2>2
<1>2. CASE EraseMaps(a)
  <2>1. 0 \in 0 .. SubReactors - 1
    BY ServerAssumption DEF ServerAssumption
  <2>2. /\ fd_location' \in [Fds -> 0 .. SubReactors - 1]
        /\ channels' \in [Fds -> Connections \cup {NoConnection}]
    BY <1>2, <2>1 DEF EraseMaps, TypeInv, TypeOK
  <2> QED BY <1>0, <1>2, <2>2, PlaceType DEF EraseMaps, TypeInv, TypeOK, Places
<1>3. CASE CloseFd(a)
  <2>1. /\ client' \in [Connections -> {"none", "connected", "left", "closed"}]
        /\ requests' \in [Connections -> 0 .. MaxRequests]
        /\ unread' \in [Connections -> 0 .. MaxRequests]
        /\ \A c \in Connections : unread'[c] <= requests'[c]
    <3>1. CASE Serves(fd[a])
      <4>1. PICK c \in Connections : c = open[fd[a]]
        BY <1>0, <3>1 DEF Serves, TypeInv, TypeOK
      <4>2. 0 \in 0 .. MaxRequests /\ 0 <= 0
        BY ServerAssumption DEF ServerAssumption
      <4>3. /\ client' = [client EXCEPT ![c] = "closed"]
            /\ requests' = [requests EXCEPT ![c] = 0]
            /\ unread' = [unread EXCEPT ![c] = 0]
        BY <1>3, <3>1, <4>1 DEF CloseFd
      <4> QED BY <4>2, <4>3 DEF TypeInv, TypeOK
    <3>2. CASE ~Serves(fd[a])
      BY <1>3, <3>2 DEF CloseFd, TypeInv, TypeOK
    <3> QED BY <3>1, <3>2
  <2>2. /\ open' \in [Fds -> Connections \cup {NoConnection}]
        /\ event' \subseteq registered' /\ registered' \subseteq Fds
        /\ heard' \in [Fds -> 0 .. Long]
    BY <1>0, <1>3 DEF CloseFd, TypeInv, TypeOK
  <2> QED BY <1>0, <1>3, <2>1, <2>2, PlaceType DEF CloseFd, TypeInv, TypeOK, Places
<1>4. CASE Forget(a)
  <2>1. users' \in [Fds -> 0 .. Long \cup {NoUser}]
    BY <1>0, <1>4 DEF Forget, TypeInv, TypeOK
  <2>2. CASE afterClose[a] = "read"
    <3>1. a # Checker /\ Goto(a, "read") /\ UNCHANGED <<fd, channel>>
          /\ afterClose' = [afterClose EXCEPT ![a] = "idle"]
      BY <1>4, <2>2 DEF Forget, TypeInv
    <3>2. afterClose' \in [Actors -> {"idle", "read"}] /\ afterClose'[Checker] = "idle"
      BY <3>1 DEF TypeInv, TypeOK, Actors
    <3>3. /\ at' \in [Actors -> Places]
          /\ \A b \in Actors : ~Idle(b)' => fd'[b] \in Fds
          /\ at'[Checker] \in {"idle", "remove", "erase", "close", "forget"}
      BY <1>0, <3>1, PlaceType
    <3> QED BY <1>4, <2>1, <3>1, <3>2, <3>3 DEF Forget, TypeInv, TypeOK, Places
  <2>3. CASE afterClose[a] # "read"
    BY <1>4, <2>1, <2>3, EndType DEF Forget, TypeInv, TypeOK, Places
  <2> QED BY <2>2, <2>3
<1> QED BY <1>1, <1>2, <1>3, <1>4 DEF Close

LEMMA CheckType ==
    ASSUME TypeInv, Check
    PROVE  TypeInv'
<1> USE DEF userVars, mapVars, threadVars, clockVars, kernelVars, clientVars, Note
<1>1. CASE StartCheck
  <2>1. Timeout \in 0 .. Timeout /\ listed' \subseteq Fds
    BY <1>1, ServerAssumption DEF ServerAssumption, StartCheck, CheckInvalidUser
  <2> QED BY <1>1, <2>1 DEF StartCheck, TypeInv, TypeOK, Idle
<1>2. ASSUME NEW f \in Fds, Evict(f) PROVE TypeInv'
  <2>1. /\ at' = [at EXCEPT ![Checker] = "remove"] /\ Checker \in Actors
        /\ fd' = [fd EXCEPT ![Checker] = f]
        /\ afterClose' = [afterClose EXCEPT ![Checker] = "idle"]
    BY <1>2 DEF Evict, BeginClose, Goto, Actors
  <2>2. \A a \in Actors : ~Idle(a)' => fd'[a] \in Fds
    BY <2>1 DEF Idle, TypeInv, TypeOK
  <2>3. /\ at' \in [Actors -> Places] /\ fd' \in [Actors -> Fds \cup {0}]
        /\ afterClose' \in [Actors -> {"idle", "read"}] /\ afterClose'[Checker] = "idle"
        /\ at'[Checker] = "remove"
    BY <2>1 DEF TypeInv, TypeOK, Places
  <2>4. mishaps' \subseteq {"early", "double", "reuse", "gone", "limit"}
    BY <1>2 DEF Evict, TypeInv, TypeOK
  <2> QED BY <1>2, <2>2, <2>3, <2>4 DEF Evict, TypeInv, TypeOK, Places
<1> QED BY <1>1, <1>2 DEF Check

LEMMA TypeStep ==
    ASSUME TypeInv, [Next]_vars
    PROVE  TypeInv'
<1>1. CASE UNCHANGED vars
  BY <1>1 DEF vars, userVars, mapVars, threadVars, clockVars, kernelVars,
              clientVars, TypeInv, TypeOK, Idle
<1> QED BY <1>1, ClientsType, TickType, AcceptorType, CommitType, ReaderType,
           CloseType, CheckType DEF Next, Clients

-----------------------------------------------------------------------------
(* Whom a step moves                                                        *)

Moves(a) == \A b \in Actors \ {a} : at'[b] = at[b] /\ fd'[b] = fd[b]

LEMMA GotoMoves ==
    ASSUME TypeInv, NEW a \in Actors, NEW place, Goto(a, place)
    PROVE  at'[a] = place /\ \A b \in Actors \ {a} : at'[b] = at[b]
<1>1. at \in [Actors -> Places]
  BY DEF TypeInv, TypeOK, Places
<1> QED BY <1>1 DEF Goto

LEMMA EndMoves ==
    ASSUME TypeInv, NEW a \in Actors, TaskEnds(a)
    PROVE  at'[a] = "idle" /\ Moves(a)
<1>1. fd \in [Actors -> Fds \cup {0}] /\ Goto(a, "idle")
      /\ fd' = [fd EXCEPT ![a] = 0]
  BY DEF TypeInv, TypeOK, TaskEnds
<1> QED BY <1>1, GotoMoves DEF Moves

\* What a thread in close_connection leaves as it is.
LEMMA CloseMoves ==
    ASSUME TypeInv, NEW a \in Actors, Close(a)
    PROVE  /\ at[a] \in {"remove", "erase", "close", "forget"}
           /\ ~Idle(a) /\ fd[a] \in Fds /\ Moves(a)
           /\ fd'[a] = fd[a] \/ at'[a] = "idle"
           /\ UNCHANGED <<acceptor, tasks, listed, nextCheck>>
<1>1. /\ at[a] \in {"remove", "erase", "close", "forget"}
      /\ UNCHANGED <<acceptor, tasks, listed, nextCheck>>
  BY DEF Close, RemoveFd, EraseMaps, CloseFd, Forget, clockVars
<1>2. ~Idle(a) /\ fd[a] \in Fds
  BY <1>1 DEF Idle, TypeInv
<1>3. \/ UNCHANGED <<at, fd>>
      \/ UNCHANGED fd /\ \E place \in Places : Goto(a, place)
      \/ TaskEnds(a)
  BY DEF Close, RemoveFd, EraseMaps, CloseFd, Forget, Places
<1>4. Moves(a) /\ (fd'[a] = fd[a] \/ at'[a] = "idle")
  <2>1. CASE UNCHANGED <<at, fd>>
    BY <2>1 DEF Moves
  <2>2. CASE UNCHANGED fd /\ \E place \in Places : Goto(a, place)
    BY <2>2, GotoMoves DEF Moves
  <2>3. CASE TaskEnds(a)
    BY <2>3, EndMoves
  <2> QED BY <1>3, <2>1, <2>2, <2>3
<1> QED BY <1>1, <1>2, <1>4

\* What a thread in read_data leaves as it is.
LEMMA ReaderMoves ==
    ASSUME TypeInv, NEW r \in Readers, Reader(r)
    PROVE  /\ Moves(r)
           /\ at'[r] \in {"idle", "read", "heartbeat", "arm", "send", "rearm", "remove"}
           /\ UNCHANGED <<acceptor, open, registered, channels, fd_location, listed,
                          nextCheck>>
           /\ \/ \E f \in Fds : StartTask(r, f)
              \/ /\ at[r] \in {"read", "heartbeat", "arm", "send", "rearm"}
                 /\ fd'[r] = fd[r] \/ at'[r] = "idle"
                 /\ UNCHANGED tasks
<1> USE ReaderIsActor
<1> DEFINE There == {"idle", "read", "heartbeat", "arm", "send", "rearm", "remove"}
<1>1. UNCHANGED <<acceptor, open, registered, channels, fd_location, listed, nextCheck>>
  BY DEF Reader, StartTask, ReadEnds, ReadRequest, ReadDone, UpdateHeartbeat,
     ModifyForSend, SendReply, SendFails, ModifyAfterSend, Modify, kernelVars,
     mapVars, clockVars
<1>2. ASSUME NEW f \in Fds, StartTask(r, f) PROVE Moves(r) /\ at'[r] \in There
  <2>1. Goto(r, "read") /\ fd' = [fd EXCEPT ![r] = f]
    BY <1>2 DEF StartTask
  <2>2. fd \in [Actors -> Fds \cup {0}]
    BY DEF TypeInv, TypeOK
  <2> QED BY <2>1, <2>2, GotoMoves DEF Moves
<1>3. CASE ~\E f \in Fds : StartTask(r, f)
  <2>1. /\ at[r] \in {"read", "heartbeat", "arm", "send", "rearm"}
        /\ UNCHANGED tasks
    BY <1>3 DEF Reader, ReadEnds, ReadRequest, ReadDone, UpdateHeartbeat,
       ModifyForSend, SendReply, SendFails, ModifyAfterSend, Modify
  <2>2. \/ UNCHANGED <<at, fd>>
        \/ UNCHANGED fd /\ \E place \in There : Goto(r, place)
        \/ TaskEnds(r)
    BY <1>3 DEF Reader, ReadEnds, ReadRequest, ReadDone, UpdateHeartbeat,
       ModifyForSend, SendReply, SendFails, ModifyAfterSend, Modify, BeginClose,
       threadVars
  <2>3. Moves(r) /\ at'[r] \in There /\ (fd'[r] = fd[r] \/ at'[r] = "idle")
    <3>1. CASE UNCHANGED <<at, fd>>
      BY <2>1, <3>1 DEF Moves
    <3>2. CASE UNCHANGED fd /\ \E place \in There : Goto(r, place)
      BY <3>2, GotoMoves DEF Moves
    <3>3. CASE TaskEnds(r)
      BY <3>3, EndMoves
    <3> QED BY <2>2, <3>1, <3>2, <3>3
  <2> QED BY <1>1, <2>1, <2>3
<1> QED BY <1>1, <1>2, <1>3

-----------------------------------------------------------------------------
(* The four places that name a connection                                   *)

\* A thread past remove_fd has the descriptor out of some of its places.
LateAt == {"erase", "close", "forget"}
Late(a, f) == at[a] \in LateAt /\ fd[a] = f

\* A descriptor in its usual state: of a connection and in all its places, or of
\* none and in none of them.
Settled(f) ==
    /\ Serves(f) <=> f \in registered
    /\ channels[f] = open[f]
    /\ Serves(f) <=> users[f] # NoUser
    /\ fd_location[f] = IF Serves(f) THEN ReactorOf(f) ELSE 0

\* One the main thread is entering, which nobody uses yet.
Entering(f) ==
    /\ ~Used(f, Actors)
    /\ Serves(f)
    /\ f \in registered <=> acceptor.at # "add"
    /\ channels[f] = IF acceptor.at = "announce" THEN open[f] ELSE NoConnection
    /\ fd_location[f] = IF acceptor.at = "announce" THEN ReactorOf(f) ELSE 0
    /\ users[f] = NoUser
    /\ open[f] = acceptor.of

\* One that thread a has taken out of epoll, which no other can do then.
Leaving(f, a) ==
    /\ f \notin registered
    /\ users[f] # NoUser
    /\ Serves(f) <=> at[a] # "forget"
    /\ channels[f] = IF at[a] = "erase" THEN open[f] ELSE NoConnection
    /\ fd_location[f] = IF at[a] = "erase" THEN ReactorOf(f) ELSE 0
    /\ \A b \in Actors : Late(b, f) => b = a

Orderly == mishaps \cap {"early", "reuse"} = {}
Place(f) ==
    /\ Accepting(f) => Entering(f)
    /\ \A a \in Actors : Late(a, f) => Leaving(f, a)
    /\ ~Accepting(f) /\ (\A a \in Actors : ~Late(a, f)) => Settled(f)
RegInv == Orderly => \A f \in Fds : Place(f)

LEMMA RegInit == Init => RegInv
<1> SUFFICES ASSUME Init, NEW f \in Fds PROVE Place(f)
  BY DEF RegInv
<1>1. ~Accepting(f) /\ \A a \in Actors : ~Late(a, f)
  BY DEF Init, Accepting, Late, LateAt
<1>2. Settled(f)
  BY DEF Init, Settled, Serves
<1> QED BY <1>1, <1>2 DEF Place

\* Mishaps are never forgotten.
LEMMA MishapsStay ==
    ASSUME [Next]_vars
    PROVE  mishaps \subseteq mishaps'
<1>1. CASE Clients
  BY <1>1 DEF Clients, Connect, SendRequest, Leave
<1>2. CASE Acceptor
  BY <1>2 DEF Acceptor, Enter, Accept, AcceptFails, AddFd, EnterMaps, CreateUser, Note
<1>3. CASE Check
  BY <1>3 DEF Check, StartCheck, Evict, Note
<1>4. ASSUME NEW r \in Readers, Reader(r) PROVE mishaps \subseteq mishaps'
  BY <1>4 DEF Reader, StartTask, ReadEnds, ReadRequest, ReadDone, UpdateHeartbeat,
     ModifyForSend, SendReply, SendFails, ModifyAfterSend, Note
<1>5. ASSUME NEW a \in Actors, Close(a) PROVE mishaps \subseteq mishaps'
  BY <1>5 DEF Close, RemoveFd, EraseMaps, CloseFd, Forget
<1>6. ASSUME NEW f \in Fds, CommitRead(f) PROVE mishaps \subseteq mishaps'
  BY <1>6 DEF CommitRead
<1> QED BY <1>1, <1>2, <1>3, <1>4, <1>5, <1>6 DEF Next, Tick, vars

\* A step that changes nothing about f but, perhaps, who uses it.
LEMMA PlaceUnmoved ==
    ASSUME NEW f \in Fds, Place(f),
           Accepting(f)' <=> Accepting(f), Accepting(f) => UNCHANGED acceptor,
           open'[f] = open[f], f \in registered' <=> f \in registered,
           channels'[f] = channels[f], fd_location'[f] = fd_location[f],
           users'[f] = NoUser <=> users[f] = NoUser,
           \A a \in Actors : Late(a, f)' <=> Late(a, f),
           \A a \in Actors : Late(a, f) => at'[a] = at[a],
           Accepting(f) => (Used(f, Actors)' => Used(f, Actors))
    PROVE  Place(f)'
<1>2. Serves(f)' <=> Serves(f)
  BY DEF Serves
<1>3. Settled(f)' <=> Settled(f)
  BY <1>2 DEF Settled
<1>4. Accepting(f) /\ Entering(f) => Entering(f)'
  BY <1>2 DEF Entering
<1>5. ASSUME NEW a \in Actors, Late(a, f), Leaving(f, a) PROVE Leaving(f, a)'
  BY <1>2, <1>5 DEF Leaving
<1> QED BY <1>3, <1>4, <1>5 DEF Place

\* A descriptor that a thread works with is in use, and not being entered.
LEMMA BusyPlace ==
    ASSUME NEW f \in Fds, Place(f), NEW a \in Actors, ~Idle(a), fd[a] = f
    PROVE  Used(f, Actors) /\ ~Accepting(f)
BY DEF Place, Entering, Used, Held

\* A step of a thread that moves only that thread, and not past remove_fd.
LEMMA ThreadMoves ==
    ASSUME TypeInv, NEW a \in Actors, at[a] \notin LateAt, at'[a] \notin LateAt,
           \A b \in Actors \ {a} : at'[b] = at[b] /\ fd'[b] = fd[b],
           NEW f \in Fds
    PROVE  /\ \A b \in Actors : Late(b, f)' <=> Late(b, f)
           /\ \A b \in Actors : Late(b, f) => at'[b] = at[b]
BY DEF Late

\* It keeps the descriptor it has, or goes to its end.
LEMMA UsedStays ==
    ASSUME TypeInv, NEW a \in Actors, ~Idle(a), fd'[a] = fd[a] \/ at'[a] = "idle",
           \A b \in Actors \ {a} : at'[b] = at[b] /\ fd'[b] = fd[b],
           UNCHANGED <<tasks, listed>>, NEW f \in Fds
    PROVE  Used(f, Actors)' => Used(f, Actors)
BY DEF Used, Held, Idle

LEMMA ZeroIsATime == 0 # NoUser
<1>1. NoUser \notin Nat /\ 0 \in Nat
  BY ServerAssumption DEF ServerAssumption
<1> QED BY <1>1

-----------------------------------------------------------------------------
LEMMA ClientsPlace ==
    ASSUME TypeInv, NEW f \in Fds, Place(f), Clients
    PROVE  Place(f)'
<1>1. UNCHANGED <<acceptor, open, registered, channels, fd_location, users, at, fd,
                  tasks, listed>>
  BY DEF Clients, Connect, SendRequest, Leave, kernelVars, mapVars, userVars,
         threadVars, clockVars
<1>2. /\ Accepting(f)' <=> Accepting(f)
      /\ Used(f, Actors)' <=> Used(f, Actors)
      /\ \A a \in Actors : Late(a, f)' <=> Late(a, f)
  BY <1>1 DEF Accepting, Used, Held, Late, Idle
<1> QED BY <1>1, <1>2, PlaceUnmoved

LEMMA TickPlace ==
    ASSUME TypeInv, NEW f \in Fds, Place(f), Tick
    PROVE  Place(f)'
<1>1. UNCHANGED <<acceptor, open, registered, channels, fd_location, at, fd,
                  tasks, listed>>
  BY DEF Tick, kernelVars, mapVars, threadVars
<1>2. /\ Accepting(f)' <=> Accepting(f)
      /\ Used(f, Actors)' <=> Used(f, Actors)
      /\ \A a \in Actors : Late(a, f)' <=> Late(a, f)
  BY <1>1 DEF Accepting, Used, Held, Late, Idle
<1>3. users'[f] = NoUser <=> users[f] = NoUser
  <2>1. users[f] \in 0 .. Long \cup {NoUser} /\ NoUser \notin Nat
    BY ServerAssumption DEF ServerAssumption, TypeInv, TypeOK
  <2>2. \A age \in 0 .. Long : Older(age) \in Nat
    BY LongRange DEF Older
  <2> QED BY <2>1, <2>2 DEF Tick
<1> QED BY <1>1, <1>2, <1>3, PlaceUnmoved

\* The main thread makes a free descriptor that nobody uses one it is entering,
\* and takes it through epoll and the maps to its user.
LEMMA AcceptorPlace ==
    ASSUME TypeInv, Orderly', NEW f \in Fds, Place(f), Acceptor
    PROVE  Place(f)'
<1>1. ASSUME NEW c \in Connections, Accept(c) PROVE Place(f)'
  <2>1. PICK g : g = Lowest(FreeFds)
    OBVIOUS
  <2>2. g \in Fds /\ ~Serves(g)
    BY <1>1, <2>1, LowestFree DEF Accept, FreeFds
  <2>3. /\ open' = [open EXCEPT ![g] = c]
        /\ acceptor' = [at |-> "add", fd |-> g, of |-> c]
        /\ Note(Used(g, Actors), "reuse")
        /\ UNCHANGED <<registered, channels, fd_location, users, at, fd, tasks, listed>>
    BY <1>1, <2>1 DEF Accept, mapVars, threadVars, clockVars
  <2>4. ~Used(g, Actors)
    BY <2>3 DEF Note, Orderly
  <2>5. acceptor.at = "accept" /\ ~Accepting(f)
    BY <1>1 DEF Accept, Accepting
  <2>6. /\ Used(f, Actors)' <=> Used(f, Actors)
        /\ \A a \in Actors : Late(a, f)' <=> Late(a, f)
    BY <2>3 DEF Used, Held, Late, Idle
  <2>7. Accepting(f)' <=> f = g
    BY <2>3 DEF Accepting
  <2>8. CASE f = g
    <3>1. \A a \in Actors : ~Late(a, f)
      BY <2>4, <2>8 DEF Late, LateAt, Used, Held, Idle
    <3>2. Settled(f)
      BY <2>5, <3>1 DEF Place
    <3>3. open'[f] = c /\ Serves(f)'
      BY <2>3, <2>8, ServerAssumption DEF ServerAssumption, Serves, TypeInv, TypeOK
    <3>4. Entering(f)'
      BY <2>2, <2>3, <2>4, <2>6, <2>8, <3>2, <3>3 DEF Entering, Settled, Serves
    <3> QED BY <2>6, <2>7, <2>8, <3>1, <3>4 DEF Place
  <2>9. CASE f # g
    <3>1. open'[f] = open[f]
      BY <2>2, <2>3, <2>9 DEF TypeInv, TypeOK
    <3> QED BY <2>3, <2>5, <2>6, <2>7, <2>9, <3>1, PlaceUnmoved
  <2> QED BY <2>8, <2>9
<1>2. CASE AcceptFails
  <2>1. UNCHANGED <<acceptor, open, registered, channels, fd_location, users, at, fd,
                    tasks, listed>>
    BY <1>2 DEF AcceptFails, kernelVars, mapVars, userVars, threadVars, clockVars
  <2>2. /\ Accepting(f)' <=> Accepting(f)
        /\ Used(f, Actors)' <=> Used(f, Actors)
        /\ \A a \in Actors : Late(a, f)' <=> Late(a, f)
    BY <2>1 DEF Accepting, Used, Held, Late, Idle
  <2> QED BY <2>1, <2>2, PlaceUnmoved
<1>3. CASE AddFd \/ EnterMaps \/ CreateUser
  <2>1. /\ UNCHANGED <<open, at, fd, tasks, listed>>
        /\ acceptor.at # "accept" /\ acceptor.fd \in Fds /\ acceptor.of \in Connections
    BY <1>3 DEF AddFd, EnterMaps, CreateUser, kernelVars, threadVars, clockVars, TypeInv
  <2>2. /\ Used(f, Actors)' <=> Used(f, Actors)
        /\ \A a \in Actors : Late(a, f)' <=> Late(a, f)
        /\ Serves(f)' <=> Serves(f)
    BY <2>1 DEF Used, Held, Late, Idle, Serves
  <2>3. CASE f # acceptor.fd
    <3>1. ~Accepting(f) /\ ~Accepting(f)'
      BY <1>3, <2>3 DEF Accepting, AddFd, EnterMaps, CreateUser, TypeInv
    <3>2. /\ f \in registered' <=> f \in registered
          /\ channels'[f] = channels[f] /\ fd_location'[f] = fd_location[f]
          /\ users'[f] = users[f]
      BY <1>3, <2>1, <2>3 DEF AddFd, EnterMaps, CreateUser, kernelVars, mapVars,
         userVars, TypeInv, TypeOK
    <3> QED BY <2>1, <2>2, <3>1, <3>2, PlaceUnmoved
  <2>4. CASE f = acceptor.fd
    <3>1. Accepting(f) /\ Entering(f)
      BY <2>1, <2>4 DEF Accepting, Place
    <3>2. \A a \in Actors : ~Late(a, f) /\ ~Late(a, f)'
      BY <2>2, <3>1 DEF Entering, Late, LateAt, Used, Held, Idle
    <3>3. CASE AddFd
      <4>1. /\ acceptor'.at = "enter" /\ acceptor'.of = acceptor.of
            /\ acceptor.at = "add" /\ f \in registered'
            /\ UNCHANGED <<channels, fd_location, users>>
        BY <2>4, <3>3 DEF AddFd, mapVars, userVars, TypeInv
      <4>2. Entering(f)'
        BY <2>1, <2>2, <3>1, <4>1 DEF Entering
      <4>3. Accepting(f)'
        BY <2>4, <3>3 DEF Accepting, AddFd, TypeInv
      <4> QED BY <3>2, <4>2, <4>3 DEF Place
    <3>4. CASE EnterMaps
      <4>1. /\ acceptor'.at = "announce" /\ acceptor'.of = acceptor.of
            /\ acceptor.at = "enter" /\ channels'[f] = acceptor.of
            /\ fd_location'[f] = ReactorOf(f)
            /\ UNCHANGED <<registered, users>>
        BY <2>4, <3>4 DEF EnterMaps, kernelVars, userVars, TypeInv, TypeOK
      <4>2. Entering(f)'
        BY <2>1, <2>2, <3>1, <4>1 DEF Entering
      <4>3. Accepting(f)'
        BY <2>4, <3>4 DEF Accepting, EnterMaps, TypeInv
      <4> QED BY <3>2, <4>2, <4>3 DEF Place
    <3>5. CASE CreateUser
      <4>1. /\ acceptor.at = "announce" /\ users'[f] = 0 /\ 0 # NoUser
            /\ UNCHANGED <<registered, channels, fd_location>>
        BY <2>1, <2>4, <3>5, ZeroIsATime DEF CreateUser, kernelVars, mapVars, TypeInv,
           TypeOK
      <4>2. Settled(f)'
        BY <2>1, <2>2, <3>1, <4>1 DEF Entering, Settled
      <4>3. ~Accepting(f)'
        BY <3>5 DEF Accepting, CreateUser, TypeInv
      <4> QED BY <3>2, <4>2, <4>3 DEF Place
    <3> QED BY <1>3, <3>3, <3>4, <3>5
  <2> QED BY <2>3, <2>4
<1> QED BY <1>1, <1>2, <1>3 DEF Acceptor, Enter

\* An edge of a descriptor that is being entered makes no task: that is "early".
LEMMA CommitPlace ==
    ASSUME TypeInv, Orderly', NEW f \in Fds, Place(f), NEW g \in Fds, CommitRead(g)
    PROVE  Place(f)'
<1>1. UNCHANGED <<acceptor, open, registered, channels, fd_location, users, at, fd,
                  listed>>
  BY DEF CommitRead, mapVars, userVars, threadVars, clockVars
<1>2. /\ Accepting(f)' <=> Accepting(f)
      /\ \A a \in Actors : Late(a, f)' <=> Late(a, f)
  BY <1>1 DEF Accepting, Late
<1>3. Accepting(f) => tasks'[f] = tasks[f]
  BY DEF CommitRead, Orderly, TypeInv, TypeOK
<1>4. Accepting(f) => (Used(f, Actors)' => Used(f, Actors))
  BY <1>1, <1>3 DEF Used, Held, Idle
<1> QED BY <1>1, <1>2, <1>4, PlaceUnmoved

\* A thread in read_data leaves the maps alone.
LEMMA ReaderPlace ==
    ASSUME TypeInv, NEW f \in Fds, Place(f), NEW r \in Readers, Reader(r)
    PROVE  Place(f)'
<1> USE ReaderIsActor
<1>a. UNCHANGED <<acceptor, open, registered, channels, fd_location, listed>>
  BY ReaderMoves
<1>b. Accepting(f)' <=> Accepting(f)
  BY <1>a DEF Accepting
<1>1. ASSUME NEW g \in Fds, StartTask(r, g) PROVE Place(f)'
  <2>1. /\ at[r] = "idle" /\ tasks[g] > 0 /\ UNCHANGED users
        /\ tasks' = [tasks EXCEPT ![g] = @ - 1]
        /\ at' = [at EXCEPT ![r] = "read"] /\ fd' = [fd EXCEPT ![r] = g]
    BY <1>1 DEF StartTask, Idle, Goto, userVars
  <2>2. /\ \A b \in Actors \ {r} : at'[b] = at[b] /\ fd'[b] = fd[b]
        /\ at[r] \notin LateAt /\ at'[r] \notin LateAt
    BY <2>1 DEF TypeInv, TypeOK, LateAt
  <2>3. Accepting(f) => f # g
    BY <2>1 DEF Place, Entering, Used, Held
  <2>4. Accepting(f) => (Used(f, Actors)' => Used(f, Actors))
    <3>1. f # g => tasks'[f] = tasks[f] /\ fd'[r] # f
      BY <2>1 DEF TypeInv, TypeOK
    <3> QED BY <1>a, <2>2, <2>3, <3>1 DEF Used, Held, Idle
  <2> QED BY <1>a, <1>b, <2>1, <2>2, <2>4, ThreadMoves, PlaceUnmoved
<1>2. CASE ~\E g \in Fds : StartTask(r, g)
  <2>1. /\ at[r] \in {"read", "heartbeat", "arm", "send", "rearm"}
        /\ UNCHANGED tasks
    BY <1>2, ReaderMoves
  <2>2. /\ \A b \in Actors \ {r} : at'[b] = at[b] /\ fd'[b] = fd[b]
        /\ at'[r] \in {"idle", "read", "heartbeat", "arm", "send", "rearm", "remove"}
        /\ fd'[r] = fd[r] \/ at'[r] = "idle"
    BY <1>2, ReaderMoves DEF Moves
  <2>3. at[r] \notin LateAt /\ at'[r] \notin LateAt /\ ~Idle(r)
    BY <2>1, <2>2 DEF LateAt, Idle
  <2>4. users'[f] = NoUser <=> users[f] = NoUser
    <3>1. CASE UNCHANGED users
      BY <3>1
    <3>2. CASE UpdateHeartbeat(r) /\ users' = [users EXCEPT ![fd[r]] = 0]
               /\ users[fd[r]] # NoUser
      BY <3>2, ZeroIsATime DEF TypeInv, TypeOK
    <3> QED BY <1>2, <3>1, <3>2 DEF Reader, ReadEnds, ReadRequest, ReadDone,
            UpdateHeartbeat, ModifyForSend, SendReply, SendFails, ModifyAfterSend,
            Modify, userVars
  <2>5. Used(f, Actors)' => Used(f, Actors)
    BY <1>a, <2>1, <2>2, <2>3, UsedStays
  <2> QED BY <1>a, <1>b, <2>2, <2>3, <2>4, <2>5, ThreadMoves, PlaceUnmoved
<1> QED BY <1>1, <1>2

\* A list of users has no descriptor that is being entered.
LEMMA CheckPlace ==
    ASSUME TypeInv, NEW f \in Fds, Place(f), Check
    PROVE  Place(f)'
<1>a. UNCHANGED <<acceptor, open, registered, channels, fd_location, users, tasks>>
  BY DEF Check, StartCheck, Evict, kernelVars, mapVars, userVars
<1>b. Accepting(f)' <=> Accepting(f)
  BY <1>a DEF Accepting
<1>1. CASE StartCheck
  <2>1. UNCHANGED <<at, fd>> /\ listed' = CheckInvalidUser
    BY <1>1 DEF StartCheck, threadVars
  <2>2. \A a \in Actors : Late(a, f)' <=> Late(a, f)
    BY <2>1 DEF Late
  <2>3. Accepting(f) => (Used(f, Actors)' => Used(f, Actors))
    BY <1>a, <2>1 DEF Place, Entering, CheckInvalidUser, Used, Held, Idle
  <2> QED BY <1>a, <1>b, <2>1, <2>2, <2>3, PlaceUnmoved
<1>2. ASSUME NEW g \in Fds, Evict(g) PROVE Place(f)'
  <2>0. Checker \in Actors
    BY DEF Actors
  <2>1. /\ at[Checker] = "idle" /\ g \in listed /\ listed' = listed \ {g}
        /\ at' = [at EXCEPT ![Checker] = "remove"]
        /\ fd' = [fd EXCEPT ![Checker] = g]
    BY <1>2 DEF Evict, Idle, BeginClose, Goto
  <2>2. /\ \A b \in Actors \ {Checker} : at'[b] = at[b] /\ fd'[b] = fd[b]
        /\ at[Checker] \notin LateAt /\ at'[Checker] \notin LateAt
    BY <2>0, <2>1 DEF TypeInv, TypeOK, LateAt
  <2>3. Accepting(f) => f # g
    BY <2>1 DEF Place, Entering, Used, Held
  <2>4. Accepting(f) => (Used(f, Actors)' => Used(f, Actors))
    BY <1>a, <2>0, <2>1, <2>2, <2>3 DEF Used, Held, Idle, TypeInv, TypeOK
  <2> QED BY <1>a, <1>b, <2>0, <2>2, <2>4, ThreadMoves, PlaceUnmoved
<1> QED BY <1>1, <1>2 DEF Check

\* close_connection takes a descriptor out of its places one by one.
LEMMA ClosePlace ==
    ASSUME TypeInv, NEW f \in Fds, Place(f), NEW a \in Actors, Close(a)
    PROVE  Place(f)'
<1>a. /\ ~Idle(a) /\ at[a] \in {"remove", "erase", "close", "forget"}
      /\ UNCHANGED <<acceptor, tasks, listed>>
  BY CloseMoves
<1>b. Accepting(f)' <=> Accepting(f)
  BY <1>a DEF Accepting
<1>c. \A b \in Actors \ {a} : at'[b] = at[b] /\ fd'[b] = fd[b]
  BY CloseMoves DEF Moves
<1>d. fd[a] \in Fds /\ (fd'[a] = fd[a] \/ at'[a] = "idle")
  BY CloseMoves
<1>e. Used(f, Actors)' => Used(f, Actors)
  BY <1>a, <1>c, <1>d, UsedStays
<1>1. CASE fd[a] # f
  <2>1. /\ open'[f] = open[f] /\ (f \in registered' <=> f \in registered)
        /\ channels'[f] = channels[f] /\ fd_location'[f] = fd_location[f]
        /\ users'[f] = users[f]
    BY <1>1, <1>d DEF Close, RemoveFd, EraseMaps, CloseFd, Forget, kernelVars,
       mapVars, userVars, TypeInv, TypeOK
  <2>2. ~Late(a, f) /\ ~Late(a, f)'
    BY <1>1, <1>d DEF Late, LateAt
  <2>3. /\ \A b \in Actors : Late(b, f)' <=> Late(b, f)
        /\ \A b \in Actors : Late(b, f) => at'[b] = at[b]
    BY <1>c, <2>2 DEF Late
  <2> QED BY <1>a, <1>b, <1>e, <2>1, <2>3, PlaceUnmoved
<1>2. CASE fd[a] = f
  <2>1. ~Accepting(f) /\ ~Accepting(f)'
    BY <1>2, <1>a, <1>b, BusyPlace
  <2>2. CASE RemoveFd(a) /\ InEpoll(f)
    <3>1. /\ at[a] = "remove" /\ at'[a] = "erase" /\ registered' = registered \ {f}
          /\ f \in registered
          /\ UNCHANGED <<open, fd, channels, fd_location, users>>
      BY <1>2, <2>2 DEF RemoveFd, InEpoll, Goto, mapVars, userVars, TypeInv, TypeOK
    <3>2. \A b \in Actors : ~Late(b, f)
      BY <3>1 DEF Place, Leaving
    <3>3. Settled(f)
      BY <2>1, <3>2 DEF Place
    <3>4. \A b \in Actors : Late(b, f)' => b = a
      BY <1>c, <3>1, <3>2 DEF Late
    <3>5. Leaving(f, a)'
      BY <3>1, <3>3, <3>4 DEF Leaving, Settled, Serves
    <3>6. Late(a, f)'
      BY <1>2, <3>1 DEF Late, LateAt
    <3> QED BY <2>1, <3>4, <3>5, <3>6 DEF Place
  <2>3. CASE RemoveFd(a) /\ ~InEpoll(f)
    <3>1. /\ UNCHANGED <<open, fd, at, registered, channels, fd_location, users>>
      BY <1>2, <2>3 DEF RemoveFd, mapVars, userVars
    <3>2. \A b \in Actors : Late(b, f)' <=> Late(b, f)
      BY <3>1 DEF Late
    <3> QED BY <1>a, <1>b, <1>e, <3>1, <3>2, PlaceUnmoved
  <2>4. CASE EraseMaps(a)
    <3>1. /\ at[a] = "erase" /\ at'[a] = "close"
          /\ channels'[f] = NoConnection /\ fd_location'[f] = 0
          /\ UNCHANGED <<open, fd, registered, users>>
      BY <1>2, <1>d, <2>4 DEF EraseMaps, Goto, kernelVars, userVars, TypeInv, TypeOK
    <3>2. Late(a, f) /\ Late(a, f)' /\ Leaving(f, a)
      BY <1>2, <3>1 DEF Late, LateAt, Place
    <3>3. \A b \in Actors : Late(b, f)' => b = a
      BY <1>c, <3>2 DEF Late, Leaving
    <3>4. Leaving(f, a)'
      BY <3>1, <3>2, <3>3 DEF Leaving, Serves
    <3> QED BY <2>1, <3>2, <3>3, <3>4 DEF Place
  <2>5. CASE CloseFd(a)
    <3>1. /\ at[a] = "close" /\ at'[a] = "forget"
          /\ open'[f] = NoConnection /\ f \notin registered'
          /\ UNCHANGED <<fd, channels, fd_location, users>>
      BY <1>2, <1>d, <2>5 DEF CloseFd, Goto, mapVars, TypeInv, TypeOK
    <3>2. Late(a, f) /\ Late(a, f)' /\ Leaving(f, a)
      BY <1>2, <3>1 DEF Late, LateAt, Place
    <3>3. \A b \in Actors : Late(b, f)' => b = a
      BY <1>c, <3>2 DEF Late, Leaving
    <3>4. Leaving(f, a)'
      BY <3>1, <3>2, <3>3 DEF Leaving, Serves
    <3> QED BY <2>1, <3>2, <3>3, <3>4 DEF Place
  <2>6. CASE Forget(a)
    <3>1. /\ at[a] = "forget" /\ at'[a] \in {"idle", "read"}
          /\ users'[f] = NoUser
          /\ UNCHANGED <<open, registered, channels, fd_location>>
      BY <1>2, <1>d, <2>6 DEF Forget, Goto, TaskEnds, kernelVars, mapVars, TypeInv,
         TypeOK
    <3>2. Late(a, f) /\ Leaving(f, a)
      BY <1>2, <3>1 DEF Late, LateAt, Place
    <3>3. \A b \in Actors : ~Late(b, f)'
      BY <1>c, <3>1, <3>2 DEF Late, Leaving, LateAt
    <3>4. Settled(f)'
      BY <3>1, <3>2 DEF Leaving, Settled, Serves
    <3> QED BY <2>1, <3>3, <3>4 DEF Place
  <2> QED BY <1>2, <2>2, <2>3, <2>4, <2>5, <2>6 DEF Close
<1> QED BY <1>1, <1>2

LEMMA RegStep ==
    ASSUME TypeInv, RegInv, [Next]_vars
    PROVE  RegInv'
<1> SUFFICES ASSUME Orderly', NEW f \in Fds PROVE Place(f)'
  BY DEF RegInv
<1>1. Place(f)
  BY MishapsStay DEF Orderly, RegInv
<1>2. CASE UNCHANGED vars
  <2>1. UNCHANGED <<acceptor, open, registered, channels, fd_location, users, at, fd,
                    tasks, listed>>
    BY <1>2 DEF vars, kernelVars, mapVars, userVars, threadVars, clockVars
  <2>2. /\ Accepting(f)' <=> Accepting(f)
        /\ Used(f, Actors)' <=> Used(f, Actors)
        /\ \A a \in Actors : Late(a, f)' <=> Late(a, f)
    BY <2>1 DEF Accepting, Used, Held, Late, Idle
  <2> QED BY <1>1, <2>1, <2>2, PlaceUnmoved
<1> QED BY <1>1, <1>2, ClientsPlace, TickPlace, AcceptorPlace, CheckPlace,
           CommitPlace, ReaderPlace, ClosePlace DEF Next

LEMMA RegCorrect == Spec => [](TypeInv /\ RegInv)
<1>1. Init => TypeInv /\ RegInv
  BY TypeInit, RegInit
<1>2. TypeInv /\ RegInv /\ [Next]_vars => (TypeInv /\ RegInv)'
  BY TypeStep, RegStep
<1> QED BY <1>1, <1>2, PTL DEF Spec

-----------------------------------------------------------------------------
\* Every variable keeps its type, whoever accepts, reads, closes or checks.
THEOREM ServerTypeCorrect == Spec => []TypeOK
<1>1. TypeInv => TypeOK
  BY DEF TypeInv
<1> QED BY <1>1, RegCorrect, PTL

\* The epoll, the two maps and the users agree about every descriptor that is
\* neither being accepted nor being closed, as long as no connection is read
\* before it is entered and no descriptor is given away while in use.
THEOREM RegistryKept == Spec => []RegistryExact
<1>1. RegInv => RegistryExact
  <2> SUFFICES ASSUME RegInv, Orderly, NEW f \in Fds, ~Accepting(f), ~Closing(f, Actors)
               PROVE  Settled(f)
    BY DEF RegistryExact, Orderly, Settled
  <2>1. \A a \in Actors : ~Late(a, f)
    BY DEF Late, LateAt, Closing, ClosesNow
  <2> QED BY <2>1 DEF RegInv, Place
<1> QED BY <1>1, RegCorrect, PTL

-----------------------------------------------------------------------------
(* The inactivity check                                                     *)

\* What the check reads is what was heard, between CreateUser and close; what it
\* is late for, it has in hand.
InHand(f) == at[Checker] \in {"remove", "erase", "close"} /\ fd[Checker] = f
Live(f) == Serves(f) /\ ~Accepting(f)
Timely(f) ==
    Live(f) =>
        /\ users[f] = heard[f] /\ heard[f] <= 2 * Timeout
        /\ heard[f] + nextCheck <= 2 * Timeout \/ f \in listed \/ InHand(f)
TimeInv ==
    "reuse" \notin mishaps =>
        /\ \A f \in Fds : Timely(f)
        /\ \A a \in Actors : at[a] = "forget" => ~Serves(fd[a])
        /\ nextCheck = 0 => listed = {} /\ Idle(Checker)

LEMMA TimeInit == Init => TimeInv
<1> SUFFICES ASSUME Init PROVE TimeInv
  OBVIOUS
<1>1. \A f \in Fds : ~Serves(f)
  BY DEF Init, Serves
<1>2. \A a \in Actors : at[a] # "forget"
  BY DEF Init
<1>3. nextCheck # 0
  BY ServerAssumption DEF ServerAssumption, Init
<1> QED BY <1>1, <1>2, <1>3 DEF TimeInv, Timely, Live

\* A step that neither makes f live nor ages it.
LEMMA TimelyUnmoved ==
    ASSUME NEW f \in Fds, Timely(f), Live(f)' => Live(f),
           UNCHANGED <<nextCheck, listed>>, InHand(f) => InHand(f)' \/ ~Live(f)',
           Live(f)' => users'[f] = users[f] /\ heard'[f] = heard[f]
    PROVE  Timely(f)'
BY DEF Timely

LEMMA TimeStep ==
    ASSUME TypeInv, TimeInv, [Next]_vars
    PROVE  TimeInv'
<1> USE DEF Live, Serves, Accepting
<1> SUFFICES ASSUME "reuse" \notin mishaps'
             PROVE  /\ \A f \in Fds : Timely(f)'
                    /\ \A a \in Actors : at'[a] = "forget" => ~Serves(fd[a])'
                    /\ nextCheck' = 0 => listed' = {} /\ Idle(Checker)'
  BY DEF TimeInv
<1>a. /\ "reuse" \notin mishaps
      /\ \A f \in Fds : Timely(f)
      /\ \A a \in Actors : at[a] = "forget" => ~Serves(fd[a])
      /\ nextCheck = 0 => listed = {} /\ Idle(Checker)
  BY MishapsStay DEF TimeInv
<1>b. /\ Timeout \in Nat /\ Timeout # 0 /\ nextCheck \in 0 .. Timeout
      /\ 0 \in 0 .. Long /\ NoUser \notin Nat /\ Long = 2 * Timeout + 1
      /\ \A f \in Fds : heard[f] \in 0 .. Long /\ users[f] \in 0 .. Long \cup {NoUser}
  BY ServerAssumption, LongRange DEF ServerAssumption, Long, TypeInv, TypeOK
<1>c. Checker \in Actors
  BY DEF Actors
<1>0. CASE UNCHANGED <<open, acceptor, users, heard, nextCheck, listed, at, fd>>
  BY <1>0, <1>a, TimelyUnmoved DEF InHand, Idle
<1>1. CASE Clients
  BY <1>0, <1>1 DEF Clients, Connect, SendRequest, Leave, kernelVars, userVars,
     threadVars, clockVars
<1>2. CASE Tick
  <2>1. /\ UNCHANGED <<open, acceptor, at, fd, listed>>
        /\ nextCheck > 0 /\ nextCheck' = nextCheck - 1 /\ listed = {} /\ Idle(Checker)
    BY <1>2 DEF Tick, kernelVars, threadVars
  <2>2. ASSUME NEW f \in Fds, Live(f)' PROVE Timely(f)'
    <3>1. Live(f) /\ users[f] = heard[f] /\ heard[f] \in Nat
          /\ heard[f] + nextCheck <= 2 * Timeout
      BY <1>a, <1>b, <2>1, <2>2 DEF Timely, InHand, Idle
    <3>2. heard[f] # Long /\ heard[f] + 1 + nextCheck' <= 2 * Timeout
          /\ heard[f] + 1 <= 2 * Timeout
      BY <1>b, <2>1, <3>1
    <3>3. users'[f] = heard[f] + 1 /\ heard'[f] = heard[f] + 1
      BY <1>2, <1>b, <3>1, <3>2 DEF Tick, Older
    <3> QED BY <3>2, <3>3 DEF Timely
  <2> QED BY <1>a, <2>1, <2>2 DEF Timely, Idle
<1>3. ASSUME NEW c \in Connections, Accept(c) PROVE TimeInv'
  <2>1. PICK g : g = Lowest(FreeFds)
    OBVIOUS
  <2>2. g \in Fds /\ ~Serves(g)
    BY <1>3, <2>1, LowestFree DEF Accept, FreeFds
  <2>3. /\ open' = [open EXCEPT ![g] = c]
        /\ acceptor' = [at |-> "add", fd |-> g, of |-> c]
        /\ heard' = [heard EXCEPT ![g] = 0]
        /\ ~Used(g, Actors)
        /\ UNCHANGED <<users, at, fd, nextCheck, listed>>
    BY <1>3, <2>1 DEF Accept, Note, threadVars, clockVars
  <2>4. ASSUME NEW f \in Fds PROVE Timely(f)'
    <3>1. CASE f = g
      BY <2>3, <3>1 DEF Timely
    <3>2. CASE f # g
      <4>1. open'[f] = open[f] /\ heard'[f] = heard[f] /\ acceptor.at = "accept"
        <5>1. /\ open \in [Fds -> Connections \cup {NoConnection}]
              /\ heard \in [Fds -> 0 .. Long]
          BY DEF TypeInv, TypeOK
        <5>2. acceptor.at = "accept"
          BY <1>3 DEF Accept
        <5> QED BY <2>3, <3>2, <5>1, <5>2
      <4>2. (Live(f)' => Live(f)) /\ InHand(f)' = InHand(f)
        BY <2>3, <3>2, <4>1 DEF InHand
      <4> QED BY <1>a, <2>3, <4>1, <4>2, TimelyUnmoved
    <3> QED BY <3>1, <3>2
  <2>5. ASSUME NEW a \in Actors, at'[a] = "forget" PROVE ~Serves(fd[a])'
    <3>1. fd[a] # g /\ fd[a] \in Fds /\ ~Serves(fd[a])
      BY <1>a, <2>3, <2>5 DEF Used, Held, Idle, TypeInv
    <3> QED BY <2>2, <2>3, <3>1 DEF TypeInv, TypeOK
  <2> QED BY <1>a, <2>3, <2>4, <2>5 DEF TimeInv, Idle
<1>4. CASE AcceptFails
  BY <1>0, <1>4 DEF AcceptFails, kernelVars, userVars, threadVars, clockVars
<1>5. CASE AddFd \/ EnterMaps
  <2>1. UNCHANGED <<open, users, heard, nextCheck, listed, at, fd>>
    BY <1>5 DEF AddFd, EnterMaps, kernelVars, userVars, threadVars, clockVars
  <2>2. acceptor'.at # "accept" /\ acceptor.at # "accept" /\ acceptor'.fd = acceptor.fd
    BY <1>5 DEF AddFd, EnterMaps, TypeInv
  <2> QED BY <1>a, <2>1, <2>2, TimelyUnmoved DEF InHand, Idle
<1>6. CASE CreateUser
  <2>1. /\ UNCHANGED <<open, nextCheck, listed, at, fd>>
        /\ acceptor.at = "announce" /\ acceptor.fd \in Fds
        /\ users' = [users EXCEPT ![acceptor.fd] = 0]
        /\ heard' = [heard EXCEPT ![acceptor.fd] = 0]
    BY <1>6 DEF CreateUser, kernelVars, threadVars, clockVars, TypeInv
  <2>2. ASSUME NEW f \in Fds PROVE Timely(f)'
    <3>1. CASE f = acceptor.fd
      <4>1. users'[f] = 0 /\ heard'[f] = 0
        BY <2>1, <3>1 DEF TypeInv, TypeOK
      <4> QED BY <1>b, <2>1, <4>1 DEF Timely
    <3>2. CASE f # acceptor.fd
      <4>1. users'[f] = users[f] /\ heard'[f] = heard[f]
        BY <2>1, <3>2 DEF TypeInv, TypeOK
      <4> QED BY <1>a, <2>1, <3>2, <4>1, TimelyUnmoved DEF InHand
    <3> QED BY <3>1, <3>2
  <2> QED BY <1>a, <2>1, <2>2 DEF Idle
<1>7. CASE StartCheck
  <2>1. /\ UNCHANGED <<open, acceptor, users, heard, at, fd>>
        /\ nextCheck = 0 /\ nextCheck' = Timeout /\ listed' = CheckInvalidUser
    BY <1>7 DEF StartCheck, kernelVars, userVars, threadVars
  <2>2. ASSUME NEW f \in Fds, Live(f)' PROVE Timely(f)'
    <3>1. Live(f) /\ users[f] = heard[f] /\ heard[f] <= 2 * Timeout /\ heard[f] \in Nat
      BY <1>a, <1>b, <2>1, <2>2 DEF Timely
    <3>2. CASE heard[f] <= Timeout
      <4>1. heard[f] + Timeout <= 2 * Timeout
        BY <1>b, <3>1, <3>2
      <4> QED BY <2>1, <3>1, <4>1 DEF Timely
    <3>3. CASE ~(heard[f] <= Timeout)
      <4>1. users[f] # NoUser
        BY <1>b, <3>1
      <4>2. f \in listed'
        BY <2>1, <3>1, <3>3, <4>1 DEF CheckInvalidUser, IsActive
      <4> QED BY <2>1, <3>1, <4>2 DEF Timely
    <3> QED BY <3>2, <3>3
  <2> QED BY <1>a, <1>b, <2>1, <2>2 DEF Timely
<1>8. ASSUME NEW g \in Fds, Evict(g) PROVE TimeInv'
  <2>1. /\ UNCHANGED <<open, acceptor, users, heard, nextCheck>>
        /\ Idle(Checker) /\ g \in listed /\ listed' = listed \ {g}
        /\ at' = [at EXCEPT ![Checker] = "remove"]
        /\ fd' = [fd EXCEPT ![Checker] = g]
    BY <1>8 DEF Evict, BeginClose, Goto, kernelVars, userVars
  <2>2. at'[Checker] = "remove" /\ fd'[Checker] = g
        /\ \A a \in Actors \ {Checker} : at'[a] = at[a] /\ fd'[a] = fd[a]
    BY <1>c, <2>1 DEF TypeInv, TypeOK
  <2>3. ASSUME NEW f \in Fds PROVE Timely(f)'
    <3>1. Live(f)' <=> Live(f)
      BY <2>1
    <3>2. f \in listed \/ InHand(f) => f \in listed' \/ InHand(f)'
      BY <2>1, <2>2 DEF InHand, Idle
    <3> QED BY <1>a, <2>1, <3>1, <3>2 DEF Timely
  <2>4. ASSUME NEW a \in Actors, at'[a] = "forget" PROVE ~Serves(fd[a])'
    <3>1. a # Checker
      BY <2>2, <2>4
    <3>2. at[a] = "forget" /\ fd'[a] = fd[a]
      BY <2>2, <2>4, <3>1
    <3> QED BY <1>a, <2>1, <3>2
  <2> QED BY <1>a, <2>1, <2>3, <2>4 DEF TimeInv
<1>9. ASSUME NEW f \in Fds, CommitRead(f) PROVE TimeInv'
  BY <1>0, <1>9 DEF CommitRead, userVars, threadVars, clockVars, TimeInv
<1>10. ASSUME NEW r \in Readers, Reader(r) PROVE TimeInv'
  <2> USE ReaderIsActor
  <2>1. /\ UNCHANGED <<open, acceptor, nextCheck, listed>>
        /\ \A a \in Actors \ {r} : at'[a] = at[a] /\ fd'[a] = fd[a]
        /\ at'[r] # "forget"
    BY <1>10, ReaderMoves DEF Moves
  <2>2. at'[Checker] = at[Checker] /\ fd'[Checker] = fd[Checker]
    BY <1>c, <2>1
  <2>3. ASSUME NEW f \in Fds PROVE Timely(f)'
    <3>1. CASE UNCHANGED <<users, heard>>
      BY <1>a, <2>1, <2>2, <3>1, TimelyUnmoved DEF InHand
    <3>2. CASE UpdateHeartbeat(r) /\ users' = [users EXCEPT ![fd[r]] = 0]
               /\ heard' = [heard EXCEPT ![fd[r]] = 0]
      <4>1. CASE fd[r] = f
        <5>1. users'[f] = 0 /\ heard'[f] = 0
          BY <3>2, <4>1 DEF TypeInv, TypeOK
        <5> QED BY <1>b, <2>1, <5>1 DEF Timely
      <4>2. CASE fd[r] # f
        <5>1. users'[f] = users[f] /\ heard'[f] = heard[f]
          BY <3>2, <4>2 DEF TypeInv, TypeOK
        <5> QED BY <1>a, <2>1, <2>2, <5>1, TimelyUnmoved DEF InHand
      <4> QED BY <4>1, <4>2
    <3> QED BY <1>10, <3>1, <3>2 DEF Reader, StartTask, ReadEnds, ReadRequest, ReadDone,
            UpdateHeartbeat, ModifyForSend, SendReply, SendFails, ModifyAfterSend,
            Modify, userVars
  <2>4. ASSUME NEW a \in Actors, at'[a] = "forget" PROVE ~Serves(fd[a])'
    BY <1>a, <2>1, <2>4
  <2> QED BY <1>a, <2>1, <2>2, <2>3, <2>4 DEF TimeInv, Idle
<1>11. ASSUME NEW a \in Actors, Close(a) PROVE TimeInv'
  <2>1. /\ UNCHANGED <<acceptor, nextCheck, listed>> /\ fd[a] \in Fds /\ ~Idle(a)
        /\ \A b \in Actors \ {a} : at'[b] = at[b] /\ fd'[b] = fd[b]
    BY <1>11, CloseMoves DEF Moves
  <2>2. CASE RemoveFd(a) \/ EraseMaps(a)
    <3>1. UNCHANGED <<open, users, heard, fd>> /\ at[a] \in {"remove", "erase"}
          /\ at'[a] \in {"remove", "erase", "close"}
      <4>1. /\ UNCHANGED <<open, users, heard, fd>> /\ at[a] \in {"remove", "erase"}
            /\ UNCHANGED at \/ Goto(a, "erase") \/ Goto(a, "close")
        BY <2>2 DEF RemoveFd, EraseMaps, kernelVars, userVars
      <4>2. at'[a] \in {"remove", "erase", "close"}
        BY <4>1, GotoMoves
      <4> QED BY <4>1, <4>2
    <3>2. \A f \in Fds : InHand(f) => InHand(f)'
      <4>1. /\ at'[Checker] = at[Checker] \/ (at[Checker] \in {"remove", "erase"}
                                /\ at'[Checker] \in {"remove", "erase", "close"})
            /\ fd'[Checker] = fd[Checker]
        BY <1>c, <2>1, <3>1
      <4> QED BY <4>1 DEF InHand
    <3>3. \A f \in Fds : Timely(f)'
      BY <1>a, <2>1, <3>1, <3>2, TimelyUnmoved
    <3> QED BY <1>a, <1>c, <2>1, <3>1, <3>3 DEF TimeInv, Idle
  <2>3. CASE CloseFd(a)
    <3>1. /\ open' = [open EXCEPT ![fd[a]] = NoConnection]
          /\ heard' = [heard EXCEPT ![fd[a]] = 0]
          /\ at[a] = "close" /\ at'[a] = "forget" /\ UNCHANGED <<users, fd>>
      BY <2>3 DEF CloseFd, Goto, TypeInv, TypeOK
    <3>2. ~Serves(fd[a])' /\ \A f \in Fds \ {fd[a]} : open'[f] = open[f] /\ heard'[f] = heard[f]
      BY <2>1, <3>1 DEF TypeInv, TypeOK
    <3>3. ASSUME NEW f \in Fds PROVE Timely(f)'
      <4>1. CASE f = fd[a]
        BY <3>1, <3>2, <4>1 DEF Timely
      <4>2. CASE f # fd[a]
        <5>1. InHand(f) => InHand(f)'
          BY <1>c, <2>1, <3>1, <4>2 DEF InHand
        <5> QED BY <1>a, <2>1, <3>1, <3>2, <4>2, <5>1, TimelyUnmoved
      <4> QED BY <4>1, <4>2
    <3>4. ASSUME NEW b \in Actors, at'[b] = "forget" PROVE ~Serves(fd[b])'
      <4>1. CASE fd[b] = fd[a]
        BY <3>1, <3>2, <4>1
      <4>2. CASE fd[b] # fd[a]
        <5>1. at[b] = "forget" /\ fd[b] \in Fds
          BY <2>1, <3>4, <4>2 DEF TypeInv, Idle
        <5> QED BY <1>a, <3>1, <3>2, <4>2, <5>1
      <4> QED BY <4>1, <4>2
    <3> QED BY <1>a, <1>c, <2>1, <3>1, <3>3, <3>4 DEF TimeInv, Idle
  <2>4. CASE Forget(a)
    <3>1. /\ UNCHANGED <<open, heard>> /\ at[a] = "forget" /\ at'[a] \in {"read", "idle"}
          /\ users' = [users EXCEPT ![fd[a]] = NoUser]
      BY <2>4 DEF Forget, Goto, TaskEnds, kernelVars, TypeInv, TypeOK
    <3>2. ~Serves(fd[a]) /\ \A f \in Fds \ {fd[a]} : users'[f] = users[f]
      BY <1>a, <2>1, <3>1 DEF TypeInv, TypeOK
    <3>3. ASSUME NEW f \in Fds PROVE Timely(f)'
      <4>1. CASE f = fd[a]
        BY <3>1, <3>2, <4>1 DEF Timely
      <4>2. CASE f # fd[a]
        <5>1. InHand(f) => InHand(f)'
          BY <1>c, <2>1, <3>1, <4>2 DEF InHand
        <5> QED BY <1>a, <2>1, <3>1, <3>2, <4>2, <5>1, TimelyUnmoved
      <4> QED BY <4>1, <4>2
    <3>4. ASSUME NEW b \in Actors, at'[b] = "forget" PROVE ~Serves(fd[b])'
      BY <1>a, <2>1, <3>1, <3>4
    <3> QED BY <1>a, <1>c, <2>1, <3>1, <3>3, <3>4 DEF TimeInv, Idle
  <2> QED BY <1>11, <2>2, <2>3, <2>4 DEF Close
<1>12. CASE UNCHANGED vars
  BY <1>0, <1>12 DEF vars, kernelVars, userVars, threadVars, clockVars
<1> QED BY <1>1, <1>2, <1>3, <1>4, <1>5, <1>6, <1>7, <1>8, <1>9, <1>10, <1>11, <1>12
        DEF Next, Acceptor, Enter, Check, TimeInv

LEMMA TimeCorrect == Spec => [](TypeInv /\ TimeInv)
<1>1. Init => TypeInv /\ TimeInv
  BY TypeInit, TimeInit
<1>2. TypeInv /\ TimeInv /\ [Next]_vars => (TypeInv /\ TimeInv)'
  BY TypeStep, TimeStep
<1> QED BY <1>1, <1>2, PTL DEF Spec

\* A connection that was silent for two periods of the check is closed, as long
\* as no descriptor is given away while in use.
THEOREM SilentAreEvicted == Spec => []EvictedInTime
<1>1. TypeInv /\ TimeInv => EvictedInTime
  BY DEF TimeInv, Timely, Live, EvictedInTime
<1> QED BY <1>1, TimeCorrect, PTL

\* What the check lists or closes was silent when it was listed; what it may have
\* said since is the 0.
Silent(f) == Serves(f) => heard[f] > Timeout \/ heard[f] = 0
SilentInv ==
    Orderly => \A f \in Fds : f \in listed \/ InHand(f) => Silent(f)

LEMMA SilentInit == Init => SilentInv
BY DEF Init, SilentInv, InHand, Actors

LEMMA SilentStep ==
    ASSUME TypeInv, RegInv, TimeInv, SilentInv, [Next]_vars
    PROVE  SilentInv'
<1> USE DEF Silent, Serves
<1> SUFFICES ASSUME Orderly', NEW f \in Fds, f \in listed' \/ InHand(f)'
             PROVE  Silent(f)'
  BY DEF SilentInv
<1>a. /\ Orderly /\ "reuse" \notin mishaps /\ "reuse" \notin mishaps'
      /\ Place(f) /\ Timely(f)
      /\ f \in listed \/ InHand(f) => Silent(f)
  BY MishapsStay DEF Orderly, RegInv, TimeInv, SilentInv
<1>c. Checker \in Actors
  BY DEF Actors
<1>0. CASE UNCHANGED <<open, heard, listed>> /\ (InHand(f)' => InHand(f))
  BY <1>0, <1>a
<1>1. CASE Clients
  BY <1>0, <1>1 DEF Clients, Connect, SendRequest, Leave, kernelVars, userVars,
     threadVars, clockVars, InHand
<1>2. CASE Tick
  BY <1>2 DEF Tick, threadVars, InHand, Idle
<1>3. ASSUME NEW c \in Connections, Accept(c) PROVE Silent(f)'
  <2>1. PICK g : g = Lowest(FreeFds)
    OBVIOUS
  <2>2. /\ open' = [open EXCEPT ![g] = c]
        /\ heard' = [heard EXCEPT ![g] = 0]
        /\ ~Used(g, Actors) /\ UNCHANGED <<at, fd, listed>>
    BY <1>3, <1>a, <2>1 DEF Accept, Note, threadVars, clockVars
  <2>3. f # g
    BY <1>c, <2>2 DEF Used, Held, InHand, Idle
  <2>4. open'[f] = open[f] /\ heard'[f] = heard[f]
    BY <2>2, <2>3 DEF TypeInv, TypeOK
  <2> QED BY <1>a, <2>2, <2>4 DEF InHand
<1>4. CASE AcceptFails \/ AddFd \/ EnterMaps
  BY <1>0, <1>4 DEF AcceptFails, AddFd, EnterMaps, kernelVars, userVars, threadVars,
     clockVars, InHand
<1>5. CASE CreateUser
  <2>1. /\ UNCHANGED <<open, listed, at, fd>>
        /\ heard' = [heard EXCEPT ![acceptor.fd] = 0]
    BY <1>5 DEF CreateUser, kernelVars, threadVars, clockVars
  <2>2. heard'[f] = 0 \/ heard'[f] = heard[f]
    BY <2>1 DEF TypeInv, TypeOK
  <2> QED BY <1>a, <2>1, <2>2 DEF InHand
<1>6. CASE StartCheck
  <2>1. UNCHANGED <<open, heard, at, fd>> /\ listed' = CheckInvalidUser
    BY <1>6 DEF StartCheck, kernelVars, userVars, threadVars
  <2>2. CASE InHand(f)
    BY <1>a, <2>1, <2>2
  <2>3. CASE f \in CheckInvalidUser /\ Serves(f)
    <3>1. ~Accepting(f) /\ users[f] > Timeout
      <4>1. users[f] # NoUser /\ ~(users[f] <= Timeout)
        BY <2>3 DEF CheckInvalidUser, IsActive
      <4>2. users[f] \in Nat /\ Timeout \in Nat
        <5>1. users[f] \in 0 .. Long
          BY <4>1 DEF TypeInv, TypeOK
        <5> QED BY <5>1, LongRange, ServerAssumption DEF ServerAssumption
      <4> QED BY <1>a, <4>1, <4>2 DEF Place, Entering
    <3>2. users[f] = heard[f]
      BY <1>a, <2>3, <3>1 DEF Timely, Live
    <3> QED BY <2>1, <3>1, <3>2
  <2> QED BY <2>1, <2>2, <2>3 DEF InHand
<1>7. ASSUME NEW g \in Fds, Evict(g) PROVE Silent(f)'
  <2>1. /\ UNCHANGED <<open, heard>> /\ g \in listed /\ listed' = listed \ {g}
        /\ fd' = [fd EXCEPT ![Checker] = g]
    BY <1>7 DEF Evict, kernelVars, userVars
  <2>2. f \in listed
    BY <1>c, <2>1 DEF InHand, TypeInv, TypeOK
  <2> QED BY <1>a, <2>1, <2>2
<1>8. ASSUME NEW g \in Fds, CommitRead(g) PROVE Silent(f)'
  BY <1>0, <1>8 DEF CommitRead, userVars, threadVars, clockVars, InHand
<1>9. ASSUME NEW r \in Readers, Reader(r) PROVE Silent(f)'
  <2>1. /\ UNCHANGED <<open, listed>>
        /\ at'[Checker] = at[Checker] /\ fd'[Checker] = fd[Checker]
    BY <1>9, <1>c, ReaderIsActor, ReaderMoves DEF Moves
  <2>2. heard'[f] = 0 \/ heard'[f] = heard[f]
    <3>1. UNCHANGED heard \/ heard' = [heard EXCEPT ![fd[r]] = 0]
      BY <1>9 DEF Reader, StartTask, ReadEnds, ReadRequest, ReadDone, UpdateHeartbeat,
         ModifyForSend, SendReply, SendFails, ModifyAfterSend, Modify, userVars
    <3>2. heard \in [Fds -> 0 .. Long]
      BY DEF TypeInv, TypeOK
    <3> QED BY <3>1, <3>2
  <2> QED BY <1>a, <2>1, <2>2 DEF InHand
<1>10. ASSUME NEW a \in Actors, Close(a) PROVE Silent(f)'
  <2>1. UNCHANGED listed /\ fd[a] \in Fds
    BY <1>10, CloseMoves
  <2>2. InHand(f)' => InHand(f)
    <3>1. CASE a = Checker
      <4>1. CASE at[a] = "forget"
        <5>1. Goto(a, "read") \/ Goto(a, "idle")
          BY <1>10, <4>1 DEF Close, RemoveFd, EraseMaps, CloseFd, Forget, TaskEnds
        <5>2. at'[a] \in {"read", "idle"}
          BY <5>1, GotoMoves
        <5> QED BY <3>1, <5>2 DEF InHand
      <4>2. CASE at[a] # "forget"
        BY <1>10, <3>1, <4>2, CloseMoves DEF InHand
      <4> QED BY <4>1, <4>2
    <3>2. CASE a # Checker
      <4>1. Moves(a)
        BY <1>10, CloseMoves
      <4>2. at'[Checker] = at[Checker] /\ fd'[Checker] = fd[Checker]
        BY <1>c, <3>2, <4>1 DEF Moves
      <4> QED BY <4>2 DEF InHand
    <3> QED BY <3>1, <3>2
  <2>3. CASE UNCHANGED <<open, heard>>
    BY <1>0, <2>1, <2>2, <2>3
  <2>4. CASE CloseFd(a)
    <3>1. open'[f] = NoConnection \/ (open'[f] = open[f] /\ heard'[f] = heard[f])
      BY <2>4 DEF CloseFd, TypeInv, TypeOK
    <3> QED BY <1>a, <2>1, <2>2, <3>1
  <2> QED BY <1>10, <2>3, <2>4 DEF Close, RemoveFd, EraseMaps, Forget, kernelVars, userVars
<1>11. CASE UNCHANGED vars
  BY <1>0, <1>11 DEF vars, kernelVars, userVars, threadVars, clockVars, InHand
<1> QED BY <1>1, <1>2, <1>3, <1>4, <1>5, <1>6, <1>7, <1>8, <1>9, <1>10, <1>11
        DEF Next, Acceptor, Enter, Check

\* The check closes what is silent, or what spoke again while it ran.
THEOREM OnlySilentAreEvicted == Spec => EvictsOnlySilent
<1>1. Init => SilentInv
  BY SilentInit
<1>2. TypeInv /\ RegInv /\ TimeInv /\ SilentInv /\ [Next]_vars => SilentInv'
  BY SilentStep
<1>3. SilentInv => \A f \in Fds :
                       CloseFd(Checker) /\ fd[Checker] = f /\ Serves(f) =>
                           \/ heard[f] > Timeout \/ heard[f] = 0
                           \/ mishaps \cap {"early", "reuse"} # {}
  BY DEF SilentInv, Orderly, InHand, Silent, CloseFd
<1>4. SilentInv => [\A f \in Fds :
                        CloseFd(Checker) /\ fd[Checker] = f /\ Serves(f) =>
                            \/ heard[f] > Timeout \/ heard[f] = 0
                            \/ mishaps \cap {"early", "reuse"} # {}]_vars
  BY <1>3
<1> QED BY <1>1, <1>2, <1>4, RegCorrect, TimeCorrect, PTL DEF Spec, EvictsOnlySilent

-----------------------------------------------------------------------------
(* What ends the process                                                    *)

Busy == {"read", "heartbeat", "arm", "send", "rearm"}

\* Whoever is at work with a descriptor, or will be, has a connection there, and
\* whoever closes one is alone with it.
Awaited(f) == tasks[f] > 0 \/ f \in listed
Serving ==
    /\ \A f \in Fds : Awaited(f) => Serves(f)
    /\ \A a \in Actors : at[a] \in Busy \cup {"remove"} => Serves(fd[a])
Alone == \A a \in Actors : ClosesNow(a) => ~Used(fd[a], Actors \ {a})
Plain ==
    /\ Up
    /\ \A a \in Actors : at[a] \in Busy => channel[a] # NoConnection
    /\ \A a \in Actors : afterClose[a] = "idle"
CleanInv == mishaps = {} => Serving /\ Alone /\ Plain

LEMMA CleanInit == Init => CleanInv
BY DEF Init, CleanInv, Serving, Alone, Plain, Awaited, Up, Busy, ClosesNow

\* Who is at work finds the descriptor in all its places.
LEMMA WorkPlace ==
    ASSUME TypeInv, RegInv, CleanInv, mishaps = {},
           NEW a \in Actors, at[a] \in Busy \cup {"remove"}
    PROVE  /\ fd[a] \in Fds /\ Serves(fd[a]) /\ Settled(fd[a])
           /\ InEpoll(fd[a]) /\ users[fd[a]] # NoUser
           /\ \A b \in Actors \ {a} : ~(ClosesNow(b) /\ fd[b] = fd[a])
<1>1. ~Idle(a) /\ fd[a] \in Fds /\ Serves(fd[a]) /\ at[a] \notin LateAt
  BY DEF CleanInv, Serving, Busy, Idle, LateAt, TypeInv
<1>2. Place(fd[a]) /\ ~Accepting(fd[a])
  BY <1>1, BusyPlace DEF RegInv, Orderly
<1>3. \A b \in Actors \ {a} : ~(ClosesNow(b) /\ fd[b] = fd[a])
  BY <1>1 DEF CleanInv, Alone, Used, Held
<1>4. \A b \in Actors : ~Late(b, fd[a])
  BY <1>1, <1>3 DEF Late, LateAt, ClosesNow
<1>5. Settled(fd[a])
  BY <1>2, <1>4 DEF Place
<1> QED BY <1>1, <1>3, <1>5 DEF Settled, InEpoll

\* A step of nobody who works with a connection.
LEMMA CleanUnmoved ==
    ASSUME TypeInv, Serving, Alone, Plain,
           UNCHANGED <<tasks, listed, threadVars, down>>,
           \A f \in Fds : Serves(f) => Serves(f)'
    PROVE  (Serving /\ Alone /\ Plain)'
<1>1. UNCHANGED <<at, fd, channel, afterClose>>
  BY DEF threadVars
<1>2. Serving'
  BY <1>1 DEF Serving, Awaited, TypeInv, Idle, Busy
<1>3. Alone'
  BY <1>1 DEF Alone, ClosesNow, Used, Held, Idle
<1> QED BY <1>1, <1>2, <1>3 DEF Plain, Up

\* A step of one reader that closes nothing.
LEMMA CleanMove ==
    ASSUME TypeInv, Serving, Alone, NEW a \in Actors, ~Idle(a), ~ClosesNow(a),
           UNCHANGED <<open, tasks, listed>>,
           \A b \in Actors \ {a} : at'[b] = at[b] /\ fd'[b] = fd[b],
           (fd'[a] = fd[a] /\ at[a] \in Busy /\ at'[a] \in Busy) \/ at'[a] = "idle"
    PROVE  (Serving /\ Alone)'
<1>1. \A f \in Fds : Serves(f)' <=> Serves(f)
  BY DEF Serves
<1>2. Serving'
  <2>1. ASSUME NEW b \in Actors, at'[b] \in Busy \cup {"remove"} PROVE Serves(fd[b])'
    BY <2>1 DEF Serving, Busy, Serves
  <2> QED BY <1>1, <2>1 DEF Serving, Awaited
<1>3. ASSUME NEW b \in Actors, ClosesNow(b)' PROVE ~Used(fd[b], Actors \ {b})'
  <2>1. b # a /\ ClosesNow(b) /\ fd'[b] = fd[b]
    BY <1>3 DEF ClosesNow, Busy
  <2>2. ~Used(fd[b], Actors \ {b})
    BY <2>1 DEF Alone
  <2> QED BY <2>1, <2>2 DEF Used, Held, Idle
<1> QED BY <1>2, <1>3 DEF Alone

LEMMA CleanStep ==
    ASSUME TypeInv, RegInv, CleanInv, [Next]_vars
    PROVE  CleanInv'
<1> SUFFICES ASSUME mishaps' = {} PROVE (Serving /\ Alone /\ Plain)'
  BY DEF CleanInv
<1>a. mishaps = {} /\ Serving /\ Alone /\ Plain
  BY MishapsStay DEF CleanInv
<1>c. Checker \in Actors
  BY DEF Actors
<1>0. CASE UNCHANGED <<open, tasks, listed, threadVars, down>>
  BY <1>0, <1>a, CleanUnmoved DEF Serves
<1>1. CASE Clients \/ Tick
  BY <1>0, <1>1 DEF Clients, Connect, SendRequest, Leave, Tick, kernelVars, clockVars
<1>2. ASSUME NEW c \in Connections, Accept(c) PROVE (Serving /\ Alone /\ Plain)'
  <2>1. /\ UNCHANGED <<tasks, listed, threadVars, down>>
        /\ open' = [open EXCEPT ![Lowest(FreeFds)] = c] /\ c # NoConnection
    BY <1>2, ServerAssumption DEF ServerAssumption, Accept, clockVars
  <2>2. \A f \in Fds : Serves(f) => Serves(f)'
    BY <2>1 DEF Serves, TypeInv, TypeOK
  <2> QED BY <1>a, <2>1, <2>2, CleanUnmoved
<1>3. CASE AcceptFails
  BY <1>3 DEF AcceptFails, Note
<1>4. CASE AddFd \/ EnterMaps \/ CreateUser
  BY <1>0, <1>4 DEF AddFd, EnterMaps, CreateUser, kernelVars, clockVars
<1>5. CASE StartCheck
  <2>1. /\ UNCHANGED <<open, users, tasks, threadVars, down>>
        /\ listed' = CheckInvalidUser
        /\ \A f \in listed' : ~Closing(f, Actors)
    BY <1>5 DEF StartCheck, kernelVars, userVars, Note
  <2>2. UNCHANGED <<at, fd, channel, afterClose>>
    BY <2>1 DEF threadVars
  <2>3. ASSUME NEW f \in Fds, f \in listed' PROVE Serves(f)
    <3>1. Place(f) /\ users[f] # NoUser
      BY <1>a, <2>1, <2>3 DEF RegInv, Orderly, CheckInvalidUser
    <3>2. ~Accepting(f) /\ \A a \in Actors : ~Late(a, f)
      BY <2>1, <2>3, <3>1 DEF Place, Entering, Closing, ClosesNow, Late, LateAt
    <3> QED BY <3>1, <3>2 DEF Place, Settled
  <2>4. Serving'
    BY <1>a, <2>1, <2>2, <2>3 DEF Serving, Awaited, Serves
  <2>5. ASSUME NEW a \in Actors, ClosesNow(a)' PROVE ~Used(fd[a], Actors \ {a})'
    <3>1. ClosesNow(a) /\ ~Used(fd[a], Actors \ {a})
      BY <1>a, <2>2, <2>5 DEF ClosesNow, Alone
    <3>2. fd[a] \notin listed'
      BY <2>1, <3>1 DEF Closing
    <3> QED BY <2>1, <2>2, <3>1, <3>2 DEF Used, Held, Idle
  <2> QED BY <1>a, <2>1, <2>2, <2>4, <2>5 DEF Alone, Plain, Up
<1>6. ASSUME NEW f \in Fds, Evict(f) PROVE (Serving /\ Alone /\ Plain)'
  <2>1. /\ UNCHANGED <<open, tasks, channel, down>> /\ Idle(Checker)
        /\ f \in listed /\ listed' = listed \ {f}
        /\ at' = [at EXCEPT ![Checker] = "remove"]
        /\ fd' = [fd EXCEPT ![Checker] = f]
        /\ afterClose' = [afterClose EXCEPT ![Checker] = "idle"]
        /\ ~Held(f, Readers)
    BY <1>6 DEF Evict, BeginClose, Goto, Note, kernelVars
  <2>2. /\ at'[Checker] = "remove" /\ fd'[Checker] = f
        /\ \A b \in Actors \ {Checker} : at'[b] = at[b] /\ fd'[b] = fd[b]
    BY <1>c, <2>1 DEF TypeInv, TypeOK
  <2>3. Serves(f)
    BY <1>a, <2>1 DEF Serving, Awaited
  <2>4. Serving'
    BY <1>a, <2>1, <2>2, <2>3 DEF Serving, Awaited, Serves
  <2>5. ASSUME NEW a \in Actors, ClosesNow(a)' PROVE ~Used(fd[a], Actors \ {a})'
    <3>1. CASE a = Checker
      <4>1. Actors \ {Checker} \subseteq Readers
        BY DEF Actors
      <4> QED BY <2>1, <2>2, <3>1, <4>1 DEF Used, Held, Idle
    <3>2. CASE a # Checker
      <4>1. ClosesNow(a) /\ fd'[a] = fd[a] /\ ~Used(fd[a], Actors \ {a})
        BY <1>a, <2>2, <2>5, <3>2 DEF ClosesNow, Alone
      <4>2. fd[a] # f
        BY <2>1, <4>1 DEF Used
      <4> QED BY <2>1, <2>2, <4>1, <4>2 DEF Used, Held, Idle
    <3> QED BY <3>1, <3>2
  <2>6. Plain'
    <3>1. \A a \in Actors : afterClose'[a] = "idle"
      BY <1>a, <2>1 DEF Plain, TypeInv, TypeOK
    <3> QED BY <1>a, <2>1, <2>2, <3>1 DEF Plain, Up, Busy
  <2> QED BY <2>4, <2>5, <2>6 DEF Alone
<1>7. ASSUME NEW f \in Fds, CommitRead(f) PROVE (Serving /\ Alone /\ Plain)'
  <2>1. /\ UNCHANGED <<open, listed, threadVars, down>>
        /\ tasks' = [tasks EXCEPT ![f] = IF Readable(f) THEN @ + 1 ELSE @]
        /\ ~Closing(f, Actors)
    BY <1>7 DEF CommitRead, clockVars
  <2>2. UNCHANGED <<at, fd, channel, afterClose>>
    BY <2>1 DEF threadVars
  <2>3. \A g \in Fds : g # f \/ ~Readable(f) => tasks'[g] = tasks[g]
    BY <2>1 DEF TypeInv, TypeOK
  <2>4. Serving'
    BY <1>a, <2>1, <2>2, <2>3 DEF Serving, Awaited, Serves, Readable
  <2>5. ASSUME NEW a \in Actors, ClosesNow(a)' PROVE ~Used(fd[a], Actors \ {a})'
    <3>1. ClosesNow(a) /\ ~Used(fd[a], Actors \ {a})
      BY <1>a, <2>2, <2>5 DEF ClosesNow, Alone
    <3>2. fd[a] # f /\ fd[a] \in Fds
      BY <2>1, <3>1 DEF Closing, ClosesNow, Idle, TypeInv
    <3> QED BY <2>1, <2>2, <2>3, <3>1, <3>2 DEF Used, Held, Idle
  <2> QED BY <1>a, <2>1, <2>2, <2>4, <2>5 DEF Alone, Plain, Up
<1>8. ASSUME NEW r \in Readers, NEW f \in Fds, StartTask(r, f)
      PROVE  (Serving /\ Alone /\ Plain)'
  <2>0. r \in Actors
    BY ReaderIsActor
  <2>1. /\ UNCHANGED <<open, listed, down, afterClose>> /\ Idle(r) /\ tasks[f] > 0
        /\ tasks' = [tasks EXCEPT ![f] = @ - 1]
        /\ at' = [at EXCEPT ![r] = "read"] /\ fd' = [fd EXCEPT ![r] = f]
        /\ channel' = [channel EXCEPT ![r] = channels[f]]
    BY <1>8 DEF StartTask, Goto, kernelVars, clockVars
  <2>2. /\ at'[r] = "read" /\ fd'[r] = f /\ channel'[r] = channels[f]
        /\ \A b \in Actors \ {r} : at'[b] = at[b] /\ fd'[b] = fd[b]
                                  /\ channel'[b] = channel[b]
    BY <2>0, <2>1 DEF TypeInv, TypeOK
  <2>3. /\ Serves(f) /\ Used(f, Actors)
        /\ \A a \in Actors : ClosesNow(a) => fd[a] # f
    BY <1>a, <2>1 DEF Serving, Awaited, Alone, Used, Held
  <2>4. channels[f] # NoConnection
    <3>1. Place(f) /\ ~Accepting(f)
      BY <1>a, <2>3 DEF RegInv, Orderly, Place, Entering
    <3>2. Settled(f)
      BY <2>3, <3>1 DEF Place, Late, LateAt, ClosesNow
    <3> QED BY <2>3, <3>2 DEF Settled, Serves
  <2>5. \A g \in Fds : tasks'[g] > 0 => tasks[g] > 0
    BY <2>1 DEF TypeInv, TypeOK
  <2>6. Serving'
    BY <1>a, <2>1, <2>2, <2>3, <2>5 DEF Serving, Awaited, Serves
  <2>7. ASSUME NEW a \in Actors, ClosesNow(a)' PROVE ~Used(fd[a], Actors \ {a})'
    <3>1. a # r /\ ClosesNow(a) /\ fd'[a] = fd[a] /\ fd[a] # f /\ fd[a] \in Fds
      BY <2>2, <2>3, <2>7 DEF ClosesNow, TypeInv, Idle
    <3>2. ~Used(fd[a], Actors \ {a})
      BY <1>a, <3>1 DEF Alone
    <3> QED BY <2>1, <2>2, <2>5, <3>1, <3>2 DEF Used, Held, Idle
  <2> QED BY <1>a, <2>1, <2>2, <2>4, <2>6, <2>7 DEF Alone, Plain, Up
<1>9. ASSUME NEW r \in Readers, ReadEnds(r) PROVE (Serving /\ Alone /\ Plain)'
  <2>0. r \in Actors
    BY ReaderIsActor
  <2>1. /\ UNCHANGED <<open, listed, tasks, down, fd, channel>> /\ at[r] = "read"
        /\ at' = [at EXCEPT ![r] = "remove"]
        /\ afterClose' = [afterClose EXCEPT ![r] = "idle"]
        /\ ~Used(fd[r], Actors \ {r})
    BY <1>9 DEF ReadEnds, BeginClose, Goto, Note, InUse, kernelVars, clockVars
  <2>2. at'[r] = "remove" /\ \A b \in Actors \ {r} : at'[b] = at[b]
    BY <2>0, <2>1 DEF TypeInv, TypeOK
  <2>3. Serving'
    BY <1>a, <2>1, <2>2 DEF Serving, Awaited, Serves, Busy
  <2>4. ASSUME NEW a \in Actors, ClosesNow(a)' PROVE ~Used(fd[a], Actors \ {a})'
    <3>1. ~Used(fd[a], Actors \ {a})
      BY <1>a, <2>1, <2>2, <2>4 DEF Alone, ClosesNow
    <3>2. \A b \in Actors : Idle(b)' <=> Idle(b)
      BY <2>0, <2>1, <2>2 DEF Idle
    <3> QED BY <2>1, <3>1, <3>2 DEF Used, Held
  <2>5. \A a \in Actors : afterClose'[a] = "idle"
    BY <1>a, <2>1 DEF Plain, TypeInv, TypeOK
  <2> QED BY <1>a, <2>1, <2>2, <2>3, <2>4, <2>5 DEF Alone, Plain, Up, Busy
<1>10. ASSUME NEW r \in Readers,
              \/ ReadRequest(r) \/ ReadDone(r) \/ UpdateHeartbeat(r)
              \/ ModifyForSend(r) \/ SendReply(r) \/ ModifyAfterSend(r)
       PROVE  (Serving /\ Alone /\ Plain)'
  <2>0. r \in Actors
    BY ReaderIsActor
  <2>1. at[r] \in Busy
    BY <1>10 DEF ReadRequest, ReadDone, UpdateHeartbeat, ModifyForSend, SendReply,
       ModifyAfterSend, Busy
  <2>2. InEpoll(fd[r]) /\ users[fd[r]] # NoUser /\ channel[r] # NoConnection
    BY <1>a, <2>0, <2>1, WorkPlace DEF Plain
  <2>3. /\ UNCHANGED <<open, listed, tasks, down, afterClose>>
        /\ \/ TaskEnds(r)
           \/ UNCHANGED <<fd, channel>> /\ \E place \in Busy : Goto(r, place)
    BY <1>10, <2>2 DEF ReadRequest, ReadDone, UpdateHeartbeat, ModifyForSend, SendReply,
       ModifyAfterSend, Modify, TaskEnds, kernelVars, clockVars, Busy
  <2>4. /\ \A b \in Actors \ {r} : at'[b] = at[b] /\ fd'[b] = fd[b]
                                   /\ channel'[b] = channel[b]
        /\ (fd'[r] = fd[r] /\ channel'[r] = channel[r] /\ at'[r] \in Busy) \/ at'[r] = "idle"
    <3>1. CASE TaskEnds(r)
      <4>1. channel \in [Actors -> Connections \cup {NoConnection}]
            /\ channel' = [channel EXCEPT ![r] = NoConnection]
        BY <3>1 DEF TypeInv, TaskEnds
      <4> QED BY <2>0, <3>1, <4>1, EndMoves DEF Moves
    <3>2. CASE UNCHANGED <<fd, channel>> /\ \E place \in Busy : Goto(r, place)
      BY <2>0, <3>2, GotoMoves
    <3> QED BY <2>3, <3>1, <3>2
  <2>5. ~Idle(r) /\ ~ClosesNow(r)
    BY <2>1 DEF Idle, ClosesNow, Busy
  <2>6. (Serving /\ Alone)'
    BY <1>a, <2>0, <2>1, <2>3, <2>4, <2>5, CleanMove
  <2>7. Plain'
    BY <1>a, <2>2, <2>3, <2>4 DEF Plain, Up, Busy
  <2> QED BY <2>6, <2>7
<1>11. ASSUME NEW r \in Readers, SendFails(r) PROVE FALSE
  BY <1>11 DEF SendFails
<1>12. ASSUME NEW a \in Actors, RemoveFd(a) \/ EraseMaps(a)
       PROVE  (Serving /\ Alone /\ Plain)'
  <2>1. RemoveFd(a) => InEpoll(fd[a])
    BY <1>a, WorkPlace DEF RemoveFd
  <2>2. /\ UNCHANGED <<open, listed, tasks, down, fd, channel, afterClose>>
        /\ at[a] \in {"remove", "erase"}
        /\ Goto(a, "erase") \/ Goto(a, "close")
    BY <1>12, <2>1 DEF RemoveFd, EraseMaps, kernelVars, clockVars
  <2>3. at'[a] \in {"erase", "close"} /\ \A b \in Actors \ {a} : at'[b] = at[b]
    BY <2>2 DEF Goto, TypeInv, TypeOK
  <2>4. Serving'
    BY <1>a, <2>2, <2>3 DEF Serving, Awaited, Serves, Busy
  <2>5. ASSUME NEW b \in Actors, ClosesNow(b)' PROVE ~Used(fd[b], Actors \ {b})'
    <3>1. ~Used(fd[b], Actors \ {b})
      BY <1>a, <2>2, <2>3, <2>5 DEF Alone, ClosesNow
    <3>2. \A x \in Actors : Idle(x)' <=> Idle(x)
      BY <2>2, <2>3 DEF Idle
    <3> QED BY <2>2, <3>1, <3>2 DEF Used, Held
  <2> QED BY <1>a, <2>2, <2>3, <2>4, <2>5 DEF Alone, Plain, Up, Busy
<1>13. ASSUME NEW a \in Actors, CloseFd(a) PROVE (Serving /\ Alone /\ Plain)'
  <2>1. /\ UNCHANGED <<listed, tasks, down, fd, channel, afterClose>>
        /\ at[a] = "close" /\ at' = [at EXCEPT ![a] = "forget"]
        /\ open' = [open EXCEPT ![fd[a]] = NoConnection]
    BY <1>13 DEF CloseFd, Goto, clockVars
  <2>2. at'[a] = "forget" /\ \A b \in Actors \ {a} : at'[b] = at[b]
    BY <2>1 DEF TypeInv, TypeOK
  <2>3. ~Used(fd[a], Actors \ {a})
    BY <1>a, <2>1 DEF Alone, ClosesNow
  <2>4. \A f \in Fds \ {fd[a]} : Serves(f)' <=> Serves(f)
    BY <2>1 DEF Serves, TypeInv, TypeOK
  <2>5. ASSUME NEW f \in Fds, Awaited(f)' PROVE Serves(f)'
    BY <1>a, <2>1, <2>3, <2>4, <2>5 DEF Serving, Awaited, Used, Held
  <2>6. ASSUME NEW b \in Actors, at'[b] \in Busy \cup {"remove"} PROVE Serves(fd[b])'
    <3>1. b # a /\ at[b] = at'[b] /\ fd[b] # fd[a] /\ fd[b] \in Fds
      BY <2>2, <2>3, <2>6 DEF Busy, Used, Held, Idle, TypeInv
    <3>2. Serves(fd[b])
      BY <1>a, <2>6, <3>1 DEF Serving
    <3> QED BY <2>1, <2>4, <3>1, <3>2 DEF Serves
  <2>7. ASSUME NEW b \in Actors, ClosesNow(b)' PROVE ~Used(fd[b], Actors \ {b})'
    <3>1. ~Used(fd[b], Actors \ {b})
      BY <1>a, <2>1, <2>2, <2>7 DEF Alone, ClosesNow
    <3>2. \A x \in Actors : Idle(x)' <=> Idle(x)
      BY <2>1, <2>2 DEF Idle
    <3> QED BY <2>1, <3>1, <3>2 DEF Used, Held
  <2> QED BY <1>a, <2>1, <2>2, <2>5, <2>6, <2>7 DEF Serving, Alone, Plain, Up, Busy
<1>14. ASSUME NEW a \in Actors, Forget(a) PROVE (Serving /\ Alone /\ Plain)'
  <2>1. /\ UNCHANGED <<open, listed, tasks, down, afterClose>>
        /\ at[a] = "forget" /\ TaskEnds(a)
    <3>1. afterClose[a] # "read"
      BY <1>a DEF Plain
    <3> QED BY <1>14, <3>1 DEF Forget, TaskEnds, kernelVars, clockVars
  <2>2. /\ at'[a] = "idle"
        /\ \A b \in Actors \ {a} : at'[b] = at[b] /\ fd'[b] = fd[b]
                                   /\ channel'[b] = channel[b]
    <3>1. channel \in [Actors -> Connections \cup {NoConnection}]
          /\ channel' = [channel EXCEPT ![a] = NoConnection]
      BY <2>1 DEF TypeInv, TaskEnds
    <3> QED BY <2>1, <3>1, EndMoves DEF Moves
  <2>3. Serving'
    BY <1>a, <2>1, <2>2 DEF Serving, Awaited, Serves, Busy
  <2>4. ASSUME NEW b \in Actors, ClosesNow(b)' PROVE ~Used(fd[b], Actors \ {b})'
    <3>1. b # a /\ ~Used(fd[b], Actors \ {b})
      BY <1>a, <2>2, <2>4 DEF Alone, ClosesNow
    <3> QED BY <2>1, <2>2, <3>1 DEF Used, Held, Idle
  <2> QED BY <1>a, <2>1, <2>2, <2>3, <2>4 DEF Alone, Plain, Up, Busy
<1>15. CASE UNCHANGED vars
  BY <1>0, <1>15 DEF vars, kernelVars, clockVars
<1> QED BY <1>1, <1>2, <1>3, <1>4, <1>5, <1>6, <1>7, <1>8, <1>9, <1>10, <1>11, <1>12,
           <1>13, <1>14, <1>15
        DEF Next, Acceptor, Enter, Check, Reader, Close

\* Without a connection read too early, closed twice or under a reader, answered
\* in vain or not accepted, and with no descriptor given away in use, nothing
\* ends the process: no map lacks what a thread at work looks up.
THEOREM NoMishapNoFall == Spec => []FallsOnlyToMishaps
<1>1. Init => CleanInv
  BY CleanInit
<1>2. TypeInv /\ RegInv /\ CleanInv /\ [Next]_vars => CleanInv'
  BY CleanStep
<1>3. CleanInv => FallsOnlyToMishaps
  BY DEF CleanInv, Plain, FallsOnlyToMishaps
<1> QED BY <1>1, <1>2, <1>3, RegCorrect, PTL DEF Spec
=============================================================================

----------------------------- MODULE Rpc_Client -----------------------------
(***************************************************************************)
(* RPC/Rpc_Client.{h,cpp} over Core/Tcp_Client.{h,cpp}: calls that wait    *)
(* for a response, heartbeats the timer lets the pool make, and the pool   *)
(* task that reads the responses and notices the end of the connection.    *)
(* The server is external: it answers a request once, with a result or an  *)
(* error, in any order, and may close the connection.  Requests and        *)
(* responses are whole messages here; Socket_Channel has their bytes.      *)
(* Callers share one send queue: whoever holds its lock sends what is in   *)
(* it, the requests of others included.                                    *)
(***************************************************************************)
EXTENDS Integers, Sequences, SequencesExt

CONSTANTS
    Calls,          \* the calls of Rpc_Client::call; generate_uuid names each
    Heartbeats      \* those heartbeat_signal makes, on a thread of the pool

ASSUME ClientAssumption == Heartbeats \subseteq Calls

VARIABLES
    running, fd,    \* _running, and whether _fd is open
    pending,        \* the keys of _pending_request
    promise,        \* the state each call's promise leaves its future in
    caller,         \* where each call is
    send_messages,  \* the requests in the channel's send queue
    reader, errno,  \* where the read_data task is, and its thread's errno
    chunk,          \* the responses its last read returned
    terminated,     \* an exception left a task of the pool: std::terminate
    requests, responses, peerClosed,    \* the server and the connection to it
    answer          \* history: what the server answered to each call

clientVars == <<running, fd, pending, promise, caller, send_messages,
                terminated>>
readerVars == <<reader, errno, chunk>>
serverVars == <<requests, responses, peerClosed, answer>>
vars == <<clientVars, readerVars, serverVars>>

Outcomes == {"value", "error"}

Init ==
    /\ running = FALSE /\ fd = "none"
    /\ pending = {}
    /\ promise = [c \in Calls |-> "none"]
    /\ caller = [c \in Calls |-> "none"]
    /\ send_messages = <<>>
    /\ reader = "none" /\ errno = "other" /\ chunk = <<>>
    /\ terminated = FALSE
    /\ requests = {} /\ responses = <<>> /\ peerClosed = FALSE
    /\ answer = [c \in Calls |-> "none"]

\* Rpc_Client::run: Tcp_Client::run connects and commits read_data.
Connect ==
    /\ fd = "none" /\ reader = "none"
    /\ fd' = "open"
    /\ running' = TRUE
    /\ reader' = "committed"
    /\ UNCHANGED <<pending, promise, caller, send_messages, terminated, errno,
                   chunk, serverVars>>

-----------------------------------------------------------------------------
(* call                                                                     *)

\* Mutant: the promise is not in the map before the request goes out.
Registered_Late(c) == pending
Registered(c) == pending \cup {c}

RegisterPromise(c) ==
    /\ ~terminated /\ reader # "none" /\ caller[c] = "none"
    /\ pending' = Registered(c)
    /\ promise' = [promise EXCEPT ![c] = "waiting"]
    /\ caller' = [caller EXCEPT ![c] = "registered"]
    /\ UNCHANGED <<running, fd, send_messages, terminated, readerVars, serverVars>>

\* An exception reaches the caller, or, from a heartbeat, leaves a pool task.
\* Nothing takes the promise of the call out of the map.
Throw(c) ==
    /\ caller' = [caller EXCEPT ![c] = "threw"]
    /\ terminated' = (c \in Heartbeats)

\* write_data: the request joins the queue before anything is tested.
PushRequest(c) ==
    /\ ~terminated /\ caller[c] = "registered"
    /\ send_messages' = Append(send_messages, c)
    /\ caller' = [caller EXCEPT ![c] = "queued"]
    /\ UNCHANGED <<running, fd, pending, promise, terminated, readerVars,
                   serverVars>>

\* _send_lock: one caller at a time sends.
LockFree == \A c \in Calls : caller[c] # "sending"

\* Mutant: a closed client is not refused.
TestRunning_Not(c) ==
    /\ ~terminated /\ caller[c] = "queued" /\ LockFree
    /\ caller' = [caller EXCEPT ![c] = "sending"]
    /\ UNCHANGED <<running, fd, pending, promise, send_messages, terminated,
                   readerVars, serverVars>>
TestRunning(c) ==
    /\ ~terminated /\ caller[c] = "queued" /\ LockFree
    /\ running
    /\ caller' = [caller EXCEPT ![c] = "sending"]
    /\ UNCHANGED <<running, fd, pending, promise, send_messages, terminated,
                   readerVars, serverVars>>

\* "Client is not connected"; the request stays in the queue.
RefuseSend(c) ==
    /\ ~terminated /\ caller[c] = "queued" /\ LockFree
    /\ ~running
    /\ Throw(c)
    /\ UNCHANGED <<running, fd, pending, promise, send_messages, readerVars,
                   serverVars>>

\* The request in front is sent, whosever it is.  A request to a server that has
\* closed is lost on the way.
SendRequest(c) ==
    /\ ~terminated /\ caller[c] = "sending"
    /\ send_messages # <<>>
    /\ fd = "open"
    /\ requests' = IF peerClosed THEN requests
                   ELSE requests \cup {Head(send_messages)}
    /\ send_messages' = Tail(send_messages)
    /\ UNCHANGED <<running, fd, pending, promise, caller, terminated,
                   readerVars, responses, peerClosed, answer>>

\* EAGAIN while connecting or with full buffers, EPIPE, EBADF: the request in
\* front is gone, and this caller throws, even if its own went out before.
FailSend(c) ==
    /\ ~terminated /\ caller[c] = "sending"
    /\ send_messages # <<>>
    /\ send_messages' = Tail(send_messages)
    /\ Throw(c)
    /\ UNCHANGED <<running, fd, pending, promise, readerVars, serverVars>>

EndSend(c) ==
    /\ ~terminated /\ caller[c] = "sending"
    /\ send_messages = <<>>
    /\ caller' = [caller EXCEPT ![c] = "waiting"]
    /\ UNCHANGED <<running, fd, pending, promise, send_messages, terminated,
                   readerVars, serverVars>>

\* future.get()
GetResult(c) ==
    /\ ~terminated /\ caller[c] = "waiting"
    /\ promise[c] = "value"
    /\ caller' = [caller EXCEPT ![c] = "returned"]
    /\ UNCHANGED <<running, fd, pending, promise, send_messages, terminated,
                   readerVars, serverVars>>

GetError(c) ==
    /\ ~terminated /\ caller[c] = "waiting"
    /\ promise[c] = "error"
    /\ Throw(c)
    /\ UNCHANGED <<running, fd, pending, promise, send_messages, readerVars,
                   serverVars>>

\* Tcp_Client::stop
Stop ==
    /\ ~terminated /\ running
    /\ running' = FALSE
    /\ UNCHANGED <<fd, pending, promise, caller, send_messages, terminated,
                   readerVars, serverVars>>

-----------------------------------------------------------------------------
(* Tcp_Client::read_data                                                    *)

ReaderAt(state) == ~terminated /\ reader = state

\* The thread the pool gives the task to may have any errno.
StartReading ==
    /\ ReaderAt("committed")
    /\ errno' \in {"EAGAIN", "other"}
    /\ reader' = "loop"
    /\ UNCHANGED <<clientVars, chunk, serverVars>>

StopReading ==
    /\ ReaderAt("loop") /\ ~running
    /\ reader' = "ended"
    /\ UNCHANGED <<clientVars, errno, chunk, serverVars>>

\* Mutant: EAGAIN is taken for the end.
ReadNothing_Ends ==
    /\ ReaderAt("loop") /\ running
    /\ responses = <<>> /\ ~peerClosed
    /\ reader' = "disconnect"
    /\ UNCHANGED <<clientVars, errno, chunk, serverVars>>
ReadNothing ==
    /\ ReaderAt("loop") /\ running
    /\ responses = <<>> /\ ~peerClosed
    /\ errno' = "EAGAIN"
    /\ UNCHANGED <<clientVars, reader, chunk, serverVars>>

ReadEnd ==
    /\ ReaderAt("loop") /\ running
    /\ responses = <<>> /\ peerClosed
    /\ reader' = "disconnect"
    /\ UNCHANGED <<clientVars, errno, chunk, serverVars>>

\* errno is looked at even when read succeeded and has left it alone.
ReadResponses ==
    /\ ReaderAt("loop") /\ running
    /\ \E n \in 1 .. Len(responses) :
        /\ chunk' = IF errno = "EAGAIN" THEN SubSeq(responses, 1, n) ELSE <<>>
        /\ responses' = SubSeq(responses, n + 1, Len(responses))
    /\ reader' = IF errno = "EAGAIN" THEN "deliver" ELSE "disconnect"
    /\ UNCHANGED <<clientVars, errno, requests, peerClosed, answer>>

\* Mutant: the rest of what one read returned is dropped.
Rest_None == <<>>
Rest == Tail(chunk)

\* Mutant: whatever the server answered is taken for a result.
Outcome_Value(response) == "value"
Outcome(response) == response.outcome

\* _on_read_message
DeliverResponse ==
    /\ ReaderAt("deliver") /\ chunk # <<>>
    /\ LET response == chunk[1] IN
        IF response.id \in pending
        THEN /\ promise' = [promise EXCEPT ![response.id] = Outcome(response)]
             /\ pending' = pending \ {response.id}
        ELSE UNCHANGED <<promise, pending>>
    /\ chunk' = Rest
    /\ UNCHANGED <<running, fd, caller, send_messages, terminated, reader, errno,
                   serverVars>>

ReadOn ==
    /\ ReaderAt("deliver") /\ chunk = <<>>
    /\ reader' = "loop"
    /\ UNCHANGED <<clientVars, errno, chunk, serverVars>>

\* disconnect: _fd first, _running after it.
CloseFd ==
    /\ ReaderAt("disconnect")
    /\ fd' = "closed"
    /\ reader' = "disconnected"
    /\ UNCHANGED <<running, pending, promise, caller, send_messages, terminated,
                   errno, chunk, serverVars>>

ClearRunning ==
    /\ ReaderAt("disconnected")
    /\ running' = FALSE
    /\ reader' = "ended"
    /\ UNCHANGED <<fd, pending, promise, caller, send_messages, terminated,
                   errno, chunk, serverVars>>

-----------------------------------------------------------------------------
(* The server                                                               *)

Answer(c) ==
    /\ c \in requests /\ ~peerClosed
    /\ \E outcome \in Outcomes :
        /\ responses' = Append(responses, [id |-> c, outcome |-> outcome])
        /\ answer' = [answer EXCEPT ![c] = outcome]
    /\ requests' = requests \ {c}
    /\ UNCHANGED <<clientVars, readerVars, peerClosed>>

CloseConnection ==
    /\ fd # "none" /\ ~peerClosed
    /\ peerClosed' = TRUE
    /\ UNCHANGED <<clientVars, readerVars, requests, responses, answer>>

-----------------------------------------------------------------------------
Call(c) ==
    \/ PushRequest(c) \/ TestRunning(c) \/ RefuseSend(c)
    \/ SendRequest(c) \/ FailSend(c) \/ EndSend(c)
    \/ GetResult(c) \/ GetError(c)

Read ==
    \/ StartReading \/ StopReading \/ ReadNothing \/ ReadEnd \/ ReadResponses
    \/ DeliverResponse \/ ReadOn \/ CloseFd \/ ClearRunning

Next ==
    \/ Connect \/ Stop
    \/ \E c \in Calls : RegisterPromise(c) \/ Call(c) \/ Answer(c)
    \/ Read
    \/ CloseConnection

Spec == Init /\ [][Next]_vars

\* A caller goes on, the pool starts the reader and the reader goes on.  Each
\* caller holds _send_lock once, so the lock is free for good in the end.
FairSpec == Spec /\ WF_vars(Read) /\ \A c \in Calls : WF_vars(Call(c))

-----------------------------------------------------------------------------
\* Every variable has its type; a promise waits exactly while it is in the map.
TypeOK ==
    /\ running \in BOOLEAN /\ terminated \in BOOLEAN /\ peerClosed \in BOOLEAN
    /\ fd \in {"none", "open", "closed"}
    /\ promise \in [Calls -> {"none", "waiting"} \cup Outcomes]
    /\ caller \in [Calls -> {"none", "registered", "queued", "sending",
                             "waiting", "returned", "threw"}]
    /\ ToSet(send_messages) \subseteq Calls
    /\ reader \in {"none", "committed", "loop", "deliver", "disconnect",
                   "disconnected", "ended"}
    /\ errno \in {"EAGAIN", "other"}
    /\ pending = {c \in Calls : promise[c] = "waiting"}
    /\ requests \subseteq Calls
    /\ answer \in [Calls -> {"none"} \cup Outcomes]

Answering == {chunk[i].id : i \in DOMAIN chunk}
             \cup {responses[i].id : i \in DOMAIN responses}

\* No caller that waits has left its request in the queue.
WaitingIsSent ==
    \A c \in Calls : caller[c] = "waiting" => c \notin ToSet(send_messages)

\* Calls and answers meet, whoever sent the request.  A request the server has,
\* and a response on its way, has its promise in the map: no response comes back
\* before the call is ready for it, none comes twice, and the response to a call
\* whose caller has thrown, because another's request could not be sent, still
\* finds a promise.  And a caller that waits for its response has not left its
\* request in the queue: it or another has handed it to the socket, or tried to.
AnswerFindsCall ==
    /\ requests \cup Answering \subseteq pending
    /\ WaitingIsSent

\* A call ends as the server answered it: with the result if there is one, and
\* if it does not return, with the server's error or a failure to send.
ResultIsAnswer ==
    \A c \in Calls :
        /\ caller[c] = "returned" => answer[c] = "value"
        /\ promise[c] = "error" => answer[c] = "error"

\* A call made after the client has noticed the end of the connection is never
\* left waiting for a response (testHeartbeat expects it to fail).
LateCallRefused ==
    \A c \in Calls :
        [](reader = "ended" /\ caller[c] = "none" => [](caller[c] # "waiting"))

Ended(c) == caller[c] \in {"returned", "threw"}

\* A call the server has answered ends, unless the client disconnects first.
AnsweredCallEnds ==
    \A c \in Calls :
        answer[c] # "none" ~> Ended(c) \/ reader = "ended" \/ terminated

\* A connection that has brought one response is closed by the client only when
\* the server has closed it.  (The first read of a thread whose errno happens not
\* to be EAGAIN drops what it read and disconnects, Tcp_Client.cpp:93.)
DisconnectsAtEnd ==
    fd = "closed" /\ (\E c \in Calls : promise[c] \in Outcomes) => peerClosed
=============================================================================

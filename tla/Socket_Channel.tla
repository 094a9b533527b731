--------------------------- MODULE Socket_Channel ---------------------------
(***************************************************************************)
(* Core/Channel.{h,cpp} with the two ends that drive it: one direction of  *)
(* a connection, from write_data in the sending peer, through its send     *)
(* callback, the socket and read_data in the receiving peer, to            *)
(* parse_message and the read callback.  A peer is a Tcp_Client or a       *)
(* Tcp_Server, and the two send and read differently.                      *)
(* A message is a model value of a given encoded length (at least 1: the   *)
(* compression byte); a byte of its frame is <<message, position>>.        *)
(***************************************************************************)
EXTENDS Integers, Sequences, SequencesExt

CONSTANTS
    Messages,       \* the calls of write_data, one message each
    Length,         \* the encoded length of each
    Senders,        \* the peers that may send: "client", "server" or both
    Readers,        \* threads of the receiver that may be in read_data
    HeadLength,     \* HEAD_LENGTH
    BufferSize,     \* BUFFER_SIZE
    SocketSize,     \* bytes the socket buffers take before send gives EAGAIN
    NoMessage,
    Garbage         \* what is decoded from bytes that are no whole body

ASSUME ChannelAssumption ==
    /\ NoMessage \notin Messages /\ Garbage \notin Messages /\ Readers # {}
    /\ Length \in [Messages -> Nat \ {0}]
    /\ Senders \subseteq {"client", "server"}
    /\ HeadLength \in Nat \ {0} /\ BufferSize \in Nat \ {0}
    /\ SocketSize \in Nat

VARIABLES
    sender,         \* the peer that sends; the receiver is the other one
    writer,         \* where each write_data call is
    sendMessages,   \* _send_messages
    sendOffset,     \* _send_offset
    sendLock,       \* the write_data call that holds _send_lock
    inHand,         \* the message each call has taken from _send_messages
    wire,           \* bytes sent and not yet read
    arrived,        \* how many of them have reached the receiver
    edge, tasks,    \* an EPOLLIN event not yet seen; read_data tasks committed
    buffer,         \* _read_buffer, as Bounded_Fifo
    bodyLength,     \* _read_buffer_length
    readMessages,   \* _read_messages
    reader,         \* where each reader is
    chunk,          \* what its last read returned
    dataLen,        \* data_len
    leaving,        \* whether its read got EAGAIN: parse once more and end
    failure,        \* what ended the connection's process, if anything did
    pushed, delivered,      \* history: messages pushed to _send_messages, and
                            \* given to _on_read_message
    start,                  \* history: where the frame of each message begins
                            \* in the stream of all frames
    truncated,              \* history: a client's send took part of a frame
    overlapped              \* history: two read_data tasks ran at once

sendVars == <<writer, sendMessages, sendOffset, sendLock, inHand, pushed,
              start, truncated, sender>>
socketVars == <<wire, arrived, edge, tasks>>
parseVars == <<buffer, bodyLength, readMessages, delivered>>
readVars == <<reader, chunk, dataLen, leaving, overlapped>>
vars == <<sendVars, socketVars, parseVars, readVars, failure>>

Frame(m) == [i \in 1 .. HeadLength + Length[m] |-> <<m, i>>]
HeadBytes(m)  == SubSeq(Frame(m), 1, HeadLength)
BodyBytes(m)  == SubSeq(Frame(m), HeadLength + 1, Len(Frame(m)))

\* The length of all frames, and the place of a byte among them, from 1.
Total ==
    IF pushed = <<>> THEN 0 ELSE start[Last(pushed)] + Len(Frame(Last(pushed)))
Place(byte) == start[byte[1]] + byte[2]

Running == failure = "none"

\* Tcp_Client::run commits the only read_data task a client has.
ClientReader == CHOOSE r \in Readers : TRUE

Init ==
    /\ sender \in Senders
    /\ writer = [m \in Messages |-> "none"]
    /\ sendMessages = <<>> /\ sendOffset = 0 /\ sendLock = NoMessage
    /\ inHand = [m \in Messages |-> NoMessage]
    /\ wire = <<>> /\ arrived = 0 /\ edge = FALSE /\ tasks = 0
    /\ buffer = <<>> /\ bodyLength = 0 /\ readMessages = <<>>
    /\ reader = [r \in Readers |->
                  IF sender = "server" /\ r = ClientReader THEN "read" ELSE "idle"]
    /\ chunk = [r \in Readers |-> <<>>]
    /\ dataLen = [r \in Readers |-> 0]
    /\ leaving = [r \in Readers |-> FALSE]
    /\ failure = "none"
    /\ pushed = <<>> /\ delivered = <<>>
    /\ truncated = FALSE /\ overlapped = FALSE
    /\ start = [m \in Messages |-> 0]

-----------------------------------------------------------------------------
(* write_data and the send callback of the peer                             *)

\* Mutant: a message goes before those that wait.
PushMessage_InFront(m) ==
    /\ Running /\ writer[m] = "none"
    /\ writer' = [writer EXCEPT ![m] = "pushed"]
    /\ sendMessages' = <<m>> \o sendMessages
    /\ pushed' = Append(pushed, m)
    /\ start' = [start EXCEPT ![m] = Total]
    /\ UNCHANGED <<sender, sendOffset, sendLock, inHand, truncated, socketVars,
                   parseVars, readVars, failure>>
PushMessage(m) ==
    /\ Running /\ writer[m] = "none"
    /\ writer' = [writer EXCEPT ![m] = "pushed"]
    /\ sendMessages' = Append(sendMessages, m)
    /\ pushed' = Append(pushed, m)
    /\ start' = [start EXCEPT ![m] = Total]
    /\ UNCHANGED <<sender, sendOffset, sendLock, inHand, truncated, socketVars,
                   parseVars, readVars, failure>>

\* Mutant: the client's send callback takes no lock.
LockSend_Anyway(m) ==
    /\ Running /\ writer[m] = "pushed"
    /\ sender = "server" => sendLock = NoMessage
    /\ sendLock' = m
    /\ writer' = [writer EXCEPT ![m] = "sending"]
    /\ UNCHANGED <<sender, sendMessages, sendOffset, inHand, pushed, start,
                   truncated, socketVars, parseVars, readVars, failure>>
LockSend(m) ==
    /\ Running /\ writer[m] = "pushed"
    /\ sendLock = NoMessage
    /\ sendLock' = m
    /\ writer' = [writer EXCEPT ![m] = "sending"]
    /\ UNCHANGED <<sender, sendMessages, sendOffset, inHand, pushed, start,
                   truncated, socketVars, parseVars, readVars, failure>>

UnlockSend(m, outcome) ==
    /\ sendLock' = NoMessage
    /\ writer' = [writer EXCEPT ![m] = outcome]
    /\ inHand' = [inHand EXCEPT ![m] = NoMessage]

\* Tcp_Client pops the message it is about to send, Tcp_Server looks at it.
TakeMessage(m) ==
    /\ Running /\ writer[m] = "sending" /\ inHand[m] = NoMessage
    /\ sendMessages # <<>>
    /\ inHand' = [inHand EXCEPT ![m] = sendMessages[1]]
    /\ sendMessages' = IF sender = "client" THEN Tail(sendMessages) ELSE sendMessages
    /\ UNCHANGED <<sender, writer, sendOffset, sendLock, pushed, start, truncated,
                   socketVars, parseVars, readVars, failure>>

IsSending(m, peer) == Running /\ sender = peer /\ inHand[m] # NoMessage
Free == SocketSize - Len(wire)

\* What ::send takes of the message in hand from offset on; none is EAGAIN.
Taken(m, offset) ==
    LET left == Len(Frame(inHand[m])) - offset
    IN  SubSeq(Frame(inHand[m]), offset + 1,
               offset + (IF left <= Free THEN left ELSE Free))

\* Tcp_Client: one ::send per message; how much it took is not looked at, and
\* the rest of the frame is never sent.
ClientSend(m) ==
    /\ IsSending(m, "client") /\ Free > 0
    /\ wire' = wire \o Taken(m, 0)
    /\ truncated' = (truncated \/ Taken(m, 0) # Frame(inHand[m]))
    /\ inHand' = [inHand EXCEPT ![m] = NoMessage]
    /\ UNCHANGED <<sender, writer, sendMessages, sendOffset, sendLock, pushed, start,
                   arrived, edge, tasks, parseVars, readVars, failure>>

\* The message is off the queue when ::send fails with EAGAIN and the callback
\* throws out of write_data.
ClientSendFails(m) ==
    /\ IsSending(m, "client") /\ Free = 0
    /\ UnlockSend(m, "threw")
    /\ UNCHANGED <<sender, sendMessages, sendOffset, pushed, start, truncated,
                   socketVars, parseVars, readVars, failure>>

\* Mutant: a message that was sent in part is sent again from its start.
NextOffset_Zero(m, sent) == 0
NextOffset(m, sent) ==
    IF sendOffset + sent = Len(Frame(inHand[m])) THEN 0 ELSE sendOffset + sent

\* Tcp_Server::try_send: the message stays at the front until all of it is sent.
ServerSend(m) ==
    /\ IsSending(m, "server") /\ Free > 0
    /\ LET sent == Taken(m, sendOffset) IN
        /\ wire' = wire \o sent
        /\ sendOffset' = NextOffset(m, Len(sent))
        /\ sendMessages' = IF sendOffset + Len(sent) = Len(Frame(inHand[m]))
                           THEN Tail(sendMessages) ELSE sendMessages
    /\ inHand' = [inHand EXCEPT ![m] = NoMessage]
    /\ UNCHANGED <<sender, writer, sendLock, pushed, start, truncated, arrived, edge,
                   tasks, parseVars, readVars, failure>>

\* "Wait for the next EPOLLOUT event" - which sub_reactor_run does not handle.
ServerSendBlocked(m) ==
    /\ IsSending(m, "server") /\ Free = 0
    /\ UnlockSend(m, "returned")
    /\ UNCHANGED <<sender, sendMessages, sendOffset, pushed, start, truncated,
                   socketVars, parseVars, readVars, failure>>

QueueDrained(m) ==
    /\ Running /\ writer[m] = "sending" /\ inHand[m] = NoMessage
    /\ sendMessages = <<>>
    /\ UnlockSend(m, "returned")
    /\ UNCHANGED <<sender, sendMessages, sendOffset, pushed, start, truncated,
                   socketVars, parseVars, readVars, failure>>

-----------------------------------------------------------------------------
(* The socket, and the server's epoll                                       *)

Arrive ==
    /\ Running
    /\ \E n \in arrived + 1 .. Len(wire) :
        /\ arrived' = n
    /\ edge' = (sender = "client")
    /\ UNCHANGED <<wire, tasks, sendVars, parseVars, readVars, failure>>

\* sub_reactor_run: one event for whatever arrived since the last one.
CommitRead ==
    /\ Running /\ edge
    /\ edge' = FALSE
    /\ tasks' = tasks + 1
    /\ UNCHANGED <<wire, arrived, sendVars, parseVars, readVars, failure>>

-----------------------------------------------------------------------------
(* read_data: Tcp_Client's polls for ever, Tcp_Server's ends at EAGAIN      *)

IsReader(r, state) == Running /\ reader[r] = state
Goto(r, state) == reader' = [reader EXCEPT ![r] = state]

StartTask(r) ==
    /\ IsReader(r, "idle") /\ tasks > 0
    /\ tasks' = tasks - 1
    /\ overlapped' = (overlapped \/ \E other \in Readers : reader[other] # "idle")
    /\ Goto(r, "read")
    /\ UNCHANGED <<wire, arrived, edge, sendVars, parseVars, chunk, dataLen,
                   leaving, failure>>

ReadSocket(r) ==
    /\ IsReader(r, "read") /\ arrived > 0
    /\ LET n == IF arrived <= BufferSize THEN arrived ELSE BufferSize IN
        /\ chunk' = [chunk EXCEPT ![r] = SubSeq(wire, 1, n)]
        /\ wire' = SubSeq(wire, n + 1, Len(wire))
        /\ arrived' = arrived - n
    /\ Goto(r, "enqueue")
    /\ UNCHANGED <<edge, tasks, sendVars, parseVars, dataLen, leaving, failure,
                   overlapped>>

\* EAGAIN: the server parses once more and leaves, the client polls on.
NothingToRead(r) ==
    /\ IsReader(r, "read") /\ arrived = 0 /\ sender = "client"
    /\ leaving' = [leaving EXCEPT ![r] = TRUE]
    /\ Goto(r, "parse")
    /\ UNCHANGED <<socketVars, sendVars, parseVars, chunk, dataLen, failure,
                   overlapped>>

\* An enqueue of more than the buffer has room for throws out of the task.
EnqueueChunk(r) ==
    /\ IsReader(r, "enqueue")
    /\ IF Len(buffer) + Len(chunk[r]) > BufferSize
       THEN failure' = "overflow" /\ UNCHANGED buffer
       ELSE buffer' = buffer \o chunk[r] /\ UNCHANGED failure
    /\ chunk' = [chunk EXCEPT ![r] = <<>>]
    /\ Goto(r, "parse")
    /\ UNCHANGED <<socketVars, sendVars, bodyLength, readMessages, delivered,
                   dataLen, leaving, overlapped>>

-----------------------------------------------------------------------------
(* parse_message: each access to the buffer locks it anew.  An access to    *)
(* _read_buffer_length, which nothing guards, goes with the one beside it.  *)

\* With no length known, size() > HEAD_LENGTH.
SeeHead(r) ==
    /\ IsReader(r, "parse")
    /\ Goto(r, IF bodyLength # 0 THEN "length"
               ELSE IF Len(buffer) > HeadLength THEN "head" ELSE "deliver")
    /\ UNCHANGED <<socketVars, sendVars, parseVars, chunk, dataLen, leaving,
                   failure, overlapped>>

Dequeued(n) == SubSeq(buffer, 1, n)

\* The messages whose head, or body, the first bytes of the buffer are: one, or
\* none when what the stream holds is not what the reader takes it for.
HeadOf == {m \in Messages : Dequeued(HeadLength) = HeadBytes(m)}
BodyOf(n) == {m \in Messages : Dequeued(n) = BodyBytes(m)}

\* Mutant: the length counts the head too.
BodyLength_Whole(m) == HeadLength + Length[m]
BodyLength(m) == Length[m]

\* Bytes that are no head are a length like any others.  BufferSize + 1 stands
\* for every length that no buffer holds, the negative ones included.
LengthsRead ==
    IF HeadOf # {} THEN {BodyLength(m) : m \in HeadOf} ELSE 0 .. BufferSize + 1

\* A dequeue of more than there is throws, and no one catches it.
TakeHead(r) ==
    /\ IsReader(r, "head")
    /\ IF Len(buffer) < HeadLength
       THEN failure' = "underflow" /\ UNCHANGED <<bodyLength, buffer>>
       ELSE /\ bodyLength' \in LengthsRead
            /\ buffer' = SubSeq(buffer, HeadLength + 1, Len(buffer))
            /\ UNCHANGED failure
    /\ Goto(r, "length")
    /\ UNCHANGED <<socketVars, sendVars, readMessages, delivered, chunk,
                   dataLen, leaving, overlapped>>

\* size() >= _read_buffer_length.  Otherwise the loop starts again: it has no
\* way out, and reads nothing more, while the body is incomplete.
\* Mutant: a body that ends with the buffer is waited for.
SeeBody_More(r) ==
    /\ IsReader(r, "length")
    /\ IF Len(buffer) > bodyLength
       THEN dataLen' = [dataLen EXCEPT ![r] = bodyLength] /\ Goto(r, "body")
       ELSE Goto(r, "parse") /\ UNCHANGED dataLen
    /\ UNCHANGED <<socketVars, sendVars, parseVars, chunk, leaving, failure,
                   overlapped>>
SeeBody(r) ==
    /\ IsReader(r, "length")
    /\ IF Len(buffer) >= bodyLength
       THEN dataLen' = [dataLen EXCEPT ![r] = bodyLength] /\ Goto(r, "body")
       ELSE Goto(r, "parse") /\ UNCHANGED dataLen
    /\ UNCHANGED <<socketVars, sendVars, parseVars, chunk, leaving, failure,
                   overlapped>>

\* What decode_string makes of n bytes: the message whose body they are, and of
\* others (none at all, pieces of several bodies) anything, or it throws.
Decoded(n) == IF BodyOf(n) # {} THEN BodyOf(n) ELSE {Garbage}

TakeBody(r) ==
    /\ IsReader(r, "body")
    /\ IF Len(buffer) < dataLen[r]
       THEN failure' = "underflow" /\ UNCHANGED <<readMessages, buffer>>
       ELSE \/ /\ \E data \in Decoded(dataLen[r]) :
                    readMessages' = Append(readMessages, data)
               /\ buffer' = SubSeq(buffer, dataLen[r] + 1, Len(buffer))
               /\ UNCHANGED failure
            \/ /\ BodyOf(dataLen[r]) = {}
               /\ failure' = "garbled"
               /\ UNCHANGED <<readMessages, buffer>>
    /\ bodyLength' = 0
    /\ dataLen' = [dataLen EXCEPT ![r] = 0]
    /\ Goto(r, "parse")
    /\ UNCHANGED <<socketVars, sendVars, delivered, chunk, leaving,
                   overlapped>>

\* while (!_read_messages.empty()): the test and front_pop lock separately, and
\* front_pop of an empty queue is undefined.
SeeMessage(r) ==
    /\ IsReader(r, "deliver") /\ readMessages # <<>>
    /\ Goto(r, "pop")
    /\ UNCHANGED <<socketVars, sendVars, parseVars, chunk, dataLen, leaving,
                   failure, overlapped>>

\* Mutant: front() for front_pop().
Popped_Not(messages) == messages
Popped(messages) == Tail(messages)

DeliverMessage(r) ==
    /\ IsReader(r, "pop")
    /\ IF readMessages = <<>>
       THEN failure' = "underflow" /\ UNCHANGED <<readMessages, delivered>>
       ELSE /\ delivered' = Append(delivered, readMessages[1])
            /\ readMessages' = Popped(readMessages)
            /\ UNCHANGED failure
    /\ Goto(r, "deliver")
    /\ UNCHANGED <<socketVars, sendVars, buffer, bodyLength, chunk, dataLen,
                   leaving, overlapped>>

\* Back to the socket, or, after the server's last parse, out of the task.
ParseEnds(r) ==
    /\ IsReader(r, "deliver") /\ readMessages = <<>>
    /\ Goto(r, IF leaving[r] THEN "idle" ELSE "read")
    /\ leaving' = [leaving EXCEPT ![r] = FALSE]
    /\ UNCHANGED <<socketVars, sendVars, parseVars, chunk, dataLen, failure,
                   overlapped>>

-----------------------------------------------------------------------------
Write(m) ==
    \/ LockSend(m) \/ TakeMessage(m) \/ QueueDrained(m)
    \/ ClientSend(m) \/ ClientSendFails(m)
    \/ ServerSend(m) \/ ServerSendBlocked(m)

Read(r) ==
    \/ StartTask(r) \/ ReadSocket(r) \/ NothingToRead(r) \/ EnqueueChunk(r)
    \/ SeeHead(r) \/ TakeHead(r) \/ SeeBody(r) \/ TakeBody(r)
    \/ SeeMessage(r) \/ DeliverMessage(r) \/ ParseEnds(r)

Next ==
    \/ \E m \in Messages : PushMessage(m) \/ Write(m)
    \/ Arrive \/ CommitRead
    \/ \E r \in Readers : Read(r)

Spec == Init /\ [][Next]_vars

\* A write_data call goes on (each takes _send_lock once, so the lock is free
\* for good in the end), TCP delivers what was sent, the sub-reactor polls and a
\* thread that reads goes on.
FairSpec ==
    /\ Spec
    /\ \A m \in Messages : WF_vars(Write(m))
    /\ WF_vars(Arrive) /\ WF_vars(CommitRead)
    /\ \A r \in Readers : WF_vars(Read(r))

-----------------------------------------------------------------------------
\* Every variable has its type; _send_lock is held by the one call that sends;
\* the offset is inside a message; what is decoded is a message or garbage.
TypeOK ==
    /\ writer \in [Messages -> {"none", "pushed", "sending", "returned", "threw"}]
    /\ \A m \in Messages : writer[m] = "sending" <=> sendLock = m
    /\ \A m \in Messages : inHand[m] # NoMessage => sendLock = m
    /\ sendOffset > 0 => sendMessages # <<>> /\ sendOffset < Len(Frame(sendMessages[1]))
    /\ arrived \in 0 .. Len(wire) /\ Len(wire) <= SocketSize
    /\ edge \in BOOLEAN /\ tasks \in Nat
    /\ Len(buffer) <= BufferSize
    /\ bodyLength \in (0 .. BufferSize + 1) \cup {Length[m] : m \in Messages}
    /\ delivered \o readMessages \in Seq(Messages \cup {Garbage})
    /\ \A r \in Readers :
        /\ reader[r] \in {"idle", "read", "enqueue", "parse", "head", "length",
                         "body", "deliver", "pop"}
        /\ chunk[r] # <<>> => reader[r] = "enqueue"
        /\ dataLen[r] # 0 => reader[r] = "body"
    /\ failure \in {"none", "overflow", "underflow", "garbled"}

-----------------------------------------------------------------------------
Parsed == delivered \o readMessages
Stream == buffer \o chunk[ClientReader] \o wire

\* How much of all frames was sent, and how much was taken out of the buffer.
SentUpTo ==
    IF sendMessages = <<>> THEN Total ELSE start[sendMessages[1]] + sendOffset
TakenUpTo ==
    (IF Len(Parsed) = Len(pushed) THEN Total ELSE start[pushed[Len(Parsed) + 1]])
    + (IF bodyLength = 0 THEN 0 ELSE HeadLength)

\* From a server to its client no byte is lost, doubled or moved, however sends
\* and reads cut the stream: the messages parsed are the first that were written,
\* and the buffer, the last read and the wire hold, each in its place, the bytes
\* between what was taken and what was sent.  This is what the length before
\* each message is for (doc/design.md:27).
StreamExact ==
    sender = "server" /\ failure # "overflow" =>
        /\ failure = "none"
        /\ IsPrefix(Parsed, pushed)
        /\ Len(Stream) = SentUpTo - TakenUpTo
        /\ \A i \in DOMAIN Stream : Place(Stream[i]) = TakenUpTo + i

\* What is read is what was written, whole, as long as read_data runs on one
\* thread at a time and no send of a client took part of a frame: a length is
\* taken for a length and a body for a body, wherever sends and reads cut the
\* stream and however many requests a client lost to EAGAIN on the way.  After
\* either, anything can be delivered: nothing in the stream says where a frame
\* begins.
WholeUntilCut ==
    ~overlapped /\ ~truncated =>
        ToSet(Parsed) \subseteq ToSet(pushed) /\ failure \in {"none", "overflow"}

\* Messages are delivered in the order of write_data, as long as read_data runs
\* on one thread at a time; a client may lose some on the way, when send fails,
\* and after a send that took part of a frame garbage may come between them.
DeliveredInOrder ==
    ~overlapped =>
        \A i, j \in DOMAIN delivered : \A k, l \in DOMAIN pushed :
            i < j /\ delivered[i] = pushed[k] /\ delivered[j] = pushed[l] => k < l

\* No message is delivered twice, by however many threads at once the stream
\* is read and parsed, and whatever part of it was lost.
DeliveredOnce ==
    \A i, j \in DOMAIN delivered :
        delivered[i] = delivered[j] /\ delivered[i] # Garbage => i = j

Channel == INSTANCE Message_Channel WITH
    written <- pushed, readByOne <- ~overlapped, kept <- (sender = "server"),
    intact <- ~overlapped /\ ~truncated

\* A connection is a message channel: write_data writes, and whatever the pieces
\* the stream is sent and read in, the read callback is given messages that were
\* written, none twice, in order while one thread reads, and from a server the
\* very next one.  It is given something else only after two threads have read at
\* once or part of a frame was lost.
ImplementsChannel == Channel!Spec

\* The reader goes round parse_message without reading: the rest of the body is
\* in the socket (Channel.cpp:40 has no else that leaves the loop).
StuckInBody ==
    \E r \in Readers :
        /\ reader[r] \in {"parse", "length"}
        /\ bodyLength # 0 /\ Len(buffer) < bodyLength

\* The socket was full when a server sent last: nobody handles EPOLLOUT.
StuckInQueue ==
    sendMessages # <<>> /\ \A m \in Messages : writer[m] \in {"none", "returned"}

\* A message a server has written arrives, however sends and reads cut the
\* stream, unless its reader is left for ever inside a body, or the rest of the
\* queue for ever behind a socket that was full, or a buffer overflowed: nothing
\* else stops it, not a head cut in two, not several messages in one read, not
\* two write_data at once.
EveryMessageArrives ==
    \/ <>[](StuckInBody \/ StuckInQueue \/ failure = "overflow")
    \/ \A m \in Messages :
        sender = "server" /\ writer[m] # "none" ~> m \in ToSet(delivered)
=============================================================================

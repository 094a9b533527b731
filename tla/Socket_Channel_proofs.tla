------------------------ MODULE Socket_Channel_proofs ------------------------
(***************************************************************************)
(* Proofs about Socket_Channel for any messages and lengths, any sizes of  *)
(* head, buffer and socket and any number of readers.                      *)
(***************************************************************************)
EXTENDS Socket_Channel, SequenceTheorems, TLAPS

FrameLength(m) == HeadLength + Length[m]
Bytes == {b \in Messages \X Nat : b[2] > 0 /\ b[2] <= FrameLength(b[1])}

ReaderStates ==
    {"idle", "read", "enqueue", "parse", "head", "length", "body", "deliver", "pop"}

\* What is parsed, and a length that is read.
Data == Messages \cup {Garbage}
Lengths == (0 .. BufferSize + 1) \cup {Length[m] : m \in Messages}

\* What TypeOK leaves out.  A server has the first of its queue in hand.
SendTypes ==
    /\ sender \in {"client", "server"}
    /\ sendMessages \in Seq(Messages) /\ sendOffset \in Nat
    /\ sendLock \in Messages \cup {NoMessage}
    /\ inHand \in [Messages -> Messages \cup {NoMessage}]
    /\ pushed \in Seq(Messages) /\ start \in [Messages -> Nat]
    /\ sender = "client" => sendOffset = 0
    /\ \A m \in Messages : sender = "server" /\ inHand[m] # NoMessage =>
        sendMessages # <<>> /\ inHand[m] = sendMessages[1]
ReadTypes ==
    /\ wire \in Seq(Bytes) /\ buffer \in Seq(Bytes)
    /\ readMessages \in Seq(Data) /\ delivered \in Seq(Data)
    /\ reader \in [Readers -> ReaderStates]
    /\ chunk \in [Readers -> Seq(Bytes)]
    /\ dataLen \in [Readers -> Nat] /\ leaving \in [Readers -> BOOLEAN]
    /\ overlapped \in BOOLEAN
TypeInv == TypeOK /\ SendTypes /\ ReadTypes

-----------------------------------------------------------------------------
(* Sequences and frames                                                     *)

LEMMA RestOf ==
    ASSUME NEW S, NEW s \in Seq(S), NEW n \in Nat, n <= Len(s)
    PROVE  /\ SubSeq(s, n + 1, Len(s)) \in Seq(S)
           /\ Len(SubSeq(s, n + 1, Len(s))) = Len(s) - n
           /\ \A i \in 1 .. Len(s) - n : SubSeq(s, n + 1, Len(s))[i] = s[n + i]
OBVIOUS

LEMMA FirstOf ==
    ASSUME NEW S, NEW s \in Seq(S), NEW n \in Nat, n <= Len(s)
    PROVE  /\ SubSeq(s, 1, n) \in Seq(S)
           /\ Len(SubSeq(s, 1, n)) = n
           /\ \A i \in 1 .. n : SubSeq(s, 1, n)[i] = s[i]
OBVIOUS

LEMMA TailOf ==
    ASSUME NEW S, NEW s \in Seq(S), s # <<>>
    PROVE  /\ Tail(s) \in Seq(S) /\ s[1] \in S /\ Len(s) > 0 /\ Len(s) \in Nat
           /\ Len(Tail(s)) = Len(s) - 1
           /\ \A i \in 1 .. Len(s) - 1 : Tail(s)[i] = s[i + 1]
OBVIOUS

LEMMA Appended ==
    ASSUME NEW S, NEW s \in Seq(S), NEW e \in S
    PROVE  /\ Append(s, e) \in Seq(S) /\ Len(Append(s, e)) = Len(s) + 1
           /\ Append(s, e) # <<>> /\ Len(s) \in Nat
           /\ \A i \in 1 .. Len(s) + 1 :
                Append(s, e)[i] = IF i <= Len(s) THEN s[i] ELSE e
OBVIOUS

LEMMA FrameOf ==
    ASSUME NEW m \in Messages
    PROVE  /\ Frame(m) \in Seq(Bytes) /\ Len(Frame(m)) = FrameLength(m)
           /\ FrameLength(m) \in Nat /\ HeadLength \in Nat /\ Length[m] \in Nat
           /\ HeadLength > 0 /\ Length[m] > 0
           /\ \A i \in 1 .. FrameLength(m) : Frame(m)[i] = <<m, i>>
<1>1. HeadLength \in Nat \ {0} /\ Length[m] \in Nat \ {0}
  BY ChannelAssumption DEF ChannelAssumption
<1>2. FrameLength(m) \in Nat
  BY <1>1 DEF FrameLength
<1>3. \A i \in 1 .. FrameLength(m) : <<m, i>> \in Bytes
  BY <1>2 DEF Bytes
<1> QED BY <1>1, <1>2, <1>3 DEF Frame, FrameLength

\* What one send takes of the frame in hand.
LEMMA TakenOf ==
    ASSUME NEW m \in Messages, inHand[m] \in Messages, NEW offset \in Nat,
           offset < FrameLength(inHand[m]), Free \in Nat, Free > 0
    PROVE  /\ Taken(m, offset) \in Seq(Bytes)
           /\ Len(Taken(m, offset)) \in Nat
           /\ Len(Taken(m, offset)) > 0 /\ Len(Taken(m, offset)) <= Free
           /\ offset + Len(Taken(m, offset)) <= FrameLength(inHand[m])
           /\ \A i \in 1 .. Len(Taken(m, offset)) :
                Taken(m, offset)[i] = <<inHand[m], offset + i>>
<1>1. PICK f : f = inHand[m]
  OBVIOUS
<1>2. PICK n : n = IF FrameLength(f) - offset <= Free THEN FrameLength(f) - offset ELSE Free
  OBVIOUS
<1>3. /\ Frame(f) \in Seq(Bytes) /\ Len(Frame(f)) = FrameLength(f)
      /\ FrameLength(f) \in Nat
      /\ \A i \in 1 .. FrameLength(f) : Frame(f)[i] = <<f, i>>
  BY <1>1, FrameOf
<1>4. /\ n \in Nat /\ n > 0 /\ n <= Free /\ offset + n <= FrameLength(f)
  BY <1>1, <1>2, <1>3
<1>5. Taken(m, offset) = SubSeq(Frame(f), offset + 1, offset + n)
  BY <1>1, <1>2, <1>3 DEF Taken
<1>6. /\ SubSeq(Frame(f), offset + 1, offset + n) \in Seq(Bytes)
      /\ Len(SubSeq(Frame(f), offset + 1, offset + n)) = n
      /\ \A i \in 1 .. n : SubSeq(Frame(f), offset + 1, offset + n)[i] = Frame(f)[offset + i]
  BY <1>3, <1>4
<1>7. \A i \in 1 .. n : offset + i \in 1 .. FrameLength(f)
  BY <1>3, <1>4
<1> QED BY <1>1, <1>3, <1>4, <1>5, <1>6, <1>7

-----------------------------------------------------------------------------
(* The types                                                                *)

LEMMA ReaderKnown == ClientReader \in Readers
BY ChannelAssumption DEF ChannelAssumption, ClientReader

LEMMA TypeInit == Init => TypeInv
<1> SUFFICES ASSUME Init PROVE TypeInv
  OBVIOUS
<1>0. NoMessage \notin Messages /\ SocketSize \in Nat /\ BufferSize \in Nat
  BY ChannelAssumption DEF ChannelAssumption
<1>1. SendTypes
  BY ChannelAssumption DEF ChannelAssumption, Init, SendTypes
<1>2. reader \in [Readers -> ReaderStates]
  BY DEF Init, ReaderStates
<1>3. ReadTypes
  <2>1. /\ <<>> \in Seq(Bytes) /\ <<>> \in Seq(Data)
        /\ FALSE \in BOOLEAN /\ 0 \in Nat
    OBVIOUS
  <2>2. /\ wire = <<>> /\ buffer = <<>> /\ readMessages = <<>> /\ delivered = <<>>
        /\ chunk = [r \in Readers |-> <<>>] /\ dataLen = [r \in Readers |-> 0]
        /\ leaving = [r \in Readers |-> FALSE] /\ overlapped = FALSE
    BY DEF Init
  <2> QED BY <1>2, <2>1, <2>2, Zenon DEF ReadTypes
<1>4. \A r \in Readers :
        reader[r] \in {"idle", "read", "enqueue", "parse", "head", "length", "body", "deliver", "pop"}
  BY <1>2 DEF ReaderStates
<1>5. TypeOK
  <2>1. /\ writer \in [Messages -> {"none", "pushed", "sending", "returned", "threw"}]
        /\ \A m \in Messages : writer[m] = "sending" <=> sendLock = m
        /\ \A m \in Messages : inHand[m] # NoMessage => sendLock = m
        /\ sendOffset = 0 /\ arrived = 0 /\ Len(wire) = 0 /\ tasks \in Nat
        /\ edge = FALSE /\ Len(buffer) = 0 /\ bodyLength = 0 /\ failure = "none"
        /\ delivered \o readMessages \in Seq(Data)
    BY <1>0 DEF Init
  <2>2. edge \in BOOLEAN
    BY <2>1
  <2>3. \A r \in Readers : chunk[r] = <<>> /\ dataLen[r] = 0
    BY DEF Init
  <2>4. bodyLength \in 0 .. BufferSize + 1
    BY <1>0, <2>1
  <2> QED BY <1>0, <1>4, <2>1, <2>2, <2>3, <2>4 DEF TypeOK, Data
<1> QED BY <1>1, <1>3, <1>5 DEF TypeInv

LEMMA TotalType ==
    ASSUME SendTypes
    PROVE  Total \in Nat
<1>1. CASE pushed = <<>>
  BY <1>1 DEF Total
<1>2. CASE pushed # <<>>
  <2>1. Last(pushed) \in Messages
    BY <1>2 DEF SendTypes, Last
  <2>2. start[Last(pushed)] \in Nat /\ Len(Frame(Last(pushed))) \in Nat
    BY <2>1, FrameOf DEF SendTypes
  <2> QED BY <1>2, <2>2 DEF Total
<1> QED BY <1>1, <1>2

LEMMA PushType ==
    ASSUME TypeInv, NEW m \in Messages, PushMessage(m)
    PROVE  TypeInv'
<1>1. /\ sendMessages' = Append(sendMessages, m) /\ pushed' = Append(pushed, m)
      /\ start' = [start EXCEPT ![m] = Total]
      /\ writer[m] = "none" /\ writer' = [writer EXCEPT ![m] = "pushed"]
      /\ UNCHANGED <<sender, sendOffset, sendLock, inHand, wire, arrived, edge, tasks, buffer,
                     bodyLength, readMessages, delivered, reader, chunk, dataLen, leaving,
                     overlapped, failure>>
  BY DEF PushMessage, socketVars, parseVars, readVars
<1>2. /\ sendMessages' \in Seq(Messages) /\ pushed' \in Seq(Messages)
      /\ sendMessages' # <<>> /\ (sendMessages # <<>> => sendMessages'[1] = sendMessages[1])
  <2>1. sendMessages \in Seq(Messages) /\ pushed \in Seq(Messages)
    BY DEF TypeInv, SendTypes
  <2> QED BY <1>1, <2>1, Appended
<1>3. start' \in [Messages -> Nat]
  BY <1>1, TotalType DEF TypeInv, SendTypes
<1>4. SendTypes'
  BY <1>1, <1>2, <1>3 DEF TypeInv, SendTypes
<1>5. ReadTypes'
  BY <1>1 DEF TypeInv, ReadTypes
<1>6. sendOffset' > 0 => sendMessages' # <<>> /\ sendOffset' < Len(Frame(sendMessages'[1]))
  BY <1>1, <1>2 DEF TypeInv, TypeOK
<1>7. TypeOK'
  BY <1>1, <1>6 DEF TypeInv, TypeOK
<1> QED BY <1>4, <1>5, <1>7 DEF TypeInv

LEMMA FreeType ==
    ASSUME TypeInv
    PROVE  Free \in Nat /\ Len(wire) \in Nat /\ SocketSize = Len(wire) + Free
<1>1. SocketSize \in Nat /\ Len(wire) \in Nat /\ Len(wire) <= SocketSize
  BY ChannelAssumption DEF ChannelAssumption, TypeInv, TypeOK, ReadTypes
<1> QED BY <1>1 DEF Free

\* What is in hand is at the front, and the offset is inside it.
LEMMA HandOf ==
    ASSUME TypeInv, NEW m \in Messages, inHand[m] # NoMessage
    PROVE  /\ inHand[m] \in Messages /\ writer[m] = "sending" /\ sendLock = m
           /\ \A other \in Messages \ {m} : inHand[other] = NoMessage
           /\ sender = "client" => sendOffset = 0
           /\ sender = "server" => /\ sendMessages # <<>> /\ inHand[m] = sendMessages[1]
                                   /\ sendOffset < FrameLength(inHand[m])
<1>1. /\ inHand[m] \in Messages /\ sendLock = m /\ writer[m] = "sending"
      /\ \A other \in Messages \ {m} : inHand[other] = NoMessage
      /\ sender = "client" => sendOffset = 0
      /\ sender = "server" => sendMessages # <<>> /\ inHand[m] = sendMessages[1]
      /\ sendOffset \in Nat
  BY DEF TypeInv, TypeOK, SendTypes
<1>2. ASSUME sender = "server" PROVE sendOffset < FrameLength(inHand[m])
  <2>1. CASE sendOffset = 0
    BY <1>1, <2>1, FrameOf DEF FrameLength
  <2>2. CASE sendOffset > 0
    BY <1>1, <1>2, <2>2, FrameOf DEF TypeInv, TypeOK
  <2> QED BY <1>1, <2>1, <2>2
<1> QED BY <1>1, <1>2

\* How a send puts bytes on the wire, for either peer.
LEMMA WireGrows ==
    ASSUME TypeInv, NEW m \in Messages, inHand[m] # NoMessage, Free > 0,
           NEW offset \in Nat, offset < FrameLength(inHand[m])
    PROVE  /\ wire \o Taken(m, offset) \in Seq(Bytes)
           /\ Len(wire \o Taken(m, offset)) <= SocketSize
           /\ arrived \in 0 .. Len(wire \o Taken(m, offset))
           /\ Len(wire \o Taken(m, offset)) = Len(wire) + Len(Taken(m, offset))
<1>1. PICK t : t = Taken(m, offset)
  OBVIOUS
<1>2. /\ t \in Seq(Bytes) /\ Len(t) \in Nat /\ Len(t) <= Free
      /\ wire \in Seq(Bytes) /\ Free \in Nat /\ SocketSize = Len(wire) + Free
      /\ arrived \in 0 .. Len(wire) /\ Len(wire) \in Nat
  BY <1>1, FreeType, HandOf, TakenOf DEF TypeInv, TypeOK, ReadTypes
<1>3. wire \o t \in Seq(Bytes) /\ Len(wire \o t) = Len(wire) + Len(t)
  BY <1>2, ConcatProperties
<1>4. Len(wire) + Len(t) <= SocketSize /\ arrived \in 0 .. Len(wire) + Len(t)
  BY <1>2
<1> QED BY <1>1, <1>3, <1>4

LEMMA WriteType ==
    ASSUME TypeInv, NEW m \in Messages, Write(m)
    PROVE  TypeInv'
<1> USE DEF socketVars, parseVars, readVars
<1>0. NoMessage \notin Messages
  BY ChannelAssumption DEF ChannelAssumption
<1>1. CASE LockSend(m)
  <2>1. TypeOK'
    BY <1>0, <1>1 DEF LockSend, TypeInv, TypeOK
  <2>2. SendTypes' /\ ReadTypes'
    BY <1>1 DEF LockSend, TypeInv, SendTypes, ReadTypes
  <2> QED BY <2>1, <2>2 DEF TypeInv
<1>2. CASE TakeMessage(m)
  <2>1. /\ sendMessages # <<>> /\ inHand' = [inHand EXCEPT ![m] = sendMessages[1]]
        /\ sendMessages \in Seq(Messages) /\ sendMessages[1] \in Messages
        /\ sendMessages' = IF sender = "client" THEN Tail(sendMessages) ELSE sendMessages
        /\ UNCHANGED <<sender, writer, sendOffset, sendLock, pushed, start, wire, arrived, edge,
                       tasks, buffer, bodyLength, readMessages, delivered, reader, chunk,
                       dataLen, leaving, overlapped, failure>>
    BY <1>2 DEF TakeMessage, TypeInv, SendTypes
  <2>2. sendMessages' \in Seq(Messages)
    BY <2>1, TailOf
  <2>3. writer[m] = "sending" /\ sendLock = m
    BY <1>2 DEF TakeMessage, TypeInv, TypeOK
  <2>4. SendTypes'
    BY <2>1, <2>2 DEF TypeInv, SendTypes
  <2>5. ReadTypes'
    BY <2>1 DEF TypeInv, ReadTypes
  <2>6. sendOffset' > 0 => sendMessages' # <<>> /\ sendOffset' < Len(Frame(sendMessages'[1]))
    BY <2>1 DEF TypeInv, TypeOK, SendTypes
  <2>7. \A x \in Messages : inHand'[x] # NoMessage => sendLock' = x
    BY <2>1, <2>3 DEF TypeInv, TypeOK, SendTypes
  <2>8. TypeOK'
    BY <2>1, <2>6, <2>7 DEF TypeInv, TypeOK
  <2> QED BY <2>4, <2>5, <2>8 DEF TypeInv
<1>3. ASSUME NEW outcome \in {"returned", "threw"}, UnlockSend(m, outcome), writer[m] = "sending",
             UNCHANGED <<sender, sendMessages, sendOffset, pushed, start, wire, arrived, edge,
                         tasks, buffer, bodyLength, readMessages, delivered, reader, chunk,
                         dataLen, leaving, overlapped, failure>>
      PROVE  TypeInv'
  <2>1. sendLock = m
    BY <1>3 DEF TypeInv, TypeOK
  <2>2. /\ \A x \in Messages : writer'[x] = "sending" <=> sendLock' = x
        /\ \A x \in Messages : inHand'[x] # NoMessage => sendLock' = x
        /\ writer' \in [Messages -> {"none", "pushed", "sending", "returned", "threw"}]
        /\ inHand' \in [Messages -> Messages \cup {NoMessage}]
        /\ \A x \in Messages : inHand'[x] # NoMessage => inHand'[x] = inHand[x]
        /\ sendLock' = NoMessage
    BY <1>0, <1>3, <2>1 DEF UnlockSend, TypeInv, TypeOK, SendTypes
  <2>3. SendTypes' /\ ReadTypes'
    BY <1>3, <2>2 DEF TypeInv, SendTypes, ReadTypes
  <2>4. TypeOK'
    BY <1>3, <2>2 DEF TypeInv, TypeOK
  <2> QED BY <2>3, <2>4 DEF TypeInv
<1>4. CASE ClientSendFails(m) \/ ServerSendBlocked(m) \/ QueueDrained(m)
  <2>1. writer[m] = "sending"
    BY <1>4, HandOf DEF ClientSendFails, ServerSendBlocked, QueueDrained, IsSending
  <2> QED BY <1>3, <1>4, <2>1 DEF ClientSendFails, ServerSendBlocked, QueueDrained
<1>5. CASE ClientSend(m)
  <2>1. /\ inHand[m] # NoMessage /\ sender = "client" /\ Free > 0
        /\ wire' = wire \o Taken(m, 0) /\ inHand' = [inHand EXCEPT ![m] = NoMessage]
        /\ UNCHANGED <<sender, writer, sendMessages, sendOffset, sendLock, pushed, start,
                       arrived, edge, tasks, buffer, bodyLength, readMessages, delivered,
                       reader, chunk, dataLen, leaving, overlapped, failure>>
    BY <1>5 DEF ClientSend, IsSending
  <2>2. 0 < FrameLength(inHand[m])
    BY <2>1, HandOf, FrameOf DEF FrameLength
  <2>3. wire' \in Seq(Bytes) /\ Len(wire') <= SocketSize /\ arrived \in 0 .. Len(wire')
    BY <2>1, <2>2, WireGrows
  <2>4. SendTypes' /\ ReadTypes'
    BY <2>1, <2>3 DEF TypeInv, SendTypes, ReadTypes
  <2>5. TypeOK'
    BY <2>1, <2>3 DEF TypeInv, TypeOK, SendTypes
  <2> QED BY <2>4, <2>5 DEF TypeInv
<1>6. CASE ServerSend(m)
  <2>1. /\ inHand[m] # NoMessage /\ sender = "server" /\ Free > 0
        /\ wire' = wire \o Taken(m, sendOffset) /\ inHand' = [inHand EXCEPT ![m] = NoMessage]
        /\ sendOffset' = NextOffset(m, Len(Taken(m, sendOffset)))
        /\ sendMessages' = IF sendOffset + Len(Taken(m, sendOffset)) = Len(Frame(inHand[m]))
                           THEN Tail(sendMessages) ELSE sendMessages
        /\ UNCHANGED <<sender, writer, sendLock, pushed, start,
                       arrived, edge, tasks, buffer, bodyLength, readMessages, delivered,
                       reader, chunk, dataLen, leaving, overlapped, failure>>
    BY <1>6 DEF ServerSend, IsSending
  <2>2. /\ inHand[m] \in Messages /\ sendOffset \in Nat /\ sendOffset < FrameLength(inHand[m])
        /\ inHand[m] = sendMessages[1] /\ sendMessages # <<>>
        /\ \A other \in Messages \ {m} : inHand[other] = NoMessage
        /\ Len(Frame(inHand[m])) = FrameLength(inHand[m]) /\ FrameLength(inHand[m]) \in Nat
        /\ sendMessages \in Seq(Messages)
    BY <2>1, HandOf, FrameOf DEF TypeInv, SendTypes
  <2>3. wire' \in Seq(Bytes) /\ Len(wire') <= SocketSize /\ arrived \in 0 .. Len(wire')
    BY <2>1, <2>2, WireGrows
  <2>4. /\ Len(Taken(m, sendOffset)) \in Nat
        /\ sendOffset + Len(Taken(m, sendOffset)) <= FrameLength(inHand[m])
    BY <2>1, <2>2, TakenOf, FreeType
  <2>5. /\ sendOffset' \in Nat /\ sendMessages' \in Seq(Messages)
        /\ sendOffset' > 0 => sendMessages' # <<>> /\ sendOffset' < Len(Frame(sendMessages'[1]))
    <3>1. CASE sendOffset + Len(Taken(m, sendOffset)) = Len(Frame(inHand[m]))
      BY <2>1, <2>2, <3>1, TailOf DEF NextOffset
    <3>2. CASE sendOffset + Len(Taken(m, sendOffset)) # Len(Frame(inHand[m]))
      BY <2>1, <2>2, <2>4, <3>2 DEF NextOffset
    <3> QED BY <3>1, <3>2
  <2>6. SendTypes'
    BY <2>1, <2>2, <2>5 DEF TypeInv, SendTypes
  <2>7. ReadTypes'
    BY <2>1, <2>3 DEF TypeInv, ReadTypes
  <2>8. TypeOK'
    BY <2>1, <2>3, <2>5 DEF TypeInv, TypeOK, SendTypes
  <2> QED BY <2>6, <2>7, <2>8 DEF TypeInv
<1> QED BY <1>1, <1>2, <1>4, <1>5, <1>6 DEF Write

LEMMA SocketType ==
    ASSUME TypeInv, Arrive \/ CommitRead
    PROVE  TypeInv'
<1> USE DEF sendVars, parseVars, readVars
<1>1. /\ arrived' \in 0 .. Len(wire) /\ edge' \in BOOLEAN /\ tasks' \in Nat
      /\ UNCHANGED <<wire, failure, writer, sendMessages, sendOffset, sendLock, inHand, pushed,
                     start, sender, buffer, bodyLength, readMessages, delivered, reader,
                     chunk, dataLen, leaving, overlapped>>
  <2>1. Len(wire) \in Nat /\ arrived \in 0 .. Len(wire) /\ tasks \in Nat /\ edge \in BOOLEAN
    BY DEF TypeInv, TypeOK, ReadTypes
  <2>2. CASE Arrive
    <3>1. PICK n \in arrived + 1 .. Len(wire) : arrived' = n
      BY <2>2 DEF Arrive
    <3>2. n \in 0 .. Len(wire)
      BY <2>1, <3>1
    <3>3. edge' \in BOOLEAN
      BY <2>2, Zenon DEF Arrive
    <3> QED BY <2>1, <2>2, <3>1, <3>2, <3>3 DEF Arrive
  <2>3. CASE CommitRead
    <3>1. edge' = FALSE
      BY <2>3, Zenon DEF CommitRead
    <3>2. edge' \in BOOLEAN
      BY <3>1, Zenon
    <3> QED BY <2>1, <2>3, <3>2 DEF CommitRead
  <2> QED BY <2>2, <2>3
<1> QED BY <1>1 DEF TypeInv, TypeOK, SendTypes, ReadTypes

\* A step of one reader: where it goes, what it keeps in its locals, and what
\* it leaves in the socket and the buffer.
LEMMA ReaderMoves ==
    ASSUME TypeInv, NEW r \in Readers, NEW state \in ReaderStates, Goto(r, state),
           UNCHANGED <<sendVars, edge>>,
           failure' \in {"none", "overflow", "underflow", "garbled"},
           tasks' \in Nat, overlapped' \in BOOLEAN,
           wire' \in Seq(Bytes), Len(wire') <= SocketSize, arrived' \in 0 .. Len(wire'),
           buffer' \in Seq(Bytes), Len(buffer') <= BufferSize,
           bodyLength' \in Lengths,
           readMessages' \in Seq(Data), delivered' \in Seq(Data),
           \/ chunk' = chunk /\ reader[r] # "enqueue"
           \/ chunk' = [chunk EXCEPT ![r] = <<>>]
           \/ \E bytes \in Seq(Bytes) :
                chunk' = [chunk EXCEPT ![r] = bytes] /\ state = "enqueue",
           \/ dataLen' = dataLen /\ reader[r] # "body"
           \/ dataLen' = [dataLen EXCEPT ![r] = 0]
           \/ \E n \in Nat : dataLen' = [dataLen EXCEPT ![r] = n] /\ state = "body",
           \E end \in BOOLEAN : leaving' = [leaving EXCEPT ![r] = end]
    PROVE  TypeInv'
<1>1. /\ reader' \in [Readers -> ReaderStates] /\ reader'[r] = state
      /\ \A x \in Readers \ {r} : reader'[x] = reader[x]
  BY DEF Goto, TypeInv, ReadTypes
<1>2. /\ chunk' \in [Readers -> Seq(Bytes)]
      /\ \A x \in Readers : chunk'[x] # <<>> => reader'[x] = "enqueue"
  <2>1. \A x \in Readers : chunk[x] # <<>> => reader[x] = "enqueue"
    BY DEF TypeInv, TypeOK
  <2>2. chunk \in [Readers -> Seq(Bytes)] /\ <<>> \in Seq(Bytes)
    BY DEF TypeInv, ReadTypes
  <2>3. CASE chunk' = chunk /\ reader[r] # "enqueue"
    BY <1>1, <2>1, <2>2, <2>3
  <2>4. CASE chunk' = [chunk EXCEPT ![r] = <<>>]
    BY <1>1, <2>1, <2>2, <2>4
  <2>5. CASE \E bytes \in Seq(Bytes) :
                 chunk' = [chunk EXCEPT ![r] = bytes] /\ state = "enqueue"
    BY <1>1, <2>1, <2>2, <2>5
  <2> QED BY <2>3, <2>4, <2>5
<1>3. /\ dataLen' \in [Readers -> Nat]
      /\ \A x \in Readers : dataLen'[x] # 0 => reader'[x] = "body"
  <2>1. \A x \in Readers : dataLen[x] # 0 => reader[x] = "body"
    BY DEF TypeInv, TypeOK
  <2>2. dataLen \in [Readers -> Nat]
    BY DEF TypeInv, ReadTypes
  <2>3. CASE dataLen' = dataLen /\ reader[r] # "body"
    BY <1>1, <2>1, <2>2, <2>3
  <2>4. CASE dataLen' = [dataLen EXCEPT ![r] = 0]
    BY <1>1, <2>1, <2>2, <2>4
  <2>5. CASE \E n \in Nat : dataLen' = [dataLen EXCEPT ![r] = n] /\ state = "body"
    BY <1>1, <2>1, <2>2, <2>5
  <2> QED BY <2>3, <2>4, <2>5
<1>4. leaving' \in [Readers -> BOOLEAN]
  BY DEF TypeInv, ReadTypes
<1>5. SendTypes'
  BY DEF sendVars, TypeInv, SendTypes
<1>6. ReadTypes'
  BY <1>1, <1>2, <1>3, <1>4 DEF ReadTypes
<1>7. \A x \in Readers : reader'[x] \in ReaderStates
  BY <1>1
<1>8. TypeOK'
  <2>1. (delivered \o readMessages)' \in Seq(Data)
    BY ConcatProperties
  <2> QED BY <1>2, <1>3, <1>7, <2>1 DEF sendVars, TypeInv, TypeOK, ReaderStates, Data, Lengths
<1> QED BY <1>5, <1>6, <1>8 DEF TypeInv

LEMMA BufferRest ==
    ASSUME TypeInv, NEW n \in Nat, n <= Len(buffer)
    PROVE  /\ SubSeq(buffer, n + 1, Len(buffer)) \in Seq(Bytes)
           /\ Len(SubSeq(buffer, n + 1, Len(buffer))) <= BufferSize
<1>1. buffer \in Seq(Bytes) /\ Len(buffer) \in Nat /\ Len(buffer) <= BufferSize
      /\ BufferSize \in Nat
  BY ChannelAssumption DEF ChannelAssumption, TypeInv, TypeOK, ReadTypes
<1>2. /\ SubSeq(buffer, n + 1, Len(buffer)) \in Seq(Bytes)
      /\ Len(SubSeq(buffer, n + 1, Len(buffer))) = Len(buffer) - n
  BY <1>1, RestOf
<1> QED BY <1>1, <1>2

LEMMA ReadType ==
    ASSUME TypeInv, NEW r \in Readers, Read(r)
    PROVE  TypeInv'
<1>0. /\ wire \in Seq(Bytes) /\ Len(wire) <= SocketSize /\ arrived \in 0 .. Len(wire)
      /\ buffer \in Seq(Bytes) /\ Len(buffer) <= BufferSize
      /\ bodyLength \in Lengths
      /\ readMessages \in Seq(Data) /\ delivered \in Seq(Data)
      /\ tasks \in Nat /\ overlapped \in BOOLEAN
      /\ failure \in {"none", "overflow", "underflow", "garbled"}
      /\ <<>> \in Seq(Bytes) /\ chunk \in [Readers -> Seq(Bytes)]
  BY DEF TypeInv, TypeOK, ReadTypes, Lengths
<1>a. \E end \in BOOLEAN : leaving = [leaving EXCEPT ![r] = end]
  <2>1. leaving[r] \in BOOLEAN /\ leaving = [leaving EXCEPT ![r] = leaving[r]]
    BY DEF TypeInv, ReadTypes
  <2> QED BY <2>1
<1>b. \A state \in {"idle", "read", "enqueue", "parse", "head", "length", "body", "deliver", "pop"} :
        state \in ReaderStates
  BY DEF ReaderStates
<1> USE DEF IsReader, socketVars, parseVars
<1>1. CASE StartTask(r)
  <2>1. tasks' \in Nat
    BY <1>0, <1>1 DEF StartTask
  <2>2. overlapped' \in BOOLEAN
    BY <1>1, Zenon DEF StartTask
  <2> QED BY <1>0, <1>1, <1>a, <1>b, <2>1, <2>2, ReaderMoves DEF StartTask
<1>2. CASE ReadSocket(r)
  <2>1. PICK n : n = IF arrived <= BufferSize THEN arrived ELSE BufferSize
    OBVIOUS
  <2>2. n \in Nat /\ n <= arrived /\ arrived - n \in 0 .. Len(wire) - n /\ n <= Len(wire)
    BY <1>0, <2>1, ChannelAssumption DEF ChannelAssumption
  <2>3. /\ SubSeq(wire, 1, n) \in Seq(Bytes) /\ SubSeq(wire, n + 1, Len(wire)) \in Seq(Bytes)
        /\ Len(SubSeq(wire, n + 1, Len(wire))) = Len(wire) - n
    BY <1>0, <2>2, FirstOf, RestOf
  <2>4. /\ chunk' = [chunk EXCEPT ![r] = SubSeq(wire, 1, n)]
        /\ wire' = SubSeq(wire, n + 1, Len(wire)) /\ arrived' = arrived - n
    BY <1>2, <2>1 DEF ReadSocket
  <2>5. Len(wire') <= SocketSize /\ arrived' \in 0 .. Len(wire') /\ wire' \in Seq(Bytes)
    <3>1. Len(wire) \in Nat /\ Len(wire) <= SocketSize /\ SocketSize \in Nat
      BY <1>0, ChannelAssumption DEF ChannelAssumption
    <3>2. Len(wire) - n <= SocketSize
      BY <2>2, <3>1
    <3> QED BY <2>2, <2>3, <2>4, <3>2
  <2> QED BY <1>0, <1>2, <1>a, <1>b, <2>3, <2>4, <2>5, ReaderMoves DEF ReadSocket
<1>3. CASE NothingToRead(r)
  BY <1>0, <1>3, <1>b, ReaderMoves DEF NothingToRead
<1>4. CASE EnqueueChunk(r)
  <2>1. chunk[r] \in Seq(Bytes)
    BY <1>0
  <2>2. buffer \o chunk[r] \in Seq(Bytes) /\ Len(buffer \o chunk[r]) = Len(buffer) + Len(chunk[r])
    BY <1>0, <2>1, ConcatProperties
  <2>3. buffer' \in Seq(Bytes) /\ Len(buffer') <= BufferSize
        /\ failure' \in {"none", "overflow", "underflow", "garbled"}
    <3>1. CASE Len(buffer) + Len(chunk[r]) > BufferSize
      BY <1>0, <1>4, <3>1 DEF EnqueueChunk
    <3>2. CASE ~(Len(buffer) + Len(chunk[r]) > BufferSize)
      <4>1. Len(buffer) + Len(chunk[r]) \in Nat /\ BufferSize \in Nat
        BY <1>0, <2>1, ChannelAssumption DEF ChannelAssumption
      <4>2. buffer' = buffer \o chunk[r] /\ failure' = failure
        BY <1>4, <3>2 DEF EnqueueChunk
      <4>3. Len(buffer \o chunk[r]) <= BufferSize
        BY <2>2, <3>2, <4>1
      <4> QED BY <1>0, <2>2, <4>2, <4>3
    <3> QED BY <3>1, <3>2
  <2> QED BY <1>0, <1>4, <1>a, <1>b, <2>3, ReaderMoves DEF EnqueueChunk
<1>5. CASE SeeHead(r) \/ SeeMessage(r)
  BY <1>0, <1>5, <1>a, <1>b, ReaderMoves DEF SeeHead, SeeMessage
<1>6. CASE ParseEnds(r)
  BY <1>0, <1>6, <1>b, ReaderMoves DEF ParseEnds
<1>7. CASE SeeBody(r)
  <2>1. bodyLength \in Nat
    BY <1>0, ChannelAssumption DEF ChannelAssumption, Lengths
  <2>2. CASE Len(buffer) >= bodyLength
    BY <1>0, <1>7, <1>a, <1>b, <2>1, <2>2, ReaderMoves DEF SeeBody
  <2>3. CASE ~(Len(buffer) >= bodyLength)
    BY <1>0, <1>7, <1>a, <1>b, <2>3, ReaderMoves DEF SeeBody
  <2> QED BY <2>2, <2>3
<1>8. CASE TakeHead(r)
  <2>1. /\ buffer' \in Seq(Bytes) /\ Len(buffer') <= BufferSize
        /\ bodyLength' \in Lengths
        /\ failure' \in {"none", "overflow", "underflow", "garbled"}
    <3>1. CASE Len(buffer) < HeadLength
      BY <1>0, <1>8, <3>1 DEF TakeHead
    <3>2. CASE ~(Len(buffer) < HeadLength)
      <4>1. HeadLength \in Nat /\ HeadLength <= Len(buffer)
        BY <1>0, <3>2, ChannelAssumption DEF ChannelAssumption
      <4>2. LengthsRead \subseteq Lengths
        BY DEF LengthsRead, HeadOf, BodyLength, Lengths
      <4>3. bodyLength' \in Lengths
        BY <1>8, <3>2, <4>2 DEF TakeHead
      <4> QED BY <1>0, <1>8, <3>2, <4>1, <4>3, BufferRest DEF TakeHead
    <3> QED BY <3>1, <3>2
  <2> QED BY <1>0, <1>8, <1>a, <1>b, <2>1, ReaderMoves DEF TakeHead
<1>9. CASE TakeBody(r)
  <2>1. /\ buffer' \in Seq(Bytes) /\ Len(buffer') <= BufferSize
        /\ readMessages' \in Seq(Data)
        /\ failure' \in {"none", "overflow", "underflow", "garbled"}
        /\ bodyLength' \in Lengths
    <3>0. 0 \in Lengths
      BY ChannelAssumption DEF ChannelAssumption, Lengths
    <3>1. CASE UNCHANGED <<readMessages, buffer>>
      BY <1>0, <1>9, <3>0, <3>1 DEF TakeBody
    <3>2. CASE ~UNCHANGED <<readMessages, buffer>>
      <4>1. /\ ~(Len(buffer) < dataLen[r]) /\ failure' = failure /\ bodyLength' = 0
            /\ buffer' = SubSeq(buffer, dataLen[r] + 1, Len(buffer))
            /\ \E data \in Decoded(dataLen[r]) : readMessages' = Append(readMessages, data)
        BY <1>9, <3>2 DEF TakeBody
      <4>2. dataLen[r] \in Nat /\ dataLen[r] <= Len(buffer)
        BY <1>0, <4>1 DEF TypeInv, ReadTypes
      <4>3. readMessages' \in Seq(Data)
        <5>1. PICK data \in Data : readMessages' = Append(readMessages, data)
          BY <4>1 DEF Decoded, BodyOf, Data
        <5> QED BY <1>0, <5>1, Appended
      <4> QED BY <1>0, <3>0, <4>1, <4>2, <4>3, BufferRest
    <3> QED BY <3>1, <3>2
  <2> QED BY <1>0, <1>9, <1>a, <1>b, <2>1, ReaderMoves DEF TakeBody
<1>10. CASE DeliverMessage(r)
  <2>1. readMessages' \in Seq(Data) /\ delivered' \in Seq(Data)
        /\ failure' \in {"none", "overflow", "underflow", "garbled"}
    <3>1. CASE readMessages = <<>>
      BY <1>0, <1>10, <3>1 DEF DeliverMessage
    <3>2. CASE readMessages # <<>>
      <4>1. Tail(readMessages) \in Seq(Data) /\ readMessages[1] \in Data
        BY <1>0, <3>2, TailOf
      <4>2. Append(delivered, readMessages[1]) \in Seq(Data)
        BY <1>0, <4>1, Appended
      <4> QED BY <1>0, <1>10, <3>2, <4>1, <4>2 DEF DeliverMessage, Popped
    <3> QED BY <3>1, <3>2
  <2> QED BY <1>0, <1>10, <1>a, <1>b, <2>1, ReaderMoves DEF DeliverMessage
<1> QED BY <1>1, <1>2, <1>3, <1>4, <1>5, <1>6, <1>7, <1>8, <1>9, <1>10 DEF Read

LEMMA TypeStep ==
    ASSUME TypeInv, [Next]_vars
    PROVE  TypeInv'
<1>1. CASE UNCHANGED vars
  BY <1>1 DEF vars, sendVars, socketVars, parseVars, readVars, TypeInv, TypeOK, SendTypes,
     ReadTypes
<1> QED BY <1>1, PushType, WriteType, SocketType, ReadType DEF Next

\* Every variable keeps its type, one call sends at a time and holds the lock, the
\* offset stays inside the message at the front of the queue, and the buffers
\* keep to their sizes, in whatever pieces sends and reads cut the stream.
THEOREM ChannelTypeCorrect == Spec => []TypeOK
<1>1. Init => TypeInv
  BY TypeInit
<1>2. TypeInv /\ [Next]_vars => TypeInv'
  BY TypeStep
<1>3. TypeInv => TypeOK
  BY DEF TypeInv
<1> QED BY <1>1, <1>2, <1>3, PTL DEF Spec

-----------------------------------------------------------------------------
(* What the parser makes of the first bytes of the buffer                   *)

LEMMA HeadIs ==
    ASSUME TypeInv, NEW p \in Messages, HeadLength <= Len(buffer),
           \A i \in 1 .. HeadLength : buffer[i] = <<p, i>>
    PROVE  HeadOf = {p}
<1>1. /\ HeadLength \in Nat /\ HeadLength > 0 /\ buffer \in Seq(Bytes) /\ Len(buffer) \in Nat
  BY ChannelAssumption DEF ChannelAssumption, TypeInv, ReadTypes
<1>2. ASSUME NEW m \in Messages
      PROVE  /\ HeadBytes(m) \in Seq(Bytes) /\ Len(HeadBytes(m)) = HeadLength
             /\ \A i \in 1 .. HeadLength : HeadBytes(m)[i] = <<m, i>>
  <2>1. /\ Frame(m) \in Seq(Bytes) /\ Len(Frame(m)) = FrameLength(m) /\ FrameLength(m) \in Nat
        /\ HeadLength <= FrameLength(m)
        /\ \A i \in 1 .. FrameLength(m) : Frame(m)[i] = <<m, i>>
    BY FrameOf DEF FrameLength
  <2> QED BY <1>1, <2>1, FirstOf DEF HeadBytes
<1>3. /\ Dequeued(HeadLength) \in Seq(Bytes) /\ Len(Dequeued(HeadLength)) = HeadLength
      /\ \A i \in 1 .. HeadLength : Dequeued(HeadLength)[i] = <<p, i>>
  BY <1>1, FirstOf DEF Dequeued
<1>4. Dequeued(HeadLength) = HeadBytes(p)
  BY <1>2, <1>3, SeqEqual
<1>5. ASSUME NEW m \in Messages, Dequeued(HeadLength) = HeadBytes(m) PROVE m = p
  <2>1. <<m, 1>> = <<p, 1>>
    BY <1>1, <1>2, <1>3, <1>5
  <2> QED BY <2>1
<1> QED BY <1>4, <1>5 DEF HeadOf

LEMMA BodyIs ==
    ASSUME TypeInv, NEW p \in Messages, Length[p] <= Len(buffer),
           \A i \in 1 .. Length[p] : buffer[i] = <<p, HeadLength + i>>
    PROVE  BodyOf(Length[p]) = {p}
<1>1. /\ HeadLength \in Nat /\ buffer \in Seq(Bytes) /\ Len(buffer) \in Nat
  BY ChannelAssumption DEF ChannelAssumption, TypeInv, ReadTypes
<1>2. ASSUME NEW m \in Messages
      PROVE  /\ BodyBytes(m) \in Seq(Bytes) /\ Len(BodyBytes(m)) = Length[m]
             /\ Length[m] \in Nat /\ Length[m] > 0
             /\ \A i \in 1 .. Length[m] : BodyBytes(m)[i] = <<m, HeadLength + i>>
  <2>1. /\ Frame(m) \in Seq(Bytes) /\ Len(Frame(m)) = HeadLength + Length[m]
        /\ Length[m] \in Nat /\ Length[m] > 0
        /\ HeadLength <= Len(Frame(m))
        /\ \A i \in 1 .. HeadLength + Length[m] : Frame(m)[i] = <<m, i>>
    BY <1>1, FrameOf DEF FrameLength
  <2>2. /\ BodyBytes(m) \in Seq(Bytes) /\ Len(BodyBytes(m)) = Length[m]
        /\ \A i \in 1 .. Length[m] : BodyBytes(m)[i] = Frame(m)[HeadLength + i]
    <3>1. /\ BodyBytes(m) \in Seq(Bytes) /\ Len(BodyBytes(m)) = Len(Frame(m)) - HeadLength
          /\ \A i \in 1 .. Len(Frame(m)) - HeadLength : BodyBytes(m)[i] = Frame(m)[HeadLength + i]
      BY <1>1, <2>1, RestOf DEF BodyBytes
    <3>2. Len(Frame(m)) - HeadLength = Length[m]
      BY <1>1, <2>1
    <3> QED BY <3>1, <3>2
  <2>3. \A i \in 1 .. Length[m] : HeadLength + i \in 1 .. HeadLength + Length[m]
    BY <1>1, <2>1
  <2> QED BY <2>1, <2>2, <2>3
<1>3. /\ Dequeued(Length[p]) \in Seq(Bytes) /\ Len(Dequeued(Length[p])) = Length[p]
      /\ \A i \in 1 .. Length[p] : Dequeued(Length[p])[i] = <<p, HeadLength + i>>
  BY <1>1, <1>2, FirstOf DEF Dequeued
<1>4. Dequeued(Length[p]) = BodyBytes(p)
  <2>1. /\ BodyBytes(p) \in Seq(Bytes) /\ Len(BodyBytes(p)) = Length[p]
        /\ \A i \in 1 .. Length[p] : BodyBytes(p)[i] = <<p, HeadLength + i>>
    BY <1>2
  <2> QED BY <1>3, <2>1, SeqEqual
<1>5. ASSUME NEW m \in Messages, Dequeued(Length[p]) = BodyBytes(m) PROVE m = p
  <2>1. 1 \in 1 .. Length[p] /\ 1 \in 1 .. Length[m]
    BY <1>2
  <2>2. <<m, HeadLength + 1>> = <<p, HeadLength + 1>>
    BY <1>2, <1>3, <1>5, <2>1
  <2> QED BY <2>2
<1> QED BY <1>4, <1>5 DEF BodyOf

-----------------------------------------------------------------------------
(* The stream of all frames                                                 *)

\* Every message is pushed once, and its frame begins where the last one ends.
PushInv ==
    /\ \A i \in 1 .. Len(pushed) : writer[pushed[i]] # "none"
    /\ \A i, j \in 1 .. Len(pushed) : i < j =>
        start[pushed[i]] + FrameLength(pushed[i]) <= start[pushed[j]]
    /\ \A i, j \in 1 .. Len(pushed) : j = i + 1 =>
        start[pushed[i]] + FrameLength(pushed[i]) = start[pushed[j]]

\* Where the frames after the first n begin.
Begin(n) == IF n = Len(pushed) THEN Total ELSE start[pushed[n + 1]]

LEMMA BeginOf ==
    ASSUME TypeInv, PushInv, NEW i \in 1 .. Len(pushed)
    PROVE  /\ pushed[i] \in Messages /\ start[pushed[i]] \in Nat
           /\ FrameLength(pushed[i]) \in Nat /\ FrameLength(pushed[i]) > HeadLength
           /\ Begin(i - 1) = start[pushed[i]]
           /\ Begin(i) = start[pushed[i]] + FrameLength(pushed[i])
<1>1. pushed \in Seq(Messages) /\ start \in [Messages -> Nat] /\ Len(pushed) \in Nat
  BY DEF TypeInv, SendTypes
<1>2. pushed[i] \in Messages /\ start[pushed[i]] \in Nat
  BY <1>1
<1>3. /\ FrameLength(pushed[i]) \in Nat /\ FrameLength(pushed[i]) > HeadLength
      /\ Len(Frame(pushed[i])) = FrameLength(pushed[i])
  BY <1>2, FrameOf DEF FrameLength
<1>4. Begin(i - 1) = start[pushed[i]]
  BY <1>1 DEF Begin
<1>5. CASE i = Len(pushed)
  <2>1. pushed # <<>>
    BY <1>1
  <2> QED BY <1>2, <1>3, <1>4, <1>5, <2>1 DEF Begin, Total, Last
<1>6. CASE i # Len(pushed)
  <2>1. i + 1 \in 1 .. Len(pushed)
    BY <1>1, <1>6
  <2> QED BY <1>2, <1>3, <1>4, <1>6, <2>1 DEF Begin, PushInv
<1> QED BY <1>5, <1>6

\* Begin grows with n, up to the length of all frames.
LEMMA BeginType ==
    ASSUME TypeInv, PushInv, NEW n \in 0 .. Len(pushed)
    PROVE  Begin(n) \in Nat /\ Begin(n) <= Total
<1>1. pushed \in Seq(Messages) /\ Len(pushed) \in Nat /\ Total \in Nat
  BY TotalType DEF TypeInv, SendTypes
<1>2. CASE n = Len(pushed)
  BY <1>1, <1>2 DEF Begin
<1>3. CASE n # Len(pushed)
  <2>1. n + 1 \in 1 .. Len(pushed) /\ Len(pushed) \in 1 .. Len(pushed)
    BY <1>1, <1>3
  <2>2. /\ Begin(n) = start[pushed[n + 1]] /\ Begin(n) \in Nat
        /\ FrameLength(pushed[n + 1]) \in Nat
    BY <1>3, <2>1, BeginOf DEF Begin
  <2>3. /\ Total = start[pushed[Len(pushed)]] + FrameLength(pushed[Len(pushed)])
        /\ start[pushed[Len(pushed)]] \in Nat /\ FrameLength(pushed[Len(pushed)]) \in Nat
    BY <2>1, BeginOf DEF Begin
  <2>4. CASE n + 1 = Len(pushed)
    BY <2>2, <2>3, <2>4
  <2>5. CASE n + 1 # Len(pushed)
    <3>1. start[pushed[n + 1]] + FrameLength(pushed[n + 1]) <= start[pushed[Len(pushed)]]
      BY <1>1, <2>1, <2>5 DEF PushInv
    <3> QED BY <2>2, <2>3, <3>1
  <2> QED BY <2>4, <2>5
<1> QED BY <1>2, <1>3

LEMMA NotBeyond ==
    ASSUME NEW p \in Nat, NEW q \in Nat, NEW l \in Nat, NEW x \in Nat, NEW y \in Nat,
           p + l <= q, x <= l, y > 0
    PROVE  p + x # q + y
OBVIOUS

\* No two bytes of the stream have one place.
LEMMA PlaceOf ==
    ASSUME TypeInv, PushInv, NEW b \in Bytes, NEW c \in Bytes,
           NEW i \in 1 .. Len(pushed), NEW j \in 1 .. Len(pushed),
           b[1] = pushed[i], c[1] = pushed[j], Place(b) = Place(c)
    PROVE  b = c
<1>1. /\ b = <<b[1], b[2]>> /\ b[2] \in Nat /\ b[2] > 0 /\ b[2] <= FrameLength(b[1])
      /\ c = <<c[1], c[2]>> /\ c[2] \in Nat /\ c[2] > 0 /\ c[2] <= FrameLength(c[1])
  BY DEF Bytes
<1>2. /\ start[pushed[i]] \in Nat /\ FrameLength(pushed[i]) \in Nat
      /\ start[pushed[j]] \in Nat /\ FrameLength(pushed[j]) \in Nat
  BY BeginOf
<1>3. start[pushed[i]] + b[2] = start[pushed[j]] + c[2]
  BY DEF Place
<1>4. CASE i = j
  BY <1>1, <1>2, <1>3, <1>4
<1>5. CASE i < j
  <2>1. start[pushed[i]] + FrameLength(pushed[i]) <= start[pushed[j]]
    BY <1>5 DEF PushInv
  <2>2. start[pushed[i]] + b[2] # start[pushed[j]] + c[2]
    BY <1>1, <1>2, <2>1, NotBeyond
  <2> QED BY <1>3, <2>2
<1>6. CASE j < i
  <2>1. start[pushed[j]] + FrameLength(pushed[j]) <= start[pushed[i]]
    BY <1>6 DEF PushInv
  <2>2. start[pushed[j]] + c[2] # start[pushed[i]] + b[2]
    BY <1>1, <1>2, <2>1, NotBeyond
  <2> QED BY <1>3, <2>2
<1> QED BY <1>4, <1>5, <1>6

\* A new message leaves what was pushed, and where it begins, alone.
LEMMA PushMoves ==
    ASSUME TypeInv, PushInv, NEW m \in Messages, PushMessage(m)
    PROVE  /\ PushInv'
           /\ Len(pushed') = Len(pushed) + 1 /\ pushed'[Len(pushed) + 1] = m
           /\ \A i \in 1 .. Len(pushed) : pushed'[i] = pushed[i] /\ pushed[i] # m
           /\ \A x \in Messages : x # m => start'[x] = start[x]
           /\ \A n \in 0 .. Len(pushed) : Begin(n)' = Begin(n)
<1>1. /\ pushed \in Seq(Messages) /\ start \in [Messages -> Nat] /\ Len(pushed) \in Nat
      /\ Total \in Nat /\ writer \in [Messages -> {"none", "pushed", "sending", "returned", "threw"}]
  <2>1. pushed \in Seq(Messages) /\ start \in [Messages -> Nat] /\ Total \in Nat
    BY TotalType DEF TypeInv, SendTypes
  <2>2. writer \in [Messages -> {"none", "pushed", "sending", "returned", "threw"}]
    BY DEF TypeInv, TypeOK
  <2> QED BY <2>1, <2>2
<1>2. /\ pushed' = Append(pushed, m) /\ start' = [start EXCEPT ![m] = Total]
      /\ writer[m] = "none" /\ writer' = [writer EXCEPT ![m] = "pushed"]
  BY DEF PushMessage
<1>3. /\ Len(pushed') = Len(pushed) + 1 /\ pushed'[Len(pushed) + 1] = m
      /\ \A i \in 1 .. Len(pushed) : pushed'[i] = pushed[i] /\ pushed[i] \in Messages
  BY <1>1, <1>2, Appended
<1>4. \A i \in 1 .. Len(pushed) : pushed[i] # m
  BY <1>2 DEF PushInv
<1>5. /\ \A x \in Messages : x # m => start'[x] = start[x] /\ writer'[x] = writer[x]
      /\ start'[m] = Total /\ writer'[m] = "pushed"
  BY <1>1, <1>2
<1>6. \A n \in 0 .. Len(pushed) : Begin(n)' = Begin(n)
  <2> TAKE n \in 0 .. Len(pushed)
  <2>1. Begin(n)' = start'[pushed'[n + 1]]
    BY <1>1, <1>3 DEF Begin
  <2>2. CASE n = Len(pushed)
    BY <1>3, <1>5, <2>1, <2>2 DEF Begin
  <2>3. CASE n # Len(pushed)
    <3>1. n + 1 \in 1 .. Len(pushed)
      BY <1>1, <2>3
    <3> QED BY <1>3, <1>4, <1>5, <2>1, <2>3, <3>1 DEF Begin
  <2> QED BY <2>2, <2>3
<1>7. \A i \in 1 .. Len(pushed) :
        /\ start'[pushed'[i]] = start[pushed[i]] /\ pushed'[i] = pushed[i]
        /\ start[pushed[i]] \in Nat /\ FrameLength(pushed[i]) \in Nat
        /\ start[pushed[i]] + FrameLength(pushed[i]) <= Total
        /\ i = Len(pushed) => start[pushed[i]] + FrameLength(pushed[i]) = Total
  <2> TAKE i \in 1 .. Len(pushed)
  <2>1. i \in 0 .. Len(pushed)
    BY <1>1
  <2> QED BY <1>3, <1>4, <1>5, <2>1, BeginOf, BeginType DEF Begin
<1>8. PushInv'
  <2>1. \A i \in 1 .. Len(pushed') : writer'[pushed'[i]] # "none"
    <3> TAKE i \in 1 .. Len(pushed')
    <3>1. CASE i = Len(pushed) + 1
      BY <1>3, <1>5, <3>1
    <3>2. CASE i \in 1 .. Len(pushed)
      BY <1>3, <1>4, <1>5, <3>2 DEF PushInv
    <3> QED BY <1>1, <1>3, <3>1, <3>2
  <2>2. ASSUME NEW i \in 1 .. Len(pushed'), NEW j \in 1 .. Len(pushed'), i < j
        PROVE  /\ start'[pushed'[i]] + FrameLength(pushed'[i]) <= start'[pushed'[j]]
               /\ j = i + 1 => start'[pushed'[i]] + FrameLength(pushed'[i]) = start'[pushed'[j]]
    <3>1. i \in 1 .. Len(pushed)
      BY <1>1, <1>3, <2>2
    <3>2. CASE j = Len(pushed) + 1
      <4>1. start'[pushed'[j]] = Total
        BY <1>3, <1>5, <3>2
      <4> QED BY <1>1, <1>7, <3>1, <3>2, <4>1
    <3>3. CASE j \in 1 .. Len(pushed)
      BY <1>7, <2>2, <3>1, <3>3 DEF PushInv
    <3> QED BY <1>1, <1>3, <3>2, <3>3
  <2>3. \A i, j \in 1 .. Len(pushed') : j = i + 1 => i < j
    BY <1>1, <1>3
  <2>4. \A x : FrameLength(x)' = FrameLength(x)
    BY DEF FrameLength
  <2> QED BY <2>1, <2>2, <2>3, <2>4 DEF PushInv
<1> QED BY <1>3, <1>4, <1>5, <1>6, <1>8

LEMMA PushStep ==
    ASSUME TypeInv, PushInv, [Next]_vars
    PROVE  PushInv'
<1>1. ASSUME UNCHANGED <<pushed, start>>,
             \A m \in Messages : writer[m] # "none" => writer'[m] # "none"
      PROVE  PushInv'
  <2>1. \A i \in 1 .. Len(pushed) : pushed[i] \in Messages
    BY DEF TypeInv, SendTypes
  <2> QED BY <1>1, <2>1 DEF PushInv, FrameLength
<1>2. CASE UNCHANGED <<pushed, start, writer>>
  BY <1>1, <1>2
<1>3. ASSUME NEW m \in Messages, Write(m) PROVE PushInv'
  <2>1. /\ UNCHANGED <<pushed, start>>
        /\ \/ writer' = writer
           \/ \E outcome \in {"sending", "returned", "threw"} :
                writer' = [writer EXCEPT ![m] = outcome]
    BY <1>3 DEF Write, LockSend, TakeMessage, QueueDrained, ClientSend, ClientSendFails,
       ServerSend, ServerSendBlocked, UnlockSend
  <2>2. writer \in [Messages -> {"none", "pushed", "sending", "returned", "threw"}]
    BY DEF TypeInv, TypeOK
  <2> QED BY <1>1, <2>1, <2>2
<1>4. ASSUME NEW r \in Readers, Read(r) PROVE PushInv'
  BY <1>2, <1>4 DEF Read, StartTask, ReadSocket, NothingToRead, EnqueueChunk, SeeHead, TakeHead,
     SeeBody, TakeBody, SeeMessage, DeliverMessage, ParseEnds, sendVars
<1>5. CASE Arrive \/ CommitRead
  BY <1>2, <1>5 DEF Arrive, CommitRead, sendVars
<1>6. CASE UNCHANGED vars
  BY <1>2, <1>6 DEF vars, sendVars
<1> QED BY <1>3, <1>4, <1>5, <1>6, PushMoves DEF Next

-----------------------------------------------------------------------------
(* From a server to its client                                              *)

\* A client has one read_data, which no event starts and EAGAIN does not end.
ClientTask ==
    /\ tasks = 0 /\ ~edge
    /\ \A r \in Readers : r # ClientReader => reader[r] = "idle"
    /\ reader[ClientReader] # "idle" /\ ~leaving[ClientReader]

\* _send_messages holds the last of the messages that were pushed.
QueueInv ==
    /\ Len(sendMessages) <= Len(pushed)
    /\ \A i \in 1 .. Len(sendMessages) :
        sendMessages[i] = pushed[Len(pushed) - Len(sendMessages) + i]

\* The messages parsed are the first of them, and the length that was read is
\* that of the next.
ParseInv ==
    /\ Len(Parsed) <= Len(pushed)
    /\ \A i \in 1 .. Len(Parsed) : Parsed[i] = pushed[i]
    /\ bodyLength # 0 => /\ Len(Parsed) < Len(pushed)
                         /\ bodyLength = Length[pushed[Len(Parsed) + 1]]

\* What is between is the stream from where the parser is to where the sender is.
StreamInv ==
    /\ Len(Stream) = SentUpTo - TakenUpTo
    /\ \A i \in 1 .. Len(Stream) :
        /\ Place(Stream[i]) = TakenUpTo + i
        /\ \E j \in 1 .. Len(pushed) : Stream[i][1] = pushed[j]

\* What the reader has seen still holds when it acts on it.
SeenInv ==
    /\ reader[ClientReader] = "head" => bodyLength = 0 /\ Len(buffer) > HeadLength
    /\ reader[ClientReader] = "length" => bodyLength # 0
    /\ reader[ClientReader] = "body" =>
        bodyLength # 0 /\ dataLen[ClientReader] = bodyLength /\ Len(buffer) >= bodyLength
    /\ reader[ClientReader] = "pop" => readMessages # <<>>

ServerInv ==
    sender = "server" =>
        /\ ClientTask
        /\ failure \in {"none", "overflow"}
        /\ Running => QueueInv /\ ParseInv /\ StreamInv /\ SeenInv

\* What is between the parser, while only r may read, and the sender.
Held(r) == buffer \o chunk[r] \o wire

LEMMA HeldType ==
    ASSUME TypeInv, NEW r \in Readers
    PROVE  /\ buffer \in Seq(Bytes) /\ wire \in Seq(Bytes) /\ chunk[r] \in Seq(Bytes)
           /\ Len(buffer) \in Nat /\ Len(wire) \in Nat /\ Len(chunk[r]) \in Nat
           /\ buffer \o chunk[r] \in Seq(Bytes)
           /\ Len(buffer \o chunk[r]) = Len(buffer) + Len(chunk[r])
           /\ Held(r) \in Seq(Bytes)
           /\ Len(Held(r)) = Len(buffer) + Len(chunk[r]) + Len(wire)
           /\ \A i \in 1 .. Len(buffer) : Held(r)[i] = buffer[i]
<1>1. /\ buffer \in Seq(Bytes) /\ wire \in Seq(Bytes) /\ chunk[r] \in Seq(Bytes)
  BY DEF TypeInv, ReadTypes
<1>2. PICK held : held = buffer \o chunk[r]
  OBVIOUS
<1>3. /\ held \in Seq(Bytes) /\ Len(held) = Len(buffer) + Len(chunk[r])
      /\ \A i \in 1 .. Len(buffer) : held[i] = buffer[i]
      /\ Len(buffer) \in Nat /\ Len(wire) \in Nat /\ Len(chunk[r]) \in Nat
  BY <1>1, <1>2, ConcatProperties
<1>4. /\ held \o wire \in Seq(Bytes) /\ Len(held \o wire) = Len(held) + Len(wire)
  BY <1>1, <1>3, ConcatProperties
<1>5. \A i \in 1 .. Len(held) : (held \o wire)[i] = held[i]
  BY <1>1, <1>3
<1> QED BY <1>1, <1>2, <1>3, <1>4, <1>5 DEF Held

\* The same after a step.
HeldKnown == TypeInv => \A r \in Readers : Held(r) \in Seq(Bytes)

LEMMA HeldTypeNext == HeldKnown'
<1>1. HeldKnown
  BY HeldType DEF HeldKnown
<1> QED BY <1>1, PTL

LEMMA StreamType ==
    ASSUME TypeInv
    PROVE  /\ buffer \in Seq(Bytes) /\ wire \in Seq(Bytes) /\ chunk[ClientReader] \in Seq(Bytes)
           /\ Len(buffer) \in Nat /\ Len(wire) \in Nat /\ Len(chunk[ClientReader]) \in Nat
           /\ buffer \o chunk[ClientReader] \in Seq(Bytes)
           /\ Len(buffer \o chunk[ClientReader]) = Len(buffer) + Len(chunk[ClientReader])
           /\ Stream \in Seq(Bytes)
           /\ Len(Stream) = Len(buffer) + Len(chunk[ClientReader]) + Len(wire)
           /\ \A i \in 1 .. Len(buffer) : Stream[i] = buffer[i]
BY HeldType, ReaderKnown DEF Stream, Held

LEMMA ParsedType ==
    ASSUME TypeInv
    PROVE  /\ Parsed \in Seq(Data) /\ Len(Parsed) = Len(delivered) + Len(readMessages)
           /\ Len(Parsed) \in Nat /\ Len(pushed) \in Nat /\ Len(sendMessages) \in Nat
BY ConcatProperties DEF TypeInv, ReadTypes, SendTypes, Parsed

ParsedKnown == TypeInv => Parsed \in Seq(Data) /\ Len(Parsed) \in Nat

LEMMA ParsedTypeNext == ParsedKnown'
<1>1. ParsedKnown
  BY ParsedType DEF ParsedKnown
<1> QED BY <1>1, PTL

\* Both ends of what is between, in places.
LEMMA EndsOf ==
    ASSUME TypeInv, PushInv, QueueInv, Len(Parsed) <= Len(pushed)
    PROVE  /\ SentUpTo = Begin(Len(pushed) - Len(sendMessages)) + sendOffset
           /\ TakenUpTo = Begin(Len(Parsed)) + (IF bodyLength = 0 THEN 0 ELSE HeadLength)
           /\ Begin(Len(pushed) - Len(sendMessages)) \in Nat /\ Begin(Len(Parsed)) \in Nat
           /\ SentUpTo \in Nat /\ TakenUpTo \in Nat /\ SentUpTo <= Total /\ Total \in Nat
           /\ HeadLength \in Nat
<1>1. /\ Len(Parsed) \in 0 .. Len(pushed) /\ Len(pushed) \in Nat /\ Len(sendMessages) \in Nat
      /\ Len(pushed) - Len(sendMessages) \in 0 .. Len(pushed)
      /\ sendMessages \in Seq(Messages) /\ sendOffset \in Nat /\ HeadLength \in Nat
      /\ sendOffset > 0 => sendMessages # <<>> /\ sendOffset < Len(Frame(sendMessages[1]))
  BY ParsedType, ChannelAssumption DEF ChannelAssumption, TypeInv, TypeOK, SendTypes, QueueInv
<1>2. /\ TakenUpTo = Begin(Len(Parsed)) + (IF bodyLength = 0 THEN 0 ELSE HeadLength)
      /\ Begin(Len(Parsed)) \in Nat /\ Total \in Nat
      /\ Begin(Len(pushed) - Len(sendMessages)) \in Nat
      /\ Begin(Len(pushed) - Len(sendMessages)) <= Total
  BY <1>1, BeginType, TotalType DEF TakenUpTo, Begin, TypeInv
<1>3. CASE sendMessages = <<>>
  <2>1. sendOffset = 0 /\ Len(sendMessages) = 0
    BY <1>1, <1>3
  <2> QED BY <1>1, <1>2, <1>3, <2>1 DEF SentUpTo, Begin
<1>4. CASE sendMessages # <<>>
  <2>1. Len(sendMessages) > 0
    BY <1>1, <1>4
  <2>2. PICK k : k = Len(pushed) - Len(sendMessages) + 1
    OBVIOUS
  <2>3. k \in 1 .. Len(pushed) /\ sendMessages[1] = pushed[k]
    BY <1>1, <2>1, <2>2 DEF QueueInv
  <2>4. /\ Begin(k - 1) = start[pushed[k]] /\ Begin(k) = start[pushed[k]] + FrameLength(pushed[k])
        /\ pushed[k] \in Messages /\ FrameLength(pushed[k]) \in Nat /\ start[pushed[k]] \in Nat
        /\ Begin(k) <= Total
    <3>1. k \in 0 .. Len(pushed)
      BY <1>1, <2>3
    <3>2. Begin(k) <= Total
      BY <3>1, BeginType
    <3> QED BY <2>3, <3>2, BeginOf
  <2>5. SentUpTo = Begin(k - 1) + sendOffset
    BY <1>4, <2>3, <2>4 DEF SentUpTo
  <2>6. sendOffset <= FrameLength(pushed[k])
    BY <1>1, <2>3, <2>4, FrameOf
  <2>7. Begin(Len(pushed) - Len(sendMessages)) = Begin(k - 1)
    BY <1>1, <2>2
  <2>a. /\ start[pushed[k]] \in Nat /\ FrameLength(pushed[k]) \in Nat /\ Total \in Nat
        /\ start[pushed[k]] + FrameLength(pushed[k]) <= Total
        /\ sendOffset \in Nat /\ SentUpTo = start[pushed[k]] + sendOffset
    <3>1. Total \in Nat /\ sendOffset \in Nat
      BY <1>1, <1>2
    <3> QED BY <2>4, <2>5, <3>1
  <2>8. SentUpTo \in Nat /\ SentUpTo <= Total
    BY <2>a, <2>6
  <2>9. TakenUpTo \in Nat
    BY <1>1, <1>2
  <2> QED BY <1>1, <1>2, <2>5, <2>7, <2>8, <2>9
<1> QED BY <1>3, <1>4

\* The same after a step.
Ends ==
    TypeInv /\ PushInv /\ QueueInv /\ Len(Parsed) <= Len(pushed) =>
        /\ SentUpTo = Begin(Len(pushed) - Len(sendMessages)) + sendOffset
        /\ TakenUpTo = Begin(Len(Parsed)) + (IF bodyLength = 0 THEN 0 ELSE HeadLength)

LEMMA EndsNext == Ends'
<1>1. Ends
  BY EndsOf DEF Ends
<1> QED BY <1>1, PTL

\* While bytes are between the ends there is a next message, and they are its.
LEMMA NextOf ==
    ASSUME TypeInv, PushInv, QueueInv, ParseInv, StreamInv,
           NEW size \in Nat, size > 0, size <= Len(Stream),
           bodyLength = 0 => size <= HeadLength,
           bodyLength # 0 => size <= bodyLength
    PROVE  /\ Len(Parsed) + 1 \in 1 .. Len(pushed)
           /\ \A i \in 1 .. size :
                Stream[i] = <<pushed[Len(Parsed) + 1],
                              i + (IF bodyLength = 0 THEN 0 ELSE HeadLength)>>
<1>1. PICK n : n = Len(Parsed) + 1
  OBVIOUS
<1>2. /\ Len(Parsed) \in Nat /\ Len(pushed) \in Nat /\ Len(Stream) \in Nat
      /\ Stream \in Seq(Bytes)
  BY ParsedType, StreamType
<1>3. PICK skip : skip = IF bodyLength = 0 THEN 0 ELSE HeadLength
  OBVIOUS
<1>4. /\ skip \in Nat /\ TakenUpTo = Begin(n - 1) + skip /\ Begin(n - 1) \in Nat
      /\ SentUpTo <= Total /\ Total \in Nat /\ SentUpTo \in Nat /\ TakenUpTo \in Nat
  BY <1>1, <1>2, <1>3, EndsOf DEF ParseInv
<1>5. n \in 1 .. Len(pushed)
  <2>1. n - 1 # Len(pushed)
    <3> SUFFICES ASSUME n - 1 = Len(pushed) PROVE FALSE
      OBVIOUS
    <3>1. TakenUpTo >= Total
      BY <1>4 DEF Begin
    <3> QED BY <1>2, <1>4, <3>1 DEF StreamInv
  <2> QED BY <1>1, <1>2, <2>1 DEF ParseInv
<1>6. /\ pushed[n] \in Messages /\ start[pushed[n]] \in Nat /\ Begin(n - 1) = start[pushed[n]]
      /\ FrameLength(pushed[n]) \in Nat
  BY <1>5, BeginOf
<1>7. skip + size <= FrameLength(pushed[n]) /\ HeadLength \in Nat
  BY <1>1, <1>3, <1>6, FrameOf DEF FrameLength, ParseInv
<1>8. ASSUME NEW i \in 1 .. size PROVE Stream[i] = <<pushed[n], i + skip>>
  <2>1. /\ Stream[i] \in Bytes /\ Place(Stream[i]) = TakenUpTo + i
        /\ \E j \in 1 .. Len(pushed) : Stream[i][1] = pushed[j]
    BY <1>2 DEF StreamInv
  <2>2. PICK j \in 1 .. Len(pushed) : Stream[i][1] = pushed[j]
    BY <2>1
  <2>3. /\ <<pushed[n], i + skip>> \in Bytes
        /\ Place(<<pushed[n], i + skip>>) = start[pushed[n]] + (i + skip)
    BY <1>4, <1>6, <1>7 DEF Bytes, Place
  <2>4. TakenUpTo + i = start[pushed[n]] + (i + skip)
    BY <1>4, <1>6
  <2> QED BY <1>5, <2>1, <2>2, <2>3, <2>4, PlaceOf
<1> QED BY <1>1, <1>3, <1>5, <1>8

LEMMA TaskStep ==
    ASSUME TypeInv, sender = "server", ClientTask, Next
    PROVE  /\ ClientTask' /\ sender' = "server" /\ Running
           /\ ~CommitRead
           /\ \A r \in Readers : Read(r) => /\ r = ClientReader
                                            /\ ~StartTask(r) /\ ~NothingToRead(r)
           /\ \A m \in Messages : ~ClientSend(m) /\ ~ClientSendFails(m)
<1>1. ClientReader \in Readers /\ reader \in [Readers -> ReaderStates]
  BY ReaderKnown DEF TypeInv, ReadTypes
<1>2. /\ tasks = 0 /\ reader[ClientReader] # "idle"
      /\ \A r \in Readers : r # ClientReader => reader[r] = "idle"
  BY DEF ClientTask
<1>3. ~edge /\ ~leaving[ClientReader]
  BY Zenon DEF ClientTask
<1>4. ~CommitRead
  BY <1>3, Zenon DEF CommitRead
<1>5. ASSUME NEW r \in Readers, Read(r)
      PROVE  r = ClientReader /\ ~StartTask(r) /\ ~NothingToRead(r)
  <2>1. ~StartTask(r)
    BY <1>2 DEF StartTask
  <2>2. ~NothingToRead(r)
    BY DEF NothingToRead
  <2>3. reader[r] # "idle"
    BY <1>5, <2>1, <2>2 DEF Read, ReadSocket, EnqueueChunk, SeeHead, TakeHead, SeeBody,
       TakeBody, SeeMessage, DeliverMessage, ParseEnds, IsReader
  <2> QED BY <1>2, <2>1, <2>2, <2>3
<1>6. ASSUME NEW m \in Messages PROVE ~ClientSend(m) /\ ~ClientSendFails(m)
  BY DEF ClientSend, ClientSendFails, IsSending
<1>7. CASE \E m \in Messages : PushMessage(m) \/ Write(m)
  <2>1. Running /\ UNCHANGED <<sender, tasks, edge, reader, leaving>>
    BY <1>7 DEF PushMessage, Write, LockSend, TakeMessage, QueueDrained, ClientSend,
       ClientSendFails, ServerSend, ServerSendBlocked, IsSending, socketVars, readVars
  <2>2. ClientTask'
    BY <2>1, Zenon DEF ClientTask
  <2> QED BY <1>4, <1>5, <1>6, <2>1, <2>2
<1>8. CASE Arrive
  <2>1. Running /\ UNCHANGED <<sender, tasks, reader, leaving>> /\ edge' = (sender = "client")
    BY <1>8, Zenon DEF Arrive, sendVars, readVars
  <2>2. ClientTask'
    BY <2>1, <1>2, <1>3, Zenon DEF ClientTask
  <2> QED BY <1>4, <1>5, <1>6, <2>1, <2>2
<1>9. CASE \E r \in Readers : Read(r)
  <2>1. Read(ClientReader)
    BY <1>5, <1>9
  <2>2. /\ Running /\ UNCHANGED <<sender, tasks, edge>>
        /\ \E state \in ReaderStates \ {"idle"} : reader' = [reader EXCEPT ![ClientReader] = state]
    BY <1>3, <1>5, <2>1, <1>1 DEF Read, ReadSocket, EnqueueChunk, SeeHead, TakeHead, SeeBody,
       TakeBody, SeeMessage, DeliverMessage, ParseEnds, IsReader, Goto, sendVars, socketVars,
       ReaderStates
  <2>3. leaving' = leaving \/ leaving' = [leaving EXCEPT ![ClientReader] = FALSE]
    BY <1>5, <2>1, <1>1, Zenon DEF Read, ReadSocket, EnqueueChunk, SeeHead, TakeHead, SeeBody,
       TakeBody, SeeMessage, DeliverMessage, ParseEnds
  <2>4. ~leaving'[ClientReader]
    <3>1. leaving \in [Readers -> BOOLEAN]
      BY DEF TypeInv, ReadTypes
    <3>2. CASE leaving' = leaving
      BY <1>3, <3>2, Zenon
    <3>3. CASE leaving' = [leaving EXCEPT ![ClientReader] = FALSE]
      BY <1>1, <3>1, <3>3
    <3> QED BY <2>3, <3>2, <3>3
  <2>5. /\ reader'[ClientReader] # "idle"
        /\ \A r \in Readers : r # ClientReader => reader'[r] = "idle"
    BY <1>1, <1>2, <2>2
  <2>6. ClientTask'
    <3>1. ~edge' /\ tasks' = 0
      BY <1>2, <1>3, <2>2, Zenon
    <3> QED BY <2>4, <2>5, <3>1, Zenon DEF ClientTask
  <2> QED BY <1>4, <1>5, <1>6, <2>2, <2>6
<1> QED BY <1>4, <1>7, <1>8, <1>9 DEF Next

\* Steps that leave the stream and its two ends alone.
LEMMA StreamKept ==
    ASSUME QueueInv, ParseInv, StreamInv, Stream' = Stream, Parsed' = Parsed,
           UNCHANGED <<pushed, start, sendMessages, sendOffset, bodyLength>>
    PROVE  QueueInv' /\ ParseInv' /\ StreamInv'
<1>1. QueueInv'
  BY DEF QueueInv
<1>2. ParseInv'
  BY DEF ParseInv
<1>3. SentUpTo' = SentUpTo /\ TakenUpTo' = TakenUpTo
  BY DEF SentUpTo, TakenUpTo, Total
<1>4. \A b : Place(b)' = Place(b)
  BY DEF Place
<1>5. StreamInv'
  BY <1>3, <1>4 DEF StreamInv, Place
<1> QED BY <1>1, <1>2, <1>5

LEMMA DropJoined ==
    ASSUME NEW S, NEW s \in Seq(S), NEW t \in Seq(S), NEW n \in Nat, n <= Len(s)
    PROVE  SubSeq(s, n + 1, Len(s)) \o t = SubSeq(s \o t, n + 1, Len(s \o t))
<1>1. PICK rest : rest = SubSeq(s, n + 1, Len(s))
  OBVIOUS
<1>2. /\ rest \in Seq(S) /\ Len(rest) = Len(s) - n
      /\ \A i \in 1 .. Len(s) - n : rest[i] = s[n + i]
  BY <1>1, RestOf
<1>3. /\ s \o t \in Seq(S) /\ Len(s \o t) = Len(s) + Len(t)
      /\ rest \o t \in Seq(S) /\ Len(rest \o t) = Len(rest) + Len(t)
      /\ Len(s) \in Nat /\ Len(t) \in Nat /\ n <= Len(s \o t)
  <2>1. Len(s) \in Nat /\ Len(t) \in Nat
    OBVIOUS
  <2>2. s \o t \in Seq(S) /\ Len(s \o t) = Len(s) + Len(t)
    OBVIOUS
  <2>a. rest \in Seq(S)
    BY <1>2
  <2>3. rest \o t \in Seq(S) /\ Len(rest \o t) = Len(rest) + Len(t)
    BY <2>a
  <2>4. n <= Len(s \o t)
    BY <2>1, <2>2
  <2> QED BY <2>1, <2>2, <2>3, <2>4
<1>a. Len(s) \in Nat /\ Len(t) \in Nat
  OBVIOUS
<1>4. /\ SubSeq(s \o t, n + 1, Len(s \o t)) \in Seq(S)
      /\ Len(SubSeq(s \o t, n + 1, Len(s \o t))) = Len(s) + Len(t) - n
      /\ \A i \in 1 .. Len(s) + Len(t) - n :
            SubSeq(s \o t, n + 1, Len(s \o t))[i] = (s \o t)[n + i]
  <2>1. PICK whole : whole = s \o t
    OBVIOUS
  <2>2. whole \in Seq(S) /\ n <= Len(whole) /\ Len(whole) = Len(s) + Len(t)
    BY <1>3, <2>1
  <2>3. /\ SubSeq(whole, n + 1, Len(whole)) \in Seq(S)
        /\ Len(SubSeq(whole, n + 1, Len(whole))) = Len(whole) - n
        /\ \A i \in 1 .. Len(whole) - n : SubSeq(whole, n + 1, Len(whole))[i] = whole[n + i]
    BY <2>2, RestOf
  <2> QED BY <2>1, <2>2, <2>3
<1>5. ASSUME NEW i \in 1 .. Len(s) + Len(t) - n PROVE (rest \o t)[i] = (s \o t)[n + i]
  <2>1. CASE i <= Len(s) - n
    <3>1. i \in 1 .. Len(s) - n /\ n + i \in 1 .. Len(s)
      BY <1>3, <2>1
    <3>2. (rest \o t)[i] = rest[i]
      BY <1>2, <1>3, <3>1
    <3>3. (s \o t)[n + i] = s[n + i]
      BY <1>3, <3>1
    <3> QED BY <1>2, <3>1, <3>2, <3>3
  <2>2. CASE i > Len(s) - n
    <3>1. /\ i - (Len(s) - n) \in 1 .. Len(t)
          /\ (n + i) - Len(s) = i - (Len(s) - n)
          /\ n + i \in 1 .. Len(s) + Len(t) /\ n + i > Len(s)
      BY <1>3, <2>2
    <3>2. (rest \o t)[i] = t[i - (Len(s) - n)]
      BY <1>2, <1>3, <2>2
    <3>3. (s \o t)[n + i] = t[(n + i) - Len(s)]
      BY <1>3, <3>1
    <3> QED BY <3>1, <3>2, <3>3
  <2>3. i <= Len(s) - n \/ i > Len(s) - n
    BY <1>a
  <2> QED BY <2>1, <2>2, <2>3
<1>6. rest \o t = SubSeq(s \o t, n + 1, Len(s \o t))
  <2>1. PICK whole : whole = SubSeq(s \o t, n + 1, Len(s \o t))
    OBVIOUS
  <2>2. PICK joined : joined = rest \o t
    OBVIOUS
  <2>3. /\ whole \in Seq(S) /\ joined \in Seq(S)
        /\ Len(whole) = Len(s) + Len(t) - n /\ Len(joined) = Len(s) + Len(t) - n
    BY <1>a, <1>2, <1>3, <1>4, <2>1, <2>2
  <2>4. \A i \in 1 .. Len(s) + Len(t) - n : whole[i] = joined[i]
    BY <1>4, <1>5, <2>1, <2>2
  <2>5. whole = joined
    BY <2>3, <2>4, SeqEqual
  <2> QED BY <2>1, <2>2, <2>5
<1> QED BY <1>1, <1>6

\* A dequeue of n bytes.
LEMMA HeldDrops ==
    ASSUME TypeInv, NEW r \in Readers, NEW n \in Nat, n <= Len(buffer),
           buffer' = SubSeq(buffer, n + 1, Len(buffer)), UNCHANGED <<chunk, wire>>
    PROVE  /\ Len(Held(r)') = Len(Held(r)) - n
           /\ \A i \in 1 .. Len(Held(r)) - n : Held(r)'[i] = Held(r)[n + i]
<1>1. /\ buffer \in Seq(Bytes) /\ wire \in Seq(Bytes) /\ chunk[r] \in Seq(Bytes)
      /\ buffer \o chunk[r] \in Seq(Bytes) /\ Held(r) \in Seq(Bytes)
      /\ n <= Len(buffer \o chunk[r]) /\ n <= Len(Held(r))
  BY HeldType
<1>2. Held(r)' = (SubSeq(buffer, n + 1, Len(buffer)) \o chunk[r]) \o wire
  BY DEF Held
<1>3. Held(r)' = SubSeq(buffer \o chunk[r], n + 1, Len(buffer \o chunk[r]))
                \o wire
  BY <1>1, <1>2, DropJoined
<1>4. Held(r)' = SubSeq(Held(r), n + 1, Len(Held(r)))
  BY <1>1, <1>3, DropJoined DEF Held
<1> QED BY <1>1, <1>4, RestOf

LEMMA StreamDrops ==
    ASSUME TypeInv, NEW n \in Nat, n <= Len(buffer),
           buffer' = SubSeq(buffer, n + 1, Len(buffer)), UNCHANGED <<chunk, wire>>
    PROVE  /\ Len(Stream') = Len(Stream) - n
           /\ \A i \in 1 .. Len(Stream) - n : Stream'[i] = Stream[n + i]
BY HeldDrops, ReaderKnown DEF Stream, Held

\* What is between the ends, after the first n bytes of it were dequeued.
LEMMA StreamShifts ==
    ASSUME StreamInv, NEW n \in Nat, n <= Len(Stream), Len(Stream) \in Nat, TakenUpTo \in Nat,
           Len(Stream') = Len(Stream) - n,
           \A i \in 1 .. Len(Stream) - n : Stream'[i] = Stream[n + i],
           SentUpTo \in Nat, SentUpTo' = SentUpTo, TakenUpTo' = TakenUpTo + n,
           UNCHANGED <<pushed, start>>
    PROVE  StreamInv'
<1>1. Len(Stream) = SentUpTo - TakenUpTo
  BY DEF StreamInv
<1>2. Len(Stream') = SentUpTo' - TakenUpTo'
  BY <1>1
<1>3. ASSUME NEW i \in 1 .. Len(Stream')
      PROVE  /\ start'[Stream'[i][1]] + Stream'[i][2] = TakenUpTo' + i
             /\ \E j \in 1 .. Len(pushed') : Stream'[i][1] = pushed'[j]
  <2>1. n + i \in 1 .. Len(Stream) /\ Stream'[i] = Stream[n + i]
        /\ TakenUpTo + (n + i) = TakenUpTo' + i
    OBVIOUS
  <2> QED BY <2>1 DEF StreamInv, Place
<1> QED BY <1>2, <1>3 DEF StreamInv, Place

\* A sequence cut in two, one that an element was put behind, and one whose first
\* element goes to the end of another.
LEMMA CutAndJoined ==
    ASSUME NEW S, NEW s \in Seq(S), NEW n \in Nat, n <= Len(s)
    PROVE  SubSeq(s, 1, n) \o SubSeq(s, n + 1, Len(s)) = s
<1>1. PICK a : a = SubSeq(s, 1, n)
  OBVIOUS
<1>2. PICK b : b = SubSeq(s, n + 1, Len(s))
  OBVIOUS
<1>3. /\ a \in Seq(S) /\ Len(a) = n /\ \A i \in 1 .. n : a[i] = s[i]
  BY <1>1, FirstOf
<1>4. /\ b \in Seq(S) /\ Len(b) = Len(s) - n /\ \A i \in 1 .. Len(s) - n : b[i] = s[n + i]
  BY <1>2, RestOf
<1>5. a \o b \in Seq(S) /\ Len(a \o b) = Len(s) /\ Len(s) \in Nat
  <2>1. a \in Seq(S) /\ b \in Seq(S)
    BY <1>3, <1>4
  <2>2. a \o b \in Seq(S) /\ Len(a \o b) = Len(a) + Len(b) /\ Len(s) \in Nat
    BY <2>1
  <2> QED BY <1>3, <1>4, <2>2
<1>6. ASSUME NEW i \in 1 .. Len(s) PROVE (a \o b)[i] = s[i]
  <2>1. CASE i <= n
    <3>1. (a \o b)[i] = a[i]
      BY <1>3, <1>4, <1>5, <2>1
    <3> QED BY <1>3, <1>5, <2>1, <3>1
  <2>2. CASE i > n
    <3>1. i - n \in 1 .. Len(s) - n /\ n + (i - n) = i
      BY <1>5, <2>2
    <3>2. (a \o b)[i] = b[i - n]
      BY <1>3, <1>4, <1>5, <2>2
    <3> QED BY <1>4, <3>1, <3>2
  <2>3. i <= n \/ i > n
    BY <1>5
  <2> QED BY <2>1, <2>2, <2>3
<1>7. a \o b = s
  <2>1. PICK joined : joined = a \o b
    OBVIOUS
  <2>2. joined \in Seq(S) /\ Len(joined) = Len(s) /\ \A i \in 1 .. Len(joined) : joined[i] = s[i]
    BY <1>5, <1>6, <2>1
  <2>3. joined = s
    BY <2>2, SeqEqual
  <2> QED BY <2>1, <2>3
<1> QED BY <1>1, <1>2, <1>7

LEMMA CutAndMoved ==
    ASSUME NEW S, NEW t \in Seq(S), NEW s \in Seq(S), NEW n \in Nat, n <= Len(s)
    PROVE  (t \o SubSeq(s, 1, n)) \o SubSeq(s, n + 1, Len(s)) = (t \o <<>>) \o s
<1>1. SubSeq(s, 1, n) \in Seq(S) /\ SubSeq(s, n + 1, Len(s)) \in Seq(S)
  BY FirstOf, RestOf
<1>2. SubSeq(s, 1, n) \o SubSeq(s, n + 1, Len(s)) = s
  BY CutAndJoined
<1>3. (t \o SubSeq(s, 1, n)) \o SubSeq(s, n + 1, Len(s)) = t \o s
  <2>1. ASSUME NEW a \in Seq(S), NEW b \in Seq(S) PROVE (t \o a) \o b = t \o (a \o b)
    BY ConcatAssociative
  <2>2. (t \o SubSeq(s, 1, n)) \o SubSeq(s, n + 1, Len(s))
         = t \o (SubSeq(s, 1, n) \o SubSeq(s, n + 1, Len(s)))
    BY <1>1, <2>1, Zenon
  <2> QED BY <1>2, <2>2, Zenon
<1>4. t \o <<>> = t
  OBVIOUS
<1> QED BY <1>3, <1>4

LEMMA AppendJoined ==
    ASSUME NEW S, NEW s \in Seq(S), NEW t \in Seq(S), NEW e \in S
    PROVE  s \o Append(t, e) = Append(s \o t, e)
OBVIOUS

LEMMA HandedOn ==
    ASSUME NEW S, NEW s \in Seq(S), NEW t \in Seq(S), t # <<>>
    PROVE  Append(s, t[1]) \o Tail(t) = s \o t
OBVIOUS

-----------------------------------------------------------------------------
(* The steps of a server and its client                                     *)

\* What every proof below starts from.
ServerState ==
    /\ TypeInv /\ PushInv /\ sender = "server" /\ ClientTask /\ Running
    /\ QueueInv /\ ParseInv /\ StreamInv /\ SeenInv
AfterStep == Running' => QueueInv' /\ ParseInv' /\ StreamInv' /\ SeenInv'

LEMMA PushServer ==
    ASSUME ServerState, NEW m \in Messages, PushMessage(m)
    PROVE  AfterStep
<1>1. /\ PushInv' /\ Len(pushed') = Len(pushed) + 1 /\ pushed'[Len(pushed) + 1] = m
      /\ \A i \in 1 .. Len(pushed) : pushed'[i] = pushed[i] /\ pushed[i] # m
      /\ \A x \in Messages : x # m => start'[x] = start[x]
      /\ \A n \in 0 .. Len(pushed) : Begin(n)' = Begin(n)
  BY PushMoves DEF ServerState
<1>2. TypeInv'
  BY PushType DEF ServerState
<1>3. /\ sendMessages' = Append(sendMessages, m)
      /\ UNCHANGED <<sendOffset, wire, buffer, chunk, bodyLength, readMessages, delivered, reader,
                     dataLen, failure>>
      /\ Stream' = Stream /\ Parsed' = Parsed
  BY DEF PushMessage, socketVars, parseVars, readVars, Stream, Parsed
<1>4. /\ sendMessages \in Seq(Messages) /\ Len(sendMessages) \in Nat /\ Len(pushed) \in Nat
      /\ Len(Parsed) \in Nat /\ Parsed \in Seq(Data)
  BY ParsedType DEF ServerState, TypeInv, SendTypes
<1>5. /\ Len(sendMessages') = Len(sendMessages) + 1 /\ sendMessages'[Len(sendMessages) + 1] = m
      /\ \A i \in 1 .. Len(sendMessages) : sendMessages'[i] = sendMessages[i]
  BY <1>3, <1>4, Appended
<1>6. QueueInv'
  <2>1. Len(sendMessages) <= Len(pushed)
    BY DEF ServerState, QueueInv
  <2>2. ASSUME NEW i \in 1 .. Len(sendMessages')
        PROVE  sendMessages'[i] = pushed'[Len(pushed') - Len(sendMessages') + i]
    <3>1. Len(pushed') - Len(sendMessages') + i = Len(pushed) - Len(sendMessages) + i
      BY <1>1, <1>4, <1>5
    <3>2. CASE i = Len(sendMessages) + 1
      BY <1>1, <1>4, <1>5, <3>1, <3>2
    <3>3. CASE i \in 1 .. Len(sendMessages)
      <4>1. sendMessages[i] = pushed[Len(pushed) - Len(sendMessages) + i]
        BY <3>3 DEF ServerState, QueueInv
      <4>2. Len(pushed) - Len(sendMessages) + i \in 1 .. Len(pushed)
        BY <1>4, <2>1, <3>3
      <4> QED BY <1>1, <1>5, <3>1, <3>3, <4>1, <4>2
    <3> QED BY <1>4, <1>5, <3>2, <3>3
  <2> QED BY <1>1, <1>4, <1>5, <2>1, <2>2 DEF QueueInv
<1>7. ParseInv'
  <2>1. /\ Len(Parsed) <= Len(pushed) /\ \A i \in 1 .. Len(Parsed) : Parsed[i] = pushed[i]
        /\ bodyLength # 0 => /\ Len(Parsed) + 1 \in 1 .. Len(pushed)
                             /\ bodyLength = Length[pushed[Len(Parsed) + 1]]
    BY <1>4 DEF ServerState, ParseInv
  <2>2. Len(Parsed) <= Len(pushed') /\ \A i \in 1 .. Len(Parsed) : Parsed[i] = pushed'[i]
    BY <1>1, <1>4, <2>1
  <2>3. ASSUME bodyLength # 0
        PROVE  Len(Parsed) < Len(pushed') /\ bodyLength = Length[pushed'[Len(Parsed) + 1]]
    BY <1>1, <1>4, <2>1, <2>3
  <2> QED BY <1>3, <2>2, <2>3 DEF ParseInv
<1>8. StreamInv'
  <2>1. /\ SentUpTo = Begin(Len(pushed) - Len(sendMessages)) + sendOffset
        /\ TakenUpTo = Begin(Len(Parsed)) + (IF bodyLength = 0 THEN 0 ELSE HeadLength)
    BY EndsOf DEF ServerState, ParseInv
  <2>2. /\ SentUpTo' = (Begin(Len(pushed) - Len(sendMessages)) + sendOffset)'
        /\ TakenUpTo' = (Begin(Len(Parsed)) + (IF bodyLength = 0 THEN 0 ELSE HeadLength))'
    <3>1. (Len(Parsed) <= Len(pushed))'
      BY <1>7 DEF ParseInv
    <3> QED BY <1>1, <1>2, <1>6, <3>1, EndsNext DEF Ends
  <2>3. /\ Len(pushed) - Len(sendMessages) \in 0 .. Len(pushed) /\ Len(Parsed) \in 0 .. Len(pushed)
        /\ Len(pushed') - Len(sendMessages') = Len(pushed) - Len(sendMessages)
    BY <1>1, <1>4, <1>5 DEF ServerState, QueueInv, ParseInv
  <2>4. SentUpTo' = SentUpTo /\ TakenUpTo' = TakenUpTo
    BY <1>1, <1>3, <2>1, <2>2, <2>3
  <2>5. ASSUME NEW i \in 1 .. Len(Stream)
        PROVE  /\ Place(Stream[i])' = TakenUpTo + i
               /\ \E j \in 1 .. Len(pushed') : Stream[i][1] = pushed'[j]
    <3>1. PICK j \in 1 .. Len(pushed) : Stream[i][1] = pushed[j]
      BY DEF ServerState, StreamInv
    <3>2. pushed[j] \in Messages /\ pushed[j] # m /\ pushed'[j] = pushed[j]
          /\ j \in 1 .. Len(pushed')
      BY <1>1, <1>4 DEF ServerState, TypeInv, SendTypes
    <3>3. start'[Stream[i][1]] = start[Stream[i][1]]
      BY <1>1, <3>1, <3>2
    <3>4. Place(Stream[i]) = TakenUpTo + i
      BY DEF ServerState, StreamInv
    <3> QED BY <1>3, <3>1, <3>2, <3>3, <3>4 DEF Place
  <2>6. Len(Stream) = SentUpTo - TakenUpTo
    BY DEF ServerState, StreamInv
  <2> QED BY <1>3, <2>4, <2>5, <2>6 DEF StreamInv, Place
<1>9. SeenInv'
  BY <1>3 DEF ServerState, SeenInv
<1> QED BY <1>6, <1>7, <1>8, <1>9 DEF AfterStep

\* Steps that neither move bytes between the ends nor change what was seen.
LEMMA QuietServer ==
    ASSUME ServerState,
           UNCHANGED <<pushed, start, sendMessages, sendOffset, bodyLength, wire, buffer, chunk,
                       readMessages, delivered, reader, dataLen>>
    PROVE  AfterStep
<1>1. Stream' = Stream /\ Parsed' = Parsed
  BY DEF Stream, Parsed
<1>2. SeenInv'
  BY DEF ServerState, SeenInv
<1> QED BY <1>1, <1>2, StreamKept DEF ServerState, AfterStep

\* ::send takes the next bytes of the first message, and the offset or the queue
\* goes on with them.
LEMMA SendServer ==
    ASSUME ServerState, NEW m \in Messages, ServerSend(m)
    PROVE  AfterStep
<1>0. PICK sent : sent = Taken(m, sendOffset)
  OBVIOUS
<1>1. /\ inHand[m] # NoMessage /\ Free > 0 /\ wire' = wire \o sent
      /\ sendOffset' = NextOffset(m, Len(sent))
      /\ sendMessages' = IF sendOffset + Len(sent) = Len(Frame(inHand[m]))
                         THEN Tail(sendMessages) ELSE sendMessages
      /\ UNCHANGED <<sender, writer, pushed, start, buffer, chunk, bodyLength, readMessages,
                     delivered, reader, dataLen, failure>>
  BY <1>0 DEF ServerSend, IsSending, parseVars, readVars
<1>2. /\ inHand[m] = sendMessages[1] /\ sendMessages # <<>> /\ inHand[m] \in Messages
      /\ sendOffset \in Nat /\ sendOffset < FrameLength(inHand[m])
      /\ sendMessages \in Seq(Messages) /\ Len(sendMessages) \in Nat
      /\ Len(pushed) \in Nat /\ Len(Parsed) \in Nat /\ pushed \in Seq(Messages)
      /\ Free \in Nat
  BY <1>1, HandOf, ParsedType, FreeType DEF ServerState, TypeInv, SendTypes
<1>3. /\ sent \in Seq(Bytes) /\ Len(sent) \in Nat
      /\ sendOffset + Len(sent) <= FrameLength(inHand[m])
      /\ \A i \in 1 .. Len(sent) : sent[i] = <<inHand[m], sendOffset + i>>
      /\ Len(Frame(inHand[m])) = FrameLength(inHand[m]) /\ FrameLength(inHand[m]) \in Nat
  BY <1>0, <1>1, <1>2, TakenOf, FrameOf
<1>4. PICK k : k = Len(pushed) - Len(sendMessages) + 1
  OBVIOUS
<1>5. Len(sendMessages) > 0 /\ Len(sendMessages) <= Len(pushed)
  BY <1>2 DEF ServerState, QueueInv
<1>a. /\ Len(pushed') = Len(pushed) /\ Len(pushed) \in Nat /\ Len(sendMessages) \in Nat
      /\ pushed' = pushed
  BY <1>1, <1>2
<1>6. k \in 1 .. Len(pushed) /\ inHand[m] = pushed[k]
  <2>1. k \in 1 .. Len(pushed) /\ 1 \in 1 .. Len(sendMessages)
    BY <1>2, <1>4, <1>5
  <2> QED BY <1>2, <1>4, <2>1 DEF ServerState, QueueInv
<1>7. /\ Begin(k - 1) = start[inHand[m]] /\ Begin(k) = start[inHand[m]] + FrameLength(inHand[m])
      /\ start[inHand[m]] \in Nat
  BY <1>6, BeginOf DEF ServerState
<1>8. /\ SentUpTo = start[inHand[m]] + sendOffset
      /\ SentUpTo \in Nat /\ TakenUpTo \in Nat
  <2>1. /\ SentUpTo = Begin(Len(pushed) - Len(sendMessages)) + sendOffset
        /\ SentUpTo \in Nat /\ TakenUpTo \in Nat
    BY EndsOf DEF ServerState, ParseInv
  <2>2. Len(pushed) - Len(sendMessages) = k - 1
    BY <1>2, <1>4
  <2> QED BY <1>7, <2>1, <2>2
<1>9. QueueInv' /\ SentUpTo' = SentUpTo + Len(sent)
  <2>1. CASE sendOffset + Len(sent) = Len(Frame(inHand[m]))
    <3>1. /\ sendMessages' = Tail(sendMessages) /\ sendOffset' = 0
      BY <1>1, <2>1 DEF NextOffset
    <3>2. /\ sendMessages' \in Seq(Messages) /\ Len(sendMessages') = Len(sendMessages) - 1
          /\ \A i \in 1 .. Len(sendMessages) - 1 : sendMessages'[i] = sendMessages[i + 1]
      BY <1>2, <3>1, TailOf
    <3>3. ASSUME NEW i \in 1 .. Len(sendMessages')
          PROVE  sendMessages'[i] = pushed'[Len(pushed') - Len(sendMessages') + i]
      <4>1. /\ i + 1 \in 1 .. Len(sendMessages)
            /\ Len(pushed') - Len(sendMessages') + i = Len(pushed) - Len(sendMessages) + (i + 1)
        <5>1. i \in 1 .. Len(sendMessages) - 1 /\ Len(sendMessages') = Len(sendMessages) - 1
          BY <3>2
        <5> QED BY <1>a, <5>1
      <4>2. sendMessages[i + 1] = pushed[Len(pushed) - Len(sendMessages) + (i + 1)]
        BY <4>1 DEF ServerState, QueueInv
      <4>3. sendMessages'[i] = sendMessages[i + 1]
        BY <1>2, <3>2
      <4> QED BY <1>1, <4>1, <4>2, <4>3
    <3>4. QueueInv'
      <4>1. Len(sendMessages') <= Len(pushed')
        BY <1>a, <1>5, <3>2
      <4> QED BY <3>3, <4>1 DEF QueueInv
    <3>5. SentUpTo' = Begin(k)
      <4>1. CASE sendMessages' = <<>>
        <5>1. Len(sendMessages) = 1
          BY <1>2, <3>2, <4>1
        <5>2. k = Len(pushed)
          BY <1>2, <1>4, <5>1
        <5> QED BY <1>1, <4>1, <5>2 DEF SentUpTo, Begin, Total
      <4>2. CASE sendMessages' # <<>>
        <5>1. Len(sendMessages') > 0 /\ 1 \in 1 .. Len(sendMessages')
          BY <3>2, <4>2
        <5>2. Len(pushed') - Len(sendMessages') + 1 = k + 1 /\ k # Len(pushed)
          <6>1. Len(sendMessages') = Len(sendMessages) - 1
            BY <3>2
          <6> QED BY <1>a, <1>4, <5>1, <6>1
        <5>3. sendMessages'[1] = pushed[k + 1]
          BY <1>1, <3>3, <5>1, <5>2
        <5>4. start[sendMessages'[1]] \in Nat
          BY <3>2, <5>1 DEF ServerState, TypeInv, SendTypes
        <5> QED BY <1>1, <3>1, <4>2, <5>2, <5>3, <5>4 DEF SentUpTo, Begin
      <4> QED BY <4>1, <4>2
    <3> QED BY <1>2, <1>3, <1>7, <1>8, <2>1, <3>4, <3>5
  <2>2. CASE sendOffset + Len(sent) # Len(Frame(inHand[m]))
    <3>1. sendMessages' = sendMessages /\ sendOffset' = sendOffset + Len(sent)
      BY <1>1, <2>2 DEF NextOffset
    <3>2. QueueInv'
      BY <1>1, <3>1 DEF ServerState, QueueInv
    <3>3. SentUpTo' = start[inHand[m]] + (sendOffset + Len(sent))
      BY <1>1, <1>2, <3>1 DEF SentUpTo
    <3> QED BY <1>2, <1>3, <1>7, <1>8, <3>2, <3>3
  <2> QED BY <2>1, <2>2
<1>10. ParseInv' /\ SeenInv' /\ TakenUpTo' = TakenUpTo
  <2>1. Parsed' = Parsed
    BY <1>1 DEF Parsed
  <2> QED BY <1>1, <2>1 DEF ServerState, ParseInv, SeenInv, TakenUpTo, Total
<1>11. StreamInv'
  <2>1. PICK held : held = buffer \o chunk[ClientReader]
    OBVIOUS
  <2>2. held \in Seq(Bytes) /\ wire \in Seq(Bytes) /\ Stream = held \o wire
    BY <2>1, StreamType DEF ServerState, Stream
  <2>3. Stream' = held \o (wire \o sent)
    BY <1>1, <2>1 DEF Stream
  <2>4. Stream' = Stream \o sent
    <3>0. sent \in Seq(Bytes) /\ held \in Seq(Bytes) /\ wire \in Seq(Bytes)
      BY <1>3, <2>2
    <3>1. (held \o wire) \o sent = held \o (wire \o sent)
      BY <3>0, ConcatAssociative, SMTT(30)
    <3> QED BY <2>2, <2>3, <3>1, Zenon
  <2>5. Stream \in Seq(Bytes) /\ Len(Stream) \in Nat
    BY StreamType DEF ServerState
  <2>6. /\ Len(Stream') = Len(Stream) + Len(sent)
        /\ \A i \in 1 .. Len(Stream) + Len(sent) :
              Stream'[i] = IF i <= Len(Stream) THEN Stream[i] ELSE sent[i - Len(Stream)]
    BY <1>3, <2>4, <2>5, ConcatProperties
  <2>7. /\ Len(Stream) = SentUpTo - TakenUpTo
        /\ \A i \in 1 .. Len(Stream) : /\ Place(Stream[i]) = TakenUpTo + i
                                       /\ \E j \in 1 .. Len(pushed) : Stream[i][1] = pushed[j]
    BY DEF ServerState, StreamInv
  <2>8. Len(Stream') = SentUpTo' - TakenUpTo'
    BY <1>3, <1>8, <1>9, <1>10, <2>5, <2>6, <2>7
  <2>9. ASSUME NEW i \in 1 .. Len(Stream')
        PROVE  /\ start'[Stream'[i][1]] + Stream'[i][2] = TakenUpTo' + i
               /\ \E j \in 1 .. Len(pushed') : Stream'[i][1] = pushed'[j]
    <3>1. CASE i <= Len(Stream)
      <4>1. i \in 1 .. Len(Stream) /\ Stream'[i] = Stream[i]
        BY <1>3, <2>5, <2>6, <3>1
      <4> QED BY <1>1, <1>10, <2>7, <4>1 DEF Place
    <3>2. CASE i > Len(Stream)
      <4>1. i - Len(Stream) \in 1 .. Len(sent) /\ Stream'[i] = sent[i - Len(Stream)]
        BY <1>3, <2>5, <2>6, <3>2
      <4>2. Stream'[i] = <<pushed[k], sendOffset + (i - Len(Stream))>>
        BY <1>3, <1>6, <4>1
      <4>3. start[pushed[k]] + (sendOffset + (i - Len(Stream))) = TakenUpTo + i
        <5>1. /\ start[pushed[k]] \in Nat /\ sendOffset \in Nat
              /\ SentUpTo = start[pushed[k]] + sendOffset /\ Len(Stream) = SentUpTo - TakenUpTo
              /\ TakenUpTo \in Nat /\ Len(Stream) \in Nat
          BY <1>2, <1>6, <1>7, <1>8, <2>5, <2>7
        <5>2. i \in Nat
          <6>1. Len(Stream') \in Nat
            BY <1>3, <2>5, <2>6
          <6> QED BY <6>1
        <5>3. PICK a : a = start[pushed[k]]
          OBVIOUS
        <5>4. PICK l : l = Len(Stream)
          OBVIOUS
        <5>5. PICK t : t = TakenUpTo
          OBVIOUS
        <5>6. a \in Nat /\ l \in Nat /\ t \in Nat /\ sendOffset \in Nat /\ l = (a + sendOffset) - t
          BY <5>1, <5>3, <5>4, <5>5
        <5>7. a + (sendOffset + (i - l)) = t + i
          BY <5>2, <5>6
        <5> QED BY <5>3, <5>4, <5>5, <5>7
      <4>4. Stream'[i][1] = pushed[k] /\ Stream'[i][2] = sendOffset + (i - Len(Stream))
        BY <4>2
      <4> QED BY <1>1, <1>6, <1>10, <4>3, <4>4
    <3> QED BY <2>5, <2>6, <1>3, <3>1, <3>2
  <2> QED BY <2>8, <2>9 DEF StreamInv, Place
<1> QED BY <1>9, <1>10, <1>11 DEF AfterStep

\* The head that is dequeued is that of the next message.
LEMMA TakeHeadServer ==
    ASSUME ServerState, TakeHead(ClientReader)
    PROVE  AfterStep /\ failure' = "none"
<1>0. PICK p : p = pushed[Len(Parsed) + 1]
  OBVIOUS
<1>1. /\ reader[ClientReader] = "head" /\ bodyLength = 0 /\ Len(buffer) > HeadLength
  BY DEF TakeHead, IsReader, ServerState, SeenInv
<1>2. /\ HeadLength \in Nat /\ HeadLength > 0 /\ buffer \in Seq(Bytes) /\ Len(buffer) \in Nat
      /\ HeadLength <= Len(Stream) /\ Len(Stream) \in Nat /\ HeadLength <= Len(buffer)
      /\ \A i \in 1 .. Len(buffer) : Stream[i] = buffer[i]
  BY <1>1, StreamType, ChannelAssumption DEF ServerState, ChannelAssumption
<1>3. /\ Len(Parsed) + 1 \in 1 .. Len(pushed)
      /\ \A i \in 1 .. HeadLength : Stream[i] = <<p, i>>
  BY <1>0, <1>1, <1>2, NextOf DEF ServerState
<1>4. p \in Messages
  BY <1>0, <1>3, BeginOf DEF ServerState
<1>7. HeadOf = {p}
  <2>1. \A i \in 1 .. HeadLength : buffer[i] = <<p, i>>
    BY <1>2, <1>3
  <2> QED BY <1>2, <1>4, <2>1, HeadIs DEF ServerState
<1>8. /\ failure' = "none" /\ bodyLength' = Length[p]
      /\ buffer' = SubSeq(buffer, HeadLength + 1, Len(buffer))
      /\ reader' = [reader EXCEPT ![ClientReader] = "length"]
      /\ UNCHANGED <<pushed, start, sendMessages, sendOffset, wire, chunk, readMessages,
                     delivered, dataLen>>
  <2>1. LengthsRead = {Length[p]}
    BY <1>7 DEF LengthsRead, BodyLength
  <2>2. ~(Len(buffer) < HeadLength)
    BY <1>2
  <2> QED BY <2>1, <2>2 DEF TakeHead, Goto, sendVars, socketVars, ServerState, Running
<1>9. Parsed' = Parsed /\ QueueInv'
  BY <1>8 DEF Parsed, ServerState, QueueInv
<1>10. Length[p] \in Nat /\ Length[p] # 0
  BY <1>4, FrameOf
<1>11. ParseInv'
  <2>1. Len(Parsed) \in Nat /\ Len(pushed) \in Nat
    BY ParsedType DEF ServerState
  <2>2. Len(Parsed) < Len(pushed)
    BY <1>3, <2>1
  <2> QED BY <1>0, <1>8, <1>9, <2>2 DEF ServerState, ParseInv
<1>12. SeenInv'
  <2>1. reader'[ClientReader] = "length"
    BY <1>8, ReaderKnown DEF ServerState, TypeInv, ReadTypes
  <2> QED BY <1>8, <1>10, <2>1 DEF SeenInv
<1>13. SentUpTo' = SentUpTo /\ TakenUpTo' = TakenUpTo + HeadLength
       /\ SentUpTo \in Nat /\ TakenUpTo \in Nat
  <2>1. TakenUpTo = Begin(Len(Parsed)) + 0 /\ Begin(Len(Parsed)) \in Nat
        /\ SentUpTo \in Nat /\ TakenUpTo \in Nat
    BY <1>1, EndsOf DEF ServerState, ParseInv
  <2>2. TakenUpTo' = Begin(Len(Parsed)) + HeadLength
    BY <1>8, <1>9, <1>10 DEF TakenUpTo, Begin, Total
  <2>3. SentUpTo' = SentUpTo
    BY <1>8 DEF SentUpTo, Total
  <2> QED BY <2>1, <2>2, <2>3
<1>14. StreamInv'
  <2>1. /\ Len(Stream') = Len(Stream) - HeadLength
        /\ \A i \in 1 .. Len(Stream) - HeadLength : Stream'[i] = Stream[HeadLength + i]
    <3>1. TypeInv /\ UNCHANGED <<chunk, wire>>
      BY <1>8 DEF ServerState
    <3> QED BY <1>2, <1>8, <3>1, StreamDrops
  <2> QED BY <1>2, <1>8, <1>13, <2>1, StreamShifts DEF ServerState
<1> QED BY <1>8, <1>9, <1>11, <1>12, <1>14 DEF AfterStep

\* The body that is dequeued is that of the next message.
LEMMA TakeBodyServer ==
    ASSUME ServerState, TakeBody(ClientReader)
    PROVE  AfterStep /\ failure' = "none"
<1>0. PICK p : p = pushed[Len(Parsed) + 1]
  OBVIOUS
<1>1. /\ reader[ClientReader] = "body" /\ bodyLength # 0 /\ dataLen[ClientReader] = bodyLength
      /\ Len(buffer) >= bodyLength
  BY DEF TakeBody, IsReader, ServerState, SeenInv
<1>2. /\ Len(Parsed) + 1 \in 1 .. Len(pushed) /\ bodyLength = Length[p]
      /\ p \in Messages /\ Len(Parsed) \in Nat /\ Len(pushed) \in Nat
  <2>1. Len(Parsed) \in Nat /\ Len(pushed) \in Nat
    BY ParsedType DEF ServerState
  <2>2. Len(Parsed) + 1 \in 1 .. Len(pushed) /\ bodyLength = Length[p]
    BY <1>0, <1>1, <2>1 DEF ServerState, ParseInv
  <2> QED BY <1>0, <2>1, <2>2, BeginOf DEF ServerState
<1>3. /\ bodyLength \in Nat /\ bodyLength > 0 /\ HeadLength \in Nat
      /\ FrameLength(p) = HeadLength + bodyLength
  BY <1>2, FrameOf DEF FrameLength
<1>4. /\ buffer \in Seq(Bytes) /\ Len(buffer) \in Nat /\ bodyLength <= Len(buffer)
      /\ bodyLength <= Len(Stream) /\ Len(Stream) \in Nat
      /\ \A i \in 1 .. Len(buffer) : Stream[i] = buffer[i]
  BY <1>1, <1>3, StreamType DEF ServerState
<1>5. \A i \in 1 .. bodyLength : Stream[i] = <<p, i + HeadLength>>
  BY <1>0, <1>1, <1>3, <1>4, NextOf DEF ServerState
<1>8. BodyOf(bodyLength) = {p}
  <2>1. ASSUME NEW i \in 1 .. bodyLength PROVE buffer[i] = <<p, HeadLength + i>>
    <3>1. i \in 1 .. Len(buffer) /\ i + HeadLength = HeadLength + i
      BY <1>3, <1>4
    <3>2. buffer[i] = <<p, i + HeadLength>>
      BY <1>4, <1>5, <3>1
    <3> QED BY <3>1, <3>2
  <2>2. BodyOf(Length[p]) = {p}
    <3>1. TypeInv /\ Length[p] <= Len(buffer)
      BY <1>2, <1>4 DEF ServerState
    <3>2. \A i \in 1 .. Length[p] : buffer[i] = <<p, HeadLength + i>>
      BY <1>2, <2>1
    <3> QED BY <1>2, <3>1, <3>2, BodyIs
  <2> QED BY <1>2, <2>2
<1>9. /\ failure' = "none" /\ bodyLength' = 0 /\ readMessages' = Append(readMessages, p)
      /\ buffer' = SubSeq(buffer, bodyLength + 1, Len(buffer))
      /\ reader' = [reader EXCEPT ![ClientReader] = "parse"]
      /\ UNCHANGED <<pushed, start, sendMessages, sendOffset, wire, chunk, delivered>>
  <2>1. ~(Len(buffer) < dataLen[ClientReader]) /\ BodyOf(dataLen[ClientReader]) = {p}
    BY <1>1, <1>3, <1>4, <1>8
  <2>2. Decoded(dataLen[ClientReader]) = {p}
    BY <2>1 DEF Decoded
  <2> QED BY <1>1, <2>1, <2>2 DEF TakeBody, Goto, sendVars, socketVars, ServerState, Running
<1>10. /\ Parsed \in Seq(Data) /\ p \in Data /\ Parsed' = Append(Parsed, p)
       /\ Len(Parsed') = Len(Parsed) + 1 /\ Parsed'[Len(Parsed) + 1] = p
       /\ \A i \in 1 .. Len(Parsed) : Parsed'[i] = Parsed[i]
  <2>1. delivered \in Seq(Data) /\ readMessages \in Seq(Data) /\ Parsed \in Seq(Data)
    BY ParsedType DEF ServerState, TypeInv, ReadTypes
  <2>2. p \in Data
    BY <1>2 DEF Data
  <2>3. Parsed' = Append(Parsed, p)
    BY <1>9, <2>1, <2>2, AppendJoined DEF Parsed
  <2> QED BY <1>2, <2>1, <2>2, <2>3, Appended
<1>11. QueueInv'
  BY <1>9 DEF ServerState, QueueInv
<1>12. ParseInv'
  <2>1. \A i \in 1 .. Len(Parsed) : Parsed[i] = pushed[i]
    BY DEF ServerState, ParseInv
  <2>2. \A i \in 1 .. Len(Parsed) + 1 : Parsed'[i] = pushed[i]
    <3> SUFFICES ASSUME NEW i \in 1 .. Len(Parsed) + 1 PROVE Parsed'[i] = pushed[i]
      OBVIOUS
    <3>1. CASE i = Len(Parsed) + 1
      BY <1>0, <1>10, <3>1
    <3>2. CASE i \in 1 .. Len(Parsed)
      BY <1>10, <2>1, <3>2
    <3> QED BY <1>2, <3>1, <3>2
  <2>3. Len(Parsed') <= Len(pushed') /\ bodyLength' = 0 /\ pushed' = pushed
    BY <1>2, <1>9, <1>10
  <2> QED BY <1>10, <2>2, <2>3 DEF ParseInv
<1>13. SeenInv'
  <2>1. reader'[ClientReader] = "parse"
    BY <1>9, ReaderKnown DEF ServerState, TypeInv, ReadTypes
  <2> QED BY <2>1 DEF SeenInv
<1>14. /\ SentUpTo' = SentUpTo /\ TakenUpTo' = TakenUpTo + bodyLength
       /\ SentUpTo \in Nat /\ TakenUpTo \in Nat
  <2>1. PICK n : n = Len(Parsed) + 1
    OBVIOUS
  <2>2. /\ TakenUpTo = Begin(Len(Parsed)) + HeadLength /\ Begin(Len(Parsed)) \in Nat
        /\ SentUpTo \in Nat /\ TakenUpTo \in Nat
    BY <1>1, EndsOf DEF ServerState, ParseInv
  <2>3. /\ n \in 1 .. Len(pushed) /\ pushed[n] = p
        /\ Begin(n - 1) = start[p] /\ Begin(n) = start[p] + FrameLength(p)
    BY <1>0, <1>2, <2>1, BeginOf DEF ServerState
  <2>4. TakenUpTo' = Begin(n) + 0
    BY <1>9, <1>10, <2>1 DEF TakenUpTo, Begin, Total
  <2>5. n - 1 = Len(Parsed)
    BY <1>2, <2>1
  <2>6. SentUpTo' = SentUpTo
    BY <1>9 DEF SentUpTo, Total
  <2>7. start[p] \in Nat /\ TakenUpTo = start[p] + HeadLength
    BY <2>2, <2>3, <2>5
  <2>8. TakenUpTo' = TakenUpTo + bodyLength
    BY <1>3, <2>3, <2>4, <2>7
  <2> QED BY <2>2, <2>6, <2>8
<1>15. StreamInv'
  <2>1. /\ Len(Stream') = Len(Stream) - bodyLength
        /\ \A i \in 1 .. Len(Stream) - bodyLength : Stream'[i] = Stream[bodyLength + i]
    <3>1. TypeInv /\ UNCHANGED <<chunk, wire>>
      BY <1>9 DEF ServerState
    <3> QED BY <1>3, <1>4, <1>9, <3>1, StreamDrops
  <2> QED BY <1>3, <1>4, <1>9, <1>14, <2>1, StreamShifts DEF ServerState
<1> QED BY <1>9, <1>11, <1>12, <1>13, <1>15 DEF AfterStep

\* What a read takes goes from the wire to chunk and from there to the buffer.
LEMMA HeldMoves ==
    ASSUME TypeInv, NEW r \in Readers, ReadSocket(r) \/ EnqueueChunk(r), Running'
    PROVE  Held(r)' = Held(r)
<1>1. /\ chunk \in [Readers -> Seq(Bytes)]
      /\ buffer \in Seq(Bytes) /\ wire \in Seq(Bytes) /\ chunk[r] \in Seq(Bytes)
  BY HeldType DEF TypeInv, ReadTypes
<1>2. CASE ReadSocket(r)
  <2>1. PICK n : n = IF arrived <= BufferSize THEN arrived ELSE BufferSize
    OBVIOUS
  <2>2. n \in Nat /\ n <= Len(wire)
    BY <1>1, <2>1, ChannelAssumption DEF ChannelAssumption, TypeInv, TypeOK
  <2>3. /\ chunk'[r] = SubSeq(wire, 1, n) /\ buffer' = buffer
        /\ wire' = SubSeq(wire, n + 1, Len(wire))
    BY <1>1, <1>2, <2>1 DEF ReadSocket, parseVars
  <2>4. chunk[r] = <<>>
    BY <1>2 DEF ReadSocket, IsReader, TypeInv, TypeOK
  <2>5. Held(r)' = (buffer \o SubSeq(wire, 1, n)) \o SubSeq(wire, n + 1, Len(wire))
    BY <2>3 DEF Held
  <2>6. Held(r)' = (buffer \o <<>>) \o wire
    BY <1>1, <2>2, <2>5, CutAndMoved
  <2> QED BY <2>4, <2>6 DEF Held
<1>3. CASE EnqueueChunk(r)
  <2>1. /\ buffer' = buffer \o chunk[r] /\ chunk'[r] = <<>> /\ wire' = wire
    BY <1>1, <1>3 DEF EnqueueChunk, Running, socketVars
  <2>2. buffer \o chunk[r] \in Seq(Bytes)
    BY <1>1, ConcatProperties
  <2>3. (buffer \o chunk[r]) \o <<>> = buffer \o chunk[r]
    BY <2>2
  <2> QED BY <2>1, <2>3 DEF Held
<1> QED BY <1>2, <1>3

LEMMA MoveServer ==
    ASSUME ServerState, ReadSocket(ClientReader) \/ EnqueueChunk(ClientReader)
    PROVE  AfterStep /\ failure' \in {"none", "overflow"}
<1>1. /\ reader[ClientReader] \in {"read", "enqueue"} /\ chunk \in [Readers -> Seq(Bytes)]
      /\ ClientReader \in Readers /\ failure = "none"
      /\ buffer \in Seq(Bytes) /\ wire \in Seq(Bytes) /\ chunk[ClientReader] \in Seq(Bytes)
      /\ reader \in [Readers -> ReaderStates]
  BY ReaderKnown, StreamType
     DEF ReadSocket, EnqueueChunk, IsReader, ServerState, Running, TypeInv, ReadTypes
<1>2. /\ failure' \in {"none", "overflow"} /\ Parsed' = Parsed
      /\ UNCHANGED <<pushed, start, sendMessages, sendOffset, bodyLength, readMessages, delivered>>
      /\ reader'[ClientReader] \in {"enqueue", "parse"}
  BY <1>1 DEF ReadSocket, EnqueueChunk, Goto, sendVars, parseVars, Parsed
<1>3. ASSUME Running' PROVE Stream' = Stream
  BY <1>1, <1>3, HeldMoves DEF ServerState, Held, Stream
<1>4. SeenInv'
  BY <1>2 DEF SeenInv
<1> QED BY <1>2, <1>3, <1>4, StreamKept DEF AfterStep, ServerState

\* Steps of the reader that test, or hand a message on.
LEMMA LookServer ==
    ASSUME ServerState,
           \/ SeeHead(ClientReader) \/ SeeBody(ClientReader) \/ SeeMessage(ClientReader)
           \/ DeliverMessage(ClientReader) \/ ParseEnds(ClientReader)
    PROVE  AfterStep /\ failure' = "none"
<1>1. /\ reader \in [Readers -> ReaderStates] /\ ClientReader \in Readers /\ failure = "none"
      /\ dataLen \in [Readers -> Nat]
      /\ readMessages \in Seq(Data) /\ delivered \in Seq(Data)
  BY ReaderKnown DEF ServerState, Running, TypeInv, ReadTypes
<1>2. /\ UNCHANGED <<pushed, start, sendMessages, sendOffset, bodyLength, wire, buffer, chunk>>
  BY DEF SeeHead, SeeBody, SeeMessage, DeliverMessage, ParseEnds, sendVars, socketVars, parseVars
<1>3. Stream' = Stream
  BY <1>2 DEF Stream
<1>4. Parsed' = Parsed /\ SeenInv' /\ failure' = "none"
  <2>1. CASE SeeHead(ClientReader)
    <3>1. /\ UNCHANGED <<readMessages, delivered, failure, dataLen>>
          /\ reader'[ClientReader] =
                IF bodyLength # 0 THEN "length"
                ELSE IF Len(buffer) > HeadLength THEN "head" ELSE "deliver"
      BY <1>1, <2>1 DEF SeeHead, Goto, parseVars
    <3> QED BY <1>1, <1>2, <3>1 DEF Parsed, SeenInv
  <2>2. CASE SeeBody(ClientReader)
    <3>1. UNCHANGED <<readMessages, delivered, failure>> /\ bodyLength # 0
      BY <2>2 DEF SeeBody, parseVars, IsReader, ServerState, SeenInv
    <3>2. \/ /\ Len(buffer) >= bodyLength /\ dataLen'[ClientReader] = bodyLength
             /\ reader'[ClientReader] = "body"
          \/ reader'[ClientReader] = "parse"
      BY <1>1, <2>2 DEF SeeBody, Goto, ServerState, TypeInv, TypeOK
    <3> QED BY <1>1, <1>2, <3>1, <3>2 DEF Parsed, SeenInv
  <2>3. CASE SeeMessage(ClientReader)
    <3>1. /\ UNCHANGED <<readMessages, delivered, failure>> /\ readMessages # <<>>
          /\ reader'[ClientReader] = "pop"
      BY <1>1, <2>3 DEF SeeMessage, Goto, parseVars
    <3> QED BY <1>1, <3>1 DEF Parsed, SeenInv
  <2>4. CASE DeliverMessage(ClientReader)
    <3>1. readMessages # <<>> /\ reader'[ClientReader] = "deliver"
      BY <1>1, <2>4 DEF DeliverMessage, IsReader, Goto, ServerState, SeenInv
    <3>2. /\ failure' = failure /\ delivered' = Append(delivered, readMessages[1])
          /\ readMessages' = Tail(readMessages)
      BY <2>4, <3>1 DEF DeliverMessage, Popped
    <3>3. Append(delivered, readMessages[1]) \o Tail(readMessages) = delivered \o readMessages
      BY <1>1, <3>1, HandedOn
    <3> QED BY <1>1, <3>1, <3>2, <3>3 DEF Parsed, SeenInv
  <2>5. CASE ParseEnds(ClientReader)
    <3>1. /\ UNCHANGED <<readMessages, delivered, failure>>
          /\ reader'[ClientReader] \in {"idle", "read"}
      BY <1>1, <2>5 DEF ParseEnds, Goto, parseVars
    <3> QED BY <1>1, <3>1 DEF Parsed, SeenInv
  <2> QED BY <2>1, <2>2, <2>3, <2>4, <2>5
<1> QED BY <1>2, <1>3, <1>4, StreamKept DEF AfterStep, ServerState

-----------------------------------------------------------------------------
(* The theorem                                                              *)

ChannelInv == TypeInv /\ PushInv /\ ServerInv

LEMMA ServerInit == Init => PushInv /\ ServerInv
<1> SUFFICES ASSUME Init PROVE PushInv /\ ServerInv
  OBVIOUS
<1>1. /\ pushed = <<>> /\ sendMessages = <<>> /\ delivered = <<>> /\ readMessages = <<>>
      /\ wire = <<>> /\ buffer = <<>> /\ bodyLength = 0 /\ tasks = 0 /\ failure = "none"
      /\ chunk = [r \in Readers |-> <<>>]
  BY DEF Init
<1>2. PushInv
  BY <1>1 DEF PushInv
<1>3. ASSUME sender = "server" PROVE ClientTask
  <2>1. ~edge /\ leaving = [r \in Readers |-> FALSE]
    BY Zenon DEF Init
  <2>2. ~leaving[ClientReader]
    BY <2>1, ReaderKnown
  <2>3. /\ \A r \in Readers : r # ClientReader => reader[r] = "idle"
        /\ reader[ClientReader] = "read"
    BY <1>3, ReaderKnown DEF Init
  <2>4. reader[ClientReader] # "idle"
    BY <2>3
  <2> QED BY <1>1, <2>1, <2>2, <2>3, <2>4, Zenon DEF ClientTask
<1>4. chunk[ClientReader] = <<>>
  BY <1>1, ReaderKnown
<1>5. Parsed = <<>> /\ Stream = <<>>
  BY <1>1, <1>4 DEF Parsed, Stream
<1>6. QueueInv /\ ParseInv
  BY <1>1, <1>5 DEF QueueInv, ParseInv
<1>7. StreamInv
  BY <1>1, <1>5 DEF StreamInv, SentUpTo, TakenUpTo, Total
<1>8. ASSUME sender = "server" PROVE SeenInv
  <2>1. reader[ClientReader] = "read"
    BY <1>8, ReaderKnown DEF Init
  <2> QED BY <2>1 DEF SeenInv
<1> QED BY <1>1, <1>2, <1>3, <1>6, <1>7, <1>8 DEF ServerInv

LEMMA ServerStep ==
    ASSUME TypeInv, PushInv, ServerInv, [Next]_vars
    PROVE  ServerInv'
<1>1. CASE UNCHANGED vars
  <2>1. /\ UNCHANGED <<sender, tasks, edge, reader, leaving, failure>>
        /\ UNCHANGED <<pushed, start, sendMessages, sendOffset, bodyLength, readMessages,
                       delivered, buffer, dataLen>>
        /\ Stream' = Stream /\ Parsed' = Parsed
    BY <1>1 DEF vars, sendVars, socketVars, parseVars, readVars, Stream, Parsed
  <2>2. ClientTask => ClientTask'
    BY <2>1, Zenon DEF ClientTask
  <2>3. QueueInv /\ ParseInv /\ StreamInv => QueueInv' /\ ParseInv' /\ StreamInv'
    BY <2>1, StreamKept
  <2>4. SeenInv => SeenInv'
    BY <2>1 DEF SeenInv
  <2> QED BY <2>1, <2>2, <2>3, <2>4 DEF ServerInv, Running
<1>2. CASE Next
  <2> SUFFICES ASSUME sender' = "server"
               PROVE  /\ ClientTask' /\ failure' \in {"none", "overflow"}
                      /\ Running' => QueueInv' /\ ParseInv' /\ StreamInv' /\ SeenInv'
    BY DEF ServerInv
  <2>1. sender = "server"
    BY <1>2 DEF Next, PushMessage, Write, LockSend, TakeMessage, QueueDrained, ClientSend,
       ClientSendFails, ServerSend, ServerSendBlocked, Arrive, CommitRead, Read, StartTask,
       ReadSocket, NothingToRead, EnqueueChunk, SeeHead, TakeHead, SeeBody, TakeBody,
       SeeMessage, DeliverMessage, ParseEnds, sendVars
  <2>2. ClientTask
    BY <2>1 DEF ServerInv
  <2>3. /\ ClientTask' /\ Running /\ ~CommitRead
        /\ \A r \in Readers : Read(r) => /\ r = ClientReader
                                         /\ ~StartTask(r) /\ ~NothingToRead(r)
        /\ \A m \in Messages : ~ClientSend(m) /\ ~ClientSendFails(m)
    BY <1>2, <2>1, <2>2, TaskStep
  <2>4. ServerState
    BY <2>1, <2>2, <2>3 DEF ServerInv, ServerState
  <2>5. AfterStep /\ failure' \in {"none", "overflow"}
    <3>1. CASE \E m \in Messages : PushMessage(m)
      <4>1. failure' = "none"
        BY <2>3, <3>1 DEF PushMessage, Running
      <4> QED BY <2>4, <3>1, <4>1, PushServer
    <3>2. CASE \E m \in Messages : ServerSend(m)
      <4>1. failure' = "none"
        BY <2>3, <3>2 DEF ServerSend, Running
      <4> QED BY <2>4, <3>2, <4>1, SendServer
    <3>3. CASE Arrive \/ \E m \in Messages :
                 LockSend(m) \/ TakeMessage(m) \/ QueueDrained(m) \/ ServerSendBlocked(m)
      <4>1. /\ UNCHANGED <<pushed, start, sendMessages, sendOffset, bodyLength, wire, buffer,
                           chunk, readMessages, delivered, reader, dataLen>>
            /\ failure' = "none"
        BY <2>1, <2>3, <3>3 DEF Arrive, LockSend, TakeMessage, QueueDrained, ServerSendBlocked,
           sendVars, socketVars, parseVars, readVars, Running
      <4> QED BY <2>4, <4>1, QuietServer
    <3>4. CASE \E r \in Readers : Read(r)
      <4>1. Read(ClientReader) /\ ~StartTask(ClientReader) /\ ~NothingToRead(ClientReader)
        BY <2>3, <3>4
      <4>2. \/ ReadSocket(ClientReader) \/ EnqueueChunk(ClientReader)
            \/ SeeHead(ClientReader) \/ SeeBody(ClientReader) \/ SeeMessage(ClientReader)
            \/ DeliverMessage(ClientReader) \/ ParseEnds(ClientReader)
            \/ TakeHead(ClientReader) \/ TakeBody(ClientReader)
        BY <4>1 DEF Read
      <4> QED BY <2>4, <4>2, MoveServer, LookServer, TakeHeadServer, TakeBodyServer
    <3> QED BY <1>2, <2>3, <3>1, <3>2, <3>3, <3>4 DEF Next, Write
  <2> QED BY <2>3, <2>5 DEF AfterStep
<1> QED BY <1>1, <1>2

LEMMA ChannelInvariant == Spec => []ChannelInv
<1>1. Init => ChannelInv
  BY TypeInit, ServerInit DEF ChannelInv
<1>2. ChannelInv /\ [Next]_vars => ChannelInv'
  BY TypeStep, PushStep, ServerStep DEF ChannelInv
<1> QED BY <1>1, <1>2, PTL DEF Spec

\* From a server to its client no byte is lost, doubled or moved, for any sizes
\* and however sends and reads cut the stream: the parser is always at the head
\* or the body of the next message that was written, and what is between it and
\* the sender is every byte of the frames in its place.
THEOREM NoByteLost == Spec => []StreamExact
<1>1. ChannelInv => StreamExact
  <2> SUFFICES ASSUME ChannelInv, sender = "server", failure # "overflow" PROVE
                /\ failure = "none"
                /\ IsPrefix(Parsed, pushed)
                /\ Len(Stream) = SentUpTo - TakenUpTo
                /\ \A i \in DOMAIN Stream : Place(Stream[i]) = TakenUpTo + i
    BY DEF StreamExact
  <2>1. TypeInv /\ failure = "none" /\ ParseInv /\ StreamInv
    BY DEF ChannelInv, ServerInv, Running
  <2>2. Parsed \in Seq(Data) /\ pushed \in Seq(Messages) /\ Stream \in Seq(Bytes)
    BY <2>1, ParsedType, StreamType DEF TypeInv, SendTypes
  <2>3. IsPrefix(Parsed, pushed)
    <3>1. Len(Parsed) \in Nat /\ Len(Parsed) <= Len(pushed)
      BY <2>1, <2>2 DEF ParseInv
    <3>2. SubSeq(Parsed, 1, Len(Parsed)) = SubSeq(pushed, 1, Len(Parsed))
      <4>1. PICK a : a = SubSeq(Parsed, 1, Len(Parsed))
        OBVIOUS
      <4>2. PICK b : b = SubSeq(pushed, 1, Len(Parsed))
        OBVIOUS
      <4>3. /\ a \in Seq(Data) /\ Len(a) = Len(Parsed)
            /\ \A i \in 1 .. Len(Parsed) : a[i] = Parsed[i]
        BY <2>2, <3>1, <4>1, FirstOf
      <4>4. /\ b \in Seq(Messages) /\ Len(b) = Len(Parsed)
            /\ \A i \in 1 .. Len(Parsed) : b[i] = pushed[i]
        BY <2>2, <3>1, <4>2, FirstOf
      <4>5. a = b
        BY <2>1, <4>3, <4>4, SeqEqual DEF ParseInv
      <4> QED BY <4>1, <4>2, <4>5
    <3> QED BY <3>1, <3>2 DEF IsPrefix
  <2>4. DOMAIN Stream = 1 .. Len(Stream)
    BY <2>2
  <2> QED BY <2>1, <2>3, <2>4 DEF StreamInv
<1> QED BY <1>1, ChannelInvariant, PTL

-----------------------------------------------------------------------------
(* Either peer's queue, and how far the stream has been sent                *)

\* A message in a client's hand is the last that left its queue.
HandInv ==
    sender = "client" => \A m \in Messages : inHand[m] # NoMessage =>
        /\ Len(sendMessages) < Len(pushed)
        /\ inHand[m] = pushed[Len(pushed) - Len(sendMessages)]

OrderInv ==
    /\ PushInv /\ QueueInv /\ HandInv
    /\ \A m \in Messages : writer[m] # "none" => \E j \in 1 .. Len(pushed) : pushed[j] = m

InClientsHand == sender = "client" /\ \E m \in Messages : inHand[m] # NoMessage

\* Every byte that was sent is at this place or before it.
Frontier ==
    IF InClientsHand THEN Begin(Len(pushed) - Len(sendMessages) - 1)
    ELSE Begin(Len(pushed) - Len(sendMessages)) + sendOffset

LEMMA LensType ==
    ASSUME TypeInv
    PROVE  /\ sendMessages \in Seq(Messages) /\ pushed \in Seq(Messages)
           /\ Len(sendMessages) \in Nat /\ Len(pushed) \in Nat
           /\ sendOffset \in Nat /\ NoMessage \notin Messages
           /\ inHand \in [Messages -> Messages \cup {NoMessage}]
           /\ start \in [Messages -> Nat]
           /\ writer \in [Messages -> {"none", "pushed", "sending", "returned", "threw"}]
<1>1. /\ sendMessages \in Seq(Messages) /\ pushed \in Seq(Messages)
      /\ sendOffset \in Nat /\ start \in [Messages -> Nat]
      /\ inHand \in [Messages -> Messages \cup {NoMessage}]
  BY DEF TypeInv, SendTypes
<1>2. writer \in [Messages -> {"none", "pushed", "sending", "returned", "threw"}]
  BY DEF TypeInv, TypeOK
<1>3. NoMessage \notin Messages
  BY ChannelAssumption DEF ChannelAssumption
<1> QED BY <1>1, <1>2, <1>3

\* Taking the first message off the queue.
LEMMA QueueTail ==
    ASSUME TypeInv, QueueInv, sendMessages # <<>>, sendMessages' = Tail(sendMessages),
           pushed' = pushed
    PROVE  /\ QueueInv' /\ Len(sendMessages') = Len(sendMessages) - 1
           /\ Len(pushed) - Len(sendMessages) + 1 \in 1 .. Len(pushed)
           /\ sendMessages[1] = pushed[Len(pushed) - Len(sendMessages) + 1]
           /\ sendMessages[1] \in Messages /\ Len(sendMessages) > 0
<1>1. /\ Len(sendMessages) \in Nat /\ Len(pushed) \in Nat /\ Len(sendMessages) > 0
      /\ Len(sendMessages') = Len(sendMessages) - 1 /\ sendMessages[1] \in Messages
      /\ \A i \in 1 .. Len(sendMessages) - 1 : sendMessages'[i] = sendMessages[i + 1]
      /\ Len(sendMessages) <= Len(pushed)
  BY LensType, TailOf DEF QueueInv
<1>2. /\ Len(pushed) - Len(sendMessages) + 1 \in 1 .. Len(pushed) /\ 1 \in 1 .. Len(sendMessages)
  BY <1>1
<1>3. ASSUME NEW i \in 1 .. Len(sendMessages')
      PROVE  sendMessages'[i] = pushed[Len(pushed) - Len(sendMessages') + i]
  <2>1. /\ i + 1 \in 1 .. Len(sendMessages) /\ i \in 1 .. Len(sendMessages) - 1
        /\ Len(pushed) - Len(sendMessages') + i = Len(pushed) - Len(sendMessages) + (i + 1)
    BY <1>1
  <2>2. sendMessages[i + 1] = pushed[Len(pushed) - Len(sendMessages) + (i + 1)]
    BY <2>1 DEF QueueInv
  <2> QED BY <1>1, <2>1, <2>2
<1>4. QueueInv'
  <2>1. Len(sendMessages') <= Len(pushed)
    BY <1>1
  <2> QED BY <1>3, <2>1 DEF QueueInv
<1> QED BY <1>1, <1>2, <1>4 DEF QueueInv

\* What a send puts on the wire: the bytes that follow the frontier.
LEMMA SendMoves ==
    ASSUME TypeInv, OrderInv, NEW m \in Messages, ClientSend(m) \/ ServerSend(m)
    PROVE  \E sent \in Seq(Bytes) :
            /\ wire' = wire \o sent
            /\ QueueInv' /\ HandInv'
            /\ \A i \in 1 .. Len(sent) : /\ Place(sent[i]) = Frontier + i
                                         /\ writer[sent[i][1]] # "none"
            /\ Frontier + Len(sent) <= Frontier'
            /\ Frontier \in Nat
            /\ UNCHANGED <<pushed, start, writer, chunk, buffer, readMessages, delivered,
                           reader, overlapped>>
<1>0. PICK f : f = inHand[m]
  OBVIOUS
<1>1. /\ f # NoMessage /\ Free > 0 /\ f \in Messages /\ Free \in Nat
      /\ \A other \in Messages \ {m} : inHand[other] = NoMessage
  BY <1>0, HandOf, FreeType DEF ClientSend, ServerSend, IsSending
<1>2. /\ inHand' = [inHand EXCEPT ![m] = NoMessage]
      /\ UNCHANGED <<sender, pushed, start, writer, chunk, buffer, readMessages, delivered,
                     reader, overlapped>>
  BY DEF ClientSend, ServerSend, parseVars, readVars
<1>3. \A x \in Messages : inHand'[x] = NoMessage
  BY <1>1, <1>2, LensType
<1>4. ~InClientsHand' /\ HandInv'
  BY <1>3 DEF InClientsHand, HandInv
<1>5. /\ Len(sendMessages) \in Nat /\ Len(pushed) \in Nat /\ sendOffset \in Nat
      /\ FrameLength(f) \in Nat /\ Len(Frame(f)) = FrameLength(f) /\ FrameLength(f) > 0
  BY <1>1, LensType, FrameOf DEF FrameLength
<1>6. CASE ClientSend(m)
  <2>1. /\ wire' = wire \o Taken(m, 0) /\ sender = "client"
        /\ UNCHANGED <<sendMessages, sendOffset>> /\ sendOffset = 0
    BY <1>0, <1>1, <1>6, HandOf DEF ClientSend, IsSending
  <2>2. PICK k : k = Len(pushed) - Len(sendMessages)
    OBVIOUS
  <2>3. k \in 1 .. Len(pushed) /\ f = pushed[k]
    <3>1. HandInv
      BY DEF OrderInv
    <3>2. Len(sendMessages) < Len(pushed) /\ f = pushed[Len(pushed) - Len(sendMessages)]
      BY <1>0, <1>1, <2>1, <3>1 DEF HandInv
    <3> QED BY <1>5, <2>2, <3>2
  <2>4. /\ Begin(k - 1) = start[f] /\ Begin(k) = start[f] + FrameLength(f) /\ start[f] \in Nat
    BY <2>3, BeginOf DEF OrderInv
  <2>5. InClientsHand
    BY <1>0, <1>1, <2>1 DEF InClientsHand
  <2>6. Frontier = start[f]
    BY <2>2, <2>4, <2>5 DEF Frontier
  <2>7. Begin(k)' = Begin(k)
    BY <1>2 DEF Begin, Total
  <2>8. Frontier' = start[f] + FrameLength(f)
    <3>1. Frontier' = Begin(k)' + 0
      BY <1>2, <1>4, <2>1, <2>2 DEF Frontier
    <3> QED BY <1>5, <2>4, <2>7, <3>1
  <2>9. /\ Taken(m, 0) \in Seq(Bytes) /\ Len(Taken(m, 0)) \in Nat
        /\ 0 + Len(Taken(m, 0)) <= FrameLength(f)
        /\ \A i \in 1 .. Len(Taken(m, 0)) : Taken(m, 0)[i] = <<f, 0 + i>>
    BY <1>0, <1>1, <1>5, TakenOf
  <2>10. QueueInv'
    BY <1>2, <2>1 DEF OrderInv, QueueInv
  <2>11. \A i \in 1 .. Len(Taken(m, 0)) :
            Place(Taken(m, 0)[i]) = Frontier + i /\ writer[Taken(m, 0)[i][1]] # "none"
    <3>1. writer[f] # "none"
      BY <2>3 DEF OrderInv, PushInv
    <3> QED BY <2>4, <2>6, <2>9, <3>1 DEF Place
  <2>12. Frontier + Len(Taken(m, 0)) <= Frontier' /\ Frontier \in Nat
    BY <1>5, <2>4, <2>6, <2>8, <2>9
  <2> QED BY <1>2, <1>4, <2>1, <2>9, <2>10, <2>11, <2>12
<1>7. CASE ServerSend(m)
  <2>0. PICK sent : sent = Taken(m, sendOffset)
    OBVIOUS
  <2>1. /\ wire' = wire \o sent /\ sender = "server"
        /\ sendOffset' = NextOffset(m, Len(sent))
        /\ sendMessages' = IF sendOffset + Len(sent) = FrameLength(f)
                           THEN Tail(sendMessages) ELSE sendMessages
        /\ f = sendMessages[1] /\ sendMessages # <<>> /\ sendOffset < FrameLength(f)
    BY <1>0, <1>1, <1>5, <1>7, <2>0, HandOf DEF ServerSend, IsSending
  <2>2. PICK k : k = Len(pushed) - Len(sendMessages) + 1
    OBVIOUS
  <2>3. k \in 1 .. Len(pushed) /\ f = pushed[k]
    <3>1. Len(sendMessages) > 0 /\ Len(sendMessages) <= Len(pushed)
      BY <2>1, LensType DEF OrderInv, QueueInv
    <3>2. k \in 1 .. Len(pushed) /\ 1 \in 1 .. Len(sendMessages)
      BY <1>5, <2>2, <3>1
    <3> QED BY <2>1, <2>2, <3>2 DEF OrderInv, QueueInv
  <2>4. /\ Begin(k - 1) = start[f] /\ Begin(k) = start[f] + FrameLength(f) /\ start[f] \in Nat
    BY <2>3, BeginOf DEF OrderInv
  <2>5. Frontier = start[f] + sendOffset
    <3>1. ~InClientsHand
      BY <2>1 DEF InClientsHand
    <3>2. Len(pushed) - Len(sendMessages) = k - 1
      BY <1>5, <2>2
    <3> QED BY <2>4, <3>1, <3>2 DEF Frontier
  <2>6. /\ sent \in Seq(Bytes) /\ Len(sent) \in Nat /\ sendOffset + Len(sent) <= FrameLength(f)
        /\ \A i \in 1 .. Len(sent) : sent[i] = <<f, sendOffset + i>>
    <3>1. /\ inHand[m] \in Messages /\ sendOffset \in Nat /\ Free \in Nat /\ Free > 0
          /\ sendOffset < FrameLength(inHand[m])
      BY <1>0, <1>1, <1>5, <2>1
    <3>2. /\ Taken(m, sendOffset) \in Seq(Bytes) /\ Len(Taken(m, sendOffset)) \in Nat
          /\ sendOffset + Len(Taken(m, sendOffset)) <= FrameLength(inHand[m])
          /\ \A i \in 1 .. Len(Taken(m, sendOffset)) :
                Taken(m, sendOffset)[i] = <<inHand[m], sendOffset + i>>
      BY <3>1, TakenOf
    <3> QED BY <1>0, <2>0, <3>2
  <2>7. QueueInv' /\ Frontier' = start[f] + (sendOffset + Len(sent))
    <3>1. CASE sendOffset + Len(sent) = FrameLength(f)
      <4>1. sendMessages' = Tail(sendMessages) /\ sendOffset' = 0
        BY <1>0, <1>5, <2>1, <3>1 DEF NextOffset
      <4>2. QueueInv' /\ Len(sendMessages') = Len(sendMessages) - 1
        BY <1>2, <2>1, <4>1, QueueTail DEF OrderInv
      <4>3. Len(pushed) - Len(sendMessages') = k
        BY <1>5, <2>2, <4>2
      <4>4. Begin(k)' = Begin(k)
        BY <1>2 DEF Begin, Total
      <4>5. Frontier' = Begin(k)' + 0
        BY <1>2, <1>4, <4>1, <4>3 DEF Frontier
      <4> QED BY <1>5, <2>4, <3>1, <4>2, <4>4, <4>5
    <3>2. CASE sendOffset + Len(sent) # FrameLength(f)
      <4>1. sendMessages' = sendMessages /\ sendOffset' = sendOffset + Len(sent)
        BY <1>0, <1>5, <2>1, <3>2 DEF NextOffset
      <4>2. QueueInv'
        BY <1>2, <4>1 DEF OrderInv, QueueInv
      <4>3. Len(pushed) - Len(sendMessages) = k - 1
        BY <1>5, <2>2
      <4>4. Begin(k - 1)' = Begin(k - 1)
        BY <1>2 DEF Begin, Total
      <4>5. Frontier' = Begin(k - 1)' + (sendOffset + Len(sent))
        BY <1>2, <1>4, <4>1, <4>3 DEF Frontier
      <4> QED BY <2>4, <4>2, <4>4, <4>5
    <3> QED BY <3>1, <3>2
  <2>8. \A i \in 1 .. Len(sent) : Place(sent[i]) = Frontier + i /\ writer[sent[i][1]] # "none"
    <3>1. writer[f] # "none"
      BY <2>3 DEF OrderInv, PushInv
    <3>2. ASSUME NEW i \in 1 .. Len(sent) PROVE start[f] + (sendOffset + i) = Frontier + i
      BY <1>5, <2>4, <2>5
    <3> QED BY <2>6, <3>1, <3>2 DEF Place
  <2>9. Frontier + Len(sent) <= Frontier' /\ Frontier \in Nat
    BY <1>5, <2>4, <2>5, <2>6, <2>7
  <2> QED BY <1>2, <1>4, <2>1, <2>6, <2>7, <2>8, <2>9
<1> QED BY <1>6, <1>7

\* A write_data call takes a message, fails or ends: the frontier only goes on.
LEMMA CallMoves ==
    ASSUME TypeInv, OrderInv, NEW m \in Messages,
           \/ LockSend(m) \/ TakeMessage(m) \/ QueueDrained(m)
           \/ ClientSendFails(m) \/ ServerSendBlocked(m)
    PROVE  /\ QueueInv' /\ HandInv' /\ Frontier \in Nat /\ Frontier <= Frontier'
           /\ UNCHANGED <<pushed, start, wire, chunk, buffer, readMessages, delivered, reader,
                          overlapped>>
           /\ \A x \in Messages : writer[x] # "none" => writer'[x] # "none"
<1>1. /\ UNCHANGED <<pushed, start, wire, chunk, buffer, readMessages, delivered, reader,
                     overlapped, sender, sendOffset>>
  BY DEF LockSend, TakeMessage, QueueDrained, ClientSendFails, ServerSendBlocked, socketVars,
     parseVars, readVars
<1>2. \A x \in Messages : writer[x] # "none" => writer'[x] # "none"
  BY LensType DEF LockSend, TakeMessage, QueueDrained, ClientSendFails, ServerSendBlocked, UnlockSend
<1>3. /\ Len(sendMessages) \in Nat /\ Len(pushed) \in Nat /\ sendOffset \in Nat
      /\ Len(sendMessages) <= Len(pushed)
      /\ inHand \in [Messages -> Messages \cup {NoMessage}] /\ NoMessage \notin Messages
  BY LensType DEF OrderInv, QueueInv
<1>4. \A n : Begin(n)' = Begin(n)
  BY <1>1 DEF Begin, Total
<1>5. PICK k : k = Len(pushed) - Len(sendMessages)
  OBVIOUS
<1>6. k \in 0 .. Len(pushed) /\ Begin(k) \in Nat
  BY <1>3, <1>5, BeginType DEF OrderInv
<1>7. ASSUME k > 0 PROVE Begin(k - 1) \in Nat /\ Begin(k - 1) <= Begin(k)
  <2>1. k \in 1 .. Len(pushed)
    BY <1>3, <1>6, <1>7
  <2> QED BY <2>1, BeginOf DEF OrderInv
<1>8. InClientsHand => k > 0
  BY <1>3, <1>5 DEF InClientsHand, OrderInv, HandInv
<1>9. Frontier = IF InClientsHand THEN Begin(k - 1) ELSE Begin(k) + sendOffset
  BY <1>5 DEF Frontier
<1>10. Frontier \in Nat
  BY <1>3, <1>6, <1>7, <1>8, <1>9
<1>11. CASE TakeMessage(m)
  <2>1. /\ inHand[m] = NoMessage /\ sendMessages # <<>>
        /\ inHand' = [inHand EXCEPT ![m] = sendMessages[1]] /\ sendLock = m
        /\ sendMessages' = IF sender = "client" THEN Tail(sendMessages) ELSE sendMessages
    BY <1>11 DEF TakeMessage, TypeInv, TypeOK
  <2>2. \A x \in Messages : inHand[x] = NoMessage
    BY <2>1 DEF TypeInv, TypeOK
  <2>3. ~InClientsHand
    BY <2>2 DEF InClientsHand
  <2>4. CASE sender = "client"
    <3>1. /\ QueueInv' /\ Len(sendMessages') = Len(sendMessages) - 1
          /\ Len(pushed) - Len(sendMessages) + 1 \in 1 .. Len(pushed)
          /\ sendMessages[1] = pushed[Len(pushed) - Len(sendMessages) + 1]
          /\ sendMessages[1] \in Messages /\ Len(sendMessages) > 0
      BY <1>1, <2>1, <2>4, QueueTail DEF OrderInv
    <3>2. Len(pushed') - Len(sendMessages') = k + 1 /\ Len(sendMessages') < Len(pushed')
      BY <1>1, <1>3, <1>5, <3>1
    <3>3. \A x \in Messages : inHand'[x] # NoMessage => x = m /\ inHand'[x] = sendMessages[1]
      BY <1>3, <2>1, <2>2
    <3>4. HandInv'
      BY <1>1, <1>5, <3>1, <3>2, <3>3 DEF HandInv
    <3>5. InClientsHand'
      <4>1. inHand'[m] # NoMessage
        BY <1>3, <2>1, <3>1
      <4> QED BY <1>1, <2>4, <4>1 DEF InClientsHand
    <3>6. Frontier' = Begin((k + 1) - 1)'
      BY <3>2, <3>5 DEF Frontier
    <3>7. (k + 1) - 1 = k
      BY <1>6
    <3>8. sendOffset = 0
      BY <2>4 DEF TypeInv, SendTypes
    <3>9. Frontier' = Frontier
      BY <1>4, <1>6, <1>9, <2>3, <3>6, <3>7, <3>8
    <3> QED BY <1>1, <1>2, <1>10, <3>1, <3>4, <3>9
  <2>5. CASE sender # "client"
    <3>1. sendMessages' = sendMessages
      BY <2>1, <2>5
    <3>2. QueueInv' /\ HandInv'
      BY <1>1, <2>5, <3>1 DEF OrderInv, QueueInv, HandInv
    <3>3. Frontier' = Begin(k)' + sendOffset
      BY <1>1, <1>5, <2>5, <3>1 DEF Frontier, InClientsHand
    <3> QED BY <1>1, <1>2, <1>4, <1>9, <1>10, <2>3, <3>2, <3>3
  <2> QED BY <2>4, <2>5
<1>12. CASE LockSend(m)
  <2>1. sendMessages' = sendMessages /\ inHand' = inHand
    BY <1>12 DEF LockSend
  <2>2. QueueInv' /\ HandInv'
    BY <1>1, <2>1 DEF OrderInv, QueueInv, HandInv
  <2>3. Frontier' = Frontier
    BY <1>1, <1>4, <2>1 DEF Frontier, InClientsHand
  <2> QED BY <1>1, <1>2, <1>10, <2>2, <2>3
<1>13. CASE QueueDrained(m) \/ ClientSendFails(m) \/ ServerSendBlocked(m)
  <2>1. sendMessages' = sendMessages /\ inHand' = [inHand EXCEPT ![m] = NoMessage] /\ sendLock = m
    BY <1>13, HandOf DEF QueueDrained, ClientSendFails, ServerSendBlocked, UnlockSend, IsSending,
       TypeInv, TypeOK
  <2>2. \A x \in Messages : inHand'[x] = NoMessage
    BY <1>3, <2>1 DEF TypeInv, TypeOK
  <2>3. QueueInv' /\ HandInv' /\ ~InClientsHand'
    BY <1>1, <2>1, <2>2 DEF OrderInv, QueueInv, HandInv, InClientsHand
  <2>4. Frontier' = Begin(k)' + sendOffset
    BY <1>1, <1>5, <2>1, <2>3 DEF Frontier
  <2>5. Frontier' = Begin(k) + sendOffset
    BY <1>4, <2>4
  <2>6. Frontier <= Frontier'
    BY <1>3, <1>6, <1>7, <1>8, <1>9, <2>5
  <2> QED BY <1>1, <1>2, <1>10, <2>3, <2>6
<1> QED BY <1>11, <1>12, <1>13

\* A new message leaves the frontier where it is.
LEMMA PushKeepsFrontier ==
    ASSUME TypeInv, OrderInv, NEW m \in Messages, PushMessage(m)
    PROVE  /\ QueueInv' /\ HandInv' /\ Frontier' = Frontier /\ Frontier \in Nat
           /\ \A x \in Messages : writer[x] # "none" => writer'[x] # "none" /\ start'[x] = start[x]
<1>1. /\ PushInv' /\ Len(pushed') = Len(pushed) + 1 /\ pushed'[Len(pushed) + 1] = m
      /\ \A i \in 1 .. Len(pushed) : pushed'[i] = pushed[i] /\ pushed[i] # m
      /\ \A x \in Messages : x # m => start'[x] = start[x]
      /\ \A n \in 0 .. Len(pushed) : Begin(n)' = Begin(n)
  BY PushMoves DEF OrderInv
<1>2. /\ sendMessages' = Append(sendMessages, m) /\ writer[m] = "none"
      /\ writer' = [writer EXCEPT ![m] = "pushed"]
      /\ UNCHANGED <<sender, sendOffset, inHand>>
  BY DEF PushMessage
<1>3. /\ sendMessages \in Seq(Messages) /\ Len(sendMessages) \in Nat /\ Len(pushed) \in Nat
      /\ sendOffset \in Nat /\ Len(sendMessages) <= Len(pushed)
  BY LensType DEF OrderInv, QueueInv
<1>4. /\ Len(sendMessages') = Len(sendMessages) + 1 /\ sendMessages'[Len(sendMessages) + 1] = m
      /\ \A i \in 1 .. Len(sendMessages) : sendMessages'[i] = sendMessages[i]
  BY <1>2, <1>3, Appended
<1>5. PICK k : k = Len(pushed) - Len(sendMessages)
  OBVIOUS
<1>6. k \in 0 .. Len(pushed) /\ Len(pushed') - Len(sendMessages') = k
  BY <1>1, <1>3, <1>4, <1>5
<1>7. QueueInv'
  <2>1. ASSUME NEW i \in 1 .. Len(sendMessages')
        PROVE  sendMessages'[i] = pushed'[Len(pushed') - Len(sendMessages') + i]
    <3>1. CASE i = Len(sendMessages) + 1
      <4>1. k + i = Len(pushed) + 1
        BY <1>3, <1>5, <3>1
      <4> QED BY <1>1, <1>4, <1>6, <3>1, <4>1
    <3>2. CASE i \in 1 .. Len(sendMessages)
      <4>1. k + i \in 1 .. Len(pushed)
        BY <1>3, <1>5, <3>2
      <4>2. sendMessages[i] = pushed[k + i]
        BY <1>5, <3>2 DEF OrderInv, QueueInv
      <4> QED BY <1>1, <1>4, <1>6, <3>2, <4>1, <4>2
    <3> QED BY <1>3, <1>4, <3>1, <3>2
  <2> QED BY <1>1, <1>3, <1>4, <2>1 DEF QueueInv
<1>8. HandInv'
  <2> SUFFICES ASSUME sender' = "client", NEW x \in Messages, inHand'[x] # NoMessage
               PROVE  /\ Len(sendMessages') < Len(pushed')
                      /\ inHand'[x] = pushed'[Len(pushed') - Len(sendMessages')]
    BY DEF HandInv
  <2>1. Len(sendMessages) < Len(pushed) /\ inHand[x] = pushed[k]
    BY <1>2, <1>5 DEF OrderInv, HandInv
  <2>2. k \in 1 .. Len(pushed)
    BY <1>3, <1>5, <2>1
  <2> QED BY <1>1, <1>2, <1>3, <1>4, <1>6, <2>1, <2>2
<1>9. Frontier' = Frontier /\ Frontier \in Nat
  <2>1. Begin(k)' = Begin(k) /\ Begin(k) \in Nat
    BY <1>1, <1>6, BeginType DEF OrderInv
  <2>2. ASSUME InClientsHand PROVE Begin(k - 1)' = Begin(k - 1) /\ Begin(k - 1) \in Nat
    <3>1. k > 0
      BY <1>3, <1>5, <2>2 DEF InClientsHand, OrderInv, HandInv
    <3>2. k - 1 \in 0 .. Len(pushed)
      BY <1>3, <1>6, <3>1
    <3> QED BY <1>1, <3>2, BeginType DEF OrderInv
  <2>3. InClientsHand' = InClientsHand
    BY <1>2 DEF InClientsHand
  <2>4. Frontier = IF InClientsHand THEN Begin(k - 1) ELSE Begin(k) + sendOffset
    BY <1>5 DEF Frontier
  <2>5. Frontier' = IF InClientsHand THEN Begin(k - 1)' ELSE Begin(k)' + sendOffset
    BY <1>2, <1>6, <2>3 DEF Frontier
  <2> QED BY <1>3, <2>1, <2>2, <2>4, <2>5
<1>10. ASSUME NEW x \in Messages, writer[x] # "none"
       PROVE  writer'[x] # "none" /\ start'[x] = start[x]
  <2>1. x # m
    BY <1>2, <1>10
  <2> QED BY <1>1, <1>2, <1>10, <2>1, LensType
<1> QED BY <1>7, <1>8, <1>9, <1>10

\* The steps of the other end and of the socket.
LEMMA OthersKeepFrontier ==
    ASSUME UNCHANGED sendVars
    PROVE  /\ QueueInv => QueueInv'
           /\ HandInv => HandInv'
           /\ Frontier' = Frontier
BY DEF sendVars, QueueInv, HandInv, Frontier, InClientsHand, Begin, Total

LEMMA OrderStep ==
    ASSUME TypeInv, OrderInv, [Next]_vars
    PROVE  OrderInv'
<1>1. PushInv'
  BY PushStep DEF OrderInv
<1>2. QueueInv' /\ HandInv'
  <2>1. CASE UNCHANGED sendVars
    BY <2>1, OthersKeepFrontier DEF OrderInv
  <2>2. CASE UNCHANGED vars
    BY <2>1, <2>2 DEF vars
  <2>3. ASSUME NEW r \in Readers, Read(r) PROVE UNCHANGED sendVars
    BY <2>3 DEF Read, StartTask, ReadSocket, NothingToRead, EnqueueChunk, SeeHead, TakeHead,
       SeeBody, TakeBody, SeeMessage, DeliverMessage, ParseEnds
  <2>4. CASE Arrive \/ CommitRead
    BY <2>1, <2>4 DEF Arrive, CommitRead
  <2>5. ASSUME NEW m \in Messages, PushMessage(m) \/ Write(m) PROVE QueueInv' /\ HandInv'
    BY <2>5, PushKeepsFrontier, SendMoves, CallMoves DEF Write
  <2> QED BY <2>1, <2>2, <2>3, <2>4, <2>5 DEF Next
<1>3. ASSUME NEW m \in Messages, writer'[m] # "none"
      PROVE  \E j \in 1 .. Len(pushed') : pushed'[j] = m
  <2>1. CASE PushMessage(m)
    <3>1. /\ Len(pushed') = Len(pushed) + 1 /\ pushed'[Len(pushed) + 1] = m
          /\ Len(pushed) \in Nat
      BY <2>1, PushMoves, LensType DEF OrderInv
    <3> QED BY <3>1
  <2>2. CASE ~PushMessage(m)
    <3>1. writer[m] # "none"
      <4>1. \/ writer' = writer
            \/ \E x \in Messages, outcome \in {"sending", "returned", "threw"} :
                  writer' = [writer EXCEPT ![x] = outcome] /\ (writer[x] # "none")
            \/ \E x \in Messages \ {m} : writer' = [writer EXCEPT ![x] = "pushed"]
        <5>1. ASSUME NEW x \in Messages, Write(x)
              PROVE  \/ writer' = writer
                     \/ \E outcome \in {"sending", "returned", "threw"} :
                            writer' = [writer EXCEPT ![x] = outcome] /\ (writer[x] # "none")
          <6>1. CASE LockSend(x) \/ TakeMessage(x) \/ ClientSend(x) \/ ServerSend(x)
            BY <6>1 DEF LockSend, TakeMessage, ClientSend, ServerSend
          <6>2. CASE QueueDrained(x) \/ ClientSendFails(x) \/ ServerSendBlocked(x)
            <7>1. writer[x] = "sending"
              BY <6>2, HandOf DEF QueueDrained, ClientSendFails, ServerSendBlocked, IsSending
            <7> QED BY <6>2, <7>1 DEF QueueDrained, ClientSendFails, ServerSendBlocked, UnlockSend
          <6> QED BY <5>1, <6>1, <6>2 DEF Write
        <5>2. ASSUME NEW x \in Messages, PushMessage(x)
              PROVE  \E y \in Messages \ {m} : writer' = [writer EXCEPT ![y] = "pushed"]
          BY <2>2, <5>2 DEF PushMessage
        <5>3. CASE UNCHANGED vars \/ Arrive \/ CommitRead \/ \E r \in Readers : Read(r)
          BY <5>3 DEF vars, Arrive, CommitRead, Read, StartTask, ReadSocket, NothingToRead,
             EnqueueChunk, SeeHead, TakeHead, SeeBody, TakeBody, SeeMessage, DeliverMessage,
             ParseEnds, sendVars
        <5> QED BY <5>1, <5>2, <5>3 DEF Next
      <4> QED BY <1>3, <4>1, LensType
    <3>2. PICK j \in 1 .. Len(pushed) : pushed[j] = m
      BY <3>1 DEF OrderInv
    <3>3. j \in 1 .. Len(pushed') /\ pushed'[j] = pushed[j]
      <4>1. CASE pushed' = pushed
        BY <4>1
      <4>2. CASE \E x \in Messages : PushMessage(x)
        <5>1. Len(pushed') = Len(pushed) + 1 /\ pushed'[j] = pushed[j] /\ Len(pushed) \in Nat
          BY <4>2, PushMoves, LensType DEF OrderInv
        <5> QED BY <5>1
      <4>3. pushed' = pushed \/ \E x \in Messages : PushMessage(x)
        BY DEF Next, vars, Write, LockSend, TakeMessage, QueueDrained, ClientSend,
           ClientSendFails, ServerSend, ServerSendBlocked, Arrive, CommitRead, Read, StartTask,
           ReadSocket, NothingToRead, EnqueueChunk, SeeHead, TakeHead, SeeBody, TakeBody,
           SeeMessage, DeliverMessage, ParseEnds, sendVars
      <4> QED BY <4>1, <4>2, <4>3
    <3> QED BY <3>2, <3>3
  <2> QED BY <2>1, <2>2
<1> QED BY <1>1, <1>2, <1>3 DEF OrderInv

LEMMA FrontierType ==
    ASSUME TypeInv, OrderInv
    PROVE  Frontier \in Nat
<1>1. /\ Len(sendMessages) \in Nat /\ Len(pushed) \in Nat /\ sendOffset \in Nat
      /\ Len(sendMessages) <= Len(pushed)
  BY LensType DEF OrderInv, QueueInv
<1>2. PICK k : k = Len(pushed) - Len(sendMessages)
  OBVIOUS
<1>3. k \in 0 .. Len(pushed) /\ Begin(k) \in Nat
  BY <1>1, <1>2, BeginType DEF OrderInv
<1>4. CASE InClientsHand
  <2>1. k > 0
    BY <1>1, <1>2, <1>4 DEF InClientsHand, OrderInv, HandInv
  <2>2. k - 1 \in 0 .. Len(pushed)
    BY <1>1, <1>3, <2>1
  <2>3. Begin(k - 1) \in Nat
    BY <2>2, BeginType DEF OrderInv
  <2> QED BY <1>2, <1>4, <2>3 DEF Frontier
<1>5. CASE ~InClientsHand
  BY <1>1, <1>2, <1>3, <1>5 DEF Frontier
<1> QED BY <1>4, <1>5

\* The same after a step.
FrontierKnown == TypeInv /\ OrderInv => Frontier \in Nat

LEMMA FrontierNext == FrontierKnown'
<1>1. FrontierKnown
  BY FrontierType DEF FrontierKnown
<1> QED BY <1>1, PTL

-----------------------------------------------------------------------------
(* No byte is anywhere twice                                                *)

Known(s) == \A i \in 1 .. Len(s) : writer[s[i][1]] # "none" /\ Place(s[i]) <= Frontier
Ordered(s) == \A i, j \in 1 .. Len(s) : i < j => Place(s[i]) < Place(s[j])
Distinct(s) == \A i, j \in 1 .. Len(s) : i # j => Place(s[i]) # Place(s[j])
Before(s, t) == \A i \in 1 .. Len(s), j \in 1 .. Len(t) : Place(s[i]) < Place(t[j])
Apart(s, t) == \A i \in 1 .. Len(s), j \in 1 .. Len(t) : Place(s[i]) # Place(t[j])

\* The first byte of a body goes where its message goes: it marks the message.
\* Garbage is marked by nothing.
Whole(p) == {i \in 1 .. Len(p) : p[i] # Garbage}
Mark(m) == start[m] + HeadLength + 1
Unmarked(s) == \A i \in Whole(Parsed), j \in 1 .. Len(s) : Mark(Parsed[i]) # Place(s[j])
AllAfter(s) == \A i \in Whole(Parsed), j \in 1 .. Len(s) : Mark(Parsed[i]) < Place(s[j])

WireInv == Known(wire) /\ Ordered(wire) /\ Unmarked(wire)
BufferInv == Known(buffer) /\ Distinct(buffer) /\ Before(buffer, wire) /\ Unmarked(buffer)
ChunkInv(r) ==
    /\ Known(chunk[r]) /\ Ordered(chunk[r]) /\ Before(chunk[r], wire) /\ Apart(buffer, chunk[r])
    /\ Unmarked(chunk[r])
ChunksApart == \A r, x \in Readers : r # x => Apart(chunk[r], chunk[x])
ParsedOnce ==
    /\ \A i \in Whole(Parsed) : writer[Parsed[i]] # "none" /\ Mark(Parsed[i]) <= Frontier
    /\ \A i, j \in Whole(Parsed) : i # j => Parsed[i] # Parsed[j]

\* However many threads read and parse at once.
BytesInv ==
    /\ WireInv /\ BufferInv /\ (\A r \in Readers : ChunkInv(r)) /\ ChunksApart /\ ParsedOnce

\* As long as one at a time does.
OneReader ==
    /\ \A r, x \in Readers : reader[r] # "idle" /\ reader[x] # "idle" => r = x
    /\ Ordered(buffer) /\ AllAfter(buffer) /\ AllAfter(wire)
    /\ \A r \in Readers : Before(buffer, chunk[r]) /\ AllAfter(chunk[r])
    /\ \A i, j \in Whole(Parsed) : i < j => start[Parsed[i]] < start[Parsed[j]]

LEMMA PlaceType ==
    ASSUME TypeInv
    PROVE  /\ \A b \in Bytes : Place(b) \in Nat /\ b[1] \in Messages
           /\ \A m \in Messages : Mark(m) \in Nat /\ start[m] \in Nat
           /\ wire \in Seq(Bytes) /\ buffer \in Seq(Bytes) /\ Parsed \in Seq(Data)
           /\ \A i \in Whole(Parsed) : i \in 1 .. Len(Parsed) /\ Parsed[i] \in Messages
           /\ chunk \in [Readers -> Seq(Bytes)]
           /\ HeadLength \in Nat
<1>1. start \in [Messages -> Nat] /\ HeadLength \in Nat
  BY ChannelAssumption DEF ChannelAssumption, TypeInv, SendTypes
<1>2. \A b \in Bytes : b[1] \in Messages /\ b[2] \in Nat
  BY DEF Bytes
<1>3. \A b \in Bytes : Place(b) \in Nat
  BY <1>1, <1>2 DEF Place
<1>4. \A m \in Messages : Mark(m) \in Nat
  BY <1>1 DEF Mark
<1>5. Parsed \in Seq(Data)
  BY ParsedType
<1>6. \A i \in Whole(Parsed) : i \in 1 .. Len(Parsed) /\ Parsed[i] \in Messages
  BY <1>5 DEF Whole, Data
<1> QED BY <1>1, <1>2, <1>3, <1>4, <1>5, <1>6 DEF TypeInv, ReadTypes

\* Steps that move no byte, and may push a message or move the frontier on.
LEMMA BytesKept ==
    ASSUME TypeInv, BytesInv, Frontier \in Nat, Frontier' \in Nat, Frontier <= Frontier',
           UNCHANGED <<wire, buffer, chunk>>, Parsed' = Parsed,
           \A x \in Messages : writer[x] # "none" => writer'[x] # "none" /\ start'[x] = start[x]
    PROVE  /\ BytesInv'
           /\ OneReader /\ reader' = reader => OneReader'
<1>0. \A b \in Bytes : Place(b) = start[b[1]] + b[2]
  BY DEF Place
<1>1. ASSUME NEW s \in Seq(Bytes), Known(s)
      PROVE  /\ \A i \in 1 .. Len(s) : /\ start'[s[i][1]] = start[s[i][1]]
                                       /\ start'[s[i][1]] + s[i][2] = Place(s[i])
                                       /\ start'[s[i][1]] + s[i][2] <= Frontier'
                                       /\ writer'[s[i][1]] # "none"
  <2> SUFFICES ASSUME NEW i \in 1 .. Len(s)
               PROVE  /\ start'[s[i][1]] = start[s[i][1]]
                      /\ start'[s[i][1]] + s[i][2] = Place(s[i])
                      /\ start'[s[i][1]] + s[i][2] <= Frontier'
                      /\ writer'[s[i][1]] # "none"
    OBVIOUS
  <2>1. s[i] \in Bytes /\ s[i][1] \in Messages /\ Place(s[i]) \in Nat /\ Place(s[i]) <= Frontier
        /\ writer[s[i][1]] # "none"
    BY <1>1, PlaceType DEF Known
  <2>2. start'[s[i][1]] = start[s[i][1]] /\ writer'[s[i][1]] # "none"
    BY <2>1
  <2>3. Place(s[i]) <= Frontier'
    BY <2>1
  <2>4. start'[s[i][1]] + s[i][2] = Place(s[i])
    BY <1>0, <2>1, <2>2
  <2> QED BY <2>2, <2>3, <2>4
<1>2. \A i \in Whole(Parsed) :
        /\ start'[Parsed[i]] = start[Parsed[i]] /\ writer'[Parsed[i]] # "none"
        /\ start'[Parsed[i]] + HeadLength + 1 = Mark(Parsed[i])
        /\ start'[Parsed[i]] + HeadLength + 1 <= Frontier'
  <2> TAKE i \in Whole(Parsed)
  <2>1. Parsed[i] \in Messages /\ writer[Parsed[i]] # "none" /\ Mark(Parsed[i]) <= Frontier
        /\ Mark(Parsed[i]) \in Nat
    BY PlaceType DEF BytesInv, ParsedOnce
  <2>2. start'[Parsed[i]] = start[Parsed[i]] /\ writer'[Parsed[i]] # "none"
    BY <2>1
  <2>3. Mark(Parsed[i]) <= Frontier'
    BY <2>1
  <2> QED BY <2>2, <2>3 DEF Mark
<1>3. /\ wire \in Seq(Bytes) /\ Known(wire) /\ buffer \in Seq(Bytes) /\ Known(buffer)
      /\ \A r \in Readers : chunk[r] \in Seq(Bytes) /\ Known(chunk[r])
  BY PlaceType DEF BytesInv, WireInv, BufferInv, ChunkInv
<1>4. /\ \A i \in 1 .. Len(wire) : start'[wire[i][1]] + wire[i][2] = Place(wire[i])
      /\ \A i \in 1 .. Len(buffer) : start'[buffer[i][1]] + buffer[i][2] = Place(buffer[i])
      /\ \A r \in Readers : \A i \in 1 .. Len(chunk[r]) :
            start'[chunk[r][i][1]] + chunk[r][i][2] = Place(chunk[r][i])
  BY <1>1, <1>3
<1>5. WireInv'
  <2>1. Known(wire)'
    BY <1>1, <1>3 DEF Known, Place
  <2>2. Ordered(wire)'
    <3> SUFFICES ASSUME NEW i \in 1 .. Len(wire), NEW j \in 1 .. Len(wire), i < j
                 PROVE  start'[wire[i][1]] + wire[i][2] < start'[wire[j][1]] + wire[j][2]
      BY DEF Ordered, Place
    <3> QED BY <1>4 DEF BytesInv, WireInv, Ordered
  <2>3. Unmarked(wire)'
    <3> SUFFICES ASSUME NEW i \in Whole(Parsed), NEW j \in 1 .. Len(wire)
                 PROVE  start'[Parsed[i]] + HeadLength + 1 # start'[wire[j][1]] + wire[j][2]
      BY DEF Unmarked, Mark, Place
    <3> QED BY <1>2, <1>4 DEF BytesInv, WireInv, Unmarked
  <2> QED BY <2>1, <2>2, <2>3 DEF WireInv
<1>6. BufferInv'
  <2>1. Known(buffer)'
    BY <1>1, <1>3 DEF Known, Place
  <2>2. Distinct(buffer)'
    <3> SUFFICES ASSUME NEW i \in 1 .. Len(buffer), NEW j \in 1 .. Len(buffer), i # j
                 PROVE  start'[buffer[i][1]] + buffer[i][2] # start'[buffer[j][1]] + buffer[j][2]
      BY DEF Distinct, Place
    <3> QED BY <1>4 DEF BytesInv, BufferInv, Distinct
  <2>3. Before(buffer, wire)'
    <3> SUFFICES ASSUME NEW i \in 1 .. Len(buffer), NEW j \in 1 .. Len(wire)
                 PROVE  start'[buffer[i][1]] + buffer[i][2] < start'[wire[j][1]] + wire[j][2]
      BY DEF Before, Place
    <3> QED BY <1>4 DEF BytesInv, BufferInv, Before
  <2>4. Unmarked(buffer)'
    <3> SUFFICES ASSUME NEW i \in Whole(Parsed), NEW j \in 1 .. Len(buffer)
                 PROVE  start'[Parsed[i]] + HeadLength + 1 # start'[buffer[j][1]] + buffer[j][2]
      BY DEF Unmarked, Mark, Place
    <3> QED BY <1>2, <1>4 DEF BytesInv, BufferInv, Unmarked
  <2> QED BY <2>1, <2>2, <2>3, <2>4 DEF BufferInv, Before
<1>7. ASSUME NEW r \in Readers PROVE ChunkInv(r)'
  <2>0. ChunkInv(r) /\ chunk[r] \in Seq(Bytes)
    BY <1>3 DEF BytesInv
  <2>1. Known(chunk[r])'
    BY <1>1, <1>3 DEF Known, Place
  <2>2. Ordered(chunk[r])'
    <3> SUFFICES ASSUME NEW i \in 1 .. Len(chunk[r]), NEW j \in 1 .. Len(chunk[r]), i < j
                 PROVE  start'[chunk[r][i][1]] + chunk[r][i][2]
                        < start'[chunk[r][j][1]] + chunk[r][j][2]
      BY DEF Ordered, Place
    <3> QED BY <1>4, <2>0 DEF ChunkInv, Ordered
  <2>3. Before(chunk[r], wire)'
    <3> SUFFICES ASSUME NEW i \in 1 .. Len(chunk[r]), NEW j \in 1 .. Len(wire)
                 PROVE  start'[chunk[r][i][1]] + chunk[r][i][2] < start'[wire[j][1]] + wire[j][2]
      BY DEF Before, Place
    <3> QED BY <1>4, <2>0 DEF ChunkInv, Before
  <2>4. Apart(buffer, chunk[r])'
    <3> SUFFICES ASSUME NEW i \in 1 .. Len(buffer), NEW j \in 1 .. Len(chunk[r])
                 PROVE  start'[buffer[i][1]] + buffer[i][2]
                        # start'[chunk[r][j][1]] + chunk[r][j][2]
      BY DEF Apart, Place
    <3> QED BY <1>4, <2>0 DEF ChunkInv, Apart
  <2>5. Unmarked(chunk[r])'
    <3> SUFFICES ASSUME NEW i \in Whole(Parsed), NEW j \in 1 .. Len(chunk[r])
                 PROVE  start'[Parsed[i]] + HeadLength + 1
                        # start'[chunk[r][j][1]] + chunk[r][j][2]
      BY DEF Unmarked, Mark, Place
    <3> QED BY <1>2, <1>4, <2>0 DEF ChunkInv, Unmarked
  <2> QED BY <2>1, <2>2, <2>3, <2>4, <2>5 DEF ChunkInv, Before, Apart
<1>8. ChunksApart'
  <2> SUFFICES ASSUME NEW r \in Readers, NEW x \in Readers, r # x,
                      NEW i \in 1 .. Len(chunk[r]), NEW j \in 1 .. Len(chunk[x])
               PROVE  start'[chunk[r][i][1]] + chunk[r][i][2]
                      # start'[chunk[x][j][1]] + chunk[x][j][2]
    BY DEF ChunksApart, Apart, Place
  <2> QED BY <1>4 DEF BytesInv, ChunksApart, Apart
<1>9. ParsedOnce'
  BY <1>2 DEF BytesInv, ParsedOnce, Mark
<1>10. ASSUME OneReader, reader' = reader PROVE OneReader'
  <2>1. Ordered(buffer)'
    <3> SUFFICES ASSUME NEW i \in 1 .. Len(buffer), NEW j \in 1 .. Len(buffer), i < j
                 PROVE  start'[buffer[i][1]] + buffer[i][2] < start'[buffer[j][1]] + buffer[j][2]
      BY DEF Ordered, Place
    <3> QED BY <1>4, <1>10 DEF OneReader, Ordered
  <2>2. AllAfter(buffer)'
    <3> SUFFICES ASSUME NEW i \in Whole(Parsed), NEW j \in 1 .. Len(buffer)
                 PROVE  start'[Parsed[i]] + HeadLength + 1 < start'[buffer[j][1]] + buffer[j][2]
      BY DEF AllAfter, Mark, Place
    <3> QED BY <1>2, <1>4, <1>10 DEF OneReader, AllAfter
  <2>3. AllAfter(wire)'
    <3> SUFFICES ASSUME NEW i \in Whole(Parsed), NEW j \in 1 .. Len(wire)
                 PROVE  start'[Parsed[i]] + HeadLength + 1 < start'[wire[j][1]] + wire[j][2]
      BY DEF AllAfter, Mark, Place
    <3> QED BY <1>2, <1>4, <1>10 DEF OneReader, AllAfter
  <2>4. ASSUME NEW r \in Readers PROVE Before(buffer, chunk[r])'
    <3> SUFFICES ASSUME NEW i \in 1 .. Len(buffer), NEW j \in 1 .. Len(chunk[r])
                 PROVE  start'[buffer[i][1]] + buffer[i][2]
                        < start'[chunk[r][j][1]] + chunk[r][j][2]
      BY DEF Before, Place
    <3> QED BY <1>4, <1>10 DEF OneReader, Before
  <2>5. ASSUME NEW r \in Readers PROVE AllAfter(chunk[r])'
    <3> SUFFICES ASSUME NEW i \in Whole(Parsed), NEW j \in 1 .. Len(chunk[r])
                 PROVE  start'[Parsed[i]] + HeadLength + 1
                        < start'[chunk[r][j][1]] + chunk[r][j][2]
      BY DEF AllAfter, Mark, Place
    <3> QED BY <1>2, <1>4, <1>10 DEF OneReader, AllAfter
  <2> QED BY <1>2, <1>10, <2>1, <2>2, <2>3, <2>4, <2>5 DEF OneReader, Before
<1> QED BY <1>5, <1>6, <1>7, <1>8, <1>9, <1>10 DEF BytesInv

LEMMA ChunksStayApart ==
    ASSUME ChunksApart, UNCHANGED <<chunk, start>>
    PROVE  ChunksApart'
BY DEF ChunksApart, Apart, Place

\* A send puts bytes beyond the frontier behind those on the wire.
LEMMA BytesSent ==
    ASSUME TypeInv, BytesInv, Frontier \in Nat, Frontier' \in Nat, NEW sent \in Seq(Bytes),
           wire' = wire \o sent, Frontier + Len(sent) <= Frontier',
           \A i \in 1 .. Len(sent) : Place(sent[i]) = Frontier + i /\ writer[sent[i][1]] # "none",
           UNCHANGED <<buffer, chunk, start, writer, reader>>, Parsed' = Parsed
    PROVE  BytesInv' /\ (OneReader => OneReader')
<1>1. /\ wire \in Seq(Bytes) /\ Len(wire) \in Nat /\ Len(sent) \in Nat
      /\ Len(wire') = Len(wire) + Len(sent)
  BY PlaceType, ConcatProperties
<1>2. ASSUME NEW i \in 1 .. Len(wire')
      PROVE  \/ i \in 1 .. Len(wire) /\ wire'[i] = wire[i]
             \/ /\ i > Len(wire) /\ wire'[i] = sent[i - Len(wire)] /\ i - Len(wire) \in 1 .. Len(sent)
                /\ Place(wire'[i]) = Frontier + (i - Len(wire)) /\ writer[wire'[i][1]] # "none"
                /\ Place(wire'[i]) > Frontier /\ Place(wire'[i]) <= Frontier'
  <2>1. CASE i <= Len(wire)
    BY <1>1, <2>1
  <2>2. CASE i > Len(wire)
    <3>1. i - Len(wire) \in 1 .. Len(sent) /\ wire'[i] = sent[i - Len(wire)]
      BY <1>1, <2>2
    <3>2. Place(wire'[i]) = Frontier + (i - Len(wire)) /\ writer[wire'[i][1]] # "none"
      BY <3>1
    <3>3. Frontier + (i - Len(wire)) > Frontier /\ Frontier + (i - Len(wire)) <= Frontier'
      BY <1>1, <3>1
    <3> QED BY <2>2, <3>1, <3>2, <3>3
  <2>3. i <= Len(wire) \/ i > Len(wire)
    BY <1>1
  <2> QED BY <2>1, <2>2, <2>3
<1>3. ASSUME NEW s \in Seq(Bytes), Known(s)
      PROVE  /\ \A i \in 1 .. Len(s) : Place(s[i]) \in Nat /\ Place(s[i]) <= Frontier
             /\ \A i \in 1 .. Len(s) : Place(s[i]) <= Frontier' /\ writer[s[i][1]] # "none"
  <2>1. Frontier <= Frontier'
    BY <1>1
  <2>2. ASSUME NEW i \in 1 .. Len(s)
        PROVE  /\ Place(s[i]) \in Nat /\ Place(s[i]) <= Frontier
               /\ Place(s[i]) <= Frontier' /\ writer[s[i][1]] # "none"
    <3>1. s[i] \in Bytes
      BY <1>3
    <3>2. Place(s[i]) \in Nat
      BY <3>1, PlaceType
    <3>3. Place(s[i]) <= Frontier /\ writer[s[i][1]] # "none"
      BY <1>3 DEF Known
    <3> QED BY <2>1, <3>2, <3>3
  <2> QED BY <2>2
<1>4. /\ Known(wire) /\ Known(buffer) /\ buffer \in Seq(Bytes)
      /\ \A r \in Readers : chunk[r] \in Seq(Bytes) /\ Known(chunk[r])
  BY PlaceType DEF BytesInv, WireInv, BufferInv, ChunkInv
<1>5. \A i \in Whole(Parsed) : /\ Mark(Parsed[i]) \in Nat /\ Mark(Parsed[i]) <= Frontier
                                  /\ Mark(Parsed[i]) <= Frontier'
  BY <1>1, PlaceType DEF BytesInv, ParsedOnce
<1>6. \A b : Place(b)' = Place(b)
  BY DEF Place
<1>7. WireInv'
  <2>1. Known(wire)'
    BY <1>1, <1>2, <1>3, <1>4 DEF Known, Place
  <2>2. Ordered(wire)'
    <3> SUFFICES ASSUME NEW i \in 1 .. Len(wire'), NEW j \in 1 .. Len(wire'), i < j
                 PROVE  Place(wire'[i]) < Place(wire'[j])
      BY DEF Ordered, Place
    <3>1. CASE j \in 1 .. Len(wire) /\ wire'[j] = wire[j]
      <4>1. i \in 1 .. Len(wire) /\ wire'[i] = wire[i]
        BY <1>1, <1>2, <3>1
      <4> QED BY <3>1, <4>1 DEF BytesInv, WireInv, Ordered
    <3>2. CASE /\ j > Len(wire) /\ Place(wire'[j]) = Frontier + (j - Len(wire))
               /\ Place(wire'[j]) > Frontier
      <4>1. CASE i \in 1 .. Len(wire) /\ wire'[i] = wire[i]
        <5>1. Place(wire'[i]) \in Nat /\ Place(wire'[i]) <= Frontier
          BY <1>1, <1>3, <1>4, <4>1
        <5> QED BY <1>1, <3>2, <5>1
      <4>2. CASE i > Len(wire) /\ Place(wire'[i]) = Frontier + (i - Len(wire))
        BY <1>1, <3>2, <4>2
      <4> QED BY <1>2, <4>1, <4>2
    <3> QED BY <1>2, <3>1, <3>2
  <2>3. Unmarked(wire)'
    <3> SUFFICES ASSUME NEW i \in Whole(Parsed), NEW j \in 1 .. Len(wire')
                 PROVE  Mark(Parsed[i]) # Place(wire'[j])
      BY DEF Unmarked, Mark, Place
    <3>1. CASE j \in 1 .. Len(wire) /\ wire'[j] = wire[j]
      BY <3>1 DEF BytesInv, WireInv, Unmarked
    <3>2. CASE Place(wire'[j]) = Frontier + (j - Len(wire)) /\ Place(wire'[j]) > Frontier
      BY <1>1, <1>5, <3>2
    <3> QED BY <1>2, <3>1, <3>2
  <2> QED BY <2>1, <2>2, <2>3 DEF WireInv
<1>8. ASSUME NEW s \in Seq(Bytes), Known(s), Before(s, wire),
             NEW i \in 1 .. Len(s), NEW j \in 1 .. Len(wire')
      PROVE  Place(s[i]) < Place(wire'[j])
  <2>1. CASE j \in 1 .. Len(wire) /\ wire'[j] = wire[j]
    BY <1>8, <2>1 DEF Before
  <2>2. CASE Place(wire'[j]) = Frontier + (j - Len(wire)) /\ Place(wire'[j]) > Frontier
    <3>1. Place(s[i]) \in Nat /\ Place(s[i]) <= Frontier
      BY <1>3, <1>8
    <3> QED BY <1>1, <2>2, <3>1
  <2> QED BY <1>2, <2>1, <2>2
<1>9. BufferInv'
  <2>1. Before(buffer, wire)'
    BY <1>4, <1>8 DEF BytesInv, BufferInv, Before, Place
  <2>2. Known(buffer)'
    BY <1>3, <1>4 DEF Known, Place
  <2>3. Distinct(buffer)' /\ Unmarked(buffer)'
    BY DEF BytesInv, BufferInv, Distinct, Unmarked, Place, Mark
  <2> QED BY <2>1, <2>2, <2>3 DEF BufferInv, Before
<1>10. ASSUME NEW r \in Readers PROVE ChunkInv(r)'
  <2>1. Before(chunk[r], wire)'
    BY <1>4, <1>8 DEF BytesInv, ChunkInv, Before, Place
  <2>2. Known(chunk[r])'
    BY <1>3, <1>4 DEF Known, Place
  <2>3. ChunkInv(r)
    BY DEF BytesInv
  <2>4. Ordered(chunk[r])'
    BY <2>3 DEF ChunkInv, Ordered, Place
  <2>5. Apart(buffer, chunk[r])'
    BY <2>3 DEF ChunkInv, Apart, Place
  <2>6. Unmarked(chunk[r])'
    BY <2>3 DEF ChunkInv, Unmarked, Place, Mark
  <2> QED BY <2>1, <2>2, <2>4, <2>5, <2>6 DEF ChunkInv, Before, Apart
<1>11. ChunksApart'
  BY ChunksStayApart DEF BytesInv
<1>12. ParsedOnce'
  BY <1>5 DEF BytesInv, ParsedOnce, Mark
<1>13. ASSUME OneReader PROVE OneReader'
  <2>1. AllAfter(wire)'
    <3> SUFFICES ASSUME NEW i \in Whole(Parsed), NEW j \in 1 .. Len(wire')
                 PROVE  Mark(Parsed[i]) < Place(wire'[j])
      BY DEF AllAfter, Mark, Place
    <3>1. CASE j \in 1 .. Len(wire) /\ wire'[j] = wire[j]
      BY <1>13, <3>1 DEF OneReader, AllAfter
    <3>2. CASE Place(wire'[j]) = Frontier + (j - Len(wire)) /\ Place(wire'[j]) > Frontier
      BY <1>1, <1>5, <3>2
    <3> QED BY <1>2, <3>1, <3>2
  <2> QED BY <1>13, <2>1 DEF OneReader, Ordered, AllAfter, Before, Place, Mark
<1> QED BY <1>7, <1>9, <1>10, <1>11, <1>12, <1>13 DEF BytesInv

\* The same invariants of any contents w of the wire, b of the buffer, c of the
\* chunks and p of the messages parsed.
UnmarkedBy(p, s) == \A i \in Whole(p), j \in 1 .. Len(s) : Mark(p[i]) # Place(s[j])
AfterAllOf(p, s) == \A i \in Whole(p), j \in 1 .. Len(s) : Mark(p[i]) < Place(s[j])

BytesOf(w, b, c, p) ==
    /\ Known(w) /\ Ordered(w) /\ UnmarkedBy(p, w)
    /\ Known(b) /\ Distinct(b) /\ Before(b, w) /\ UnmarkedBy(p, b)
    /\ \A r \in Readers : /\ Known(c[r]) /\ Ordered(c[r]) /\ Before(c[r], w)
                          /\ Apart(b, c[r]) /\ UnmarkedBy(p, c[r])
    /\ \A r, x \in Readers : r # x => Apart(c[r], c[x])
    /\ \A i \in Whole(p) : writer[p[i]] # "none" /\ Mark(p[i]) <= Frontier
    /\ \A i, j \in Whole(p) : i # j => p[i] # p[j]
OneReaderOf(w, b, c, p) ==
    /\ Ordered(b) /\ AfterAllOf(p, b) /\ AfterAllOf(p, w)
    /\ \A r \in Readers : Before(b, c[r]) /\ AfterAllOf(p, c[r])
    /\ \A i, j \in Whole(p) : i < j => start[p[i]] < start[p[j]]

LEMMA BytesNow == BytesInv <=> BytesOf(wire, buffer, chunk, Parsed)
BY DEF BytesInv, BytesOf, WireInv, BufferInv, ChunkInv, ChunksApart, ParsedOnce, Unmarked, UnmarkedBy

LEMMA OneReaderNow ==
    OneReader <=> /\ OneReaderOf(wire, buffer, chunk, Parsed)
                  /\ \A r, x \in Readers : reader[r] # "idle" /\ reader[x] # "idle" => r = x
BY DEF OneReader, OneReaderOf, AllAfter, AfterAllOf

LEMMA BytesThen ==
    ASSUME UNCHANGED <<start, writer>>, Frontier' = Frontier,
           NEW w, NEW b, NEW c, NEW p,
           wire' = w, buffer' = b, chunk' = c, Parsed' = p, BytesOf(w, b, c, p)
    PROVE  BytesInv'
<1>1. WireInv'
  <2>1. Known(w) /\ Ordered(w) /\ UnmarkedBy(p, w)
    BY DEF BytesOf
  <2>2. Known(wire)'
    BY <2>1 DEF Known, Place
  <2>3. Ordered(wire)'
    BY <2>1 DEF Ordered, Place
  <2>4. Unmarked(wire)'
    BY <2>1 DEF UnmarkedBy, Unmarked, Place, Mark
  <2> QED BY <2>2, <2>3, <2>4 DEF WireInv
<1>2. BufferInv'
  <2>1. Known(b) /\ Distinct(b) /\ Before(b, w) /\ UnmarkedBy(p, b)
    BY DEF BytesOf
  <2>2. Known(buffer)'
    BY <2>1 DEF Known, Place
  <2>3. Distinct(buffer)'
    BY <2>1 DEF Distinct, Place
  <2>4. Before(buffer, wire)'
    BY <2>1 DEF Before, Place
  <2>5. Unmarked(buffer)'
    BY <2>1 DEF UnmarkedBy, Unmarked, Place, Mark
  <2> QED BY <2>2, <2>3, <2>4, <2>5 DEF BufferInv, Before
<1>3. ASSUME NEW r \in Readers PROVE ChunkInv(r)'
  <2>1. /\ Known(c[r]) /\ Ordered(c[r]) /\ Before(c[r], w) /\ Apart(b, c[r])
        /\ UnmarkedBy(p, c[r])
    BY DEF BytesOf
  <2>2. Known(chunk[r])'
    BY <2>1 DEF Known, Place
  <2>3. Ordered(chunk[r])'
    BY <2>1 DEF Ordered, Place
  <2>4. Before(chunk[r], wire)'
    BY <2>1 DEF Before, Place
  <2>5. Apart(buffer, chunk[r])'
    BY <2>1 DEF Apart, Place
  <2>6. Unmarked(chunk[r])'
    BY <2>1 DEF UnmarkedBy, Unmarked, Place, Mark
  <2> QED BY <2>2, <2>3, <2>4, <2>5, <2>6 DEF ChunkInv, Before, Apart
<1>4. ChunksApart'
  <2>1. \A r, x \in Readers : r # x => Apart(c[r], c[x])
    BY DEF BytesOf
  <2> QED BY <2>1 DEF ChunksApart, Apart, Place
<1>5. ParsedOnce'
  BY DEF BytesOf, ParsedOnce, Mark
<1> QED BY <1>1, <1>2, <1>3, <1>4, <1>5 DEF BytesInv

LEMMA OneReaderThen ==
    ASSUME UNCHANGED start, NEW w, NEW b, NEW c, NEW p,
           wire' = w, buffer' = b, chunk' = c, Parsed' = p, OneReaderOf(w, b, c, p),
           \A r, x \in Readers : reader'[r] # "idle" /\ reader'[x] # "idle" => r = x
    PROVE  OneReader'
<1>1. /\ Ordered(b) /\ AfterAllOf(p, b) /\ AfterAllOf(p, w)
      /\ \A r \in Readers : Before(b, c[r]) /\ AfterAllOf(p, c[r])
      /\ \A i, j \in Whole(p) : i < j => start[p[i]] < start[p[j]]
  BY DEF OneReaderOf
<1>2. Ordered(buffer)'
  BY <1>1 DEF Ordered, Place
<1>3. AllAfter(buffer)'
  BY <1>1 DEF AfterAllOf, AllAfter, Place, Mark
<1>4. AllAfter(wire)'
  BY <1>1 DEF AfterAllOf, AllAfter, Place, Mark
<1>5. ASSUME NEW r \in Readers PROVE Before(buffer, chunk[r])'
  BY <1>1 DEF Before, Place
<1>6. ASSUME NEW r \in Readers PROVE AllAfter(chunk[r])'
  BY <1>1 DEF AfterAllOf, AllAfter, Place, Mark
<1> QED BY <1>1, <1>2, <1>3, <1>4, <1>5, <1>6 DEF OneReader, Before

\* A piece of a sequence.
Within(t, s) == \E k \in Nat : \A i \in 1 .. Len(t) : k + i \in 1 .. Len(s) /\ t[i] = s[k + i]

LEMMA WithinKeeps ==
    ASSUME NEW S, NEW s \in Seq(S), NEW t \in Seq(S), Within(t, s), NEW u, NEW p
    PROVE  /\ Known(s) => Known(t)
           /\ Ordered(s) => Ordered(t)
           /\ Distinct(s) => Distinct(t)
           /\ Before(u, s) => Before(u, t)
           /\ Before(s, u) => Before(t, u)
           /\ Apart(u, s) => Apart(u, t)
           /\ Apart(s, u) => Apart(t, u)
           /\ UnmarkedBy(p, s) => UnmarkedBy(p, t)
           /\ AfterAllOf(p, s) => AfterAllOf(p, t)
<1>1. PICK k \in Nat : \A i \in 1 .. Len(t) : k + i \in 1 .. Len(s) /\ t[i] = s[k + i]
  BY DEF Within
<1>2. Known(s) => Known(t)
  BY <1>1 DEF Known
<1>3. ASSUME NEW i \in 1 .. Len(t), NEW j \in 1 .. Len(t)
      PROVE  (i < j => k + i < k + j) /\ (i # j => k + i # k + j)
  OBVIOUS
<1>4. Ordered(s) => Ordered(t)
  BY <1>1, <1>3 DEF Ordered
<1>5. Distinct(s) => Distinct(t)
  BY <1>1, <1>3 DEF Distinct
<1>6. (Before(u, s) => Before(u, t)) /\ (Before(s, u) => Before(t, u))
  BY <1>1 DEF Before
<1>7. (Apart(u, s) => Apart(u, t)) /\ (Apart(s, u) => Apart(t, u))
  BY <1>1 DEF Apart
<1>8. (UnmarkedBy(p, s) => UnmarkedBy(p, t)) /\ (AfterAllOf(p, s) => AfterAllOf(p, t))
  BY <1>1 DEF UnmarkedBy, AfterAllOf
<1> QED BY <1>2, <1>4, <1>5, <1>6, <1>7, <1>8

LEMMA PiecesWithin ==
    ASSUME NEW S, NEW s \in Seq(S), NEW n \in Nat, n <= Len(s)
    PROVE  /\ SubSeq(s, 1, n) \in Seq(S) /\ Within(SubSeq(s, 1, n), s)
           /\ SubSeq(s, n + 1, Len(s)) \in Seq(S) /\ Within(SubSeq(s, n + 1, Len(s)), s)
<1>1. /\ SubSeq(s, 1, n) \in Seq(S) /\ Len(SubSeq(s, 1, n)) = n
      /\ \A i \in 1 .. n : SubSeq(s, 1, n)[i] = s[i]
  BY FirstOf
<1>2. \A i \in 1 .. n : 0 + i \in 1 .. Len(s) /\ 0 + i = i
  OBVIOUS
<1>3. Within(SubSeq(s, 1, n), s)
  BY <1>1, <1>2 DEF Within
<1>4. /\ SubSeq(s, n + 1, Len(s)) \in Seq(S) /\ Len(SubSeq(s, n + 1, Len(s))) = Len(s) - n
      /\ \A i \in 1 .. Len(s) - n : SubSeq(s, n + 1, Len(s))[i] = s[n + i]
  BY RestOf
<1>5. \A i \in 1 .. Len(s) - n : n + i \in 1 .. Len(s)
  OBVIOUS
<1>6. Within(SubSeq(s, n + 1, Len(s)), s)
  BY <1>4, <1>5 DEF Within
<1> QED BY <1>1, <1>3, <1>4, <1>6

LEMMA EmptyOf ==
    ASSUME NEW u, NEW p
    PROVE  /\ Known(<<>>) /\ Ordered(<<>>) /\ Before(u, <<>>) /\ Before(<<>>, u)
           /\ Apart(u, <<>>) /\ Apart(<<>>, u) /\ UnmarkedBy(p, <<>>) /\ AfterAllOf(p, <<>>)
BY DEF Known, Ordered, Before, Apart, UnmarkedBy, AfterAllOf

LEMMA BeforeApart ==
    ASSUME TypeInv, NEW s \in Seq(Bytes), NEW t \in Seq(Bytes), Before(s, t)
    PROVE  Apart(s, t) /\ Apart(t, s)
<1>1. ASSUME NEW i \in 1 .. Len(s), NEW j \in 1 .. Len(t)
      PROVE  Place(s[i]) # Place(t[j])
  <2>1. Place(s[i]) \in Nat /\ Place(t[j]) \in Nat /\ Place(s[i]) < Place(t[j])
    BY PlaceType DEF Before
  <2> QED BY <2>1
<1> QED BY <1>1 DEF Apart

LEMMA OrderedDistinct ==
    ASSUME TypeInv, NEW s \in Seq(Bytes), Ordered(s)
    PROVE  Distinct(s)
<1>1. ASSUME NEW i \in 1 .. Len(s), NEW j \in 1 .. Len(s), i # j
      PROVE  Place(s[i]) # Place(s[j])
  <2>1. Place(s[i]) \in Nat /\ Place(s[j]) \in Nat
    BY PlaceType
  <2>2. i < j \/ j < i
    BY <1>1
  <2>3. Place(s[i]) < Place(s[j]) \/ Place(s[j]) < Place(s[i])
    BY <2>2 DEF Ordered
  <2> QED BY <2>1, <2>3
<1> QED BY <1>1 DEF Distinct

LEMMA JoinedBytes ==
    ASSUME NEW S, NEW s \in Seq(S), NEW t \in Seq(S), NEW u, NEW p
    PROVE  /\ Known(s) /\ Known(t) => Known(s \o t)
           /\ Distinct(s) /\ Distinct(t) /\ Apart(s, t) => Distinct(s \o t)
           /\ Ordered(s) /\ Ordered(t) /\ Before(s, t) => Ordered(s \o t)
           /\ Before(s, u) /\ Before(t, u) => Before(s \o t, u)
           /\ Apart(s, u) /\ Apart(t, u) => Apart(s \o t, u)
           /\ UnmarkedBy(p, s) /\ UnmarkedBy(p, t) => UnmarkedBy(p, s \o t)
           /\ AfterAllOf(p, s) /\ AfterAllOf(p, t) => AfterAllOf(p, s \o t)
<1>1. PICK v : v = s \o t
  OBVIOUS
<1>2. Len(s) \in Nat /\ Len(t) \in Nat /\ Len(v) = Len(s) + Len(t)
  BY <1>1, ConcatProperties
<1>3. ASSUME NEW i \in 1 .. Len(v)
      PROVE  \/ i \in 1 .. Len(s) /\ v[i] = s[i]
             \/ i > Len(s) /\ i - Len(s) \in 1 .. Len(t) /\ v[i] = t[i - Len(s)]
  <2>1. CASE i <= Len(s)
    BY <1>1, <1>2, <2>1
  <2>2. CASE i > Len(s)
    BY <1>1, <1>2, <2>2
  <2> QED BY <1>2, <2>1, <2>2
<1>4. Known(s) /\ Known(t) => Known(v)
  BY <1>3 DEF Known
<1>5. ASSUME Distinct(s), Distinct(t), Apart(s, t) PROVE Distinct(v)
  <2> SUFFICES ASSUME NEW i \in 1 .. Len(v), NEW j \in 1 .. Len(v), i # j
               PROVE  Place(v[i]) # Place(v[j])
    BY DEF Distinct
  <2>1. CASE i \in 1 .. Len(s) /\ v[i] = s[i] /\ j \in 1 .. Len(s) /\ v[j] = s[j]
    BY <1>5, <2>1 DEF Distinct
  <2>2. CASE /\ i > Len(s) /\ i - Len(s) \in 1 .. Len(t) /\ v[i] = t[i - Len(s)]
             /\ j > Len(s) /\ j - Len(s) \in 1 .. Len(t) /\ v[j] = t[j - Len(s)]
    <3>1. i - Len(s) # j - Len(s)
      BY <1>2
    <3> QED BY <1>5, <2>2, <3>1 DEF Distinct
  <2>3. CASE /\ i \in 1 .. Len(s) /\ v[i] = s[i]
             /\ j - Len(s) \in 1 .. Len(t) /\ v[j] = t[j - Len(s)]
    BY <1>5, <2>3 DEF Apart
  <2>4. CASE /\ j \in 1 .. Len(s) /\ v[j] = s[j]
             /\ i - Len(s) \in 1 .. Len(t) /\ v[i] = t[i - Len(s)]
    BY <1>5, <2>4 DEF Apart
  <2> QED BY <1>3, <2>1, <2>2, <2>3, <2>4
<1>6. ASSUME Ordered(s), Ordered(t), Before(s, t) PROVE Ordered(v)
  <2> SUFFICES ASSUME NEW i \in 1 .. Len(v), NEW j \in 1 .. Len(v), i < j
               PROVE  Place(v[i]) < Place(v[j])
    BY DEF Ordered
  <2>1. CASE i \in 1 .. Len(s) /\ v[i] = s[i] /\ j \in 1 .. Len(s) /\ v[j] = s[j]
    BY <1>6, <2>1 DEF Ordered
  <2>2. CASE /\ i > Len(s) /\ i - Len(s) \in 1 .. Len(t) /\ v[i] = t[i - Len(s)]
             /\ j > Len(s) /\ j - Len(s) \in 1 .. Len(t) /\ v[j] = t[j - Len(s)]
    <3>1. i - Len(s) < j - Len(s)
      BY <1>2
    <3> QED BY <1>6, <2>2, <3>1 DEF Ordered
  <2>3. CASE /\ i \in 1 .. Len(s) /\ v[i] = s[i]
             /\ j - Len(s) \in 1 .. Len(t) /\ v[j] = t[j - Len(s)]
    BY <1>6, <2>3 DEF Before
  <2>4. ~(j \in 1 .. Len(s) /\ i > Len(s))
    BY <1>2
  <2> QED BY <1>3, <2>1, <2>2, <2>3, <2>4
<1>7. Before(s, u) /\ Before(t, u) => Before(v, u)
  BY <1>3 DEF Before
<1>8. Apart(s, u) /\ Apart(t, u) => Apart(v, u)
  BY <1>3 DEF Apart
<1>9. /\ UnmarkedBy(p, s) /\ UnmarkedBy(p, t) => UnmarkedBy(p, v)
      /\ AfterAllOf(p, s) /\ AfterAllOf(p, t) => AfterAllOf(p, v)
  BY <1>3 DEF UnmarkedBy, AfterAllOf
<1> QED BY <1>1, <1>4, <1>5, <1>6, <1>7, <1>8, <1>9

-----------------------------------------------------------------------------
(* What the readers do with the bytes                                       *)

OneAtATime == \A r, x \in Readers : reader[r] # "idle" /\ reader[x] # "idle" => r = x

LEMMA ReaderGoes ==
    ASSUME TypeInv, NEW r \in Readers, reader[r] # "idle", NEW state \in ReaderStates,
           Goto(r, state), OneAtATime
    PROVE  /\ OneAtATime'
           /\ \A x \in Readers : x # r => chunk[x] = <<>>
<1>1. reader \in [Readers -> ReaderStates] /\ reader' = [reader EXCEPT ![r] = state]
  BY DEF TypeInv, ReadTypes, Goto
<1>2. \A x \in Readers : x # r => reader[x] = "idle" /\ reader'[x] = "idle"
  BY <1>1 DEF OneAtATime
<1>3. OneAtATime'
  BY <1>2 DEF OneAtATime
<1>4. \A x \in Readers : reader[x] = "idle" => chunk[x] = <<>>
  BY DEF TypeInv, TypeOK
<1> QED BY <1>2, <1>3, <1>4

\* A look at the buffer or the queue, or the end of a parse.
LEMMA LookBytes ==
    ASSUME BytesInv, UNCHANGED <<start, writer, wire, buffer, chunk>>,
           Parsed' = Parsed, Frontier' = Frontier
    PROVE  BytesInv' /\ (OneReader /\ OneAtATime' => OneReader')
<1>1. BytesInv'
  BY BytesNow, BytesThen
<1>2. ASSUME OneReader, OneAtATime' PROVE OneReader'
  <2>1. OneReaderOf(wire, buffer, chunk, Parsed)
    BY <1>2, OneReaderNow
  <2> QED BY <1>2, <2>1, OneReaderThen DEF OneAtATime
<1> QED BY <1>1, <1>2

LEMMA SocketBytes ==
    ASSUME TypeInv, BytesInv, NEW r \in Readers, ReadSocket(r)
    PROVE  BytesInv' /\ (OneReader => OneReader')
<1>1. PICK n : n = IF arrived <= BufferSize THEN arrived ELSE BufferSize
  OBVIOUS
<1>2. n \in Nat /\ n <= Len(wire) /\ wire \in Seq(Bytes)
  <2>1. arrived \in 0 .. Len(wire) /\ wire \in Seq(Bytes) /\ BufferSize \in Nat
    BY ChannelAssumption DEF ChannelAssumption, TypeInv, TypeOK, ReadTypes
  <2> QED BY <1>1, <2>1
<1>3. PICK h : h = SubSeq(wire, 1, n)
  OBVIOUS
<1>4. PICK w : w = SubSeq(wire, n + 1, Len(wire))
  OBVIOUS
<1>5. PICK c : c = [chunk EXCEPT ![r] = h]
  OBVIOUS
<1>6. /\ wire' = w /\ chunk' = c /\ buffer' = buffer /\ Parsed' = Parsed
      /\ reader[r] = "read" /\ Goto(r, "enqueue") /\ UNCHANGED <<start, writer>>
  BY <1>1, <1>3, <1>4, <1>5 DEF ReadSocket, IsReader, sendVars, parseVars, Parsed
<1>7. Frontier' = Frontier
  BY OthersKeepFrontier DEF ReadSocket
<1>8. /\ h \in Seq(Bytes) /\ Within(h, wire) /\ w \in Seq(Bytes) /\ Within(w, wire)
  BY <1>2, <1>3, <1>4, PiecesWithin
<1>9. Before(h, w)
  <2>1. Len(h) = n /\ \A i \in 1 .. n : h[i] = wire[i]
    BY <1>2, <1>3, FirstOf
  <2>2. Len(w) = Len(wire) - n /\ \A i \in 1 .. Len(wire) - n : w[i] = wire[n + i]
    BY <1>2, <1>4, RestOf
  <2>3. ASSUME NEW i \in 1 .. Len(h), NEW j \in 1 .. Len(w)
        PROVE  Place(h[i]) < Place(w[j])
    <3>1. h[i] = wire[i] /\ w[j] = wire[n + j]
      BY <2>1, <2>2
    <3>2. i \in 1 .. Len(wire) /\ n + j \in 1 .. Len(wire) /\ i < n + j
      BY <1>2, <2>1, <2>2
    <3>3. Ordered(wire)
      BY DEF BytesInv, WireInv
    <3> QED BY <3>1, <3>2, <3>3 DEF Ordered
  <2> QED BY <2>3 DEF Before
<1>10. c[r] = h /\ \A x \in Readers : x # r => c[x] = chunk[x]
  BY <1>5, PlaceType
<1>11. BytesOf(wire, buffer, chunk, Parsed)
  BY BytesNow
<1>12. /\ Known(wire) /\ Ordered(wire) /\ UnmarkedBy(Parsed, wire) /\ Before(buffer, wire)
       /\ \A x \in Readers : Before(chunk[x], wire)
  BY <1>11 DEF BytesOf
<1>13. /\ Known(h) /\ Ordered(h) /\ UnmarkedBy(Parsed, h) /\ Before(buffer, h)
       /\ Known(w) /\ Ordered(w) /\ UnmarkedBy(Parsed, w) /\ Before(buffer, w)
       /\ \A x \in Readers : Before(chunk[x], w) /\ Before(chunk[x], h)
  BY <1>2, <1>8, <1>12, WithinKeeps
<1>14. Apart(buffer, h) /\ \A x \in Readers : Apart(chunk[x], h) /\ Apart(h, chunk[x])
  BY <1>8, <1>13, BeforeApart, PlaceType
<1>15. BytesOf(w, buffer, c, Parsed)
  <2>1. ASSUME NEW x \in Readers
        PROVE  /\ Known(c[x]) /\ Ordered(c[x]) /\ Before(c[x], w)
               /\ Apart(buffer, c[x]) /\ UnmarkedBy(Parsed, c[x])
    <3>1. CASE x = r
      BY <1>9, <1>10, <1>13, <1>14, <3>1
    <3>2. CASE x # r
      BY <1>10, <1>11, <1>13, <3>2 DEF BytesOf
    <3> QED BY <3>1, <3>2
  <2>2. ASSUME NEW x \in Readers, NEW y \in Readers, x # y PROVE Apart(c[x], c[y])
    <3>1. CASE x = r
      BY <1>10, <1>14, <2>2, <3>1
    <3>2. CASE y = r
      BY <1>10, <1>14, <2>2, <3>2
    <3>3. CASE x # r /\ y # r
      BY <1>10, <1>11, <2>2, <3>3 DEF BytesOf
    <3> QED BY <3>1, <3>2, <3>3
  <2> QED BY <1>11, <1>13, <2>1, <2>2 DEF BytesOf
<1>16. BytesInv'
  BY <1>6, <1>7, <1>15, BytesThen
<1>17. ASSUME OneReader PROVE OneReader'
  <2>1. OneReaderOf(wire, buffer, chunk, Parsed) /\ OneAtATime
    BY <1>17, OneReaderNow DEF OneAtATime
  <2>2. OneAtATime'
    BY <1>6, <2>1, ReaderGoes DEF ReaderStates
  <2>3. AfterAllOf(Parsed, wire)
    BY <2>1 DEF OneReaderOf
  <2>4. AfterAllOf(Parsed, h) /\ AfterAllOf(Parsed, w)
    BY <1>2, <1>8, <2>3, WithinKeeps
  <2>5. ASSUME NEW x \in Readers PROVE Before(buffer, c[x]) /\ AfterAllOf(Parsed, c[x])
    <3>1. CASE x = r
      BY <1>10, <1>13, <2>4, <3>1
    <3>2. CASE x # r
      BY <1>10, <2>1, <3>2 DEF OneReaderOf
    <3> QED BY <3>1, <3>2
  <2>6. OneReaderOf(w, buffer, c, Parsed)
    BY <2>1, <2>4, <2>5 DEF OneReaderOf
  <2> QED BY <1>6, <2>2, <2>6, OneReaderThen DEF OneAtATime
<1> QED BY <1>16, <1>17

LEMMA EnqueueBytes ==
    ASSUME TypeInv, BytesInv, NEW r \in Readers, EnqueueChunk(r)
    PROVE  BytesInv' /\ (OneReader => OneReader')
<1>1. PICK h : h = chunk[r]
  OBVIOUS
<1>2. PICK c : c = [chunk EXCEPT ![r] = <<>>]
  OBVIOUS
<1>3. PICK b : b = buffer'
  OBVIOUS
<1>4. /\ wire' = wire /\ chunk' = c /\ Parsed' = Parsed /\ (b = buffer \/ b = buffer \o h)
      /\ reader[r] = "enqueue" /\ Goto(r, "parse") /\ UNCHANGED <<start, writer>>
  BY <1>1, <1>2, <1>3 DEF EnqueueChunk, IsReader, sendVars, socketVars, Parsed
<1>5. Frontier' = Frontier
  BY OthersKeepFrontier DEF EnqueueChunk
<1>6. buffer \in Seq(Bytes) /\ h \in Seq(Bytes) /\ wire \in Seq(Bytes)
      /\ \A x \in Readers : chunk[x] \in Seq(Bytes)
  BY <1>1, PlaceType
<1>7. c[r] = <<>> /\ \A x \in Readers : x # r => c[x] = chunk[x]
  BY <1>2, PlaceType
<1>8. BytesOf(wire, buffer, chunk, Parsed)
  BY BytesNow
<1>9. /\ Known(buffer) /\ Distinct(buffer) /\ Before(buffer, wire) /\ UnmarkedBy(Parsed, buffer)
      /\ Known(h) /\ Ordered(h) /\ Before(h, wire) /\ Apart(buffer, h) /\ UnmarkedBy(Parsed, h)
      /\ \A x \in Readers : x # r => Apart(h, chunk[x])
      /\ \A x \in Readers : Apart(buffer, chunk[x])
  BY <1>1, <1>8 DEF BytesOf
<1>10. Distinct(h)
  BY <1>6, <1>9, OrderedDistinct
<1>11. /\ Known(b) /\ Distinct(b) /\ Before(b, wire) /\ UnmarkedBy(Parsed, b)
  <2>1. CASE b = buffer
    BY <1>9, <2>1
  <2>2. CASE b = buffer \o h
    BY <1>6, <1>9, <1>10, <2>2, JoinedBytes
  <2> QED BY <1>4, <2>1, <2>2
<1>12. \A x \in Readers : x # r => Apart(b, chunk[x])
  <2>1. CASE b = buffer
    BY <1>9, <2>1
  <2>2. CASE b = buffer \o h
    BY <1>6, <1>9, <2>2, JoinedBytes
  <2> QED BY <1>4, <2>1, <2>2
<1>13. BytesOf(wire, b, c, Parsed)
  <2>1. ASSUME NEW x \in Readers
        PROVE  /\ Known(c[x]) /\ Ordered(c[x]) /\ Before(c[x], wire)
               /\ Apart(b, c[x]) /\ UnmarkedBy(Parsed, c[x])
    <3>1. CASE x = r
      BY <1>7, <3>1, EmptyOf
    <3>2. CASE x # r
      BY <1>7, <1>8, <1>12, <3>2 DEF BytesOf
    <3> QED BY <3>1, <3>2
  <2>2. ASSUME NEW x \in Readers, NEW y \in Readers, x # y PROVE Apart(c[x], c[y])
    <3>1. CASE x = r \/ y = r
      BY <1>7, <3>1, EmptyOf
    <3>2. CASE x # r /\ y # r
      BY <1>7, <1>8, <2>2, <3>2 DEF BytesOf
    <3> QED BY <3>1, <3>2
  <2> QED BY <1>8, <1>11, <2>1, <2>2 DEF BytesOf
<1>14. BytesInv'
  BY <1>3, <1>4, <1>5, <1>13, BytesThen
<1>15. ASSUME OneReader PROVE OneReader'
  <2>1. OneReaderOf(wire, buffer, chunk, Parsed) /\ OneAtATime
    BY <1>15, OneReaderNow DEF OneAtATime
  <2>2. OneAtATime' /\ \A x \in Readers : x # r => chunk[x] = <<>>
    BY <1>4, <2>1, ReaderGoes DEF ReaderStates
  <2>3. \A x \in Readers : c[x] = <<>>
    BY <1>7, <2>2
  <2>4. \A x \in Readers : Before(b, c[x]) /\ AfterAllOf(Parsed, c[x])
    BY <2>3, EmptyOf
  <2>5. /\ Ordered(buffer) /\ AfterAllOf(Parsed, buffer)
        /\ Before(buffer, h) /\ AfterAllOf(Parsed, h)
    BY <1>1, <2>1 DEF OneReaderOf
  <2>6. Ordered(b) /\ AfterAllOf(Parsed, b)
    <3>1. CASE b = buffer
      BY <2>5, <3>1
    <3>2. CASE b = buffer \o h
      BY <1>6, <1>9, <2>5, <3>2, JoinedBytes
    <3> QED BY <1>4, <3>1, <3>2
  <2>7. OneReaderOf(wire, b, c, Parsed)
    BY <2>1, <2>4, <2>6 DEF OneReaderOf
  <2> QED BY <1>3, <1>4, <2>2, <2>7, OneReaderThen DEF OneAtATime
<1> QED BY <1>14, <1>15

\* The first n bytes leave the buffer, and m joins those parsed.
LEMMA WholeAppended ==
    ASSUME NEW p \in Seq(Data), NEW d \in Data
    PROVE  \A i \in Whole(Append(p, d)) :
            \/ i \in Whole(p) /\ Append(p, d)[i] = p[i]
            \/ i = Len(p) + 1 /\ Append(p, d)[i] = d /\ d # Garbage
<1>1. PICK q : q = Append(p, d)
  OBVIOUS
<1>2. /\ Len(q) = Len(p) + 1 /\ Len(p) \in Nat
      /\ \A i \in 1 .. Len(p) + 1 : q[i] = IF i <= Len(p) THEN p[i] ELSE d
  BY <1>1, Appended
<1>3. ASSUME NEW i \in Whole(q)
      PROVE  \/ i \in Whole(p) /\ q[i] = p[i]
             \/ i = Len(p) + 1 /\ q[i] = d /\ d # Garbage
  <2>1. i \in 1 .. Len(p) + 1 /\ q[i] # Garbage
    BY <1>2 DEF Whole
  <2>2. CASE i <= Len(p)
    BY <1>2, <2>1, <2>2 DEF Whole
  <2>3. CASE i = Len(p) + 1
    <3>1. q[i] = d
      BY <1>2, <2>1, <2>3
    <3> QED BY <2>1, <2>3, <3>1
  <2> QED BY <1>2, <2>1, <2>2, <2>3
<1> QED BY <1>1, <1>3

LEMMA MarkedOnce ==
    ASSUME NEW p \in Seq(Data), NEW m \in Messages, NEW s
    PROVE  /\ UnmarkedBy(p, s) /\ (\A j \in 1 .. Len(s) : Mark(m) # Place(s[j]))
                => UnmarkedBy(Append(p, m), s)
           /\ AfterAllOf(p, s) /\ (\A j \in 1 .. Len(s) : Mark(m) < Place(s[j]))
                => AfterAllOf(Append(p, m), s)
<1>1. PICK q : q = Append(p, m)
  OBVIOUS
<1>2. \A i \in Whole(q) : (i \in Whole(p) /\ q[i] = p[i]) \/ q[i] = m
  BY <1>1, WholeAppended DEF Data
<1>3. UnmarkedBy(p, s) /\ (\A j \in 1 .. Len(s) : Mark(m) # Place(s[j])) => UnmarkedBy(q, s)
  BY <1>2 DEF UnmarkedBy
<1>4. AfterAllOf(p, s) /\ (\A j \in 1 .. Len(s) : Mark(m) < Place(s[j])) => AfterAllOf(q, s)
  BY <1>2 DEF AfterAllOf
<1> QED BY <1>1, <1>3, <1>4

\* Garbage that joins them changes none of this.
LEMMA GarbageJoins ==
    ASSUME NEW w, NEW b, NEW c, NEW p \in Seq(Data)
    PROVE  /\ BytesOf(w, b, c, p) => BytesOf(w, b, c, Append(p, Garbage))
           /\ OneReaderOf(w, b, c, p) => OneReaderOf(w, b, c, Append(p, Garbage))
<1>1. PICK q : q = Append(p, Garbage)
  OBVIOUS
<1>2. \A i \in Whole(q) : i \in Whole(p) /\ q[i] = p[i]
  BY <1>1, WholeAppended DEF Data
<1>3. \A s : UnmarkedBy(p, s) => UnmarkedBy(q, s)
  BY <1>2 DEF UnmarkedBy
<1>4. \A s : AfterAllOf(p, s) => AfterAllOf(q, s)
  BY <1>2 DEF AfterAllOf
<1>5. BytesOf(w, b, c, p) => BytesOf(w, b, c, q)
  <2> SUFFICES ASSUME BytesOf(w, b, c, p) PROVE BytesOf(w, b, c, q)
    OBVIOUS
  <2>1. /\ \A i \in Whole(q) : writer[q[i]] # "none" /\ Mark(q[i]) <= Frontier
        /\ \A i, j \in Whole(q) : i # j => q[i] # q[j]
    BY <1>2 DEF BytesOf
  <2>2. /\ UnmarkedBy(q, w) /\ UnmarkedBy(q, b) /\ \A r \in Readers : UnmarkedBy(q, c[r])
    BY <1>3 DEF BytesOf
  <2> QED BY <2>1, <2>2 DEF BytesOf
<1>6. OneReaderOf(w, b, c, p) => OneReaderOf(w, b, c, q)
  <2> SUFFICES ASSUME OneReaderOf(w, b, c, p) PROVE OneReaderOf(w, b, c, q)
    OBVIOUS
  <2>1. \A i, j \in Whole(q) : i < j => start[q[i]] < start[q[j]]
    BY <1>2 DEF OneReaderOf
  <2>2. /\ AfterAllOf(q, w) /\ AfterAllOf(q, b) /\ \A r \in Readers : AfterAllOf(q, c[r])
    BY <1>4 DEF OneReaderOf
  <2> QED BY <2>1, <2>2 DEF OneReaderOf
<1> QED BY <1>1, <1>5, <1>6

LEMMA DropBytes ==
    ASSUME TypeInv, BytesInv, NEW n \in Nat, n <= Len(buffer)
    PROVE  /\ BytesOf(wire, SubSeq(buffer, n + 1, Len(buffer)), chunk, Parsed)
           /\ OneReader =>
                OneReaderOf(wire, SubSeq(buffer, n + 1, Len(buffer)), chunk, Parsed)
<1>1. PICK b : b = SubSeq(buffer, n + 1, Len(buffer))
  OBVIOUS
<1>2. buffer \in Seq(Bytes) /\ b \in Seq(Bytes) /\ Within(b, buffer)
  BY <1>1, PiecesWithin, PlaceType
<1>3. BytesOf(wire, buffer, chunk, Parsed)
  BY BytesNow
<1>4. /\ Known(buffer) /\ Distinct(buffer) /\ Before(buffer, wire) /\ UnmarkedBy(Parsed, buffer)
      /\ \A x \in Readers : Apart(buffer, chunk[x])
  BY <1>3 DEF BytesOf
<1>5. /\ Known(b) /\ Distinct(b) /\ Before(b, wire) /\ UnmarkedBy(Parsed, b)
      /\ \A x \in Readers : Apart(b, chunk[x])
  BY <1>2, <1>4, WithinKeeps
<1>6. BytesOf(wire, b, chunk, Parsed)
  BY <1>3, <1>5 DEF BytesOf
<1>7. ASSUME OneReader PROVE OneReaderOf(wire, b, chunk, Parsed)
  <2>1. OneReaderOf(wire, buffer, chunk, Parsed)
    BY <1>7, OneReaderNow
  <2>2. Ordered(buffer) /\ AfterAllOf(Parsed, buffer) /\ \A x \in Readers : Before(buffer, chunk[x])
    BY <2>1 DEF OneReaderOf
  <2>3. Ordered(b) /\ AfterAllOf(Parsed, b) /\ \A x \in Readers : Before(b, chunk[x])
    BY <1>2, <2>2, WithinKeeps
  <2> QED BY <2>1, <2>3 DEF OneReaderOf
<1> QED BY <1>1, <1>6, <1>7

LEMMA HeadBytesGo ==
    ASSUME TypeInv, BytesInv, NEW r \in Readers, TakeHead(r)
    PROVE  BytesInv' /\ (OneReader => OneReader')
<1>1. /\ UNCHANGED <<start, writer, wire, chunk>> /\ Parsed' = Parsed
      /\ reader[r] = "head" /\ Goto(r, "length")
  BY DEF TakeHead, IsReader, sendVars, socketVars, Parsed
<1>2. Frontier' = Frontier
  BY OthersKeepFrontier DEF TakeHead
<1>3. OneReader => OneAtATime'
  BY <1>1, ReaderGoes, OneReaderNow DEF ReaderStates, OneAtATime
<1>4. CASE buffer' = buffer
  BY <1>1, <1>2, <1>3, <1>4, LookBytes
<1>5. CASE buffer' = SubSeq(buffer, HeadLength + 1, Len(buffer)) /\ Len(buffer) >= HeadLength
  <2>1. HeadLength \in Nat /\ HeadLength <= Len(buffer)
    BY <1>5, PlaceType
  <2>2. PICK b : b = buffer'
    OBVIOUS
  <2>3. /\ BytesOf(wire, b, chunk, Parsed)
        /\ OneReader => OneReaderOf(wire, b, chunk, Parsed)
    BY <1>5, <2>1, <2>2, DropBytes
  <2>4. BytesInv'
    BY <1>1, <1>2, <2>2, <2>3, BytesThen
  <2>5. OneReader => OneReader'
    BY <1>1, <1>3, <2>2, <2>3, OneReaderThen DEF OneAtATime
  <2> QED BY <2>4, <2>5
<1>6. \/ buffer' = buffer
      \/ buffer' = SubSeq(buffer, HeadLength + 1, Len(buffer)) /\ Len(buffer) >= HeadLength
  <2>1. Len(buffer) \in Nat /\ HeadLength \in Nat
    BY PlaceType
  <2>2. CASE Len(buffer) < HeadLength
    BY <2>2 DEF TakeHead
  <2>3. CASE ~(Len(buffer) < HeadLength)
    <3>1. buffer' = SubSeq(buffer, HeadLength + 1, Len(buffer))
      BY <2>3 DEF TakeHead
    <3> QED BY <2>1, <2>3, <3>1
  <2> QED BY <2>2, <2>3
<1> QED BY <1>4, <1>5, <1>6

\* A body is marked by its first byte, which was in no other place.
LEMMA BodyFound ==
    ASSUME TypeInv, BytesInv, NEW n \in Nat, n <= Len(buffer), NEW m \in BodyOf(n)
    PROVE  /\ m \in Messages /\ n > 0 /\ 1 \in 1 .. Len(buffer)
           /\ Place(buffer[1]) = Mark(m) /\ writer[m] # "none" /\ Mark(m) <= Frontier
<1>1. m \in Messages /\ SubSeq(buffer, 1, n) = BodyBytes(m) /\ buffer \in Seq(Bytes)
  BY PlaceType DEF BodyOf, Dequeued
<1>2. /\ Frame(m) \in Seq(Bytes) /\ Len(Frame(m)) = HeadLength + Length[m]
      /\ HeadLength \in Nat /\ Length[m] \in Nat /\ Length[m] > 0
      /\ \A i \in 1 .. HeadLength + Length[m] : Frame(m)[i] = <<m, i>>
  BY <1>1, FrameOf DEF FrameLength
<1>3. /\ Len(BodyBytes(m)) = Length[m]
      /\ \A i \in 1 .. Length[m] : BodyBytes(m)[i] = Frame(m)[HeadLength + i]
  <2>1. HeadLength <= Len(Frame(m)) /\ Len(Frame(m)) - HeadLength = Length[m]
    BY <1>2
  <2>2. PICK f : f = Frame(m)
    OBVIOUS
  <2>3. f \in Seq(Bytes) /\ HeadLength \in Nat /\ HeadLength <= Len(f)
    BY <1>2, <2>1, <2>2
  <2>4. /\ Len(SubSeq(f, HeadLength + 1, Len(f))) = Len(f) - HeadLength
        /\ \A i \in 1 .. Len(f) - HeadLength :
              SubSeq(f, HeadLength + 1, Len(f))[i] = f[HeadLength + i]
    BY <2>3, RestOf
  <2>5. BodyBytes(m) = SubSeq(f, HeadLength + 1, Len(f)) /\ Len(f) - HeadLength = Length[m]
    BY <2>1, <2>2 DEF BodyBytes
  <2> QED BY <2>2, <2>4, <2>5
<1>4. /\ Len(SubSeq(buffer, 1, n)) = n /\ \A i \in 1 .. n : SubSeq(buffer, 1, n)[i] = buffer[i]
  BY <1>1, FirstOf
<1>5. n = Length[m] /\ n > 0 /\ 1 \in 1 .. Len(buffer) /\ 1 \in 1 .. n
  BY <1>1, <1>2, <1>3, <1>4
<1>6. buffer[1] = <<m, HeadLength + 1>>
  <2>1. buffer[1] = Frame(m)[HeadLength + 1]
    BY <1>1, <1>3, <1>4, <1>5
  <2>2. HeadLength + 1 \in 1 .. HeadLength + Length[m]
    BY <1>2
  <2> QED BY <1>2, <2>1, <2>2
<1>7. Place(buffer[1]) = Mark(m)
  <2>1. start[m] + (HeadLength + 1) = start[m] + HeadLength + 1
    <3>1. start[m] \in Nat /\ HeadLength \in Nat
      BY <1>1, PlaceType
    <3>2. PICK a \in Nat, h \in Nat : a = start[m] /\ h = HeadLength
      BY <3>1
    <3>3. a + (h + 1) = a + h + 1
      OBVIOUS
    <3> QED BY <3>2, <3>3
  <2> QED BY <1>6, <2>1 DEF Place, Mark
<1>8. writer[buffer[1][1]] # "none" /\ Place(buffer[1]) <= Frontier
  BY <1>5 DEF BytesInv, BufferInv, Known
<1> QED BY <1>1, <1>5, <1>6, <1>7, <1>8

LEMMA BodyBytesGo ==
    ASSUME TypeInv, BytesInv, NEW n \in Nat, n <= Len(buffer), NEW m \in BodyOf(n)
    PROVE  /\ BytesOf(wire, SubSeq(buffer, n + 1, Len(buffer)), chunk, Append(Parsed, m))
           /\ OneReader => OneReaderOf(wire, SubSeq(buffer, n + 1, Len(buffer)), chunk,
                                       Append(Parsed, m))
<1>1. PICK b : b = SubSeq(buffer, n + 1, Len(buffer))
  OBVIOUS
<1>2. PICK p : p = Append(Parsed, m)
  OBVIOUS
<1>3. /\ BytesOf(wire, b, chunk, Parsed)
      /\ OneReader => OneReaderOf(wire, b, chunk, Parsed)
  BY <1>1, DropBytes
<1>4. /\ m \in Messages /\ n > 0 /\ 1 \in 1 .. Len(buffer)
      /\ Place(buffer[1]) = Mark(m) /\ writer[m] # "none" /\ Mark(m) <= Frontier
  BY BodyFound
<1>5. /\ Parsed \in Seq(Data) /\ buffer \in Seq(Bytes) /\ wire \in Seq(Bytes)
      /\ \A x \in Readers : chunk[x] \in Seq(Bytes)
      /\ Mark(m) \in Nat /\ start[m] \in Nat /\ HeadLength \in Nat
  BY <1>4, PlaceType
<1>6. BytesOf(wire, buffer, chunk, Parsed)
  BY BytesNow
<1>7. /\ Distinct(buffer) /\ Before(buffer, wire) /\ UnmarkedBy(Parsed, buffer)
      /\ \A x \in Readers : Apart(buffer, chunk[x])
  BY <1>6 DEF BytesOf
<1>8. \A j \in 1 .. Len(b) : b[j] = buffer[n + j] /\ n + j \in 1 .. Len(buffer) /\ 1 < n + j
  <2>1. Len(b) = Len(buffer) - n /\ \A j \in 1 .. Len(buffer) - n : b[j] = buffer[n + j]
    BY <1>1, <1>5, RestOf
  <2> QED BY <1>4, <1>5, <2>1
<1>9. \A j \in 1 .. Len(b) : Mark(m) # Place(b[j])
  <2> TAKE j \in 1 .. Len(b)
  <2>1. b[j] = buffer[n + j] /\ n + j \in 1 .. Len(buffer) /\ 1 # n + j
    BY <1>8
  <2> QED BY <1>4, <1>7, <2>1 DEF Distinct
<1>10. \A j \in 1 .. Len(wire) : Mark(m) < Place(wire[j]) /\ Mark(m) # Place(wire[j])
  <2> TAKE j \in 1 .. Len(wire)
  <2>1. Mark(m) < Place(wire[j])
    BY <1>4, <1>7 DEF Before
  <2>2. Place(wire[j]) \in Nat
    BY <1>5, PlaceType
  <2> QED BY <1>5, <2>1, <2>2
<1>11. \A x \in Readers : \A j \in 1 .. Len(chunk[x]) : Mark(m) # Place(chunk[x][j])
  BY <1>4, <1>7 DEF Apart
<1>12. /\ UnmarkedBy(p, b) /\ UnmarkedBy(p, wire)
       /\ \A x \in Readers : UnmarkedBy(p, chunk[x])
  <2>1. /\ UnmarkedBy(Parsed, b) /\ UnmarkedBy(Parsed, wire)
        /\ \A x \in Readers : UnmarkedBy(Parsed, chunk[x])
    BY <1>3 DEF BytesOf
  <2> QED BY <1>2, <1>4, <1>5, <1>9, <1>10, <1>11, <2>1, MarkedOnce
<1>13. Len(Parsed) \in Nat /\ Whole(Parsed) \subseteq 1 .. Len(Parsed)
  BY <1>5 DEF Whole
<1>14. ASSUME NEW i \in Whole(p)
       PROVE  (i \in Whole(Parsed) /\ p[i] = Parsed[i]) \/ (i = Len(Parsed) + 1 /\ p[i] = m)
  <2>1. m \in Data
    BY <1>4 DEF Data
  <2> QED BY <1>2, <1>5, <2>1, WholeAppended
<1>15. \A i \in Whole(Parsed) : Parsed[i] # m
  BY <1>4, <1>7 DEF UnmarkedBy
<1>16. /\ \A i \in Whole(p) : writer[p[i]] # "none" /\ Mark(p[i]) <= Frontier
       /\ \A i, j \in Whole(p) : i # j => p[i] # p[j]
  <2>1. /\ \A i \in Whole(Parsed) : writer[Parsed[i]] # "none" /\ Mark(Parsed[i]) <= Frontier
        /\ \A i, j \in Whole(Parsed) : i # j => Parsed[i] # Parsed[j]
    BY <1>6 DEF BytesOf
  <2>2. \A i \in Whole(p) : writer[p[i]] # "none" /\ Mark(p[i]) <= Frontier
    BY <1>4, <1>14, <2>1
  <2>3. \A i, j \in Whole(p) : i # j => p[i] # p[j]
    BY <1>14, <1>15, <2>1
  <2> QED BY <2>2, <2>3
<1>17. BytesOf(wire, b, chunk, p)
  BY <1>3, <1>12, <1>16 DEF BytesOf
<1>18. ASSUME OneReader PROVE OneReaderOf(wire, b, chunk, p)
  <2>1. OneReaderOf(wire, b, chunk, Parsed) /\ OneReaderOf(wire, buffer, chunk, Parsed)
    BY <1>3, <1>18, OneReaderNow
  <2>2. /\ Ordered(buffer) /\ AfterAllOf(Parsed, buffer)
        /\ \A x \in Readers : Before(buffer, chunk[x])
    BY <2>1 DEF OneReaderOf
  <2>3. \A j \in 1 .. Len(b) : Mark(m) < Place(b[j])
    <3> TAKE j \in 1 .. Len(b)
    <3>1. b[j] = buffer[n + j] /\ n + j \in 1 .. Len(buffer) /\ 1 < n + j
      BY <1>8
    <3> QED BY <1>4, <2>2, <3>1 DEF Ordered
  <2>4. \A x \in Readers : \A j \in 1 .. Len(chunk[x]) : Mark(m) < Place(chunk[x][j])
    BY <1>4, <2>2 DEF Before
  <2>5. /\ AfterAllOf(p, b) /\ AfterAllOf(p, wire) /\ \A x \in Readers : AfterAllOf(p, chunk[x])
    <3>1. /\ AfterAllOf(Parsed, b) /\ AfterAllOf(Parsed, wire)
          /\ \A x \in Readers : AfterAllOf(Parsed, chunk[x])
      BY <2>1 DEF OneReaderOf
    <3> QED BY <1>2, <1>4, <1>5, <1>10, <2>3, <2>4, <3>1, MarkedOnce
  <2>6. \A i \in Whole(Parsed) : start[Parsed[i]] < start[m]
    <3> TAKE i \in Whole(Parsed)
    <3>1. Mark(Parsed[i]) < Mark(m)
      BY <1>4, <2>2 DEF AfterAllOf
    <3>2. Parsed[i] \in Messages /\ start[Parsed[i]] \in Nat
      BY <1>5, PlaceType
    <3> QED BY <1>5, <3>1, <3>2 DEF Mark
  <2>7. ASSUME NEW i \in Whole(p), NEW j \in Whole(p), i < j
        PROVE  start[p[i]] < start[p[j]]
    <3>1. CASE j \in Whole(Parsed) /\ p[j] = Parsed[j]
      <4>1. i \in Whole(Parsed) /\ p[i] = Parsed[i]
        BY <1>13, <1>14, <2>7, <3>1
      <4> QED BY <2>1, <2>7, <3>1, <4>1 DEF OneReaderOf
    <3>2. CASE j = Len(Parsed) + 1 /\ p[j] = m
      <4>1. i \in Whole(Parsed) /\ p[i] = Parsed[i]
        BY <1>13, <1>14, <2>7, <3>2
      <4> QED BY <2>6, <3>2, <4>1
    <3> QED BY <1>14, <3>1, <3>2
  <2> QED BY <2>1, <2>5, <2>7 DEF OneReaderOf
<1> QED BY <1>1, <1>2, <1>17, <1>18

LEMMA TakeBodyBytes ==
    ASSUME TypeInv, BytesInv, NEW r \in Readers, TakeBody(r)
    PROVE  BytesInv' /\ (OneReader => OneReader')
<1>1. /\ UNCHANGED <<start, writer, wire, chunk, delivered>>
      /\ reader[r] = "body" /\ Goto(r, "parse")
  BY DEF TakeBody, IsReader, sendVars, socketVars
<1>2. Frontier' = Frontier
  BY OthersKeepFrontier DEF TakeBody
<1>3. OneReader => OneAtATime'
  BY <1>1, ReaderGoes, OneReaderNow DEF ReaderStates, OneAtATime
<1>4. CASE UNCHANGED <<readMessages, buffer>>
  <2>1. Parsed' = Parsed
    BY <1>1, <1>4 DEF Parsed
  <2> QED BY <1>1, <1>2, <1>3, <1>4, <2>1, LookBytes
<1>5. CASE ~UNCHANGED <<readMessages, buffer>>
  <2>1. PICK n : n = dataLen[r]
    OBVIOUS
  <2>2. ~(Len(buffer) < n) /\ buffer' = SubSeq(buffer, n + 1, Len(buffer))
    BY <1>5, <2>1 DEF TakeBody
  <2>3. PICK d \in Decoded(n) : readMessages' = Append(readMessages, d)
    BY <1>5, <2>1 DEF TakeBody
  <2>4. n \in Nat /\ n <= Len(buffer)
    <3>1. n \in Nat
      BY <2>1 DEF TypeInv, ReadTypes
    <3>2. Len(buffer) \in Nat
      BY PlaceType
    <3> QED BY <2>2, <3>1, <3>2
  <2>5. PICK p : p = Append(Parsed, d)
    OBVIOUS
  <2>6. Parsed' = p
    <3>1. delivered \in Seq(Data) /\ readMessages \in Seq(Data) /\ d \in Data
      BY DEF TypeInv, ReadTypes, Decoded, BodyOf, Data
    <3> QED BY <1>1, <2>3, <2>5, <3>1, AppendJoined DEF Parsed
  <2>7. PICK b : b = buffer'
    OBVIOUS
  <2>8. /\ BytesOf(wire, b, chunk, p)
        /\ OneReader => OneReaderOf(wire, b, chunk, p)
    <3>1. CASE d \in BodyOf(n)
      BY <2>2, <2>4, <2>5, <2>7, <3>1, BodyBytesGo
    <3>2. CASE d = Garbage
      <4>1. /\ BytesOf(wire, b, chunk, Parsed)
            /\ OneReader => OneReaderOf(wire, b, chunk, Parsed)
        BY <2>2, <2>4, <2>7, DropBytes
      <4>2. Parsed \in Seq(Data)
        BY PlaceType
      <4> QED BY <2>5, <3>2, <4>1, <4>2, GarbageJoins
    <3>3. d \in BodyOf(n) \/ d = Garbage
      BY <2>3 DEF Decoded
    <3> QED BY <3>1, <3>2, <3>3
  <2>9. BytesInv'
    BY <1>1, <1>2, <2>6, <2>7, <2>8, BytesThen
  <2>10. OneReader => OneReader'
    BY <1>1, <1>3, <2>6, <2>7, <2>8, OneReaderThen DEF OneAtATime
  <2> QED BY <2>9, <2>10
<1> QED BY <1>4, <1>5

\* The steps of a reader that move no byte.
LEMMA IdleBytes ==
    ASSUME TypeInv, BytesInv, ~overlapped => OneReader, NEW r \in Readers,
           \/ StartTask(r) \/ NothingToRead(r) \/ SeeHead(r) \/ SeeBody(r)
           \/ SeeMessage(r) \/ DeliverMessage(r) \/ ParseEnds(r)
    PROVE  BytesInv' /\ (~overlapped' => OneReader')
<1>1. UNCHANGED <<sendVars, wire, buffer, chunk>>
  BY DEF StartTask, NothingToRead, SeeHead, SeeBody, SeeMessage, DeliverMessage, ParseEnds,
     socketVars, parseVars
<1>2. UNCHANGED <<start, writer>> /\ Frontier' = Frontier
  BY <1>1, OthersKeepFrontier DEF sendVars
<1>3. Parsed' = Parsed
  <2>1. CASE DeliverMessage(r)
    <3>1. CASE readMessages = <<>>
      BY <2>1, <3>1 DEF DeliverMessage, Parsed
    <3>2. CASE readMessages # <<>>
      <4>1. delivered' = Append(delivered, readMessages[1]) /\ readMessages' = Tail(readMessages)
        BY <2>1, <3>2 DEF DeliverMessage, Popped
      <4>2. delivered \in Seq(Data) /\ readMessages \in Seq(Data)
        BY DEF TypeInv, ReadTypes
      <4> QED BY <3>2, <4>1, <4>2, HandedOn DEF Parsed
    <3> QED BY <3>1, <3>2
  <2>2. CASE ~DeliverMessage(r)
    BY <2>2 DEF StartTask, NothingToRead, SeeHead, SeeBody, SeeMessage, ParseEnds, parseVars,
       Parsed
  <2> QED BY <2>1, <2>2
<1>4. ASSUME ~overlapped' PROVE OneReader /\ OneAtATime'
  <2>1. CASE StartTask(r)
    <3>1. ~overlapped /\ \A x \in Readers : reader[x] = "idle"
      BY <1>4, <2>1 DEF StartTask
    <3>2. reader \in [Readers -> ReaderStates] /\ reader' = [reader EXCEPT ![r] = "read"]
      BY <2>1 DEF StartTask, Goto, TypeInv, ReadTypes
    <3>3. \A x \in Readers : x # r => reader'[x] = "idle"
      BY <3>1, <3>2
    <3> QED BY <3>1, <3>3 DEF OneAtATime
  <2>2. CASE ~StartTask(r)
    <3>1. overlapped' = overlapped /\ reader[r] # "idle" /\ \E s \in ReaderStates : Goto(r, s)
      BY <2>2 DEF NothingToRead, SeeHead, SeeBody, SeeMessage, DeliverMessage, ParseEnds,
         IsReader, ReaderStates, readVars
    <3>2. OneReader
      BY <1>4, <3>1
    <3>3. OneAtATime
      BY <3>2 DEF OneReader, OneAtATime
    <3> QED BY <3>1, <3>2, <3>3, ReaderGoes
  <2> QED BY <2>1, <2>2
<1>5. BytesInv' /\ (OneReader /\ OneAtATime' => OneReader')
  BY <1>1, <1>2, <1>3, LookBytes
<1> QED BY <1>4, <1>5

LEMMA WriteBytes ==
    ASSUME TypeInv, OrderInv, BytesInv, NEW m \in Messages, PushMessage(m) \/ Write(m)
    PROVE  BytesInv' /\ overlapped' = overlapped /\ (OneReader => OneReader')
<1>1. CASE PushMessage(m)
  <2>1. /\ UNCHANGED <<wire, buffer, chunk, reader, overlapped>> /\ Parsed' = Parsed
    BY <1>1 DEF PushMessage, socketVars, parseVars, readVars, Parsed
  <2>2. /\ Frontier' = Frontier /\ Frontier \in Nat
        /\ \A x \in Messages : writer[x] # "none" => writer'[x] # "none" /\ start'[x] = start[x]
    BY <1>1, PushKeepsFrontier
  <2> QED BY <2>1, <2>2, BytesKept
<1>2. CASE ClientSend(m) \/ ServerSend(m)
  <2>1. PICK sent \in Seq(Bytes) :
            /\ wire' = wire \o sent
            /\ \A i \in 1 .. Len(sent) : /\ Place(sent[i]) = Frontier + i
                                         /\ writer[sent[i][1]] # "none"
            /\ Frontier + Len(sent) <= Frontier' /\ Frontier \in Nat
            /\ UNCHANGED <<pushed, start, writer, chunk, buffer, readMessages, delivered,
                           reader, overlapped>>
    BY <1>2, SendMoves
  <2>2. Parsed' = Parsed
    BY <2>1 DEF Parsed
  <2>3. Frontier' \in Nat
    <3>1. TypeInv' /\ OrderInv'
      <4>1. Next
        BY <1>2 DEF Next, Write
      <4> QED BY <4>1, TypeStep, OrderStep
    <3> QED BY <3>1, FrontierNext DEF FrontierKnown
  <2> QED BY <2>1, <2>2, <2>3, BytesSent
<1>3. CASE LockSend(m) \/ TakeMessage(m) \/ QueueDrained(m) \/ ClientSendFails(m)
           \/ ServerSendBlocked(m)
  <2>1. /\ Frontier \in Nat /\ Frontier <= Frontier'
        /\ UNCHANGED <<pushed, start, wire, chunk, buffer, readMessages, delivered, reader,
                       overlapped>>
        /\ \A x \in Messages : writer[x] # "none" => writer'[x] # "none"
    BY <1>3, CallMoves
  <2>2. Parsed' = Parsed
    BY <2>1 DEF Parsed
  <2>3. Frontier' \in Nat
    <3>1. TypeInv' /\ OrderInv'
      <4>1. Next
        BY <1>3 DEF Next, Write
      <4> QED BY <4>1, TypeStep, OrderStep
    <3> QED BY <3>1, FrontierNext DEF FrontierKnown
  <2> QED BY <2>1, <2>2, <2>3, BytesKept
<1> QED BY <1>1, <1>2, <1>3 DEF Write

\* Every byte that is under way was sent once, and every message parsed is
\* marked by a byte that no longer is; with one reader at a time all of them are
\* in order as well.
DeliveryInv == TypeInv /\ OrderInv /\ BytesInv /\ (~overlapped => OneReader)

LEMMA DeliveryInit == Init => DeliveryInv
<1> SUFFICES ASSUME Init PROVE DeliveryInv
  OBVIOUS
<1>1. /\ pushed = <<>> /\ sendMessages = <<>> /\ wire = <<>> /\ buffer = <<>>
      /\ readMessages = <<>> /\ delivered = <<>> /\ writer = [m \in Messages |-> "none"]
      /\ inHand = [m \in Messages |-> NoMessage]
      /\ \A r \in Readers : chunk[r] = <<>>
  BY DEF Init
<1>2. OrderInv
  BY <1>1 DEF OrderInv, PushInv, QueueInv, HandInv
<1>3. Parsed = <<>>
  BY <1>1 DEF Parsed
<1>4. BytesOf(wire, buffer, chunk, Parsed)
  <2>1. Distinct(<<>>)
    BY DEF Distinct
  <2>2. \A r \in Readers : chunk[r] = <<>>
    BY <1>1
  <2>3. Len(Parsed) = 0
    BY <1>3
  <2>4. \A i \in Whole(Parsed) : FALSE
    BY <2>3 DEF Whole
  <2> QED BY <1>1, <2>1, <2>2, <2>4, EmptyOf DEF BytesOf
<1>5. OneReaderOf(wire, buffer, chunk, Parsed)
  <2>1. \A i \in Whole(Parsed) : FALSE
    BY <1>3 DEF Whole
  <2> QED BY <1>1, <2>1, EmptyOf DEF OneReaderOf
<1>6. \A r, x \in Readers : reader[r] # "idle" /\ reader[x] # "idle" => r = x
  BY DEF Init
<1> QED BY <1>2, <1>4, <1>5, <1>6, TypeInit, BytesNow, OneReaderNow DEF DeliveryInv

LEMMA DeliveryStep == DeliveryInv /\ [Next]_vars => DeliveryInv'
<1> SUFFICES ASSUME DeliveryInv, [Next]_vars PROVE DeliveryInv'
  OBVIOUS
<1>1. TypeInv /\ OrderInv /\ BytesInv /\ (~overlapped => OneReader)
  BY DEF DeliveryInv
<1>2. TypeInv' /\ OrderInv'
  BY <1>1, TypeStep, OrderStep
<1>3. BytesInv' /\ (~overlapped' => OneReader')
  <2>1. CASE UNCHANGED vars \/ Arrive \/ CommitRead
    <3>1. /\ UNCHANGED <<sendVars, wire, buffer, chunk, readMessages, delivered>>
          /\ UNCHANGED <<start, writer, reader, overlapped>>
      BY <2>1 DEF vars, Arrive, CommitRead, sendVars, socketVars, parseVars, readVars
    <3>2. Parsed' = Parsed /\ Frontier' = Frontier
      BY <3>1, OthersKeepFrontier DEF Parsed
    <3>3. OneReader => OneAtATime'
      BY <3>1 DEF OneReader, OneAtATime
    <3> QED BY <1>1, <3>1, <3>2, <3>3, LookBytes
  <2>2. ASSUME NEW m \in Messages, PushMessage(m) \/ Write(m)
        PROVE  BytesInv' /\ (~overlapped' => OneReader')
    BY <1>1, <2>2, WriteBytes
  <2>3. ASSUME NEW r \in Readers, Read(r) PROVE BytesInv' /\ (~overlapped' => OneReader')
    <3>1. CASE ReadSocket(r) \/ EnqueueChunk(r) \/ TakeHead(r) \/ TakeBody(r)
      <4>1. overlapped' = overlapped
        BY <3>1 DEF ReadSocket, EnqueueChunk, TakeHead, TakeBody
      <4>2. BytesInv' /\ (OneReader => OneReader')
        BY <1>1, <3>1, SocketBytes, EnqueueBytes, HeadBytesGo, TakeBodyBytes
      <4> QED BY <1>1, <4>1, <4>2
    <3>2. CASE ~(ReadSocket(r) \/ EnqueueChunk(r) \/ TakeHead(r) \/ TakeBody(r))
      BY <1>1, <2>3, <3>2, IdleBytes DEF Read
    <3> QED BY <3>1, <3>2
  <2> QED BY <2>1, <2>2, <2>3 DEF Next
<1> QED BY <1>2, <1>3 DEF DeliveryInv

LEMMA DeliveryInvariant == Spec => []DeliveryInv
BY DeliveryInit, DeliveryStep, PTL DEF Spec

LEMMA DeliveredFirst ==
    ASSUME TypeInv
    PROVE  /\ delivered \in Seq(Data) /\ DOMAIN delivered = 1 .. Len(delivered)
           /\ \A i \in 1 .. Len(delivered) : i \in 1 .. Len(Parsed) /\ delivered[i] = Parsed[i]
           /\ \A i \in 1 .. Len(delivered) : delivered[i] # Garbage => i \in Whole(Parsed)
<1>1. delivered \in Seq(Data) /\ readMessages \in Seq(Data)
  BY DEF TypeInv, ReadTypes
<1>2. Len(Parsed) = Len(delivered) + Len(readMessages)
  BY <1>1, ConcatProperties DEF Parsed
<1>3. \A i \in 1 .. Len(delivered) : i \in 1 .. Len(Parsed) /\ delivered[i] = Parsed[i]
  BY <1>1, <1>2 DEF Parsed
<1>4. \A i \in 1 .. Len(delivered) : delivered[i] # Garbage => i \in Whole(Parsed)
  BY <1>3 DEF Whole
<1> QED BY <1>1, <1>3, <1>4

\* No message is delivered twice, by however many threads at once the stream is
\* read and parsed, and whatever one of them does between two locks of another:
\* a message is parsed when its first byte leaves the buffer, and no byte is in
\* two of the buffer, the chunks and the wire.
THEOREM ParsedOnlyOnce == Spec => []DeliveredOnce
<1>1. DeliveryInv => DeliveredOnce
  <2> SUFFICES ASSUME DeliveryInv, NEW i \in DOMAIN delivered, NEW j \in DOMAIN delivered,
                      delivered[i] = delivered[j], delivered[i] # Garbage
               PROVE  i = j
    BY DEF DeliveredOnce
  <2>1. TypeInv /\ ParsedOnce
    BY DEF DeliveryInv, BytesInv
  <2>2. /\ i \in Whole(Parsed) /\ delivered[i] = Parsed[i]
        /\ j \in Whole(Parsed) /\ delivered[j] = Parsed[j]
    BY <2>1, DeliveredFirst
  <2> QED BY <2>1, <2>2 DEF ParsedOnce
<1> QED BY <1>1, DeliveryInvariant, PTL

\* Of two messages, the one whose frame begins first was written first.
LEMMA BeginsBefore ==
    ASSUME TypeInv, PushInv, NEW a \in 1 .. Len(pushed), NEW b \in 1 .. Len(pushed),
           start[pushed[a]] < start[pushed[b]]
    PROVE  a < b
<1>1. /\ start[pushed[a]] \in Nat /\ start[pushed[b]] \in Nat
      /\ FrameLength(pushed[b]) \in Nat /\ Len(pushed) \in Nat
  BY BeginOf, LensType
<1>2. a # b
  BY <1>1
<1>3. b < a => start[pushed[b]] + FrameLength(pushed[b]) <= start[pushed[a]]
  BY DEF PushInv
<1>4. ~(b < a)
  BY <1>1, <1>3
<1> QED BY <1>1, <1>2, <1>4

\* As long as read_data runs on one thread at a time, messages are delivered in
\* the order of write_data, though a client may lose some of them when send fails
\* or takes a part: the frames that get through begin one behind the other in
\* the stream of all that were pushed.
THEOREM OrderOfDelivery == Spec => []DeliveredInOrder
<1>1. DeliveryInv => DeliveredInOrder
  <2> SUFFICES ASSUME DeliveryInv, ~overlapped,
                      NEW i \in DOMAIN delivered, NEW j \in DOMAIN delivered, i < j,
                      NEW k \in DOMAIN pushed, NEW l \in DOMAIN pushed,
                      delivered[i] = pushed[k], delivered[j] = pushed[l]
               PROVE  k < l
    BY DEF DeliveredInOrder
  <2>1. TypeInv /\ OrderInv /\ OneReader
    BY DEF DeliveryInv
  <2>2. /\ k \in 1 .. Len(pushed) /\ pushed[k] \in Messages
        /\ l \in 1 .. Len(pushed) /\ pushed[l] \in Messages
    BY <2>1, LensType
  <2>3. delivered[i] # Garbage /\ delivered[j] # Garbage
    BY <2>2, ChannelAssumption DEF ChannelAssumption
  <2>4. /\ i \in Whole(Parsed) /\ delivered[i] = Parsed[i]
        /\ j \in Whole(Parsed) /\ delivered[j] = Parsed[j]
    BY <2>1, <2>3, DeliveredFirst
  <2>5. start[pushed[k]] < start[pushed[l]]
    BY <2>1, <2>4 DEF OneReader
  <2> QED BY <2>1, <2>2, <2>5, BeginsBefore DEF OrderInv
<1> QED BY <1>1, DeliveryInvariant, PTL

-----------------------------------------------------------------------------
(* Whole frames from a client                                               *)

\* Every frame in s goes on to its end, and the next begins behind it.
Framed(s) ==
    /\ \A k \in 1 .. Len(s) : \A d \in Nat : s[k][2] + d <= FrameLength(s[k][1]) =>
        k + d <= Len(s) /\ s[k + d] = <<s[k][1], s[k][2] + d>>
    /\ \A k \in 1 .. Len(s) :
        k < Len(s) /\ s[k][2] = FrameLength(s[k][1]) => s[k + 1][2] = 1

\* The first byte of s is that of a head, or of the body of n bytes.
Aligned(s, n) ==
    IF n = 0 THEN Len(s) > 0 => s[1][2] = 1
    ELSE Len(s) > 0 /\ s[1][2] = HeadLength + 1 /\ n = Length[s[1][1]]

\* What r has seen still holds when it acts on it.
SeenBy(r) ==
    /\ reader[r] = "head" => bodyLength = 0 /\ Len(buffer) > HeadLength
    /\ reader[r] = "length" => bodyLength # 0
    /\ reader[r] = "body" =>
        bodyLength # 0 /\ dataLen[r] = bodyLength /\ Len(buffer) >= bodyLength
    /\ reader[r] = "pop" => readMessages # <<>>

Alone(r) == \A x \in Readers : x # r => reader[x] = "idle"
ClientFrames(r) == Framed(Held(r)) /\ Aligned(Held(r), bodyLength) /\ SeenBy(r)

FramesInv ==
    ~overlapped /\ ~truncated =>
        /\ failure \in {"none", "overflow"}
        /\ Whole(Parsed) = 1 .. Len(Parsed)
        /\ Running /\ sender = "client" =>
            \A r \in Readers : Alone(r) => ClientFrames(r)

LEMMA FramedDrops ==
    ASSUME NEW s \in Seq(Bytes), NEW t \in Seq(Bytes), NEW n \in Nat, n <= Len(s),
           Len(t) = Len(s) - n, \A i \in 1 .. Len(s) - n : t[i] = s[n + i], Framed(s)
    PROVE  Framed(t)
<1>1. ASSUME NEW k \in 1 .. Len(t)
      PROVE  t[k] = s[n + k] /\ n + k \in 1 .. Len(s) /\ s[n + k] \in Bytes
  OBVIOUS
<1>2. ASSUME NEW k \in 1 .. Len(t), NEW d \in Nat, t[k][2] + d <= FrameLength(t[k][1])
      PROVE  k + d <= Len(t) /\ t[k + d] = <<t[k][1], t[k][2] + d>>
  <2>1. (n + k) + d <= Len(s) /\ s[(n + k) + d] = <<t[k][1], t[k][2] + d>>
    BY <1>1, <1>2 DEF Framed
  <2>2. k + d \in 1 .. Len(t) /\ n + (k + d) = (n + k) + d
    BY <2>1
  <2>3. t[k + d] = s[n + (k + d)]
    BY <2>2
  <2>4. t[k + d] = <<t[k][1], t[k][2] + d>>
    BY <2>1, <2>2, <2>3
  <2> QED BY <2>2, <2>4
<1>3. ASSUME NEW k \in 1 .. Len(t), k < Len(t), t[k][2] = FrameLength(t[k][1])
      PROVE  t[k + 1][2] = 1
  <2>1. n + k < Len(s)
    BY <1>3
  <2>2. s[(n + k) + 1][2] = 1
    BY <1>1, <1>3, <2>1 DEF Framed
  <2>3. k + 1 \in 1 .. Len(t) /\ n + (k + 1) = (n + k) + 1
    BY <1>3
  <2> QED BY <1>1, <2>2, <2>3
<1> QED BY <1>2, <1>3 DEF Framed

LEMMA FramedGrows ==
    ASSUME NEW s \in Seq(Bytes), NEW m \in Messages, Framed(s)
    PROVE  /\ Framed(s \o Frame(m))
           /\ \A n \in Nat : Aligned(s, n) => Aligned(s \o Frame(m), n)
<1>1. PICK f : f = Frame(m)
  OBVIOUS
<1>2. PICK v : v = s \o f
  OBVIOUS
<1>3. /\ f \in Seq(Bytes) /\ Len(f) = FrameLength(m) /\ FrameLength(m) \in Nat
      /\ FrameLength(m) > 0 /\ \A i \in 1 .. FrameLength(m) : f[i] = <<m, i>>
  BY <1>1, FrameOf DEF FrameLength
<1>4. /\ Len(s) \in Nat /\ Len(v) = Len(s) + FrameLength(m)
      /\ \A i \in 1 .. Len(s) : v[i] = s[i] /\ s[i] \in Bytes
      /\ \A i \in 1 .. FrameLength(m) : v[Len(s) + i] = <<m, i>>
  <2>1. /\ Len(s) \in Nat /\ Len(v) = Len(s) + Len(f)
        /\ \A i \in 1 .. Len(s) : v[i] = s[i] /\ s[i] \in Bytes
        /\ \A i \in 1 .. Len(f) : v[Len(s) + i] = f[i]
    <3>1. f \in Seq(Bytes) /\ Len(s) \in Nat /\ Len(f) \in Nat
      BY <1>3
    <3>2. Len(v) = Len(s) + Len(f)
      BY <1>2, <3>1
    <3>3. \A i \in 1 .. Len(s) : v[i] = s[i] /\ s[i] \in Bytes
      BY <1>2, <3>1
    <3>4. \A i \in 1 .. Len(f) : v[Len(s) + i] = f[i]
      BY <1>2, <3>1
    <3> QED BY <3>1, <3>2, <3>3, <3>4
  <2> QED BY <1>3, <2>1
<1>5. ASSUME NEW k \in 1 .. Len(v)
      PROVE  \/ k \in 1 .. Len(s) /\ v[k] = s[k] /\ s[k] \in Bytes
             \/ k - Len(s) \in 1 .. FrameLength(m) /\ v[k] = <<m, k - Len(s)>>
  <2>1. CASE k <= Len(s)
    BY <1>4, <2>1
  <2>2. CASE k > Len(s)
    <3>1. k - Len(s) \in 1 .. FrameLength(m) /\ Len(s) + (k - Len(s)) = k
      BY <1>3, <1>4, <2>2
    <3>2. v[Len(s) + (k - Len(s))] = <<m, k - Len(s)>>
      BY <1>4, <3>1
    <3> QED BY <3>1, <3>2
  <2> QED BY <1>4, <2>1, <2>2
<1>6. ASSUME NEW k \in 1 .. Len(v), NEW d \in Nat, v[k][2] + d <= FrameLength(v[k][1])
      PROVE  k + d <= Len(v) /\ v[k + d] = <<v[k][1], v[k][2] + d>>
  <2>1. CASE k \in 1 .. Len(s) /\ v[k] = s[k] /\ s[k] \in Bytes
    <3>1. k + d <= Len(s) /\ s[k + d] = <<s[k][1], s[k][2] + d>>
      BY <1>6, <2>1 DEF Framed
    <3>2. k + d \in 1 .. Len(s) /\ k + d <= Len(v)
      BY <1>3, <1>4, <2>1, <3>1
    <3> QED BY <1>4, <2>1, <3>1, <3>2
  <2>2. CASE k - Len(s) \in 1 .. FrameLength(m) /\ v[k] = <<m, k - Len(s)>>
    <3>1. v[k][1] = m /\ v[k][2] = k - Len(s)
      BY <2>2
    <3>2. k - Len(s) + d \in 1 .. FrameLength(m) /\ Len(s) + (k - Len(s) + d) = k + d
      BY <1>3, <1>4, <1>6, <2>2, <3>1
    <3>3. v[Len(s) + (k - Len(s) + d)] = <<m, k - Len(s) + d>>
      BY <1>4, <3>2
    <3>4. k + d <= Len(v)
      BY <1>3, <1>4, <3>2
    <3> QED BY <3>1, <3>2, <3>3, <3>4
  <2> QED BY <1>5, <2>1, <2>2
<1>7. ASSUME NEW k \in 1 .. Len(v), k < Len(v), v[k][2] = FrameLength(v[k][1])
      PROVE  v[k + 1][2] = 1
  <2>1. CASE k \in 1 .. Len(s) /\ v[k] = s[k] /\ k < Len(s)
    <3>1. s[k + 1][2] = 1
      BY <1>7, <2>1 DEF Framed
    <3> QED BY <1>4, <2>1, <3>1
  <2>2. CASE k = Len(s)
    <3>1. v[Len(s) + 1] = <<m, 1>>
      BY <1>3, <1>4
    <3> QED BY <2>2, <3>1
  <2>3. CASE k - Len(s) \in 1 .. FrameLength(m) /\ v[k] = <<m, k - Len(s)>>
    <3>1. v[k][2] = k - Len(s) /\ v[k][1] = m
      BY <2>3
    <3>2. k - Len(s) = FrameLength(m)
      BY <1>7, <3>1
    <3>3. k = Len(v)
      BY <1>3, <1>4, <3>2
    <3> QED BY <1>7, <3>3
  <2> QED BY <1>4, <1>5, <2>1, <2>2, <2>3
<1>8. ASSUME NEW n \in Nat, Aligned(s, n) PROVE Aligned(v, n)
  <2>1. CASE Len(s) > 0
    <3>1. v[1] = s[1] /\ Len(v) > 0
      BY <1>3, <1>4, <2>1
    <3> QED BY <1>8, <2>1, <3>1 DEF Aligned
  <2>2. CASE Len(s) = 0
    <3>1. v[Len(s) + 1] = <<m, 1>>
      BY <1>3, <1>4
    <3>2. n = 0 /\ v[1] = <<m, 1>>
      BY <1>8, <2>2, <3>1 DEF Aligned
    <3> QED BY <3>2 DEF Aligned
  <2> QED BY <1>4, <2>1, <2>2
<1> QED BY <1>1, <1>2, <1>6, <1>7, <1>8 DEF Framed

\* A whole head is taken for a length, and what follows it is a body of it.
LEMMA HeadFramed ==
    ASSUME TypeInv, NEW r \in Readers, ClientFrames(r), TakeHead(r)
    PROVE  ClientFrames(r)' /\ failure' = "none" /\ Parsed' = Parsed
<1>1. /\ reader[r] = "head" /\ bodyLength = 0 /\ Len(buffer) > HeadLength /\ failure = "none"
      /\ reader \in [Readers -> ReaderStates]
  BY DEF TakeHead, IsReader, Running, ClientFrames, SeenBy, TypeInv, ReadTypes
<1>2. PICK s : s = Held(r)
  OBVIOUS
<1>3. /\ HeadLength \in Nat /\ HeadLength > 0 /\ Len(buffer) \in Nat /\ Len(s) \in Nat
      /\ HeadLength < Len(s) /\ s \in Seq(Bytes)
      /\ \A i \in 1 .. Len(buffer) : s[i] = buffer[i]
  <2>1. HeadLength \in Nat /\ HeadLength > 0
    BY ChannelAssumption DEF ChannelAssumption
  <2>2. /\ Len(buffer) \in Nat /\ Len(wire) \in Nat /\ Len(chunk[r]) \in Nat
        /\ Held(r) \in Seq(Bytes) /\ Len(Held(r)) = Len(buffer) + Len(chunk[r]) + Len(wire)
        /\ \A i \in 1 .. Len(buffer) : Held(r)[i] = buffer[i]
    BY HeldType
  <2> QED BY <1>1, <1>2, <2>1, <2>2
<1>4. Framed(s) /\ s[1][2] = 1 /\ s[1] \in Bytes
  BY <1>1, <1>2, <1>3 DEF ClientFrames, Aligned
<1>5. PICK p \in Messages : s[1] = <<p, 1>>
  BY <1>4 DEF Bytes
<1>6. /\ Length[p] \in Nat /\ Length[p] > 0 /\ FrameLength(p) = HeadLength + Length[p]
  BY FrameOf DEF FrameLength
<1>7. ASSUME NEW i \in 1 .. HeadLength + 1 PROVE s[i] = <<p, i>>
  <2>1. PICK d \in Nat : i = 1 + d /\ 1 + d <= FrameLength(p)
    BY <1>3, <1>6
  <2>2. 1 \in 1 .. Len(s) /\ s[1][1] = p /\ s[1][2] = 1
    BY <1>3, <1>5
  <2> QED BY <1>4, <2>1, <2>2 DEF Framed
<1>8. HeadOf = {p}
  <2>1. ASSUME NEW i \in 1 .. HeadLength PROVE buffer[i] = <<p, i>>
    <3>1. i \in 1 .. Len(buffer) /\ i \in 1 .. HeadLength + 1
      BY <1>1, <1>3
    <3> QED BY <1>3, <1>7, <3>1
  <2> QED BY <1>1, <1>3, <2>1, HeadIs
<1>9. /\ failure' = "none" /\ bodyLength' = Length[p]
      /\ buffer' = SubSeq(buffer, HeadLength + 1, Len(buffer))
      /\ reader'[r] = "length" /\ UNCHANGED <<wire, chunk, readMessages, delivered>>
  <2>1. LengthsRead = {Length[p]}
    BY <1>8 DEF LengthsRead, BodyLength
  <2>2. ~(Len(buffer) < HeadLength)
    BY <1>1, <1>3
  <2> QED BY <1>1, <2>1, <2>2 DEF TakeHead, Goto, socketVars
<1>10. PICK t : t = Held(r)'
  OBVIOUS
<1>11. t \in Seq(Bytes) /\ Len(t) = Len(s) - HeadLength
       /\ \A i \in 1 .. Len(s) - HeadLength : t[i] = s[HeadLength + i]
  <2>1. /\ Len(t) = Len(s) - HeadLength
        /\ \A i \in 1 .. Len(s) - HeadLength : t[i] = s[HeadLength + i]
    <3>1. HeadLength \in Nat /\ HeadLength <= Len(buffer) /\ UNCHANGED <<chunk, wire>>
      BY <1>1, <1>3, <1>9
    <3>2. /\ Len(Held(r)') = Len(Held(r)) - HeadLength
          /\ \A i \in 1 .. Len(Held(r)) - HeadLength : Held(r)'[i] = Held(r)[HeadLength + i]
      BY <1>9, <3>1, HeldDrops
    <3> QED BY <1>2, <1>10, <3>2
  <2>2. TypeInv'
    BY ReadType DEF Read
  <2>3. t \in Seq(Bytes)
    BY <1>10, <2>2, HeldTypeNext DEF HeldKnown
  <2> QED BY <2>1, <2>3
<1>12. Framed(t)
  <2>1. HeadLength <= Len(s)
    BY <1>3
  <2> QED BY <1>3, <1>4, <1>11, <2>1, FramedDrops
<1>13. Aligned(t, Length[p])
  <2>1. t[1] = s[HeadLength + 1] /\ Len(t) > 0
    BY <1>3, <1>11
  <2>2. s[HeadLength + 1] = <<p, HeadLength + 1>>
    BY <1>3, <1>7
  <2> QED BY <1>6, <2>1, <2>2 DEF Aligned
<1>14. SeenBy(r)'
  BY <1>6, <1>9 DEF SeenBy
<1>15. ClientFrames(r)'
  BY <1>9, <1>10, <1>12, <1>13, <1>14 DEF ClientFrames, Framed, Aligned, FrameLength
<1> QED BY <1>9, <1>15 DEF Parsed

\* What it marks out is a whole body, and behind it is a head or nothing.
LEMMA BodyFramed ==
    ASSUME TypeInv, NEW r \in Readers, ClientFrames(r), TakeBody(r),
           Whole(Parsed) = 1 .. Len(Parsed)
    PROVE  /\ ClientFrames(r)' /\ failure' = "none"
           /\ Whole(Parsed)' = 1 .. Len(Parsed')
<1>1. /\ reader[r] = "body" /\ bodyLength # 0 /\ dataLen[r] = bodyLength
      /\ Len(buffer) >= bodyLength /\ failure = "none" /\ reader \in [Readers -> ReaderStates]
  BY DEF TakeBody, IsReader, Running, ClientFrames, SeenBy, TypeInv, ReadTypes
<1>2. PICK s : s = Held(r)
  OBVIOUS
<1>3. /\ HeadLength \in Nat /\ Len(buffer) \in Nat /\ Len(s) \in Nat
      /\ Len(buffer) <= Len(s) /\ s \in Seq(Bytes)
      /\ \A i \in 1 .. Len(buffer) : s[i] = buffer[i]
  <2>1. HeadLength \in Nat
    BY ChannelAssumption DEF ChannelAssumption
  <2>2. /\ Len(buffer) \in Nat /\ Len(wire) \in Nat /\ Len(chunk[r]) \in Nat
        /\ Held(r) \in Seq(Bytes) /\ Len(Held(r)) = Len(buffer) + Len(chunk[r]) + Len(wire)
        /\ \A i \in 1 .. Len(buffer) : Held(r)[i] = buffer[i]
    BY HeldType
  <2> QED BY <1>2, <2>1, <2>2
<1>4. /\ Framed(s) /\ Len(s) > 0 /\ s[1] \in Bytes
      /\ s[1][2] = HeadLength + 1 /\ bodyLength = Length[s[1][1]]
  BY <1>1, <1>2, <1>3 DEF ClientFrames, Aligned
<1>5. PICK p \in Messages : s[1] = <<p, HeadLength + 1>>
  BY <1>4 DEF Bytes
<1>6. /\ bodyLength = Length[p] /\ bodyLength \in Nat /\ bodyLength > 0
      /\ bodyLength <= Len(buffer) /\ FrameLength(p) = HeadLength + bodyLength
  <2>1. bodyLength = Length[p]
    BY <1>4, <1>5
  <2> QED BY <1>1, <2>1, FrameOf DEF FrameLength
<1>7. ASSUME NEW i \in 1 .. bodyLength PROVE s[i] = <<p, HeadLength + i>>
  <2>1. PICK d \in Nat : i = 1 + d
    BY <1>6
  <2>2. /\ 1 \in 1 .. Len(s) /\ s[1][1] = p /\ s[1][2] = HeadLength + 1
        /\ (HeadLength + 1) + d <= FrameLength(p) /\ (HeadLength + 1) + d = HeadLength + i
    BY <1>3, <1>4, <1>5, <1>6, <2>1
  <2>3. s[1 + d] = <<s[1][1], s[1][2] + d>>
    BY <1>4, <2>2 DEF Framed
  <2> QED BY <2>1, <2>2, <2>3
<1>8. BodyOf(bodyLength) = {p}
  <2>1. ASSUME NEW i \in 1 .. Length[p] PROVE buffer[i] = <<p, HeadLength + i>>
    <3>1. i \in 1 .. Len(buffer) /\ i \in 1 .. bodyLength
      BY <1>3, <1>6
    <3> QED BY <1>3, <1>7, <3>1
  <2>2. Length[p] <= Len(buffer)
    BY <1>6
  <2>3. BodyOf(Length[p]) = {p}
    BY <2>1, <2>2, BodyIs
  <2> QED BY <1>6, <2>3
<1>9. /\ failure' = "none" /\ bodyLength' = 0 /\ readMessages' = Append(readMessages, p)
      /\ buffer' = SubSeq(buffer, bodyLength + 1, Len(buffer))
      /\ reader'[r] = "parse" /\ UNCHANGED <<wire, chunk, delivered>>
  <2>1. ~(Len(buffer) < dataLen[r]) /\ BodyOf(dataLen[r]) = {p}
    BY <1>1, <1>3, <1>6, <1>8
  <2>2. Decoded(dataLen[r]) = {p}
    BY <2>1 DEF Decoded
  <2> QED BY <1>1, <2>1, <2>2 DEF TakeBody, Goto, socketVars
<1>10. PICK t : t = Held(r)'
  OBVIOUS
<1>11. t \in Seq(Bytes) /\ Len(t) = Len(s) - bodyLength
       /\ \A i \in 1 .. Len(s) - bodyLength : t[i] = s[bodyLength + i]
  <2>1. /\ Len(t) = Len(s) - bodyLength
        /\ \A i \in 1 .. Len(s) - bodyLength : t[i] = s[bodyLength + i]
    <3>1. bodyLength \in Nat /\ bodyLength <= Len(buffer) /\ UNCHANGED <<chunk, wire>>
      BY <1>6, <1>9
    <3>2. /\ Len(Held(r)') = Len(Held(r)) - bodyLength
          /\ \A i \in 1 .. Len(Held(r)) - bodyLength : Held(r)'[i] = Held(r)[bodyLength + i]
      BY <1>9, <3>1, HeldDrops
    <3> QED BY <1>2, <1>10, <3>2
  <2>2. TypeInv'
    BY ReadType DEF Read
  <2>3. t \in Seq(Bytes)
    BY <1>10, <2>2, HeldTypeNext DEF HeldKnown
  <2> QED BY <2>1, <2>3
<1>12. Framed(t)
  <2>1. bodyLength <= Len(s)
    BY <1>3, <1>6
  <2> QED BY <1>3, <1>4, <1>6, <1>11, <2>1, FramedDrops
<1>13. Aligned(t, 0)
  <2> SUFFICES ASSUME Len(t) > 0 PROVE t[1][2] = 1
    BY DEF Aligned
  <2>1. bodyLength \in 1 .. Len(s) /\ bodyLength < Len(s) /\ 1 \in 1 .. Len(s) - bodyLength
    BY <1>3, <1>6, <1>11
  <2>2. s[bodyLength] = <<p, FrameLength(p)>>
    BY <1>6, <1>7
  <2>3. s[bodyLength + 1][2] = 1
    BY <1>4, <2>1, <2>2 DEF Framed
  <2> QED BY <1>11, <2>1, <2>3
<1>14. SeenBy(r)'
  BY <1>9 DEF SeenBy
<1>15. ClientFrames(r)'
  BY <1>9, <1>10, <1>12, <1>13, <1>14 DEF ClientFrames, Framed, Aligned, FrameLength
<1>16. Whole(Parsed)' = 1 .. Len(Parsed')
  <2>1. /\ delivered \in Seq(Data) /\ readMessages \in Seq(Data) /\ Parsed \in Seq(Data)
        /\ p \in Data /\ p # Garbage
    BY ParsedType, ChannelAssumption DEF ChannelAssumption, TypeInv, ReadTypes, Data
  <2>2. Parsed' = Append(Parsed, p)
    BY <1>9, <2>1, AppendJoined DEF Parsed
  <2>3. /\ Len(Parsed') = Len(Parsed) + 1 /\ Len(Parsed) \in Nat
        /\ \A i \in 1 .. Len(Parsed) + 1 : Parsed'[i] = IF i <= Len(Parsed) THEN Parsed[i] ELSE p
    BY <2>1, <2>2, Appended
  <2>4. \A i \in 1 .. Len(Parsed) : Parsed[i] # Garbage
    BY DEF Whole
  <2>5. \A i \in 1 .. Len(Parsed') : Parsed'[i] # Garbage
    BY <2>1, <2>3, <2>4
  <2> QED BY <2>5 DEF Whole
<1> QED BY <1>9, <1>15, <1>16

\* The other steps of the one reader.
LEMMA ReaderFramed ==
    ASSUME TypeInv, NEW r \in Readers, ClientFrames(r), Read(r),
           ~TakeHead(r), ~TakeBody(r)
    PROVE  /\ failure' \in {"none", "overflow"} /\ Parsed' = Parsed
           /\ Running' => ClientFrames(r)'
<1>1. /\ reader \in [Readers -> ReaderStates] /\ failure = "none"
      /\ dataLen \in [Readers -> Nat] /\ bodyLength' = bodyLength
      /\ readMessages \in Seq(Data) /\ delivered \in Seq(Data)
  BY DEF Read, StartTask, ReadSocket, NothingToRead, EnqueueChunk, SeeHead, SeeBody, SeeMessage,
     DeliverMessage, ParseEnds, IsReader, Running, TypeInv, ReadTypes, parseVars
<1>2. ASSUME Held(r)' = Held(r), SeenBy(r)' PROVE ClientFrames(r)'
  BY <1>1, <1>2 DEF ClientFrames, Framed, Aligned, FrameLength
<1>3. SeenBy(r)
  BY DEF ClientFrames
<1>4. CASE ReadSocket(r) \/ EnqueueChunk(r)
  <2>1. /\ failure' \in {"none", "overflow"} /\ Parsed' = Parsed
        /\ reader'[r] \in {"enqueue", "parse"}
    BY <1>1, <1>4 DEF ReadSocket, EnqueueChunk, Goto, parseVars, Parsed
  <2>2. SeenBy(r)'
    BY <2>1 DEF SeenBy
  <2> QED BY <1>2, <1>4, <2>1, <2>2, HeldMoves
<1>5. CASE ~(ReadSocket(r) \/ EnqueueChunk(r))
  <2>1. UNCHANGED <<buffer, chunk, wire>>
    BY <1>5 DEF Read, StartTask, NothingToRead, SeeHead, SeeBody, SeeMessage,
       DeliverMessage, ParseEnds, parseVars, socketVars
  <2>2. Held(r)' = Held(r)
    BY <2>1 DEF Held
  <2>3. CASE StartTask(r) \/ NothingToRead(r) \/ SeeHead(r) \/ SeeMessage(r) \/ ParseEnds(r)
    <3>1. UNCHANGED <<failure, readMessages, delivered, dataLen>> /\ Parsed' = Parsed
      BY <2>3 DEF StartTask, NothingToRead, SeeHead, SeeMessage, ParseEnds, parseVars, Parsed
    <3>2. \/ reader'[r] \in {"read", "parse", "deliver", "idle"}
          \/ reader'[r] = "length" /\ bodyLength # 0
          \/ reader'[r] = "head" /\ bodyLength = 0 /\ Len(buffer) > HeadLength
          \/ reader'[r] = "pop" /\ readMessages # <<>>
      BY <1>1, <2>3 DEF StartTask, NothingToRead, SeeHead, SeeMessage, ParseEnds, Goto
    <3>3. SeenBy(r)'
      BY <1>1, <2>1, <3>1, <3>2 DEF SeenBy
    <3> QED BY <1>1, <1>2, <2>2, <3>1, <3>3
  <2>4. CASE SeeBody(r)
    <3>1. UNCHANGED <<failure, readMessages, delivered>> /\ Parsed' = Parsed /\ bodyLength # 0
      BY <1>3, <2>4 DEF SeeBody, parseVars, Parsed, IsReader, SeenBy
    <3>2. \/ /\ Len(buffer) >= bodyLength /\ dataLen'[r] = bodyLength
             /\ reader'[r] = "body"
          \/ reader'[r] = "parse"
      BY <1>1, <2>4 DEF SeeBody, Goto
    <3>3. SeenBy(r)'
      BY <1>1, <2>1, <3>1, <3>2 DEF SeenBy
    <3> QED BY <1>1, <1>2, <2>2, <3>1, <3>3
  <2>5. CASE DeliverMessage(r)
    <3>1. readMessages # <<>> /\ reader'[r] = "deliver"
      BY <1>1, <1>3, <2>5 DEF DeliverMessage, IsReader, Goto, SeenBy
    <3>2. /\ failure' = failure /\ delivered' = Append(delivered, readMessages[1])
          /\ readMessages' = Tail(readMessages)
      BY <2>5, <3>1 DEF DeliverMessage, Popped
    <3>3. Parsed' = Parsed
      BY <1>1, <3>1, <3>2, HandedOn DEF Parsed
    <3>4. SeenBy(r)'
      BY <3>1 DEF SeenBy
    <3> QED BY <1>1, <1>2, <2>2, <3>2, <3>3, <3>4
  <2> QED BY <1>5, <2>3, <2>4, <2>5 DEF Read
<1> QED BY <1>4, <1>5

LEMMA FramesInit == Init => FramesInv
<1> SUFFICES ASSUME Init PROVE FramesInv
  OBVIOUS
<1>1. /\ failure = "none" /\ readMessages = <<>> /\ delivered = <<>> /\ bodyLength = 0
      /\ buffer = <<>> /\ wire = <<>> /\ chunk = [r \in Readers |-> <<>>]
  BY DEF Init
<1>2. Parsed = <<>>
  BY <1>1 DEF Parsed
<1>3. Whole(Parsed) = 1 .. Len(Parsed)
  BY <1>2 DEF Whole
<1>4. ASSUME NEW r \in Readers PROVE ClientFrames(r)
  <2>1. Held(r) = <<>>
    BY <1>1 DEF Held
  <2>2. reader[r] \in {"idle", "read"}
    BY DEF Init
  <2>3. SeenBy(r)
    BY <2>2 DEF SeenBy
  <2> QED BY <1>1, <2>1, <2>3 DEF ClientFrames, Framed, Aligned
<1> QED BY <1>1, <1>3, <1>4 DEF FramesInv

\* A history that was clean before a step that leaves it clean.
LEMMA CutStays ==
    ASSUME [Next]_vars
    PROVE  (overlapped => overlapped') /\ (truncated => truncated') /\ sender' = sender
<1>1. CASE UNCHANGED vars
  BY <1>1 DEF vars, sendVars, readVars
<1>2. ASSUME NEW m \in Messages, PushMessage(m) \/ Write(m)
      PROVE  (overlapped => overlapped') /\ (truncated => truncated') /\ sender' = sender
  <2>1. overlapped' = overlapped /\ sender' = sender
    BY <1>2 DEF PushMessage, Write, LockSend, TakeMessage, QueueDrained, ClientSend,
       ClientSendFails, ServerSend, ServerSendBlocked, readVars
  <2>2. CASE ClientSend(m)
    <3>1. truncated' = (truncated \/ Taken(m, 0) # Frame(inHand[m]))
      BY <2>2, Zenon DEF ClientSend
    <3>2. truncated => truncated'
      BY <3>1
    <3> QED BY <2>1, <3>2
  <2>3. CASE ~ClientSend(m)
    <3>1. truncated' = truncated
      BY <1>2, <2>3 DEF PushMessage, Write, LockSend, TakeMessage, QueueDrained,
         ClientSendFails, ServerSend, ServerSendBlocked
    <3> QED BY <2>1, <3>1
  <2> QED BY <2>2, <2>3
<1>3. ASSUME NEW r \in Readers, Read(r)
      PROVE  (overlapped => overlapped') /\ (truncated => truncated') /\ sender' = sender
  <2>1. truncated' = truncated /\ sender' = sender
    BY <1>3 DEF Read, StartTask, ReadSocket, NothingToRead, EnqueueChunk, SeeHead, TakeHead,
       SeeBody, TakeBody, SeeMessage, DeliverMessage, ParseEnds, sendVars
  <2>2. CASE StartTask(r)
    <3>1. overlapped' = (overlapped \/ \E other \in Readers : reader[other] # "idle")
      BY <2>2, Zenon DEF StartTask
    <3>2. overlapped => overlapped'
      BY <3>1
    <3> QED BY <2>1, <3>2
  <2>3. CASE ~StartTask(r)
    <3>1. overlapped' = overlapped
      BY <1>3, <2>3 DEF Read, ReadSocket, NothingToRead, EnqueueChunk, SeeHead, TakeHead,
         SeeBody, TakeBody, SeeMessage, DeliverMessage, ParseEnds
    <3> QED BY <2>1, <3>1
  <2> QED BY <2>2, <2>3
<1>4. CASE Arrive \/ CommitRead
  BY <1>4 DEF Arrive, CommitRead, sendVars, readVars
<1> QED BY <1>1, <1>2, <1>3, <1>4 DEF Next

\* What a client sends whole is one more frame behind the others.
LEMMA SendFramed ==
    ASSUME TypeInv, NEW r \in Readers, ClientFrames(r), NEW m \in Messages, ClientSend(m),
           ~truncated'
    PROVE  ClientFrames(r)'
<1>1. PICK f : f = inHand[m]
  OBVIOUS
<1>2. f \in Messages
  BY <1>1, HandOf DEF ClientSend, IsSending
<1>3. Taken(m, 0) = Frame(f)
  <2>1. truncated' = (truncated \/ Taken(m, 0) # Frame(inHand[m]))
    BY Zenon DEF ClientSend
  <2>2. Taken(m, 0) = Frame(inHand[m])
    BY <2>1, Zenon
  <2> QED BY <1>1, <2>2
<1>4. /\ wire' = wire \o Frame(f)
      /\ UNCHANGED <<buffer, bodyLength, readMessages, reader, chunk, dataLen>>
  BY <1>3 DEF ClientSend, parseVars, readVars
<1>5. /\ buffer \o chunk[r] \in Seq(Bytes) /\ wire \in Seq(Bytes) /\ Held(r) \in Seq(Bytes)
      /\ Frame(f) \in Seq(Bytes)
  BY <1>2, HeldType, FrameOf
<1>6. Held(r)' = Held(r) \o Frame(f)
  <2>1. PICK held : held = buffer \o chunk[r]
    OBVIOUS
  <2>2. Held(r)' = held \o (wire \o Frame(f)) /\ Held(r) = held \o wire
    BY <1>4, <2>1 DEF Held
  <2>3. held \in Seq(Bytes)
    BY <1>5, <2>1
  <2>4. held \o (wire \o Frame(f)) = (held \o wire) \o Frame(f)
    <3>1. ASSUME NEW a \in Seq(Bytes), NEW b \in Seq(Bytes), NEW c \in Seq(Bytes)
          PROVE  a \o (b \o c) = (a \o b) \o c
      BY ConcatAssociative
    <3> QED BY <1>5, <2>3, <3>1, Zenon
  <2> QED BY <2>2, <2>4
<1>7. /\ Framed(Held(r)) /\ Aligned(Held(r), bodyLength) /\ SeenBy(r) /\ bodyLength \in Nat
  BY FrameOf, ChannelAssumption DEF ClientFrames, TypeInv, TypeOK, ChannelAssumption
<1>8. Framed(Held(r) \o Frame(f)) /\ Aligned(Held(r) \o Frame(f), bodyLength)
  BY <1>2, <1>5, <1>7, FramedGrows
<1>9. SeenBy(r)'
  BY <1>4, <1>7 DEF SeenBy
<1> QED BY <1>4, <1>6, <1>8, <1>9 DEF ClientFrames, Framed, Aligned, FrameLength

\* The steps that are not a reader's.
LEMMA QuietFramed ==
    ASSUME TypeInv, FramesInv, ~overlapped', ~truncated', ~overlapped, ~truncated,
           \/ UNCHANGED vars \/ Arrive \/ CommitRead
           \/ \E m \in Messages : PushMessage(m) \/ Write(m)
    PROVE  FramesInv'
<1>1. /\ UNCHANGED <<sender, buffer, bodyLength, readMessages, delivered, reader, chunk, dataLen,
                     failure>>
  BY DEF vars, Arrive, CommitRead, PushMessage, Write, LockSend, TakeMessage, QueueDrained,
     ClientSend, ClientSendFails, ServerSend, ServerSendBlocked, sendVars, parseVars, readVars,
     UnlockSend
<1>2. Parsed' = Parsed
  BY <1>1 DEF Parsed
<1>3. ASSUME Running', sender' = "client", NEW r \in Readers, Alone(r)'
      PROVE  ClientFrames(r)'
  <2>1. ClientFrames(r)
    BY <1>1, <1>3 DEF FramesInv, Alone, Running
  <2>2. CASE UNCHANGED wire
    <3>1. Held(r)' = Held(r)
      BY <1>1, <2>2 DEF Held
    <3>2. SeenBy(r)'
      BY <1>1, <2>1 DEF ClientFrames, SeenBy
    <3> QED BY <1>1, <2>1, <3>1, <3>2 DEF ClientFrames, Framed, Aligned, FrameLength
  <2>3. CASE \E m \in Messages : ClientSend(m)
    BY <2>1, <2>3, SendFramed
  <2>4. UNCHANGED wire \/ \E m \in Messages : ClientSend(m)
    <3>1. ~(sender = "server")
      BY <1>1, <1>3
    <3> QED BY <3>1 DEF vars, Arrive, CommitRead, PushMessage, Write, LockSend, TakeMessage,
         QueueDrained, ClientSendFails, ServerSend, ServerSendBlocked, IsSending, socketVars
  <2> QED BY <2>2, <2>3, <2>4
<1> QED BY <1>1, <1>2, <1>3 DEF FramesInv, Whole

\* The one reader that is not idle, or that starts.
LEMMA ReadFramed ==
    ASSUME TypeInv, OneReader, FramesInv, ~overlapped', ~truncated', ~overlapped, ~truncated,
           sender = "client", sender' = "client", NEW x \in Readers, Read(x)
    PROVE  FramesInv'
<1>1. reader \in [Readers -> ReaderStates] /\ Running
  BY DEF TypeInv, ReadTypes, Read, StartTask, ReadSocket, NothingToRead, EnqueueChunk, SeeHead,
     TakeHead, SeeBody, TakeBody, SeeMessage, DeliverMessage, ParseEnds, IsReader
<1>2. Alone(x) /\ \E state \in ReaderStates : reader' = [reader EXCEPT ![x] = state]
  <2>1. CASE StartTask(x)
    BY <2>1 DEF StartTask, Goto, Alone, ReaderStates
  <2>2. CASE ~StartTask(x)
    BY <2>2 DEF Read, ReadSocket, NothingToRead, EnqueueChunk, SeeHead, TakeHead, SeeBody,
       TakeBody, SeeMessage, DeliverMessage, ParseEnds, IsReader, Goto, Alone, OneReader,
       ReaderStates
  <2> QED BY <2>1, <2>2
<1>3. ClientFrames(x) /\ Whole(Parsed) = 1 .. Len(Parsed)
  BY <1>1, <1>2 DEF FramesInv
<1>4. /\ failure' \in {"none", "overflow"} /\ Whole(Parsed)' = 1 .. Len(Parsed')
      /\ Running' => ClientFrames(x)'
  <2>1. CASE TakeHead(x)
    BY <1>3, <2>1, HeadFramed DEF Whole
  <2>2. CASE TakeBody(x)
    BY <1>3, <2>2, BodyFramed
  <2>3. CASE ~TakeHead(x) /\ ~TakeBody(x)
    BY <1>3, <2>3, ReaderFramed DEF Whole
  <2> QED BY <2>1, <2>2, <2>3
<1>5. ASSUME Running', NEW r \in Readers, Alone(r)', r # x PROVE ClientFrames(r)'
  <2>1. reader'[x] = "idle" /\ reader[r] = "idle" /\ reader'[r] = "idle"
    BY <1>1, <1>2, <1>5 DEF Alone
  <2>2. ParseEnds(x)
    BY <1>1, <2>1 DEF Read, StartTask, ReadSocket, NothingToRead, EnqueueChunk, SeeHead,
       TakeHead, SeeBody, TakeBody, SeeMessage, DeliverMessage, Goto
  <2>3. reader[x] = "deliver" /\ chunk' = chunk
    BY <2>2 DEF ParseEnds, IsReader
  <2>4. chunk[x] = <<>> /\ chunk[r] = <<>>
    BY <2>1, <2>3 DEF TypeInv, TypeOK
  <2>5. Held(r)' = Held(x)'
    BY <2>3, <2>4 DEF Held
  <2>6. SeenBy(r)'
    BY <2>1 DEF SeenBy
  <2> QED BY <1>4, <1>5, <2>5, <2>6 DEF ClientFrames, Framed, Aligned
<1> QED BY <1>4, <1>5 DEF FramesInv

\* From a server what is parsed is the first of what was pushed.
LEMMA ServerFramed ==
    ASSUME TypeInv', ServerInv', FramesInv, ~overlapped, ~truncated, Next, sender' = "server"
    PROVE  FramesInv'
<1>1. failure' \in {"none", "overflow"}
  BY DEF ServerInv
<1>2. CASE Running'
  <2>1. ParseInv' /\ pushed' \in Seq(Messages) /\ Garbage \notin Messages
    BY <1>2, ChannelAssumption DEF ServerInv, TypeInv, SendTypes, ChannelAssumption
  <2>2. \A i \in 1 .. Len(Parsed') : Parsed'[i] # Garbage
    <3> TAKE i \in 1 .. Len(Parsed')
    <3>1. Parsed'[i] = pushed'[i] /\ Len(Parsed') <= Len(pushed')
      BY <2>1 DEF ParseInv
    <3>2. Parsed' \in Seq(Data) /\ Len(Parsed') \in Nat
      BY ParsedTypeNext DEF ParsedKnown
    <3>3. i \in 1 .. Len(pushed')
      BY <2>1, <3>1, <3>2
    <3> QED BY <2>1, <3>1, <3>3
  <2>3. Whole(Parsed)' = 1 .. Len(Parsed')
    BY <2>2 DEF Whole
  <2> QED BY <1>1, <2>3 DEF FramesInv
<1>3. CASE ~Running'
  <2>1. readMessages' = readMessages /\ delivered' = delivered
    BY <1>3 DEF Next, PushMessage, Write, LockSend, TakeMessage, QueueDrained, ClientSend,
       ClientSendFails, ServerSend, ServerSendBlocked, Arrive, CommitRead, Read, StartTask,
       ReadSocket, NothingToRead, EnqueueChunk, SeeHead, TakeHead, SeeBody, TakeBody,
       SeeMessage, DeliverMessage, ParseEnds, IsReader, IsSending, Running, parseVars
  <2>2. Parsed' = Parsed
    BY <2>1 DEF Parsed
  <2> QED BY <1>1, <1>3, <2>2 DEF FramesInv, Whole
<1> QED BY <1>2, <1>3

LEMMA FramesStep ==
    ASSUME ChannelInv, DeliveryInv, FramesInv, [Next]_vars
    PROVE  FramesInv'
<1> SUFFICES ASSUME ~overlapped', ~truncated' PROVE FramesInv'
  BY DEF FramesInv
<1>1. TypeInv /\ ~overlapped /\ ~truncated /\ sender' = sender
  BY CutStays DEF DeliveryInv
<1>2. OneReader
  BY <1>1 DEF DeliveryInv
<1>3. TypeInv' /\ ServerInv'
  BY TypeStep, ServerStep DEF ChannelInv
<1>4. CASE UNCHANGED vars \/ Arrive \/ CommitRead
           \/ \E m \in Messages : PushMessage(m) \/ Write(m)
  BY <1>1, <1>4, QuietFramed
<1>5. ASSUME NEW x \in Readers, Read(x) PROVE FramesInv'
  <2>1. sender \in {"client", "server"}
    BY <1>1 DEF TypeInv, SendTypes
  <2>2. CASE sender = "client"
    BY <1>1, <1>2, <1>5, <2>2, ReadFramed
  <2>3. CASE sender = "server"
    BY <1>1, <1>3, <1>5, <2>3, ServerFramed DEF Next
  <2> QED BY <2>1, <2>2, <2>3
<1> QED BY <1>4, <1>5 DEF Next

LEMMA FramesInvariant == Spec => []FramesInv
<1>1. Init => FramesInv
  BY FramesInit
<1>2. ChannelInv /\ DeliveryInv /\ FramesInv /\ [Next]_vars => FramesInv'
  BY FramesStep
<1> QED BY <1>1, <1>2, ChannelInvariant, DeliveryInvariant, PTL DEF Spec

\* As long as read_data runs on one thread at a time and no send of a client takes
\* part of a frame, all that is parsed are messages that were written, whole, and
\* nothing but an enqueue beyond the buffer ends the process: whatever requests a
\* client lost to EAGAIN, and wherever a read cut the stream, what lies before the
\* parser begins with a head, or with the body of the length it has read, and goes
\* on frame by frame.
THEOREM FramesKept == Spec => []WholeUntilCut
<1>1. DeliveryInv /\ FramesInv => WholeUntilCut
  <2> SUFFICES ASSUME DeliveryInv, FramesInv, ~overlapped, ~truncated
               PROVE  /\ ToSet(Parsed) \subseteq ToSet(pushed)
                      /\ failure \in {"none", "overflow"}
    BY DEF WholeUntilCut
  <2>1. /\ TypeInv /\ OrderInv /\ ParsedOnce /\ Whole(Parsed) = 1 .. Len(Parsed)
        /\ failure \in {"none", "overflow"}
    BY DEF DeliveryInv, BytesInv, FramesInv
  <2>2. Parsed \in Seq(Data) /\ pushed \in Seq(Messages)
    BY <2>1, ParsedType, LensType
  <2>3. ASSUME NEW i \in 1 .. Len(Parsed) PROVE \E j \in 1 .. Len(pushed) : pushed[j] = Parsed[i]
    <3>1. writer[Parsed[i]] # "none" /\ Parsed[i] \in Messages
      BY <2>1, <2>2, PlaceType DEF ParsedOnce
    <3> QED BY <2>1, <3>1 DEF OrderInv
  <2>4. ToSet(Parsed) = {Parsed[i] : i \in 1 .. Len(Parsed)}
    BY <2>2 DEF ToSet
  <2>5. ToSet(pushed) = {pushed[i] : i \in 1 .. Len(pushed)}
    BY <2>2 DEF ToSet
  <2> QED BY <2>1, <2>3, <2>4, <2>5
<1> QED BY <1>1, DeliveryInvariant, FramesInvariant, PTL

-----------------------------------------------------------------------------
(* A connection is a message channel                                        *)

LEMMA ChannelInit == Init => Channel!Init
BY DEF Init, Channel!Init

\* write_data pushes a message that was not pushed before.
LEMMA WriteMaps ==
    ASSUME TypeInv, PushInv, NEW m \in Messages, PushMessage(m)
    PROVE  Channel!Write(m)
<1>1. writer[m] = "none" /\ pushed' = Append(pushed, m) /\ delivered' = delivered
  BY DEF PushMessage, parseVars
<1>2. \A k \in 1 .. Len(pushed) : pushed[k] # m
  BY <1>1 DEF PushInv
<1> QED BY <1>1, <1>2 DEF Channel!Write

\* The message at the front of _read_messages is the first that is parsed and
\* not delivered.
LEMMA FrontOf ==
    ASSUME TypeInv, readMessages # <<>>
    PROVE  /\ readMessages[1] \in Data /\ Len(delivered) \in Nat
           /\ Len(delivered) + 1 \in 1 .. Len(Parsed)
           /\ Parsed[Len(delivered) + 1] = readMessages[1]
<1>1. delivered \in Seq(Data) /\ readMessages \in Seq(Data)
  BY DEF TypeInv, ReadTypes
<1>2. readMessages[1] \in Data /\ Len(readMessages) > 0 /\ Len(readMessages) \in Nat
  BY <1>1, TailOf
<1>3. Len(Parsed) = Len(delivered) + Len(readMessages) /\ Len(delivered) \in Nat
  BY <1>1, ConcatProperties DEF Parsed
<1>4. Parsed[Len(delivered) + 1] = readMessages[1]
  BY <1>1, <1>2, <1>3 DEF Parsed
<1> QED BY <1>2, <1>3, <1>4

\* It was written, it is none of those delivered, it is later than all of them
\* while one thread reads, and it is the very next one from a server.
LEMMA DeliverMaps ==
    ASSUME ChannelInv, DeliveryInv, NEW r \in Readers, DeliverMessage(r), readMessages # <<>>,
           readMessages[1] # Garbage
    PROVE  \E k \in 1 .. Len(pushed) : Channel!Deliver(k)
<1> DEFINE n == Len(delivered) + 1
           front == readMessages[1]
<1>1. TypeInv /\ OrderInv /\ PushInv /\ ParsedOnce /\ (~overlapped => OneReader)
  BY DEF DeliveryInv, OrderInv, BytesInv
<1>2. /\ delivered' = Append(delivered, front) /\ pushed' = pushed /\ Running
  BY DEF DeliverMessage, IsReader, sendVars
<1>3. /\ front \in Messages /\ Len(delivered) \in Nat
      /\ n \in 1 .. Len(Parsed) /\ n \in Whole(Parsed) /\ Parsed[n] = front
  <2>1. front \in Messages
    BY <1>1, FrontOf DEF Data
  <2>2. Len(delivered) \in Nat /\ n \in 1 .. Len(Parsed) /\ Parsed[n] = front
    BY <1>1, FrontOf
  <2> QED BY <2>1, <2>2 DEF Whole
<1>4. \A i \in 1 .. Len(delivered) :
        i \in 1 .. Len(Parsed) /\ delivered[i] = Parsed[i] /\ i < n
  BY <1>1, <1>3, DeliveredFirst
<1>5. PICK k \in 1 .. Len(pushed) : pushed[k] = front /\ (sender = "server" => k = n)
  <2>1. CASE sender = "server"
    <3>1. ParseInv
      BY <1>2, <2>1 DEF ChannelInv, ServerInv
    <3>2. n \in 1 .. Len(pushed) /\ pushed[n] = front
      BY <1>1, <1>3, <3>1, ParsedType DEF ParseInv
    <3> QED BY <2>1, <3>2
  <2>2. CASE sender # "server"
    <3>1. writer[front] # "none"
      BY <1>1, <1>3 DEF ParsedOnce
    <3> QED BY <1>1, <1>3, <2>2, <3>1 DEF OrderInv
  <2> QED BY <2>1, <2>2
<1>6. \A i \in 1 .. Len(delivered) : delivered[i] # pushed[k]
  <2> SUFFICES ASSUME NEW i \in 1 .. Len(delivered) PROVE delivered[i] # front
    BY <1>5
  <2>1. i \in 1 .. Len(Parsed) /\ delivered[i] = Parsed[i] /\ i # n
    BY <1>3, <1>4
  <2>2. CASE delivered[i] = Garbage
    BY <2>2
  <2>3. CASE delivered[i] # Garbage
    <3>1. i \in Whole(Parsed)
      BY <2>1, <2>3 DEF Whole
    <3> QED BY <1>1, <1>3, <2>1, <3>1 DEF ParsedOnce
  <2> QED BY <2>2, <2>3
<1>7. ASSUME ~overlapped, NEW i \in 1 .. Len(delivered), NEW j \in 1 .. Len(pushed),
             delivered[i] = pushed[j]
      PROVE  j < k
  <2>0. i \in Whole(Parsed)
    <3>1. pushed[j] \in Messages /\ Garbage \notin Messages
      BY <1>1, LensType, ChannelAssumption DEF ChannelAssumption
    <3> QED BY <1>4, <1>7, <3>1 DEF Whole
  <2>1. start[Parsed[i]] < start[Parsed[n]]
    BY <1>1, <1>3, <1>4, <1>7, <2>0 DEF OneReader
  <2>2. start[pushed[j]] < start[pushed[k]]
    BY <1>3, <1>4, <1>5, <1>7, <2>1
  <2> QED BY <1>1, <2>2, BeginsBefore
<1> HIDE DEF n
<1>8. sender = "server" => k = Len(delivered) + 1
  BY <1>5 DEF n
<1>9. delivered' = Append(delivered, pushed[k])
  BY <1>2, <1>5
<1> QED BY <1>2, <1>6, <1>7, <1>8, <1>9 DEF Channel!Deliver

\* What is no message is at the front only after a cut or with two readers.
LEMMA GarbageMaps ==
    ASSUME TypeInv, FramesInv, NEW r \in Readers, DeliverMessage(r), readMessages # <<>>,
           readMessages[1] = Garbage
    PROVE  Channel!DeliverGarbage
<1> DEFINE n == Len(delivered) + 1
<1>1. delivered' = Append(delivered, Garbage) /\ pushed' = pushed
  BY DEF DeliverMessage, sendVars
<1>2. n \in 1 .. Len(Parsed) /\ n \notin Whole(Parsed)
  BY FrontOf DEF Whole
<1>3. overlapped \/ truncated
  BY <1>2 DEF FramesInv
<1> QED BY <1>1, <1>3 DEF Channel!DeliverGarbage

LEMMA ChannelStep ==
    ChannelInv /\ DeliveryInv /\ FramesInv /\ [Next]_vars => [Channel!Next]_(Channel!vars)
<1> SUFFICES ASSUME ChannelInv, DeliveryInv, FramesInv, [Next]_vars
             PROVE  Channel!Next \/ (pushed' = pushed /\ delivered' = delivered)
  BY DEF Channel!vars
<1>1. TypeInv /\ PushInv
  BY DEF DeliveryInv, OrderInv
<1>2. CASE UNCHANGED vars
  BY <1>2 DEF vars, sendVars, parseVars
<1>3. CASE Arrive \/ CommitRead
  BY <1>3 DEF Arrive, CommitRead, sendVars, parseVars
<1>4. ASSUME NEW m \in Messages, PushMessage(m) PROVE Channel!Next
  BY <1>1, <1>4, WriteMaps DEF Channel!Next
<1>5. ASSUME NEW m \in Messages, Write(m) PROVE pushed' = pushed /\ delivered' = delivered
  <2>1. CASE LockSend(m) \/ TakeMessage(m) \/ QueueDrained(m)
    BY <2>1 DEF LockSend, TakeMessage, QueueDrained, parseVars
  <2>2. CASE ClientSend(m) \/ ClientSendFails(m)
    BY <2>2 DEF ClientSend, ClientSendFails, parseVars
  <2>3. CASE ServerSend(m) \/ ServerSendBlocked(m)
    BY <2>3 DEF ServerSend, ServerSendBlocked, parseVars
  <2> QED BY <1>5, <2>1, <2>2, <2>3 DEF Write
<1>6. ASSUME NEW r \in Readers, Read(r)
      PROVE  Channel!Next \/ (pushed' = pushed /\ delivered' = delivered)
  <2>0. CASE DeliverMessage(r) /\ readMessages # <<>> /\ readMessages[1] = Garbage
    BY <1>1, <2>0, GarbageMaps DEF Channel!Next
  <2>1. CASE DeliverMessage(r) /\ readMessages # <<>> /\ readMessages[1] # Garbage
    BY <2>1, DeliverMaps DEF Channel!Next
  <2>2. CASE DeliverMessage(r) /\ readMessages = <<>>
    BY <2>2 DEF DeliverMessage, sendVars
  <2>3. CASE StartTask(r) \/ ReadSocket(r) \/ NothingToRead(r) \/ EnqueueChunk(r)
    BY <2>3 DEF StartTask, ReadSocket, NothingToRead, EnqueueChunk, sendVars, parseVars
  <2>4. CASE SeeHead(r) \/ TakeHead(r) \/ SeeBody(r) \/ TakeBody(r)
    BY <2>4 DEF SeeHead, TakeHead, SeeBody, TakeBody, sendVars, parseVars
  <2>5. CASE SeeMessage(r) \/ ParseEnds(r)
    BY <2>5 DEF SeeMessage, ParseEnds, sendVars, parseVars
  <2> QED BY <1>6, <2>0, <2>1, <2>2, <2>3, <2>4, <2>5 DEF Read
<1> QED BY <1>2, <1>3, <1>4, <1>5, <1>6 DEF Next

\* The two peers' ends of a connection implement a message channel, for any
\* lengths, any sizes of socket and buffer and any number of readers: pushing in
\* write_data is the write, front_pop in parse_message the delivery, and all that
\* happens to the bytes between them is a stutter.  Something that was not written
\* is given out only after two threads have read at once or a client's send took
\* part of a frame.
THEOREM ChannelRefinement == Spec => ImplementsChannel
<1>1. Init => Channel!Init
  BY ChannelInit
<1>2. ChannelInv /\ DeliveryInv /\ FramesInv /\ [Next]_vars => [Channel!Next]_(Channel!vars)
  BY ChannelStep
<1> QED BY <1>1, <1>2, ChannelInvariant, DeliveryInvariant, FramesInvariant, PTL
        DEF Spec, ImplementsChannel, Channel!Spec
=============================================================================

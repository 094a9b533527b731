------------------------- MODULE Rpc_Client_proofs -------------------------
(***************************************************************************)
(* Proofs about Rpc_Client for every set of calls and heartbeats.          *)
(***************************************************************************)
EXTENDS Rpc_Client, SequenceTheorems, TLAPS

Responses == [id : Calls, outcome : Outcomes]

\* The responses on their way: those read_data has and those it has not read.
Flight == chunk \o responses

\* Each response is on its way once.
Distinct(s) == \A i, j \in DOMAIN s : s[i].id = s[j].id => i = j

\* Each response says what the server answered to a call that still waits.
Expected(s) ==
    \A i \in DOMAIN s : /\ promise[s[i].id] = "waiting"
                        /\ answer[s[i].id] = s[i].outcome

FlightInv ==
    /\ chunk \in Seq(Responses) /\ responses \in Seq(Responses)
    /\ Distinct(Flight) /\ Expected(Flight)
    /\ chunk # <<>> => reader = "deliver"

\* A request is in the send queue once, and not when its caller waits.
QueueInv ==
    /\ send_messages \in Seq(Calls)
    /\ \A i, j \in DOMAIN send_messages :
         send_messages[i] = send_messages[j] => i = j
    /\ WaitingIsSent

\* How far a call has come, at the caller, in the send queue and at the server.
\* From the push on any caller may send the request.
CallInv ==
    \A c \in Calls :
        /\ caller[c] = "none" => promise[c] = "none"
        /\ caller[c] = "registered" => promise[c] = "waiting"
        /\ caller[c] \in {"none", "registered"} =>
            /\ c \notin requests /\ answer[c] = "none"
            /\ c \notin ToSet(send_messages)
        /\ c \in ToSet(send_messages) =>
            c \notin requests /\ promise[c] = "waiting" /\ answer[c] = "none"
        /\ c \in requests => promise[c] = "waiting" /\ answer[c] = "none"
        /\ promise[c] \in Outcomes => answer[c] = promise[c]
        /\ caller[c] = "returned" => promise[c] = "value"

\* A response is delivered only by a reader whose errno has been EAGAIN, which
\* never changes again; such a reader disconnects for one reason only.
ReaderInv ==
    /\ reader = "deliver" \/ (\E c \in Calls : promise[c] \in Outcomes) =>
        errno = "EAGAIN" /\ reader \notin {"none", "committed"}
    /\ reader \in {"disconnect", "disconnected"} \/ fd = "closed" =>
        (errno = "EAGAIN" => peerClosed)
    /\ reader = "none" => fd = "none"
    /\ fd = "closed" => reader \in {"disconnected", "ended"}
    /\ reader = "ended" => ~running
    /\ reader = "none" => ~running

ClientInv == TypeOK /\ QueueInv /\ FlightInv /\ CallInv /\ ReaderInv

-----------------------------------------------------------------------------
(* Sequences of responses                                                   *)

\* Whose responses they are, and what they say.
LEMMA Elements ==
    ASSUME NEW s \in Seq(Responses), NEW i \in DOMAIN s
    PROVE  s[i].id \in Calls /\ s[i].outcome \in Outcomes
<1>1. s[i] \in Responses
  BY ElementOfSeq
<1> QED BY <1>1 DEF Responses

\* A response to a call that has none on its way keeps them distinct.
LEMMA AppendDistinct ==
    ASSUME NEW s \in Seq(Responses), NEW r \in Responses, Distinct(s),
           \A i \in DOMAIN s : s[i].id # r.id
    PROVE  Distinct(Append(s, r))
BY DEF Distinct

\* What is left of the responses is distinct, as they were, and among them.
LEMMA DropSome ==
    ASSUME NEW s \in Seq(Responses), NEW n \in 0 .. Len(s), Distinct(s)
    PROVE  LET t == SubSeq(s, n + 1, Len(s))
           IN  /\ t \in Seq(Responses) /\ Distinct(t)
               /\ \A i \in DOMAIN t : n + i \in DOMAIN s /\ t[i] = s[n + i]
               /\ \A i \in 1 .. n, j \in DOMAIN t : s[i].id # t[j].id
<1> DEFINE t == SubSeq(s, n + 1, Len(s))
<1>1. /\ t \in Seq(Responses) /\ Len(t) = Len(s) - n
      /\ \A i \in DOMAIN t : t[i] = s[n + i]
  OBVIOUS
<1>2. \A i \in DOMAIN t : n + i \in DOMAIN s
  BY <1>1
<1> HIDE DEF t
<1>3. Distinct(t)
  BY <1>1, <1>2 DEF Distinct
<1>4. ASSUME NEW i \in 1 .. n, NEW j \in DOMAIN t PROVE s[i].id # t[j].id
  <2>1. i \in DOMAIN s /\ n + j \in DOMAIN s /\ i # n + j
    BY <1>1, <1>2
  <2> QED BY <2>1, <1>1 DEF Distinct
<1> QED BY <1>1, <1>2, <1>3, <1>4 DEF t

\* The responses on their way, after each of the three steps that move some.
LEMMA FlightOf ==
    ASSUME NEW s \in Seq(Responses), NEW t \in Seq(Responses)
    PROVE  /\ s \o t \in Seq(Responses)
           /\ s = <<>> => s \o t = t
           /\ \A r \in Responses : s \o Append(t, r) = Append(s \o t, r)
           /\ s # <<>> => Tail(s) \o t = SubSeq(s \o t, 2, Len(s \o t))
           /\ s # <<>> => Len(s \o t) > 0 /\ (s \o t)[1] = s[1]
           /\ \A n \in 0 .. Len(t) :
                SubSeq(t, 1, n) \o SubSeq(t, n + 1, Len(t)) = t
<1>1. s \o t \in Seq(Responses) /\ (s = <<>> => s \o t = t)
  OBVIOUS
<1>2. \A r \in Responses : s \o Append(t, r) = Append(s \o t, r)
  OBVIOUS
<1>3. s # <<>> => Tail(s) \o t = SubSeq(s \o t, 2, Len(s \o t))
  OBVIOUS
<1>4. s # <<>> => Len(s \o t) > 0 /\ (s \o t)[1] = s[1]
  OBVIOUS
<1>5. ASSUME NEW n \in 0 .. Len(t)
      PROVE  SubSeq(t, 1, n) \o SubSeq(t, n + 1, Len(t)) = t
  <2> DEFINE front == SubSeq(t, 1, n)
             rest == SubSeq(t, n + 1, Len(t))
  <2>1. front \in Seq(Responses) /\ Len(front) = n
        /\ \A i \in 1 .. n : front[i] = t[i]
    OBVIOUS
  <2>2. rest \in Seq(Responses) /\ Len(rest) = Len(t) - n
        /\ \A i \in 1 .. Len(t) - n : rest[i] = t[n + i]
    OBVIOUS
  <2> HIDE DEF front, rest
  <2>3. /\ front \o rest \in Seq(Responses) /\ Len(front \o rest) = Len(t)
        /\ \A i \in 1 .. Len(t) :
                (front \o rest)[i] = IF i <= n THEN front[i] ELSE rest[i - n]
    BY <2>1, <2>2, ConcatProperties
  <2>4. \A i \in 1 .. Len(t) : (front \o rest)[i] = t[i]
    <3> SUFFICES ASSUME NEW i \in 1 .. Len(t) PROVE (front \o rest)[i] = t[i]
      OBVIOUS
    <3>1. CASE i <= n
      BY <3>1, <2>1, <2>3
    <3>2. CASE i > n
      <4>1. (front \o rest)[i] = rest[i - n]
        BY <3>2, <2>3
      <4>2. i - n \in 1 .. Len(t) - n /\ n + (i - n) = i
        BY <3>2
      <4>3. rest[i - n] = t[n + (i - n)]
        BY <4>2, <2>2
      <4> QED BY <4>1, <4>2, <4>3
    <3>3. i \in Int /\ n \in Int
      OBVIOUS
    <3>4. i <= n \/ i > n
      BY <3>3
    <3> QED BY <3>1, <3>2, <3>4
  <2>5. front \o rest = t
    BY <2>3, <2>4, SeqEqual
  <2> QED BY <2>5 DEF front, rest
<1> QED BY <1>1, <1>2, <1>3, <1>4, <1>5

-----------------------------------------------------------------------------
(* The send queue                                                           *)

\* Requests that are in the queue once each stay so when one is pushed that is
\* not there, and when the one in front is popped.
LEMMA QueueOps ==
    ASSUME NEW s \in Seq(Calls),
           \A i, j \in DOMAIN s : s[i] = s[j] => i = j
    PROVE  /\ ToSet(s) \subseteq Calls
           /\ \A c \in Calls \ ToSet(s) :
                /\ Append(s, c) \in Seq(Calls)
                /\ ToSet(Append(s, c)) = ToSet(s) \cup {c}
                /\ \A i, j \in DOMAIN Append(s, c) :
                     Append(s, c)[i] = Append(s, c)[j] => i = j
           /\ s # <<>> =>
                /\ Head(s) \in ToSet(s) /\ Head(s) \notin ToSet(Tail(s))
                /\ Tail(s) \in Seq(Calls) /\ ToSet(Tail(s)) \subseteq ToSet(s)
                /\ \A i, j \in DOMAIN Tail(s) :
                     Tail(s)[i] = Tail(s)[j] => i = j
<1>1. ToSet(s) \subseteq Calls
  BY DEF ToSet
<1>2. ASSUME NEW c \in Calls \ ToSet(s)
      PROVE  /\ Append(s, c) \in Seq(Calls)
             /\ ToSet(Append(s, c)) = ToSet(s) \cup {c}
             /\ \A i, j \in DOMAIN Append(s, c) :
                  Append(s, c)[i] = Append(s, c)[j] => i = j
  <2>1. /\ Append(s, c) \in Seq(Calls)
        /\ DOMAIN Append(s, c) = DOMAIN s \cup {Len(s) + 1}
        /\ \A i \in DOMAIN s : Append(s, c)[i] = s[i]
        /\ Append(s, c)[Len(s) + 1] = c
    OBVIOUS
  <2>2. \A i \in DOMAIN s : s[i] # c
    BY <1>2 DEF ToSet
  <2>3. ToSet(Append(s, c)) = ToSet(s) \cup {c}
    BY <2>1 DEF ToSet
  <2> QED BY <2>1, <2>2, <2>3
<1>3. ASSUME s # <<>>
      PROVE  /\ Head(s) \in ToSet(s) /\ Head(s) \notin ToSet(Tail(s))
             /\ Tail(s) \in Seq(Calls) /\ ToSet(Tail(s)) \subseteq ToSet(s)
             /\ \A i, j \in DOMAIN Tail(s) : Tail(s)[i] = Tail(s)[j] => i = j
  <2>1. /\ Tail(s) \in Seq(Calls) /\ 1 \in DOMAIN s /\ Head(s) = s[1]
        /\ DOMAIN Tail(s) = 1 .. Len(s) - 1
        /\ \A i \in DOMAIN Tail(s) : i + 1 \in DOMAIN s /\ Tail(s)[i] = s[i + 1]
    BY <1>3
  <2>2. ASSUME NEW i \in DOMAIN Tail(s) PROVE Tail(s)[i] # Head(s)
    <3>1. i + 1 # 1
      BY <2>1
    <3> QED BY <3>1, <2>1
  <2>3. ASSUME NEW i \in DOMAIN Tail(s), NEW j \in DOMAIN Tail(s),
               Tail(s)[i] = Tail(s)[j]
        PROVE  i = j
    <3>1. i + 1 = j + 1
      BY <2>1, <2>3
    <3> QED BY <2>1, <3>1
  <2>4. Head(s) \in ToSet(s) /\ Head(s) \notin ToSet(Tail(s))
    BY <2>1, <2>2 DEF ToSet
  <2>5. ToSet(Tail(s)) \subseteq ToSet(s)
    BY <2>1 DEF ToSet
  <2> QED BY <2>1, <2>3, <2>4, <2>5
<1> QED BY <1>1, <1>2, <1>3

-----------------------------------------------------------------------------
(* Each conjunct of ClientInv                                               *)

LEMMA InitInv == Init => ClientInv
<1> SUFFICES ASSUME Init PROVE ClientInv
  OBVIOUS
<1>1. TypeOK /\ QueueInv
  <2>1. send_messages = <<>> /\ ToSet(send_messages) = {}
    BY DEF Init, ToSet
  <2>2. TypeOK
    BY <2>1 DEF Init, TypeOK, Outcomes
  <2>3. send_messages \in Seq(Calls) /\ DOMAIN send_messages = {}
    BY <2>1
  <2> QED BY <2>1, <2>2, <2>3 DEF QueueInv, WaitingIsSent
<1>2. Flight = <<>> /\ chunk = <<>> /\ responses = <<>>
  BY DEF Init, Flight
<1>3. FlightInv
  BY <1>2 DEF FlightInv, Distinct, Expected
<1>4. CallInv /\ ReaderInv
  BY DEF Init, CallInv, ReaderInv, Outcomes, ToSet
<1> QED BY <1>1, <1>3, <1>4 DEF ClientInv

LEMMA TypeStep ==
    ASSUME ClientInv, [Next]_vars
    PROVE  TypeOK'
<1> USE DEF ClientInv, TypeOK, Outcomes, Throw, ReaderAt
<1>1. CASE Connect
  BY <1>1 DEF Connect, serverVars
<1>2. CASE Stop
  BY <1>2 DEF Stop, readerVars, serverVars
<1>3. ASSUME NEW c \in Calls, RegisterPromise(c) PROVE TypeOK'
  BY <1>3 DEF RegisterPromise, Registered, readerVars, serverVars
<1>4. ASSUME NEW c \in Calls, Call(c) PROVE TypeOK'
  <2>0. /\ ToSet(send_messages) \subseteq Calls
        /\ c \notin ToSet(send_messages) =>
             ToSet(Append(send_messages, c)) \subseteq Calls
        /\ send_messages # <<>> => /\ ToSet(Tail(send_messages)) \subseteq Calls
                                  /\ Head(send_messages) \in Calls
    BY QueueOps DEF QueueInv
  <2>1. CASE TestRunning(c)
    BY <2>1 DEF TestRunning, readerVars, serverVars
  <2>2. CASE RefuseSend(c)
    BY <2>2 DEF RefuseSend, readerVars, serverVars
  <2>3. CASE SendRequest(c)
    BY <2>0, <2>3 DEF SendRequest, readerVars
  <2>4. CASE FailSend(c)
    BY <2>0, <2>4 DEF FailSend, readerVars, serverVars
  <2>5. CASE GetResult(c)
    BY <2>5 DEF GetResult, readerVars, serverVars
  <2>6. CASE GetError(c)
    BY <2>6 DEF GetError, readerVars, serverVars
  <2>7. CASE PushRequest(c)
    BY <2>0, <2>7 DEF PushRequest, CallInv, readerVars, serverVars
  <2>8. CASE EndSend(c)
    BY <2>8 DEF EndSend, readerVars, serverVars
  <2> QED BY <1>4, <2>1, <2>2, <2>3, <2>4, <2>5, <2>6, <2>7, <2>8 DEF Call
<1>5. ASSUME NEW c \in Calls, Answer(c) PROVE TypeOK'
  BY <1>5 DEF Answer, clientVars, readerVars
<1>6. CASE DeliverResponse
  <2>1. chunk[1] \in Responses
    BY <1>6 DEF DeliverResponse, FlightInv
  <2>2. chunk[1].id \in Calls /\ chunk[1].outcome \in Outcomes
    BY <2>1 DEF Responses
  <2> QED BY <1>6, <2>2 DEF DeliverResponse, Outcome, serverVars
<1>7. CASE Read /\ ~DeliverResponse
  BY <1>7 DEF Read, StartReading, StopReading, ReadNothing, ReadEnd,
              ReadResponses, ReadOn, CloseFd, ClearRunning, clientVars,
              serverVars
<1>8. CASE CloseConnection
  BY <1>8 DEF CloseConnection, clientVars, readerVars
<1>9. CASE UNCHANGED vars
  BY <1>9 DEF vars, clientVars, readerVars, serverVars
<1> QED BY <1>1, <1>2, <1>3, <1>4, <1>5, <1>6, <1>7, <1>8, <1>9 DEF Next

LEMMA QueueStep ==
    ASSUME ClientInv, [Next]_vars
    PROVE  QueueInv'
<1> USE DEF ReaderAt, Throw
<1>0. /\ caller \in [Calls -> {"none", "registered", "queued", "sending",
                              "waiting", "returned", "threw"}]
      /\ QueueInv
  BY DEF ClientInv, TypeOK
<1>1. ASSUME NEW c \in Calls, PushRequest(c) PROVE QueueInv'
  <2>1. c \notin ToSet(send_messages)
    BY <1>1 DEF PushRequest, ClientInv, CallInv
  <2>2. send_messages' = Append(send_messages, c) /\ caller' = [caller EXCEPT ![c] = "queued"]
    BY <1>1 DEF PushRequest
  <2>3. /\ Append(send_messages, c) \in Seq(Calls)
        /\ ToSet(Append(send_messages, c)) = ToSet(send_messages) \cup {c}
        /\ \A i, j \in DOMAIN Append(send_messages, c) :
              Append(send_messages, c)[i] = Append(send_messages, c)[j] => i = j
    BY <1>0, <2>1, QueueOps DEF QueueInv
  <2>4. WaitingIsSent'
    BY <1>0, <2>2, <2>3 DEF QueueInv, WaitingIsSent
  <2> QED BY <2>2, <2>3, <2>4 DEF QueueInv
<1>2. ASSUME NEW c \in Calls, SendRequest(c) \/ FailSend(c) PROVE QueueInv'
  <2>1. /\ send_messages # <<>> /\ send_messages' = Tail(send_messages)
        /\ \A x \in Calls : caller'[x] = "waiting" => caller[x] = "waiting"
    BY <1>0, <1>2 DEF SendRequest, FailSend
  <2>2. /\ Tail(send_messages) \in Seq(Calls)
        /\ ToSet(Tail(send_messages)) \subseteq ToSet(send_messages)
        /\ \A i, j \in DOMAIN Tail(send_messages) :
              Tail(send_messages)[i] = Tail(send_messages)[j] => i = j
    BY <1>0, <2>1, QueueOps DEF QueueInv
  <2>3. WaitingIsSent'
    BY <1>0, <2>1, <2>2 DEF QueueInv, WaitingIsSent
  <2> QED BY <2>1, <2>2, <2>3 DEF QueueInv
<1>3. ASSUME NEW c \in Calls, EndSend(c) PROVE QueueInv'
  BY <1>0, <1>3 DEF EndSend, QueueInv, WaitingIsSent, ToSet
<1>4. ASSUME NEW c \in Calls,
             RegisterPromise(c) \/ TestRunning(c) \/ RefuseSend(c)
               \/ GetResult(c) \/ GetError(c) \/ Answer(c)
      PROVE  QueueInv'
  BY <1>0, <1>4 DEF RegisterPromise, TestRunning, RefuseSend, GetResult,
                    GetError, Answer, clientVars, QueueInv, WaitingIsSent
<1>5. CASE Connect \/ Stop \/ CloseConnection \/ Read \/ UNCHANGED vars
  <2>1. UNCHANGED <<send_messages, caller>>
    BY <1>5 DEF Connect, Stop, CloseConnection, Read, StartReading, StopReading,
                ReadNothing, ReadEnd, ReadResponses, DeliverResponse, ReadOn,
                CloseFd, ClearRunning, vars, clientVars
  <2> QED BY <1>0, <2>1 DEF QueueInv, WaitingIsSent
<1> QED BY <1>1, <1>2, <1>3, <1>4, <1>5 DEF Next, Call

\* A step that moves no response and takes no promise that one of them is for.
LEMMA FlightUnmoved ==
    ASSUME ClientInv, UNCHANGED <<chunk, responses, answer>>,
           chunk # <<>> => reader' = "deliver",
           \A c \in Calls : promise[c] = "waiting" => promise'[c] = "waiting"
    PROVE  FlightInv'
<1>1. Flight' = Flight /\ Flight \in Seq(Responses)
  BY DEF Flight, ClientInv, FlightInv
<1>2. \A i \in DOMAIN Flight : Flight[i].id \in Calls
  BY <1>1, Elements
<1>3. Expected(Flight)'
  BY <1>1, <1>2 DEF Expected, ClientInv, FlightInv
<1> QED BY <1>1, <1>3 DEF ClientInv, FlightInv, Distinct

LEMMA FlightStep ==
    ASSUME ClientInv, [Next]_vars
    PROVE  FlightInv'
<1> USE DEF ReaderAt, Throw
<1>1. CASE Connect \/ Stop
  BY <1>1, FlightUnmoved DEF Connect, Stop, ClientInv, FlightInv, readerVars, serverVars
<1>2. ASSUME NEW c \in Calls, RegisterPromise(c) PROVE FlightInv'
  <2>1. UNCHANGED <<chunk, responses, answer, reader>>
    BY <1>2 DEF RegisterPromise, readerVars, serverVars
  <2>2. \A x \in Calls : promise[x] = "waiting" => promise'[x] = "waiting"
    BY <1>2 DEF RegisterPromise, ClientInv, TypeOK
  <2> QED BY <2>1, <2>2, FlightUnmoved DEF ClientInv, FlightInv
<1>3. ASSUME NEW c \in Calls, Call(c) PROVE FlightInv'
  <2>1. UNCHANGED <<chunk, responses, answer, reader, promise>>
    BY <1>3 DEF Call, PushRequest, TestRunning, RefuseSend, SendRequest,
                FailSend, EndSend, GetResult, GetError, readerVars, serverVars
  <2> QED BY <2>1, FlightUnmoved DEF ClientInv, FlightInv
<1>4. ASSUME NEW c \in Calls, Answer(c) PROVE FlightInv'
  <2>1. PICK outcome \in Outcomes :
            /\ responses' = Append(responses, [id |-> c, outcome |-> outcome])
            /\ answer' = [answer EXCEPT ![c] = outcome]
    BY <1>4 DEF Answer
  <2> DEFINE r == [id |-> c, outcome |-> outcome]
  <2>2. UNCHANGED <<chunk, reader, promise>>
    BY <1>4 DEF Answer, clientVars, readerVars
  <2>3. r \in Responses /\ r.id = c /\ r.outcome = outcome
    BY DEF Responses
  <2>4. promise[c] = "waiting" /\ answer[c] = "none"
    BY <1>4 DEF Answer, ClientInv, CallInv
  <2>5. Flight \in Seq(Responses) /\ Flight' = Append(Flight, r)
    BY <2>1, <2>2, <2>3, FlightOf DEF Flight, ClientInv, FlightInv
  <2>6. \A i \in DOMAIN Flight : Flight[i].id \in Calls /\ Flight[i].id # c
    <3>1. \A i \in DOMAIN Flight :
            Flight[i].id \in Calls /\ Flight[i].outcome \in Outcomes
      BY <2>5, Elements
    <3> QED BY <2>4, <3>1 DEF ClientInv, FlightInv, Expected, Outcomes
  <2>7. chunk' \in Seq(Responses) /\ responses' \in Seq(Responses)
    BY <2>1, <2>2, <2>3 DEF ClientInv, FlightInv
  <2> HIDE DEF r
  <2>8. Distinct(Append(Flight, r))
    BY <2>3, <2>5, <2>6, AppendDistinct DEF ClientInv, FlightInv
  <2>9. ASSUME NEW i \in DOMAIN Flight'
        PROVE  /\ promise'[Flight'[i].id] = "waiting"
               /\ answer'[Flight'[i].id] = Flight'[i].outcome
    <3>1. CASE i = Len(Flight) + 1
      BY <3>1, <2>1, <2>2, <2>3, <2>4, <2>5 DEF ClientInv, TypeOK
    <3>2. CASE i \in DOMAIN Flight
      <4>1. Flight'[i] = Flight[i]
        BY <3>2, <2>5
      <4> QED BY <4>1, <3>2, <2>1, <2>2, <2>6
              DEF ClientInv, FlightInv, Expected, TypeOK
    <3> QED BY <3>1, <3>2, <2>5
  <2> QED BY <2>2, <2>5, <2>7, <2>8, <2>9
          DEF ClientInv, FlightInv, Distinct, Expected
<1>5. CASE ReadResponses
  <2>1. PICK n \in 1 .. Len(responses) :
            /\ chunk' = IF errno = "EAGAIN" THEN SubSeq(responses, 1, n) ELSE <<>>
            /\ responses' = SubSeq(responses, n + 1, Len(responses))
    BY <1>5 DEF ReadResponses
  <2>2. UNCHANGED <<promise, answer>> /\ chunk = <<>>
    BY <1>5 DEF ReadResponses, clientVars, ClientInv, FlightInv
  <2>3. responses \in Seq(Responses) /\ Flight = responses
    BY <2>2, FlightOf DEF Flight, ClientInv, FlightInv
  <2>4. chunk' \in Seq(Responses) /\ responses' \in Seq(Responses)
    BY <2>1, <2>3
  <2>5. chunk' # <<>> => reader' = "deliver"
    BY <1>5, <2>1 DEF ReadResponses
  <2>6. CASE errno = "EAGAIN"
    <3>1. Flight' = Flight
      <4>1. n \in 0 .. Len(responses)
        OBVIOUS
      <4> QED BY <4>1, <2>1, <2>3, <2>6, FlightOf DEF Flight
    <3> QED BY <3>1, <2>2, <2>4, <2>5 DEF ClientInv, FlightInv, Distinct, Expected
  <2>7. CASE errno # "EAGAIN"
    <3>1. Flight' = SubSeq(responses, n + 1, Len(responses))
      BY <2>1, <2>4, <2>7, FlightOf DEF Flight
    <3>2. /\ Distinct(Flight')
          /\ \A i \in DOMAIN Flight' :
                n + i \in DOMAIN Flight /\ Flight'[i] = Flight[n + i]
      BY <3>1, <2>3, DropSome DEF ClientInv, FlightInv
    <3>3. \A i \in DOMAIN Flight' : /\ promise'[Flight'[i].id] = "waiting"
                                    /\ answer'[Flight'[i].id] = Flight'[i].outcome
      BY <3>2, <2>2 DEF ClientInv, FlightInv, Expected
    <3> QED BY <3>2, <3>3, <2>4, <2>5 DEF FlightInv, Distinct, Expected
  <2> QED BY <2>6, <2>7
<1>6. CASE DeliverResponse
  <2>1. /\ reader = "deliver" /\ chunk # <<>> /\ chunk' = Tail(chunk)
        /\ UNCHANGED <<reader, responses, answer>>
    BY <1>6 DEF DeliverResponse, Rest, serverVars
  <2>2. Flight \in Seq(Responses) /\ Len(Flight) > 0 /\ Flight[1] = chunk[1]
    BY <2>1, FlightOf DEF Flight, ClientInv, FlightInv
  <2>3. Flight' = SubSeq(Flight, 2, Len(Flight))
    BY <2>1, FlightOf DEF Flight, ClientInv, FlightInv
  <2>4. /\ Distinct(Flight')
        /\ \A i \in DOMAIN Flight' :
            /\ 1 + i \in DOMAIN Flight /\ Flight'[i] = Flight[1 + i]
            /\ Flight'[i].id # chunk[1].id
    <3>1. 1 \in 0 .. Len(Flight) /\ Distinct(Flight)
      BY <2>2 DEF ClientInv, FlightInv
    <3>2. LET t == SubSeq(Flight, 1 + 1, Len(Flight))
          IN  /\ Distinct(t)
              /\ \A i \in DOMAIN t : 1 + i \in DOMAIN Flight /\ t[i] = Flight[1 + i]
              /\ \A i \in 1 .. 1, j \in DOMAIN t : Flight[i].id # t[j].id
      BY <3>1, <2>2, DropSome
    <3> QED BY <3>2, <2>2, <2>3
  <2>5. \A x \in Calls \ {chunk[1].id} : promise'[x] = promise[x]
    BY <1>6 DEF DeliverResponse, ClientInv, TypeOK
  <2>6. \A i \in DOMAIN Flight' : Flight'[i].id \in Calls
    BY <2>2, <2>4, Elements
  <2>7. chunk' \in Seq(Responses) /\ responses' \in Seq(Responses)
    BY <2>1 DEF ClientInv, FlightInv
  <2>8. \A i \in DOMAIN Flight' : /\ promise'[Flight'[i].id] = "waiting"
                                  /\ answer'[Flight'[i].id] = Flight'[i].outcome
    BY <2>1, <2>4, <2>5, <2>6 DEF ClientInv, FlightInv, Expected
  <2> QED BY <2>1, <2>4, <2>7, <2>8 DEF FlightInv, Distinct, Expected
<1>7. CASE Read /\ ~ReadResponses /\ ~DeliverResponse
  <2>1. UNCHANGED <<chunk, responses, answer, promise>>
    BY <1>7 DEF Read, StartReading, StopReading, ReadNothing, ReadEnd, ReadOn,
                CloseFd, ClearRunning, clientVars, serverVars
  <2>2. chunk = <<>>
    BY <1>7 DEF Read, StartReading, StopReading, ReadNothing, ReadEnd, ReadOn,
                CloseFd, ClearRunning, ClientInv, FlightInv
  <2> QED BY <2>1, <2>2, FlightUnmoved
<1>8. CASE CloseConnection
  BY <1>8, FlightUnmoved DEF CloseConnection, ClientInv, FlightInv, clientVars, readerVars
<1>9. CASE UNCHANGED vars
  BY <1>9, FlightUnmoved DEF vars, clientVars, readerVars, serverVars, ClientInv, FlightInv
<1> QED BY <1>1, <1>2, <1>3, <1>4, <1>5, <1>6, <1>7, <1>8, <1>9 DEF Next

LEMMA CallStep ==
    ASSUME ClientInv, [Next]_vars
    PROVE  CallInv'
<1> USE DEF ReaderAt, Throw, Outcomes
<1>1. CASE Connect \/ Stop \/ CloseConnection
  BY <1>1 DEF Connect, Stop, CloseConnection, ClientInv, CallInv, clientVars,
              readerVars, serverVars
<1>2. ASSUME NEW c \in Calls, RegisterPromise(c) PROVE CallInv'
  BY <1>2 DEF RegisterPromise, ClientInv, TypeOK, CallInv, serverVars
<1>3. ASSUME NEW c \in Calls, Call(c) PROVE CallInv'
  <2>0. /\ c \notin ToSet(send_messages) =>
             ToSet(Append(send_messages, c)) = ToSet(send_messages) \cup {c}
        /\ send_messages # <<>> =>
             /\ ToSet(Tail(send_messages)) \subseteq ToSet(send_messages)
             /\ Head(send_messages) \in ToSet(send_messages)
             /\ Head(send_messages) \notin ToSet(Tail(send_messages))
    BY QueueOps DEF ClientInv, QueueInv
  <2>1. CASE TestRunning(c)
    BY <2>1 DEF TestRunning, ClientInv, TypeOK, CallInv, serverVars
  <2>2. CASE RefuseSend(c)
    BY <2>2 DEF RefuseSend, ClientInv, TypeOK, CallInv, serverVars
  <2>3. CASE SendRequest(c)
    BY <2>0, <2>3 DEF SendRequest, ClientInv, TypeOK, CallInv
  <2>4. CASE FailSend(c)
    BY <2>0, <2>4 DEF FailSend, ClientInv, TypeOK, CallInv, serverVars
  <2>5. CASE GetResult(c)
    BY <2>5 DEF GetResult, ClientInv, TypeOK, CallInv, serverVars
  <2>6. CASE GetError(c)
    BY <2>6 DEF GetError, ClientInv, TypeOK, CallInv, serverVars
  <2>7. CASE PushRequest(c)
    BY <2>0, <2>7 DEF PushRequest, ClientInv, TypeOK, CallInv, serverVars
  <2>8. CASE EndSend(c)
    BY <2>8 DEF EndSend, ClientInv, TypeOK, CallInv, serverVars
  <2> QED BY <1>3, <2>1, <2>2, <2>3, <2>4, <2>5, <2>6, <2>7, <2>8 DEF Call
<1>4. ASSUME NEW c \in Calls, Answer(c) PROVE CallInv'
  BY <1>4 DEF Answer, ClientInv, TypeOK, CallInv, clientVars
<1>5. CASE DeliverResponse
  <2> DEFINE r == chunk[1]
  <2>1. chunk # <<>> /\ Flight # <<>> /\ Flight[1] = r /\ r.id \in Calls
        /\ r.outcome \in Outcomes
    <3>1. chunk # <<>> /\ chunk \in Seq(Responses) /\ responses \in Seq(Responses)
      BY <1>5 DEF DeliverResponse, ClientInv, FlightInv
    <3>2. 1 \in DOMAIN chunk
      BY <3>1
    <3> QED BY <3>1, <3>2, Elements, FlightOf DEF Flight
  <2>2. promise[r.id] = "waiting" /\ answer[r.id] = r.outcome
    <3>1. 1 \in DOMAIN Flight
      BY <2>1, FlightOf DEF Flight, ClientInv, FlightInv
    <3> QED BY <3>1, <2>1 DEF ClientInv, FlightInv, Expected
  <2>3. /\ promise' = [promise EXCEPT ![r.id] = r.outcome]
        /\ UNCHANGED <<caller, requests, answer, send_messages>>
    BY <1>5, <2>1, <2>2 DEF DeliverResponse, Outcome, ClientInv, TypeOK, serverVars
  <2>4. r.id \notin requests /\ r.id \notin ToSet(send_messages)
    BY <2>1, <2>2 DEF ClientInv, CallInv
  <2> HIDE DEF r
  <2> QED BY <2>1, <2>2, <2>3, <2>4 DEF ClientInv, TypeOK, CallInv
<1>6. CASE Read /\ ~DeliverResponse
  <2>1. UNCHANGED <<promise, caller, requests, answer, send_messages>>
    BY <1>6 DEF Read, StartReading, StopReading, ReadNothing, ReadEnd,
                ReadResponses, ReadOn, CloseFd, ClearRunning, clientVars,
                serverVars
  <2> QED BY <2>1 DEF ClientInv, CallInv
<1>7. CASE UNCHANGED vars
  BY <1>7 DEF vars, clientVars, readerVars, serverVars, ClientInv, CallInv
<1> QED BY <1>1, <1>2, <1>3, <1>4, <1>5, <1>6, <1>7 DEF Next

LEMMA ReaderStep ==
    ASSUME ClientInv, [Next]_vars
    PROVE  ReaderInv'
<1> USE DEF ReaderAt, Throw, Outcomes
<1>1. CASE Connect \/ Stop \/ CloseConnection
  BY <1>1 DEF Connect, Stop, CloseConnection, ClientInv, ReaderInv, clientVars,
              readerVars, serverVars
<1>2. ASSUME NEW c \in Calls, RegisterPromise(c) PROVE ReaderInv'
  BY <1>2 DEF RegisterPromise, ClientInv, TypeOK, ReaderInv, readerVars, serverVars
<1>3. ASSUME NEW c \in Calls, Call(c) PROVE ReaderInv'
  <2>1. UNCHANGED <<promise, running, fd, readerVars, peerClosed>>
    BY <1>3 DEF Call, PushRequest, TestRunning, RefuseSend, SendRequest,
                FailSend, EndSend, GetResult, GetError, serverVars
  <2> QED BY <2>1 DEF ClientInv, ReaderInv, readerVars
<1>4. ASSUME NEW c \in Calls, Answer(c) PROVE ReaderInv'
  BY <1>4 DEF Answer, ClientInv, ReaderInv, clientVars, readerVars
<1>5. CASE DeliverResponse
  <2>1. /\ reader = "deliver" /\ UNCHANGED <<reader, errno, fd, running, peerClosed>>
    BY <1>5 DEF DeliverResponse, serverVars
  <2> QED BY <2>1 DEF ClientInv, ReaderInv
<1>6. CASE Read /\ ~DeliverResponse
  <2>1. UNCHANGED <<promise, peerClosed>>
    BY <1>6 DEF Read, StartReading, StopReading, ReadNothing, ReadEnd,
                ReadResponses, ReadOn, CloseFd, ClearRunning, clientVars,
                serverVars
  <2>2. CASE StartReading \/ StopReading \/ ReadNothing \/ ReadEnd
    BY <2>1, <2>2 DEF StartReading, StopReading, ReadNothing, ReadEnd, ClientInv,
                      ReaderInv, clientVars
  <2>3. CASE ReadResponses \/ ReadOn
    BY <2>1, <2>3 DEF ReadResponses, ReadOn, ClientInv, ReaderInv, clientVars
  <2>4. CASE CloseFd \/ ClearRunning
    BY <2>1, <2>4 DEF CloseFd, ClearRunning, ClientInv, ReaderInv
  <2> QED BY <1>6, <2>2, <2>3, <2>4 DEF Read
<1>7. CASE UNCHANGED vars
  BY <1>7 DEF vars, clientVars, readerVars, serverVars, ClientInv, ReaderInv
<1> QED BY <1>1, <1>2, <1>3, <1>4, <1>5, <1>6, <1>7 DEF Next

LEMMA InvCorrect == Spec => []ClientInv
<1>1. ClientInv /\ [Next]_vars => ClientInv'
  BY TypeStep, QueueStep, FlightStep, CallStep, ReaderStep DEF ClientInv
<1> QED BY InitInv, <1>1, PTL DEF Spec

-----------------------------------------------------------------------------
(* The theorems                                                             *)

\* The client's state keeps its type, and a promise waits exactly while it is in
\* _pending_request.
THEOREM ClientTypeCorrect == Spec => []TypeOK
<1>1. ClientInv => TypeOK
  BY DEF ClientInv
<1> QED BY InvCorrect, <1>1, PTL

\* However calls, answers and reads interleave, whoever sends a request and
\* whether its caller waits or has thrown, the response to it finds the promise
\* of its call in _pending_request; and no call waits for the response to a
\* request that is still in the send queue.
THEOREM AnswersExpected == Spec => []AnswerFindsCall
<1>1. ASSUME ClientInv PROVE AnswerFindsCall
  <2>1. requests \subseteq pending
    BY <1>1 DEF ClientInv, TypeOK, CallInv
  <2>2. ASSUME NEW i \in DOMAIN Flight PROVE Flight[i].id \in pending
    <3>1. Flight[i].id \in Calls
      BY <1>1, FlightOf, Elements DEF Flight, ClientInv, FlightInv
    <3> QED BY <1>1, <3>1 DEF ClientInv, TypeOK, FlightInv, Expected
  <2>3. /\ DOMAIN Flight = 1 .. Len(chunk) + Len(responses)
        /\ Len(chunk) \in Nat /\ Len(responses) \in Nat
        /\ DOMAIN chunk = 1 .. Len(chunk)
        /\ DOMAIN responses = 1 .. Len(responses)
        /\ \A i \in DOMAIN Flight :
            Flight[i] = IF i <= Len(chunk) THEN chunk[i]
                        ELSE responses[i - Len(chunk)]
    BY <1>1, ConcatProperties DEF Flight, ClientInv, FlightInv
  <2>4. \A i \in DOMAIN chunk : i \in DOMAIN Flight /\ Flight[i] = chunk[i]
    BY <2>3
  <2>5. ASSUME NEW i \in DOMAIN responses
        PROVE  /\ Len(chunk) + i \in DOMAIN Flight
               /\ Flight[Len(chunk) + i] = responses[i]
    <3>1. /\ Len(chunk) + i \in DOMAIN Flight
          /\ ~(Len(chunk) + i <= Len(chunk)) /\ (Len(chunk) + i) - Len(chunk) = i
      BY <2>3
    <3> QED BY <3>1, <2>3
  <2>6. WaitingIsSent
    BY <1>1 DEF ClientInv, QueueInv
  <2> QED BY <2>1, <2>2, <2>4, <2>5, <2>6 DEF AnswerFindsCall, Answering
<1> QED BY InvCorrect, <1>1, PTL

\* A call gets the answer the server gave to it, not another's, and takes it for
\* what it is.
THEOREM ResultsCorrect == Spec => []ResultIsAnswer
<1>1. ClientInv => ResultIsAnswer
  BY DEF ClientInv, CallInv, ResultIsAnswer, Outcomes
<1> QED BY InvCorrect, <1>1, PTL

\* Once a response has come, read_data disconnects only from a server that has
\* closed, although it looks at errno after reads that succeed.
THEOREM DisconnectsCorrectly == Spec => []DisconnectsAtEnd
<1>1. ClientInv => DisconnectsAtEnd
  BY DEF ClientInv, ReaderInv, DisconnectsAtEnd
<1> QED BY InvCorrect, <1>1, PTL

\* What stays so after the reader has ended, for a call that is made afterwards.
Late(c) == /\ reader = "ended" /\ ~running
           /\ caller[c] \in {"none", "registered", "queued", "threw"}

\* _running is never set again after the reader has ended, so that a call made
\* after that is refused before it waits.
THEOREM LateCallsRefused == Spec => LateCallRefused
<1> SUFFICES ASSUME NEW c \in Calls
             PROVE  Spec => [](reader = "ended" /\ caller[c] = "none"
                                => [](caller[c] # "waiting"))
  BY DEF LateCallRefused
<1>1. ASSUME ClientInv, reader = "ended", caller[c] = "none" PROVE Late(c)
  BY <1>1 DEF ClientInv, ReaderInv, Late
<1>2. Late(c) => caller[c] # "waiting"
  BY DEF Late
<1>3. ASSUME ClientInv, Late(c), [Next]_vars PROVE Late(c)'
  <2> USE DEF ReaderAt, Throw
  <2>1. CASE Connect \/ Stop \/ CloseConnection
    BY <1>3, <2>1 DEF Connect, Stop, CloseConnection, Late, clientVars,
                      readerVars, serverVars
  <2>2. ASSUME NEW x \in Calls, RegisterPromise(x) PROVE Late(c)'
    BY <1>3, <2>2 DEF RegisterPromise, Late, ClientInv, TypeOK, readerVars
  <2>3. ASSUME NEW x \in Calls, Call(x) PROVE Late(c)'
    BY <1>3, <2>3 DEF Call, PushRequest, TestRunning, RefuseSend,
                      SendRequest, FailSend, EndSend, GetResult, GetError, Late, ClientInv, TypeOK, readerVars
  <2>4. ASSUME NEW x \in Calls, Answer(x) PROVE Late(c)'
    BY <1>3, <2>4 DEF Answer, Late, clientVars, readerVars
  <2>5. CASE Read
    BY <1>3, <2>5 DEF Read, StartReading, StopReading, ReadNothing, ReadEnd,
                      ReadResponses, DeliverResponse, ReadOn, CloseFd,
                      ClearRunning, Late
  <2>6. CASE UNCHANGED vars
    BY <1>3, <2>6 DEF vars, clientVars, readerVars, Late
  <2> QED BY <1>3, <2>1, <2>2, <2>3, <2>4, <2>5, <2>6 DEF Next
<1> QED BY InvCorrect, <1>1, <1>2, <1>3, PTL DEF Spec
=============================================================================

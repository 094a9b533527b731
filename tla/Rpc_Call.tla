------------------------------ MODULE Rpc_Call ------------------------------
(***************************************************************************)
(* One remote call from end to end, as data: Rpc_Client::call (.h), the    *)
(* packages of RPC/Rpc_Package.h, the read callbacks of Rpc_Server and     *)
(* Rpc_Client, and RPC/Function_Handler.hpp.  How requests and responses   *)
(* of several calls interleave is Rpc_Client's matter, how they travel     *)
(* Socket_Channel's; the function called is any function of its type.      *)
(***************************************************************************)
EXTENDS Data_Stream

CONSTANTS
    Calls,          \* [method, args], an argument being [type, value]
    Handlers,       \* name -> [params, ret, results]: the registered methods
    Id,             \* what generate_uuid returned
    Errors,         \* what() of the exceptions a handler throws, not empty
    NotFound,       \* "Handler not found"
    ByteOrders,     \* <<is the client big-endian, is the server>>
    RightToLeft     \* the order in which get_args evaluates get<Args>()...

Void == Plain("void")

\* Nobody sends more than a length holds.
Short(arguments) ==
    Len(FlattenSeq([i \in DOMAIN arguments |-> Encoded(FALSE)[arguments[i]]])) < HugeLength

ASSUME CallAssumption ==
    /\ \A c \in Calls :
        /\ DOMAIN c = {"method", "args"}
        /\ c.method \in Text /\ c.args \in Seq(Given) /\ Short(c.args)
    /\ \A name \in DOMAIN Handlers :
        LET handler == Handlers[name]
        IN  /\ handler.params \in Seq(Types) /\ handler.ret \in Types \cup {Void}
            /\ \A result \in handler.results :
                IF handler.ret = Void THEN result = <<>>
                ELSE LET returns == Typed(handler.ret, result)
                     IN  returns \in Given /\ Short(<<returns>>)
    /\ {Id, NotFound} \cup Errors \subseteq Text
    /\ <<>> \notin {NotFound} \cup Errors
    /\ ByteOrders \subseteq BOOLEAN \X BOOLEAN
    /\ RightToLeft \in BOOLEAN

VARIABLES
    call, clientBig, serverBig,     \* the call, and the two machines
    stage,
    stream,         \* params, at the client and then at the server
    todo,           \* how many arguments are still to be written, or read
    packet,         \* the bytes on their way
    received,       \* the arguments read so far
    response,       \* the response the server is making
    made, returned  \* history: what the function did, and what the caller got

vars == <<call, clientBig, serverBig, stage, stream, todo, packet, received,
          response, made, returned>>

Pending == [how |-> "nothing yet"]
Value(v) == [value |-> v]
Error(text) == [error |-> text]

Known == call.method \in DOMAIN Handlers
Handler == Handlers[call.method]

Init ==
    /\ call \in Calls
    /\ \E order \in ByteOrders : clientBig = order[1] /\ serverBig = order[2]
    /\ stage = "write"
    /\ stream = NewStream(clientBig)
    /\ todo = Len(call.args)
    /\ packet = <<>> /\ received = <<>> /\ response = <<>>
    /\ made = Pending /\ returned = Pending

-----------------------------------------------------------------------------
(* The client: call                                                         *)

\* Mutant: the arguments are written in the order they are given.
NextWritten_First == call.args[Len(call.args) - todo + 1]
\* "size - 1 - Is": the last argument first
NextWritten == call.args[todo]

WriteArgument ==
    /\ stage = "write" /\ todo > 0
    /\ stream' = Written(stream, NextWritten)
    /\ todo' = todo - 1
    /\ UNCHANGED <<call, clientBig, serverBig, stage, packet, received,
                   response, made, returned>>

SendRequest ==
    /\ stage = "write" /\ todo = 0
    /\ packet' = Data(Written(NewStream(clientBig),
                              Typed(RequestType, <<call.method, FieldsOf(stream), Id>>)))
    /\ stage' = "sent"
    /\ UNCHANGED <<call, clientBig, serverBig, stream, todo, received,
                   response, made, returned>>

-----------------------------------------------------------------------------
(* The server's read callback, Handler_Manager::call, Function_Handler::call *)

Respond(result, error, id) ==
    /\ response' = <<FieldsOf(result), error, id>>
    /\ stage' = "respond"

\* A name that is not registered is answered with the text of the exception.
ReceiveRequest ==
    /\ stage = "sent"
    /\ LET request == Read(Loaded(NewStream(serverBig), packet), RequestType).value
       IN  /\ stream' = FromFields(request[2], serverBig)
           /\ IF request[1] \in DOMAIN Handlers
              THEN /\ todo' = Len(Handlers[request[1]].params)
                   /\ stage' = "read"
                   /\ response' = <<request[3]>>
                   /\ UNCHANGED made
              ELSE /\ Respond(NewStream(serverBig), NotFound, request[3])
                   /\ made' = Error(NotFound)
                   /\ UNCHANGED todo
    /\ UNCHANGED <<call, clientBig, serverBig, packet, received, returned>>

NextParam == IF RightToLeft THEN todo ELSE Len(Handler.params) - todo + 1

ReadArgument ==
    /\ stage = "read" /\ todo > 0
    /\ LET argument == Read(stream, Handler.params[NextParam])
       IN  /\ stream' = [stream EXCEPT !.pos = argument.pos]
           /\ received' = IF RightToLeft THEN <<argument.value>> \o received
                          ELSE Append(received, argument.value)
    /\ todo' = todo - 1
    /\ UNCHANGED <<call, clientBig, serverBig, stage, packet, response, made,
                   returned>>

Apply ==
    /\ stage = "read" /\ todo = 0
    /\ \E result \in Handler.results :
        /\ made' = Value(result)
        /\ Respond(IF Handler.ret = Void THEN NewStream(serverBig)
                   ELSE Written(NewStream(serverBig), Typed(Handler.ret, result)),
                   <<>>, response[1])
    /\ UNCHANGED <<call, clientBig, serverBig, stream, todo, packet, received,
                   returned>>

Throw ==
    /\ stage = "read" /\ todo = 0
    /\ \E text \in Errors :
        /\ made' = Error(text)
        /\ Respond(NewStream(serverBig), text, response[1])
    /\ UNCHANGED <<call, clientBig, serverBig, stream, todo, packet, received,
                   returned>>

SendResponse ==
    /\ stage = "respond"
    /\ packet' = Data(Written(NewStream(serverBig), Typed(ResponseType, response)))
    /\ stage' = "answered"
    /\ UNCHANGED <<call, clientBig, serverBig, stream, todo, received,
                   response, made, returned>>

-----------------------------------------------------------------------------
(* The client's read callback, and the end of call                          *)

\* Mutant: whatever the error says, the result is read.
Failed_Never(error) == FALSE
Failed(error) == error # <<>>

\* A response to another id ends no call; the caller asks for the method's type.
ReceiveResponse ==
    /\ stage = "answered"
    /\ LET answer == Read(Loaded(NewStream(clientBig), packet), ResponseType).value
       IN  /\ answer[3] = Id
           /\ returned' =
                IF Failed(answer[2]) THEN Error(answer[2])
                ELSE IF ~Known \/ Handler.ret = Void THEN Value(<<>>)
                ELSE Value(Read(FromFields(answer[1], clientBig), Handler.ret).value)
    /\ stage' = "done"
    /\ UNCHANGED <<call, clientBig, serverBig, stream, todo, packet, received,
                   response, made>>

Done == stage = "done" /\ UNCHANGED vars

Next ==
    \/ WriteArgument \/ SendRequest
    \/ ReceiveRequest \/ ReadArgument \/ Apply \/ Throw \/ SendResponse
    \/ ReceiveResponse \/ Done

Spec == Init /\ [][Next]_vars

-----------------------------------------------------------------------------
TypesOf(args) == [i \in DOMAIN args |-> args[i].type]
ValuesOf(args) == [i \in DOMAIN args |-> args[i].value]

\* The caller passes what the function takes, between machines of one kind.
\* A params stream brings its sender's is_big_endian along and is read by it.
WellMatched ==
    /\ clientBig = serverBig
    /\ Known => TypesOf(call.args) = Handler.params

Local == INSTANCE Local_Call WITH
    outcomes <- (IF Known THEN {Value(v) : v \in Handler.results} ELSE {})
                \cup {Error(text) : text \in Errors},
    Unknown <- Error(NotFound), Pending <- Pending,
    arguments <- Value(ValuesOf(call.args)), known <- Known,
    seen <- IF made = Pending \/ ~Known THEN Pending ELSE Value(received),
    outcome <- made, returned <- returned

\* A remote call is a call: the function is applied to the arguments given, in
\* their order, and its result or its exception's text reaches the caller,
\* through two nested streams each way, a reversed order of writing and the
\* order in which get_args reads (RpcServerTest.cpp:17, testPargsOrder).
ImplementsLocalCall ==
    Local!Init /\ [][WellMatched => Local!Next]_(Local!vars)

\* The parameters still to be read, in the order they will be.
Unread ==
    IF RightToLeft THEN Reverse(SubSeq(call.args, 1, todo))
    ELSE SubSeq(call.args, Len(call.args) - todo + 1, Len(call.args))

\* At every read the stream holds exactly the values that are still to come: no
\* read of any type leaves a byte behind or takes one of the next.
ReadsInStep ==
    stage = "read" /\ WellMatched =>
        ReadAll(stream, TypesOf(Unread))
            = Result(TRUE, ValuesOf(Unread), Len(stream.mem))

\* The types with no class in them
ClassFree[T \in Types] ==
    T.kind # "custom" /\ \A i \in DOMAIN T.of : ClassFree[T.of[i]]

\* A call with the right number of arguments never makes the server read past
\* the request, whatever their types, as long as no class is expected: reading
\* one takes a byte even where there is none.
StaysInData ==
    /\ Known
    /\ clientBig = serverBig
    /\ Len(call.args) = Len(Handler.params)
    /\ \A i \in DOMAIN Handler.params : ClassFree[Handler.params[i]]
    => stream.pos <= Len(stream.mem)
=============================================================================

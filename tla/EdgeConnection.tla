---------------------------- MODULE EdgeConnection ----------------------------
(***************************************************************************)
(* One connection of a client to an edge server.  The client registers the *)
(* parse callback of every call it sends (response correlator), keeps the  *)
(* table of tunnel refs (tunnel session engine) and reads one inbound      *)
(* stream, envelope after envelope, classifying each with the dispatcher.  *)
(* The server is the environment: it answers calls, opens tunnels towards  *)
(* the client and sends frames on the open ones.                           *)
(*                                                                         *)
(* Encoding, classification and decoding are the operators of EdgeCodec    *)
(* and EdgeDispatch.  The tables around them, and the server, follow the   *)
(* protocol description: that code is outside this repository.             *)
(***************************************************************************)
EXTENDS EdgeDispatch

CONSTANTS
    Methods,        \* the methods the caller invokes
    Payloads,       \* the byte strings tunnels carry
    MaxRequestID,   \* the client allocates the request ids 1..MaxRequestID
    MaxServerID,    \* the server's own requests carry the ids 1..MaxServerID
    MaxRef,         \* the server allocates the refs 1..MaxRef
    MaxInFlight,    \* envelopes queued in one direction
    MaxAnswers,     \* answers the server gives to one call
    JsonErrors,     \* TRUE: the server builds its errors with NewErrorResponse
    UseCallback     \* TRUE: a response is decoded by the callback registered
                    \* for its id; FALSE: by parseResponse

ASSUME /\ Methods \subseteq {m \in DOMAIN Requests : Requests[m].parser # NoParser}
       /\ \A data \in Payloads : data \in Seq(STRING)
       /\ {MaxRequestID, MaxServerID, MaxRef, MaxInFlight, MaxAnswers} \subseteq Nat
       /\ {UseCallback, JsonErrors} \subseteq BOOLEAN

VARIABLES
    nextID,      \* client: the next request id
    calls,       \* client: id -> [method, parser] of the calls awaiting a response
    outcome,     \* client: id -> [method, result] of the calls that returned
    ports,       \* client: ref -> "Open" | "Closed"
    delivered,   \* client: ref -> the frames surfaced to the application
    reported,    \* client: what the receive path returned for the envelopes
                 \* that changed nothing: an error, or "nil" for neither
                 \* a request nor an error
    up,          \* FALSE once the connection is torn down
    outbox,      \* envelopes on their way to the server
    inbox,       \* envelopes on their way to the client
    srvPorts,    \* server: ref -> "Free" | "Pending" | "Open" | "Closed"
    srvSent,     \* server: ref -> the frames sent on it
    srvNextID,   \* server: the id of its next request
    srvUp        \* server: FALSE once it said goodbye

client == <<nextID, calls, outcome, ports, delivered, reported>>
server == <<srvPorts, srvSent, srvNextID, srvUp>>
vars   == <<client, up, outbox, inbox, server>>

Refs == 1..MaxRef

-----------------------------------------------------------------------------
(* What the server puts on the wire *)

Bytes == <<"a">>

\* the arguments the caller passes: what the method takes
ArgsOf(method) ==
    LET types == Requests[method].types
    IN  [i \in DOMAIN types |-> Arg(types[i], IF types[i] = "uint64" THEN 1 ELSE Bytes)]

Reply(shape, strs, nums) == [shape |-> shape, strs |-> strs, nums |-> nums]

\* the payloads a server answers a call with, after the response tag and
\* the method name
Replies ==
    [getblock        |-> {Reply("blockResponse", <<Bytes>>, <<>>)},
     getblockpeak    |-> {Reply("blockPeakResponse", <<>>, <<7>>)},
     getblockheader2 |-> {Reply("blockHeaderResponse", <<fields, hash>>, <<>>) :
                             fields \in {Bytes} \cup RejectedHeaders,
                             hash \in {Hash(Bytes), Bytes}},
     getblockquick2  |-> {Reply("blockquickResponse", <<Bytes>>, <<>>)},
     getaccount      |-> {Reply("accountResponse", <<Bytes, Bytes, proof>>, <<1, 1>>) :
                             proof \in {Bytes, <<>>}},
     getaccountroots |-> {Reply("accountRootsResponse", <<Bytes>>, <<>>)},
     getaccountvalue |-> {Reply("accountValueResponse", <<proof>>, <<>>) :
                             proof \in {Bytes, <<>>}},
     getstateroots   |-> {Reply("stateRootsResponse", <<Bytes>>, <<>>)},
     getobject       |-> {Reply("objectResponse",
                                <<Bytes, Bytes, Bytes, Bytes, Bytes>>, <<1, 1, 1>>)},
     getnode         |-> {Reply("serverObjectResponse", <<Bytes, Bytes>>, <<1, 1>>)},
     ticket          |-> {Reply("ticketThanksResponse", <<ticketThanksPivot>>, <<>>),
                          Reply("ticketTooLowResponse",
                                <<ticketTooLowPivot, Bytes, Bytes, Bytes>>, <<2, 2>>),
                          Reply("ticketTooOldResponse", <<ticketTooOldPivot>>, <<1>>)}]

Response(id, method, reply) ==
    Buffer(id, reply.shape, <<responsePivot, MethodBytes[method]>> \o reply.strs,
           reply.nums)

ErrorResponse(id, method) ==
    Buffer(id, "errorResponse", <<errorPivot, MethodBytes[method], <<"not found">>>>, <<>>)

PortOpenRequest(id, ref) ==
    Buffer(id, "portOpenInboundRequest", <<portOpenPivot, Bytes>>, <<80, ref>>)

PortSendRequest(id, ref, data) ==
    Buffer(id, "portSendInboundRequest", <<portSendPivot, data>>, <<ref>>)

PortCloseRequest(id, ref) ==
    Buffer(id, "portCloseInboundRequest", <<portClosePivot>>, <<ref>>)

GoodbyeRequest(id) ==
    Buffer(id, "goodbyeInboundRequest", <<goodbyePivot, <<"bye">>>>, <<>>)

\* the method of a request the server reads, known from the struct it decodes
MethodOf(request) ==
    IF \E m \in DOMAIN Requests : Requests[m].shape = request.shape
    THEN CHOOSE m \in DOMAIN Requests : Requests[m].shape = request.shape
    ELSE "response"

-----------------------------------------------------------------------------

Init ==
    /\ nextID = 1
    /\ calls = <<>>
    /\ outcome = <<>>
    /\ ports = <<>>
    /\ delivered = <<>>
    /\ reported = {}
    /\ up = TRUE
    /\ outbox = <<>>
    /\ inbox = <<>>
    /\ srvPorts = [r \in Refs |-> "Free"]
    /\ srvSent = [r \in Refs |-> <<>>]
    /\ srvNextID = 1
    /\ srvUp = TRUE

-----------------------------------------------------------------------------
(* The client's send path *)

IsOpen(ref) == ref \in DOMAIN ports /\ ports[ref] = "Open"

\* encode with the next request id and queue the bytes for the server
Sent(message) ==
    /\ up
    /\ nextID <= MaxRequestID
    /\ Len(outbox) < MaxInFlight
    /\ message.err = "nil"
    /\ nextID' = nextID + 1
    /\ outbox' = Append(outbox, message.buffer)

\* a call: the callback NewMessage returns is registered under the id
Call(method) ==
    LET message == NewMessage(nextID, method, ArgsOf(method))
    IN  /\ Sent(message)
        /\ calls' = (nextID :> [method |-> method, parser |-> message.parser]) @@ calls
        /\ UNCHANGED <<outcome, ports, delivered, reported, inbox, server, up>>

\* send(ref, data): ErrUnknownRef unless the ref is Open
Send(ref, data) ==
    /\ IsOpen(ref)
    /\ Sent(NewMessage(nextID, "portsend",
                        <<Arg("uint64", ref), Arg("[]byte", data)>>))
    /\ UNCHANGED <<calls, outcome, ports, delivered, reported, inbox, server, up>>

\* close(ref): ErrUnknownRef unless the ref is Open
Close(ref) ==
    /\ IsOpen(ref)
    /\ Sent(NewMessage(nextID, "portclose", <<Arg("uint64", ref)>>))
    /\ ports' = [ports EXCEPT ![ref] = "Closed"]
    /\ UNCHANGED <<calls, outcome, delivered, reported, inbox, server, up>>

-----------------------------------------------------------------------------
(* The client's receive path: the head of the inbound stream *)

Opened(ref) ==
    /\ ports' = (ref :> "Open") @@ ports
    /\ delivered' = delivered @@ (ref :> <<>>)

Resolve(call, buffer) ==
    IF UseCallback THEN CallParser(call.parser, buffer) ELSE parseResponse(buffer)

\* the call returns to its caller and leaves the table
Returned(id, result) ==
    /\ calls' = [i \in DOMAIN calls \ {id} |-> calls[i]]
    /\ outcome' = (id :> [method |-> calls[id].method, result |-> result]) @@ outcome

NotFound ==
    /\ reported' = reported \cup {"ErrResponseHandlerNotFound"}
    /\ UNCHANGED <<calls, outcome, ports, delivered>>

\* a response resolves the call registered under its id, once; the ref of
\* a successful portopen becomes Open
ReceiveResponse ==
    /\ up /\ inbox # <<>>
    /\ IsResponseType(Head(inbox))
    /\ inbox' = Tail(inbox)
    /\ LET id     == ResponseID(Head(inbox))
           result == Resolve(calls[id], Head(inbox))
       IN  IF id \in DOMAIN calls
           THEN /\ Returned(id, result)
                /\ IF result.kind = "PortOpen" /\ result.Ok
                   THEN Opened(result.Ref)
                   ELSE UNCHANGED <<ports, delivered>>
                /\ UNCHANGED reported
           ELSE NotFound
    /\ UNCHANGED <<nextID, up, outbox, server>>

\* an error envelope resolves the call with the server's message
ReceiveError ==
    /\ up /\ inbox # <<>>
    /\ ~IsResponseType(Head(inbox))
    /\ IsErrorType(Head(inbox))
    /\ inbox' = Tail(inbox)
    /\ LET id == ResponseID(Head(inbox))
       IN  IF id \in DOMAIN calls
           THEN /\ Returned(id, parseError(Head(inbox)))
                /\ UNCHANGED <<reported, ports, delivered>>
           ELSE NotFound
    /\ UNCHANGED <<nextID, up, outbox, server>>

\* the head of the stream when it is neither response nor error, decoded
InboundRequest == parseInboundRequest(Head(inbox))

IsRequest ==
    /\ up /\ inbox # <<>>
    /\ ~IsResponseType(Head(inbox))
    /\ ~IsErrorType(Head(inbox))

\* the server opens a tunnel: the application takes it or not, and the
\* answer goes back under the id of the request
ReceivePortOpen ==
    /\ IsRequest
    /\ InboundRequest.kind = "PortOpen"
    /\ \E result \in {okPivot, <<"refused">>} :
          LET answer == NewResponseMessage(ResponseID(Head(inbox)), responsePivot,
                            "portopen",
                            <<Arg("uint64", InboundRequest.Ref), Arg("string", result)>>)
          IN  /\ outbox' = Append(outbox, answer.buffer)
              /\ IF result = okPivot
                 THEN Opened(InboundRequest.Ref)
                 ELSE UNCHANGED <<ports, delivered>>
    /\ inbox' = Tail(inbox)
    /\ UNCHANGED <<nextID, calls, outcome, reported, server, up>>

\* a frame on an Open ref is surfaced
ReceivePortSend ==
    /\ IsRequest
    /\ InboundRequest.kind = "PortSend"
    /\ IsOpen(InboundRequest.Ref)
    /\ delivered' = [delivered EXCEPT ![InboundRequest.Ref] = Append(@, InboundRequest.Data)]
    /\ inbox' = Tail(inbox)
    /\ UNCHANGED <<nextID, calls, outcome, ports, reported, outbox, server, up>>

ReceivePortClose ==
    /\ IsRequest
    /\ InboundRequest.kind = "PortClose"
    /\ IsOpen(InboundRequest.Ref)
    /\ ports' = [ports EXCEPT ![InboundRequest.Ref] = "Closed"]
    /\ inbox' = Tail(inbox)
    /\ UNCHANGED <<nextID, calls, outcome, delivered, reported, outbox, server, up>>

\* goodbye closes every Open ref
ReceiveGoodbye ==
    /\ IsRequest
    /\ InboundRequest.kind = "Goodbye"
    /\ ports' = [ref \in DOMAIN ports |-> "Closed"]
    /\ inbox' = Tail(inbox)
    /\ UNCHANGED <<nextID, calls, outcome, delivered, reported, outbox, server, up>>

\* a frame or a close for a ref that is not Open, and an envelope that
\* does not decode, are errors returned to the caller
ReceiveRejected ==
    /\ IsRequest
    /\ \/ /\ InboundRequest.kind \in {"PortSend", "PortClose"}
          /\ ~IsOpen(InboundRequest.Ref)
          /\ reported' = reported \cup {"ErrUnknownRef"}
       \/ /\ InboundRequest.kind = "DecodeError"
          /\ reported' = reported \cup {"DecodeError"}
    /\ inbox' = Tail(inbox)
    /\ UNCHANGED <<nextID, calls, outcome, ports, delivered, outbox, server, up>>

\* (nil, nil): neither a request nor an error comes back, nothing is done
ReceiveNothing ==
    /\ IsRequest
    /\ InboundRequest.kind = "nil"
    /\ reported' = reported \cup {"nil"}
    /\ inbox' = Tail(inbox)
    /\ UNCHANGED <<nextID, calls, outcome, ports, delivered, outbox, server, up>>

\* teardown, by the caller or because the transport ended: the calls that
\* wait fail with a connection-closed error, every ref is Closed
Disconnect ==
    /\ up
    /\ up' = FALSE
    /\ calls' = <<>>
    /\ outcome' = [id \in DOMAIN calls |->
                      [method |-> calls[id].method,
                       result |-> Failure("ErrConnectionClosed")]] @@ outcome
    /\ ports' = [ref \in DOMAIN ports |-> "Closed"]
    /\ UNCHANGED <<nextID, delivered, reported, outbox, inbox, server>>

Receive ==
    \/ ReceiveResponse
    \/ ReceiveError
    \/ ReceivePortOpen
    \/ ReceivePortSend
    \/ ReceivePortClose
    \/ ReceiveGoodbye
    \/ ReceiveRejected
    \/ ReceiveNothing

-----------------------------------------------------------------------------
(* The server *)

ServerReads == up /\ srvUp /\ outbox # <<>>

ServerWrites == up /\ srvUp /\ Len(inbox) < MaxInFlight

FreeRefs == {r \in Refs : srvPorts[r] = "Free"}

\* a call is answered with a response of its method or with an error, once
\* or, by a server that repeats itself, with up to MaxAnswers answers that
\* need not be the same
ServerAnswers ==
    /\ ServerReads /\ ServerWrites
    /\ MethodOf(Head(outbox)) \in DOMAIN Replies
    /\ LET request == Head(outbox)
           method  == MethodOf(request)
           choices == {Response(request.id, method, reply) : reply \in Replies[method]}
                         \cup {IF JsonErrors
                                THEN NewErrorResponse(MethodBytes[method], <<"not found">>).Buffer
                                ELSE ErrorResponse(request.id, method)}
       IN  \E n \in 1..MaxAnswers :
              \E answers \in [1..n -> choices] :
                 /\ Len(inbox) + n <= MaxInFlight
                 /\ inbox' = inbox \o answers
    /\ outbox' = Tail(outbox)
    /\ UNCHANGED <<client, server, up>>

\* portopen is granted with a ref nobody used before, or refused
ServerGrants ==
    /\ ServerReads /\ ServerWrites
    /\ MethodOf(Head(outbox)) = "portopen"
    /\ \/ /\ FreeRefs # {}
          /\ srvPorts' = [srvPorts EXCEPT ![Min(FreeRefs)] = "Open"]
          /\ inbox' = Append(inbox, Response(Head(outbox).id, "portopen",
                                Reply("portOpenResponse", <<okPivot>>, <<Min(FreeRefs)>>)))
       \/ /\ inbox' = Append(inbox, Response(Head(outbox).id, "portopen",
                                Reply("portOpenResponse", <<<<"refused">>>>, <<0>>)))
          /\ UNCHANGED srvPorts
    /\ outbox' = Tail(outbox)
    /\ UNCHANGED <<client, srvSent, srvNextID, srvUp, up>>

\* what needs no answer: a frame, a close, the answer to the server's own
\* portopen
ServerTakes ==
    /\ ServerReads
    /\ Head(outbox).shape \in
          {"portSendRequest", "portCloseRequest", "portOpenOutboundResponse"}
    /\ LET request == Head(outbox)
           ref     == request.nums[1]
       IN  CASE request.shape = "portCloseRequest" ->
                  srvPorts' = [srvPorts EXCEPT ![ref] = "Closed"]
             [] request.shape = "portOpenOutboundResponse" ->
                  srvPorts' = [srvPorts EXCEPT ![ref] =
                                  IF @ # "Pending" THEN @
                                  ELSE IF request.strs[2] = okPivot THEN "Open"
                                  ELSE "Closed"]
             [] request.shape = "portSendRequest" -> UNCHANGED srvPorts
    /\ outbox' = Tail(outbox)
    /\ UNCHANGED <<client, inbox, srvSent, srvNextID, srvUp, up>>

\* the server's own requests carry its own ids
ServerSends(request) ==
    /\ ServerWrites
    /\ srvNextID <= MaxServerID
    /\ srvNextID' = srvNextID + 1
    /\ inbox' = Append(inbox, request)

ServerPortOpen ==
    /\ FreeRefs # {}
    /\ ServerSends(PortOpenRequest(srvNextID, Min(FreeRefs)))
    /\ srvPorts' = [srvPorts EXCEPT ![Min(FreeRefs)] = "Pending"]
    /\ UNCHANGED <<client, outbox, srvSent, srvUp, up>>

ServerPortSend(ref, data) ==
    /\ srvPorts[ref] = "Open"
    /\ ServerSends(PortSendRequest(srvNextID, ref, data))
    /\ srvSent' = [srvSent EXCEPT ![ref] = Append(@, data)]
    /\ UNCHANGED <<client, outbox, srvPorts, srvUp, up>>

ServerPortClose(ref) ==
    /\ srvPorts[ref] \in {"Pending", "Open"}
    /\ ServerSends(PortCloseRequest(srvNextID, ref))
    /\ srvPorts' = [srvPorts EXCEPT ![ref] = "Closed"]
    /\ UNCHANGED <<client, outbox, srvSent, srvUp, up>>

\* a request of a method this client does not know
ServerOther ==
    /\ ServerSends(Buffer(srvNextID, "otherRequest", <<<<"ping">>>>, <<>>))
    /\ UNCHANGED <<client, outbox, srvPorts, srvSent, srvUp, up>>

ServerGoodbye ==
    /\ ServerSends(GoodbyeRequest(srvNextID))
    /\ srvPorts' = [r \in Refs |-> IF srvPorts[r] = "Free" THEN "Free" ELSE "Closed"]
    /\ srvUp' = FALSE
    /\ UNCHANGED <<client, outbox, srvSent, up>>

Server ==
    \/ ServerAnswers
    \/ ServerGrants
    \/ ServerTakes
    \/ ServerPortOpen
    \/ \E ref \in Refs, data \in Payloads : ServerPortSend(ref, data)
    \/ \E ref \in Refs : ServerPortClose(ref)
    \/ ServerOther
    \/ ServerGoodbye

-----------------------------------------------------------------------------

Next ==
    \/ \E method \in Methods : Call(method)
    \/ \E ref \in DOMAIN ports, data \in Payloads : Send(ref, data)
    \/ \E ref \in DOMAIN ports : Close(ref)
    \/ Receive
    \/ Disconnect
    \/ Server

Spec == Init /\ [][Next]_vars

(***************************************************************************)
(* The receive loop handles an envelope whenever the stream holds one, the *)
(* server reads and answers what reaches it while it is up, and once the   *)
(* server has left the transport reports the end of the connection.        *)
(***************************************************************************)
Fairness ==
    /\ WF_vars(Receive)
    /\ WF_vars(ServerAnswers) /\ WF_vars(ServerGrants) /\ WF_vars(ServerTakes)
    /\ WF_vars(~srvUp /\ Disconnect)

FairSpec == Spec /\ Fairness

-----------------------------------------------------------------------------
(* Properties *)

Errors == {"ErrResponseHandlerNotFound", "ErrUnknownRef", "DecodeError"}

IsBuffer(b) ==
    /\ b.id \in Nat
    /\ b.shape \in STRING
    /\ b.strs \in Seq(Seq(STRING))
    /\ b.nums \in Seq(Nat)

\* The state of the client and of the server is well formed: calls are
\* pending or resolved and never both, the ports the client knows have a
\* frame history, both queues hold envelopes within their bound.
TypeOK ==
    /\ nextID \in 1..(MaxRequestID + 1)
    /\ DOMAIN calls \subseteq 1..MaxRequestID
    /\ \A id \in DOMAIN calls : calls[id] \in [method : Methods, parser : STRING]
    /\ DOMAIN outcome \subseteq (1..MaxRequestID) \ DOMAIN calls
    /\ \A id \in DOMAIN outcome : outcome[id].method \in Methods
    /\ DOMAIN ports \subseteq Refs
    /\ \A ref \in DOMAIN ports : ports[ref] \in {"Open", "Closed"}
    /\ DOMAIN delivered = DOMAIN ports
    /\ \A ref \in DOMAIN delivered : delivered[ref] \in Seq(Payloads)
    /\ reported \subseteq Errors \cup {"nil"}
    /\ up \in BOOLEAN
    /\ Len(inbox) <= MaxInFlight /\ Len(outbox) <= MaxInFlight + MaxRef
    /\ \A queue \in {outbox, inbox} : \A i \in DOMAIN queue : IsBuffer(queue[i])
    /\ srvPorts \in [Refs -> {"Free", "Pending", "Open", "Closed"}]
    /\ srvSent \in [Refs -> Seq(Payloads)]
    /\ srvNextID \in 1..(MaxServerID + 1)
    /\ srvUp \in BOOLEAN

\* the record the caller of a method expects
Expected ==
    [getblock        |-> "Block",        getblockpeak    |-> "BlockNumber",
     getblockheader2 |-> "BlockHeader",  getblockquick2  |-> "Blockquick",
     getaccount      |-> "Account",      getaccountroots |-> "AccountRoots",
     getaccountvalue |-> "AccountValue", getstateroots   |-> "StateRoots",
     getobject       |-> "DeviceTicket", getnode         |-> "ServerObj",
     ticket          |-> "DeviceTicket", portopen        |-> "PortOpen"]

\* A call resolves to the record of the method that was called, to the
\* server's error message, or to the failure of a check on the response:
\* never to another method's record and never to a decode error.  It holds
\* because NewMessage hands back the parser of the method it encodes and
\* ReceiveResponse / ReceiveError find the call by ResponseID, whatever
\* the order the server answers in.
CallsDecodeAsAsked ==
    \A id \in DOMAIN outcome :
        outcome[id].result.kind \in {Expected[outcome[id].method], "Error", "Failure"}

\* Once both queues are drained no call is left waiting: every request
\* the server answered was classified by IsResponseType / IsErrorType as
\* an answer and resolved the call of its id.
AnsweredCallsResolve ==
    (outbox = <<>> /\ inbox = <<>>) => calls = <<>>

Rpc == INSTANCE EdgeRpc WITH
           IDs      <- 1..MaxRequestID,
           waiting  <- [id \in DOMAIN calls |-> calls[id].method],
           returned <- [id \in DOMAIN outcome |->
                           [method |-> outcome[id].method,
                            kind   |-> outcome[id].result.kind]]

\* The connection implements the request / response service of EdgeRpc:
\* an id is used for one call, a call returns once, and with the record
\* of its method, the server's error or a failure.  Call, ReceiveResponse,
\* ReceiveError and Disconnect are its steps; every other step leaves the
\* calls alone.
RpcSafety == Rpc!Spec

\* Every call returns: with the server's answer through the receive loop,
\* or with the connection-closed failure of Disconnect once the server has
\* left.  No answer is lost to the classification by IsResponseType and
\* IsErrorType.
RpcLiveness == Rpc!EveryCallReturns

Delivered(ref) == IF ref \in DOMAIN delivered THEN delivered[ref] ELSE <<>>

Queued(queue, shape, ref) ==
    \E i \in DOMAIN queue : queue[i].shape = shape /\ queue[i].nums = <<ref>>

\* The frames surfaced on a ref are the frames the server sent on it, in
\* order and without a gap, and all of them once the stream holds no more
\* frame of a ref that is still Open: parseInboundRequest decodes a
\* portsend frame as a frame although its data spells portclose or
\* goodbye, the markers it tests after portsend.  Data that holds portopen,
\* response or error is not in Payloads: such a frame is lost.
TunnelBytesIntact ==
    \A ref \in Refs :
        /\ IsPrefix(Delivered(ref), srvSent[ref])
        /\ IsOpen(ref) /\ ~Queued(inbox, "portSendInboundRequest", ref)
              => Delivered(ref) = srvSent[ref]

ServerPort(ref) == IF ref \in Refs THEN srvPorts[ref] ELSE "Free"

\* A ref that is Open at the client is Open at the server, unless the news
\* is on its way: the client's answer to the server's portopen, or the
\* server's portclose or goodbye.  A refused portopen (parsePortOpenResponse
\* with Ok false, or the client's own refusal) opens nothing.
OpenSessionsAgree ==
    \A ref \in DOMAIN ports :
        ports[ref] = "Open" =>
            \/ ServerPort(ref) = "Open"
            \/ /\ ServerPort(ref) = "Pending"
               /\ Queued(outbox, "portOpenOutboundResponse", ref)
            \/ /\ ServerPort(ref) = "Closed"
               /\ \/ Queued(inbox, "portCloseInboundRequest", ref)
                  \/ \E i \in DOMAIN inbox : inbox[i].shape = "goodbyeInboundRequest"

\* The two ends agree in the end: a tunnel the server has closed, by its
\* portclose, by its goodbye or on the client's own portclose, is not left
\* Open at the client.  The news crosses the stream behind whatever was
\* queued before it, parseInboundPortCloseRequest and
\* parseInboundGoodbyeRequest have to read it as what it is, and after a
\* goodbye the teardown closes what is left.
SessionsConverge ==
    \A ref \in Refs : (srvPorts[ref] = "Closed") ~> ~IsOpen(ref)

\* The protocol description, on the dispatcher: "no marker match ->
\* ErrResponseHandlerNotFound; this is reported to the caller, never silently
\* dropped".  For every envelope the receive path takes off the stream its
\* caller gets a request, a result or an error.  parseInboundRequest is
\* where it could get neither.
NoRequestIsDropped == "nil" \notin reported

=============================================================================

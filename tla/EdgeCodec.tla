------------------------------ MODULE EdgeCodec ------------------------------
(***************************************************************************)
(* The typed encoders and parsers of RLP_V2: NewMessage and                *)
(* NewResponseMessage build the envelopes the client sends, each parse     *)
(* function decodes one envelope shape into the record its caller gets.    *)
(* All of them are pure; the dispatcher (EdgeDispatch) and the connection  *)
(* (EdgeConnection) call them.                                             *)
(*                                                                         *)
(* A response payload is <<"response", method, ...>>, an error payload     *)
(* <<"error", method, message>>, a request payload <<method, ...>>.        *)
(***************************************************************************)
EXTENDS EdgePivots

CONSTANTS
    AddrLen,          \* chunks in a [20]byte address
    RejectedHeaders   \* header fields blockquick.NewHeader returns an error for

ASSUME AddrLen \in Nat \ {0}

DecodeError == [kind |-> "DecodeError"]
Failure(err) == [kind |-> "Failure", err |-> err]
NoParser    == "nil"

(***************************************************************************)
(* The injected hash function: injective, and never equal to its input.    *)
(***************************************************************************)
Hash(bytes) == <<"#">> \o bytes

(***************************************************************************)
(* copy(dst[:], src) into a zeroed [20]byte: src cut or zero-padded to     *)
(* AddrLen chunks.                                                         *)
(***************************************************************************)
CopyAddr(src) ==
    [i \in 1..AddrLen |-> IF i <= Len(src) THEN src[i] ELSE "00"]

-----------------------------------------------------------------------------
(* Responses of RPC calls *)

parseError(buffer) ==
    \* the decode error is dropped: bytes that are no rlp list leave Payload
    \* empty, and an empty Payload makes the index -1
    IF buffer.shape = "json" \/ buffer.strs = <<>>
    THEN [kind |-> "Panic"]
    ELSE [kind |-> "Error", Message |-> Last(buffer.strs)]

parseBlockPeakResponse(buffer) ==
    IF Decodes(buffer, "blockPeakResponse")
    THEN [kind |-> "BlockNumber", BlockNumber |-> buffer.nums[1]]
    ELSE DecodeError

parseBlockResponse(buffer) ==
    IF Decodes(buffer, "blockResponse")
    THEN [kind |-> "Block", Block |-> buffer.strs[3]]
    ELSE DecodeError

(***************************************************************************)
(* strs[3] stands for the eight header items and the miner's key, strs[4]  *)
(* for the block_hash item.  The header is returned only when its own      *)
(* hash is the hash the server claims.                                     *)
(***************************************************************************)
parseBlockHeaderResponse(buffer) ==
    IF ~Decodes(buffer, "blockHeaderResponse") THEN DecodeError
    ELSE LET fields    == buffer.strs[3]
             blockHash == buffer.strs[4]
         IN  CASE fields \in RejectedHeaders -> Failure("NewHeader")
               [] Hash(fields) # blockHash   -> Failure("Blockhash != real hash")
               [] OTHER -> [kind |-> "BlockHeader", Header |-> fields]

parseBlockquickResponse(buffer) ==
    IF Decodes(buffer, "blockquickResponse")
    THEN [kind |-> "Blockquick", Items |-> buffer.strs[3]]
    ELSE DecodeError

DeviceTicket(serverID, blockNumber, blockHash, fleetAddr, conns, bytes,
             localAddr, deviceSig, serverSig, err) ==
    [kind |-> "DeviceTicket", ServerID |-> serverID, BlockNumber |-> blockNumber,
     BlockHash |-> blockHash, FleetAddr |-> fleetAddr, TotalConnections |-> conns,
     TotalBytes |-> bytes, LocalAddr |-> localAddr, DeviceSig |-> deviceSig,
     ServerSig |-> serverSig, Err |-> err]

\* DeviceTicket{}: every field at its zero value
EmptyTicket ==
    DeviceTicket(CopyAddr(<<>>), 0, <<>>, CopyAddr(<<>>), 0, 0, <<>>, <<>>, <<>>, "nil")

TicketReply(pivot, shape) == [pivot |-> pivot, shape |-> shape]

\* a slip: too_old looked for before too_low
TicketRepliesOldFirst ==
    << TicketReply(ticketThanksPivot, "ticketThanksResponse"),
       TicketReply(ticketTooOldPivot, "ticketTooOldResponse"),
       TicketReply(ticketTooLowPivot, "ticketTooLowResponse") >>

\* the if / else-if chain of parseDeviceTicketResponse, top to bottom
TicketReplies ==
    << TicketReply(ticketThanksPivot, "ticketThanksResponse"),
       TicketReply(ticketTooLowPivot, "ticketTooLowResponse"),
       TicketReply(ticketTooOldPivot, "ticketTooOldResponse") >>

\* a slip: the two totals taken from each other's field
TooLowTicketSwapped(buffer) ==
    [EmptyTicket EXCEPT !.BlockHash = buffer.strs[4],
                        !.TotalConnections = buffer.nums[2],
                        !.TotalBytes = buffer.nums[1],
                        !.LocalAddr = buffer.strs[5],
                        !.DeviceSig = buffer.strs[6],
                        !.Err = "ErrTicketTooLow"]

\* a slip: the block hash read one item early
TooLowTicketOffByOne(buffer) ==
    [EmptyTicket EXCEPT !.BlockHash = buffer.strs[3],
                        !.TotalConnections = buffer.nums[1],
                        !.TotalBytes = buffer.nums[2],
                        !.LocalAddr = buffer.strs[5],
                        !.DeviceSig = buffer.strs[6],
                        !.Err = "ErrTicketTooLow"]

\* the ticket of a too_low reply: what the server holds, and the error
TooLowTicket(buffer) ==
    [EmptyTicket EXCEPT !.BlockHash = buffer.strs[4],
                        !.TotalConnections = buffer.nums[1],
                        !.TotalBytes = buffer.nums[2],
                        !.LocalAddr = buffer.strs[5],
                        !.DeviceSig = buffer.strs[6],
                        !.Err = "ErrTicketTooLow"]

(***************************************************************************)
(* The ticket reply is told apart by the first outcome marker of the chain *)
(* found anywhere in the buffer, and decoded as the reply of that marker.  *)
(***************************************************************************)
parseDeviceTicketResponse(buffer) ==
    LET hits  == {i \in DOMAIN TicketReplies :
                     BytesContains(buffer, TicketReplies[i].pivot)}
        reply == TicketReplies[Min(hits)]
    IN  CASE hits = {}                      -> Failure("ErrFailedToParseTicket")
          [] ~Decodes(buffer, reply.shape)  -> DecodeError
          [] reply.pivot = ticketThanksPivot -> EmptyTicket
          [] reply.pivot = ticketTooLowPivot -> TooLowTicket(buffer)
          [] reply.pivot = ticketTooOldPivot -> [EmptyTicket EXCEPT !.Err = "ErrTicketTooOld"]

parseDeviceObjectResponse(buffer) ==
    IF Decodes(buffer, "objectResponse")
    THEN DeviceTicket(CopyAddr(buffer.strs[3]), buffer.nums[1], <<>>,
                      CopyAddr(buffer.strs[4]), buffer.nums[2], buffer.nums[3],
                      buffer.strs[7], buffer.strs[5], buffer.strs[6], "nil")
    ELSE DecodeError

(***************************************************************************)
(* MerkleTree.parse is the proof verifier's; here it is its contract: a    *)
(* proof without leaves is invalid, any other yields root hash, module     *)
(* and leaves.                                                             *)
(***************************************************************************)
mtParse(rawTree) ==
    IF rawTree = <<>>
    THEN [err |-> "ErrInvalidProof"]
    ELSE [err |-> "nil", rootHash |-> Hash(rawTree), module |-> Len(rawTree),
          leaves |-> rawTree]

NewMerkleTree(rawTree) ==
    LET parsed == mtParse(rawTree)
    IN  IF parsed.err # "nil"
        THEN [err |-> parsed.err, RawTree |-> rawTree]
        ELSE [err |-> "nil", RawTree |-> rawTree, RootHash |-> parsed.rootHash,
              Module |-> parsed.module, Leaves |-> parsed.leaves]

parseAccountResponse(buffer) ==
    IF ~Decodes(buffer, "accountResponse") THEN DecodeError
    ELSE LET stateTree == NewMerkleTree(buffer.strs[5])
         IN  IF stateTree.err # "nil" THEN Failure(stateTree.err)
             ELSE [kind |-> "Account", StorageRoot |-> buffer.strs[3],
                   Nonce |-> buffer.nums[1], Code |-> buffer.strs[4],
                   Balance |-> buffer.nums[2], stateTree |-> stateTree]

parseAccountRootsResponse(buffer) ==
    IF Decodes(buffer, "accountRootsResponse")
    THEN [kind |-> "AccountRoots", AccountRoots |-> buffer.strs[3]]
    ELSE DecodeError

parseAccountValueResponse(buffer) ==
    IF ~Decodes(buffer, "accountValueResponse") THEN DecodeError
    ELSE LET accountTree == NewMerkleTree(buffer.strs[3])
         IN  IF accountTree.err # "nil" THEN Failure(accountTree.err)
             ELSE [kind |-> "AccountValue", accountTree |-> accountTree]

parsePortOpenResponseAlwaysOk(buffer) ==
    IF Decodes(buffer, "portOpenResponse")
    THEN [kind |-> "PortOpen", Ok |-> TRUE, Ref |-> buffer.nums[1]]
    ELSE DecodeError

parsePortOpenResponse(buffer) ==
    IF Decodes(buffer, "portOpenResponse")
    THEN [kind |-> "PortOpen", Ok |-> (buffer.strs[3] = okPivot), Ref |-> buffer.nums[1]]
    ELSE DecodeError

parseServerObjResponse(buffer) ==
    IF Decodes(buffer, "serverObjectResponse")
    THEN [kind |-> "ServerObj", Host |-> buffer.strs[3], EdgePort |-> buffer.nums[1],
          ServerPort |-> buffer.nums[2], Sig |-> buffer.strs[4]]
    ELSE DecodeError

parseStateRootsResponse(buffer) ==
    IF Decodes(buffer, "stateRootsResponse")
    THEN [kind |-> "StateRoots", StateRoots |-> buffer.strs[3]]
    ELSE DecodeError

-----------------------------------------------------------------------------
(* Inbound requests *)

parseInboundPortOpenRequest(buffer) ==
    IF Decodes(buffer, "portOpenInboundRequest")
    THEN [kind |-> "PortOpen", Port |-> buffer.nums[1], Ref |-> buffer.nums[2],
          RawDeviceID |-> buffer.strs[2], Ok |-> TRUE]
    ELSE DecodeError

parseInboundPortSendRequest(buffer) ==
    IF Decodes(buffer, "portSendInboundRequest")
    THEN [kind |-> "PortSend", Ref |-> buffer.nums[1], Data |-> buffer.strs[2], Ok |-> TRUE]
    ELSE DecodeError

\* a slip: the close is decoded into the struct of a frame
parseInboundPortCloseRequestAsFrame(buffer) == parseInboundPortSendRequest(buffer)

parseInboundPortCloseRequest(buffer) ==
    IF Decodes(buffer, "portCloseInboundRequest")
    THEN [kind |-> "PortClose", Ref |-> buffer.nums[1], Ok |-> TRUE]
    ELSE DecodeError

parseInboundGoodbyeRequest(buffer) ==
    IF Decodes(buffer, "goodbyeInboundRequest")
    THEN [kind |-> "Goodbye", Reason |-> buffer.strs[2]]
    ELSE DecodeError

\* a slip: the id is read from a field that is not there
ResponseIDZero(buffer) == 0

\* the decode error is dropped: bytes that are no rlp list leave the id 0
ResponseID(buffer) == IF buffer.shape = "json" THEN 0 ELSE buffer.id

-----------------------------------------------------------------------------
(* Outbound messages *)

(***************************************************************************)
(* The switch of NewMessage: for each method the struct it fills, the      *)
(* types it asserts of args[0], args[1], ... in that order, and the parse  *)
(* callback it hands back with the bytes.                                  *)
(***************************************************************************)
Request(shape, types, parser) == [shape |-> shape, types |-> types, parser |-> parser]

Requests ==
    [hello           |-> Request("helloRequest", <<"uint64">>, NoParser),
     portsend        |-> Request("portSendRequest", <<"uint64", "[]byte">>, NoParser),
     portclose       |-> Request("portCloseRequest", <<"uint64">>, NoParser),
     getblock        |-> Request("blockRequest", <<"uint64">>, "parseBlockResponse"),
     getblockpeak    |-> Request("blockPeakRequest", <<>>, "parseBlockPeakResponse"),
     getblockheader2 |-> Request("blockHeaderRequest", <<"uint64">>, "parseBlockHeaderResponse"),
     getblockquick2  |-> Request("blockquickRequest", <<"uint64", "uint64">>,
                                 "parseBlockquickResponse"),
     getaccount      |-> Request("accountRequest", <<"uint64", "[]byte">>, "parseAccountResponse"),
     getaccountroots |-> Request("accountRootsRequest", <<"uint64", "[]byte">>,
                                 "parseAccountRootsResponse"),
     getaccountvalue |-> Request("accountValueRequest", <<"uint64", "[]byte", "[]byte">>,
                                 "parseAccountValueResponse"),
     ticket          |-> Request("ticketRequest",
                                 <<"uint64", "[]byte", "uint64", "uint64", "[]byte", "[]byte">>,
                                 "parseDeviceTicketResponse"),
     portopen        |-> Request("portOpenRequest", <<"[]byte", "uint64", "string">>,
                                 "parsePortOpenResponse"),
     getobject       |-> Request("objectRequest", <<"[]byte">>, "parseDeviceObjectResponse"),
     getnode         |-> Request("serverObjectRequest", <<"[]byte">>, "parseServerObjResponse"),
     getstateroots   |-> Request("stateRootsRequest", <<"uint64">>, "parseStateRootsResponse")]

\* an argument of args ...interface{}: a value with its dynamic type
Arg(type, val) == [type |-> type, val |-> val]

(***************************************************************************)
(* args[i].(T): a run-time panic when args is too short or args[i] is of   *)
(* another type.  An argument is [type, val]; the struct is encoded with   *)
(* its byte strings and its integers each in the order of the call         *)
(* (rlp.EncodeToBytes has no error for such a struct).                     *)
(***************************************************************************)
Encoded(requestID, request, head, args, parser) ==
    LET types    == request.types
        asserted == /\ Len(args) >= Len(types)
                    /\ \A i \in DOMAIN types : args[i].type = types[i]
        Vals(as) == [i \in DOMAIN as |-> as[i].val]
        taken    == SubSeq(args, 1, Len(types))
    IN  IF ~asserted THEN [err |-> "panic", parser |-> NoParser]
        ELSE [err    |-> "nil",
              parser |-> parser,
              buffer |-> Buffer(requestID, request.shape,
                            <<head>> \o Vals(SelectSeq(taken, LAMBDA a : a.type # "uint64")),
                            Vals(SelectSeq(taken, LAMBDA a : a.type = "uint64")))]

NewMessageWrongCallback(requestID, method, args) ==
    IF method \in DOMAIN Requests
    THEN Encoded(requestID, Requests[method], MethodBytes[method], args,
                 IF method = "getaccountroots" THEN "parseAccountResponse"
                 ELSE Requests[method].parser)
    ELSE [err |-> "ErrRPCNotSupport", parser |-> NoParser]

(***************************************************************************)
(* args is the sequence of the arguments of the call.                      *)
(***************************************************************************)
NewMessage(requestID, method, args) ==
    IF method \in DOMAIN Requests
    THEN Encoded(requestID, Requests[method], MethodBytes[method], args,
                 Requests[method].parser)
    ELSE [err |-> "ErrRPCNotSupport", parser |-> NoParser]

(***************************************************************************)
(* Only the portopen answer is a response envelope: it carries the         *)
(* response type, the ref and the result, and no method name.  "portsend"  *)
(* and "portclose" are encoded as the requests of NewMessage, whatever     *)
(* responseType says.                                                      *)
(***************************************************************************)
NewResponseMessage(requestID, responseType, method, args) ==
    CASE method = "portopen" ->
            Encoded(requestID, Request("portOpenOutboundResponse", <<"uint64", "string">>, NoParser),
                    responseType, args, NoParser)
      [] method \in {"portsend", "portclose"} ->
            Encoded(requestID, Requests[method], MethodBytes[method], args, NoParser)
      [] OTHER -> [err |-> "ErrRPCNotSupport", parser |-> NoParser]

(***************************************************************************)
(* The error answer is JSON text, not an rlp envelope: one run of bytes    *)
(* that holds the error tag, the method and the message, and no request    *)
(* id a decoder could read (ResponseID yields 0).                          *)
(***************************************************************************)
NewErrorResponse(method, err) ==
    LET ret == errorPivot \o <<",">> \o method \o <<",">> \o err
    IN  [Len |-> Len(ret), Buffer |-> Buffer(0, "json", <<ret>>, <<>>)]

(***************************************************************************)
(* A call of a parse function through its name: the callback NewMessage    *)
(* returned, or the branch a dispatcher took.                              *)
(***************************************************************************)
CallParser(parser, buffer) ==
    CASE parser = "parseBlockResponse"        -> parseBlockResponse(buffer)
      [] parser = "parseBlockPeakResponse"    -> parseBlockPeakResponse(buffer)
      [] parser = "parseBlockHeaderResponse"  -> parseBlockHeaderResponse(buffer)
      [] parser = "parseBlockquickResponse"   -> parseBlockquickResponse(buffer)
      [] parser = "parseAccountResponse"      -> parseAccountResponse(buffer)
      [] parser = "parseAccountRootsResponse" -> parseAccountRootsResponse(buffer)
      [] parser = "parseAccountValueResponse" -> parseAccountValueResponse(buffer)
      [] parser = "parseDeviceTicketResponse" -> parseDeviceTicketResponse(buffer)
      [] parser = "parsePortOpenResponse"     -> parsePortOpenResponse(buffer)
      [] parser = "parseDeviceObjectResponse" -> parseDeviceObjectResponse(buffer)
      [] parser = "parseServerObjResponse"    -> parseServerObjResponse(buffer)
      [] parser = "parseStateRootsResponse"   -> parseStateRootsResponse(buffer)
      [] parser = "parseInboundPortOpenRequest"  -> parseInboundPortOpenRequest(buffer)
      [] parser = "parseInboundPortSendRequest"  -> parseInboundPortSendRequest(buffer)
      [] parser = "parseInboundPortCloseRequest" -> parseInboundPortCloseRequest(buffer)
      [] parser = "parseInboundGoodbyeRequest"   -> parseInboundGoodbyeRequest(buffer)

=============================================================================

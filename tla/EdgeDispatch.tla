----------------------------- MODULE EdgeDispatch -----------------------------
(***************************************************************************)
(* The method dispatcher of RLP_V2: an envelope is classified by the first *)
(* marker of a fixed list that occurs anywhere in its bytes, and decoded   *)
(* by the parse function listed with that marker.                          *)
(***************************************************************************)
EXTENDS EdgeCodec

Handler(pivot, parser) == [pivot |-> pivot, parser |-> parser]

\* the if / else-if chain of parseResponse, top to bottom
ResponseHandlers ==
    << Handler(portOpenPivot,     "parsePortOpenResponse"),
       Handler(blockPivot,        "parseBlockResponse"),
       Handler(block2Pivot,       "parseBlockResponse"),
       Handler(blockHeaderPivot,  "parseBlockHeaderResponse"),
       Handler(blockHeader2Pivot, "parseBlockHeaderResponse"),
       Handler(blockquickPivot,   "parseBlockquickResponse"),
       Handler(blockquick2Pivot,  "parseBlockquickResponse"),
       Handler(blockPeakPivot,    "parseBlockPeakResponse"),
       Handler(accountPivot,      "parseAccountResponse"),
       Handler(accountValuePivot, "parseAccountValueResponse"),
       Handler(accountRootsPivot, "parseAccountRootsResponse"),
       Handler(stateRootsPivot,   "parseStateRootsResponse"),
       Handler(objectPivot,       "parseDeviceObjectResponse"),
       Handler(nodePivot,         "parseServerObjResponse"),
       Handler(ticketPivot,       "parseDeviceTicketResponse") >>

InboundHandlersCloseFirst ==
    << Handler(portOpenPivot,  "parseInboundPortOpenRequest"),
       Handler(portClosePivot, "parseInboundPortCloseRequest"),
       Handler(portSendPivot,  "parseInboundPortSendRequest"),
       Handler(goodbyePivot,   "parseInboundGoodbyeRequest") >>

\* the chain of parseInboundRequest
InboundHandlers ==
    << Handler(portOpenPivot,  "parseInboundPortOpenRequest"),
       Handler(portSendPivot,  "parseInboundPortSendRequest"),
       Handler(portClosePivot, "parseInboundPortCloseRequest"),
       Handler(goodbyePivot,   "parseInboundGoodbyeRequest") >>

\* the branches of a chain whose marker the buffer contains
Matching(handlers, buffer) ==
    {i \in DOMAIN handlers : BytesContains(buffer, handlers[i].pivot)}

parseResponse(buffer) ==
    LET hits == Matching(ResponseHandlers, buffer)
    IN  IF hits = {}
        THEN Failure("ErrResponseHandlerNotFound")
        ELSE CallParser(ResponseHandlers[Min(hits)].parser, buffer)

\* without a marker the named results are returned as they are: (nil, nil)
parseInboundRequest(buffer) ==
    LET hits == Matching(InboundHandlers, buffer)
    IN  IF hits = {}
        THEN [kind |-> "nil"]
        ELSE CallParser(InboundHandlers[Min(hits)].parser, buffer)

IsErrorTypeOfResponse(rawData) == BytesContains(rawData, responsePivot)

IsResponseType(rawData) == BytesContains(rawData, responsePivot)

IsErrorType(rawData) == BytesContains(rawData, errorPivot)

=============================================================================

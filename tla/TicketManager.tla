---------------------------- MODULE TicketManager ----------------------------
(***************************************************************************)
(* The ticket manager of a device and the edge server it reports to.  The  *)
(* device counts its usage (connections, bytes), submits the totals as a   *)
(* ticket for the block it knows, and reads the reply with the callback    *)
(* NewMessage returned: thanks! voids the ticket and resets the counters,  *)
(* too_low brings the totals the server holds, too_old asks for a newer    *)
(* block, and anything else is no acceptance.  One ticket call is          *)
(* outstanding at a time; the ids of calls are the connection's business   *)
(* (EdgeConnection).                                                       *)
(*                                                                         *)
(* The request and the reading of the reply are the operators of           *)
(* EdgeCodec.  The loop around them and the server follow the protocol     *)
(* description: that code is outside this repository.                      *)
(***************************************************************************)
EXTENDS EdgeCodec

CONSTANTS
    MaxTotal,     \* the counters of the device stop at MaxTotal
    MaxBlock,     \* the chain stops at block MaxBlock
    MaxUnknown,   \* replies of an outcome the device does not know
    Hashes        \* the block hashes a too_low reply may carry

ASSUME /\ {MaxTotal, MaxBlock, MaxUnknown} \subseteq Nat
       /\ \A hash \in Hashes : hash \in Seq(STRING)

VARIABLES
    usage,      \* device: [conns, bytes], the totals counted
    block,      \* device: the newest block it knows
    ticket,     \* device: the ticket it holds
    callback,   \* device: the parser of the reply it waits for, or NoParser
    outcome,    \* device: what it made of the last reply
    request,    \* the ticket on its way to the server
    reply,      \* the reply on its way to the device
    peak,       \* the newest block of the chain
    paid,       \* server: [conns, bytes], the totals of the last ticket accepted
    decision,   \* server: what it said to the last ticket
    unknowns    \* server: replies of an unknown outcome sent so far

device == <<usage, block, ticket, callback, outcome>>
server == <<paid, decision, unknowns>>
vars   == <<device, request, reply, peak, server>>

Totals == [conns : 0..MaxTotal, bytes : 0..MaxTotal]
None   == [conns |-> 0, bytes |-> 0]

Bytes  == <<"a">>
CallID == 1

Init ==
    /\ usage = None
    /\ block = 1
    /\ ticket = EmptyTicket
    /\ callback = NoParser
    /\ outcome = "none"
    /\ request = <<>>
    /\ reply = <<>>
    /\ peak = 1
    /\ paid = None
    /\ decision = "none"
    /\ unknowns = 0

-----------------------------------------------------------------------------
(* The chain *)

NewBlock ==
    /\ peak < MaxBlock
    /\ peak' = peak + 1
    /\ UNCHANGED <<device, request, reply, server>>

-----------------------------------------------------------------------------
(* The device *)

Owing == usage # None

\* one more connection, or one more byte, through the server
Use ==
    /\ \E more \in Totals \ {None} :
          /\ more.conns + more.bytes = 1
          /\ usage.conns + more.conns <= MaxTotal
          /\ usage.bytes + more.bytes <= MaxTotal
          /\ usage' = [conns |-> usage.conns + more.conns,
                       bytes |-> usage.bytes + more.bytes]
    /\ UNCHANGED <<block, ticket, callback, outcome, request, reply, peak, server>>

LearnBlock ==
    /\ block < peak
    /\ block' = peak
    /\ UNCHANGED <<usage, ticket, callback, outcome, request, reply, peak, server>>

\* build_ticket and send: the totals counted, for the block known; after
\* too_old only for a newer block than the one refused
Submit ==
    LET message == NewMessage(CallID, "ticket",
                       <<Arg("uint64", block), Arg("[]byte", Bytes),
                         Arg("uint64", usage.conns), Arg("uint64", usage.bytes),
                         Arg("[]byte", Bytes), Arg("[]byte", Bytes)>>)
    IN  /\ Owing /\ callback = NoParser
        /\ outcome = "TooOld" => block > ticket.BlockNumber
        /\ message.err = "nil"
        /\ request' = <<message.buffer>>
        /\ callback' = message.parser
        /\ ticket' = [EmptyTicket EXCEPT !.BlockNumber = block,
                                         !.TotalConnections = usage.conns,
                                         !.TotalBytes = usage.bytes,
                                         !.LocalAddr = Bytes, !.DeviceSig = Bytes]
        /\ UNCHANGED <<usage, block, outcome, reply, peak, server>>

\* interpret_reply
Outcome(result) ==
    CASE result.kind # "DeviceTicket"   -> "TicketError"
      [] result.Err = "ErrTicketTooLow" -> "TooLow"
      [] result.Err = "ErrTicketTooOld" -> "TooOld"
      [] OTHER                          -> "Accepted"

AtLeast(a, b) == IF a >= b THEN a ELSE b

\* the reply is read by the registered callback and the ticket replaced
\* wholesale, or kept when the reply brings none
Interpret ==
    /\ reply # <<>>
    /\ LET result == CallParser(callback, Head(reply)) IN
          /\ outcome' = Outcome(result)
          /\ ticket' = IF outcome' \in {"Accepted", "TooLow"} THEN result ELSE ticket
          /\ usage' = CASE outcome' = "Accepted" -> None
                        [] outcome' = "TooLow" ->
                              [conns |-> AtLeast(usage.conns, result.TotalConnections),
                               bytes |-> AtLeast(usage.bytes, result.TotalBytes)]
                        [] OTHER -> usage
    /\ reply' = <<>>
    /\ callback' = NoParser
    /\ UNCHANGED <<block, request, peak, server>>

-----------------------------------------------------------------------------
(* The server *)

TicketResponse(shape, strs, nums) ==
    Buffer(Head(request).id, shape, <<responsePivot, MethodBytes.ticket>> \o strs, nums)

Answer(said, response) ==
    /\ request # <<>> /\ reply = <<>>
    /\ request' = <<>>
    /\ reply' = <<response>>
    /\ decision' = said

\* the ticket is too old for the chain, lower than the last one accepted,
\* or accepted
ServerDecides ==
    LET sent == [block |-> Head(request).nums[1], conns |-> Head(request).nums[2],
                 bytes |-> Head(request).nums[3]]
    IN  /\ request # <<>>
        /\ CASE sent.block < peak ->
                   /\ Answer("too_old", TicketResponse("ticketTooOldResponse",
                                            <<ticketTooOldPivot>>, <<peak>>))
                   /\ UNCHANGED paid
             [] sent.block >= peak
                /\ (sent.conns < paid.conns \/ sent.bytes < paid.bytes) ->
                   /\ \E hash \in Hashes :
                         Answer("too_low", TicketResponse("ticketTooLowResponse",
                                               <<ticketTooLowPivot, hash, Bytes, Bytes>>,
                                               <<paid.conns, paid.bytes>>))
                   /\ UNCHANGED paid
             [] OTHER ->
                   /\ Answer("thanks", TicketResponse("ticketThanksResponse",
                                           <<ticketThanksPivot>>, <<>>))
                   /\ paid' = [conns |-> sent.conns, bytes |-> sent.bytes]
        /\ UNCHANGED <<device, peak, unknowns>>

\* an outcome this client has no marker for
ServerConfuses ==
    /\ unknowns < MaxUnknown
    /\ unknowns' = unknowns + 1
    /\ Answer("unknown", TicketResponse("ticketLaterResponse", <<<<"later">>>>, <<>>))
    /\ UNCHANGED <<device, peak, paid>>

-----------------------------------------------------------------------------

Next ==
    \/ NewBlock
    \/ Use \/ LearnBlock \/ Submit \/ Interpret
    \/ ServerDecides \/ ServerConfuses

Spec == Init /\ [][Next]_vars

(***************************************************************************)
(* The device goes on while it owes a ticket: it learns of a newer block,  *)
(* submits and reads the reply.  The server answers what reaches it.       *)
(***************************************************************************)
Fairness ==
    /\ WF_vars(LearnBlock) /\ WF_vars(Submit) /\ WF_vars(Interpret)
    /\ WF_vars(ServerDecides)

FairSpec == Spec /\ Fairness

-----------------------------------------------------------------------------
(* Properties *)

Tickets ==
    [kind : {"DeviceTicket"}, ServerID : {CopyAddr(<<>>)}, BlockNumber : 0..MaxBlock,
     BlockHash : Hashes \cup {<<>>}, FleetAddr : {CopyAddr(<<>>)},
     TotalConnections : 0..MaxTotal, TotalBytes : 0..MaxTotal,
     LocalAddr : {<<>>, Bytes}, DeviceSig : {<<>>, Bytes}, ServerSig : {<<>>},
     Err : {"nil", "ErrTicketTooLow"}]

\* The state is well formed: the ticket held is one the device built or
\* one a reply brought, with the server's block hash and totals in their
\* fields, and at most one envelope is on its way.
TicketTypeOK ==
    /\ usage \in Totals /\ paid \in Totals
    /\ block \in 1..MaxBlock /\ peak \in block..MaxBlock
    /\ ticket \in Tickets
    /\ callback \in {NoParser, "parseDeviceTicketResponse"}
    /\ outcome \in {"none", "Accepted", "TooLow", "TooOld", "TicketError"}
    /\ decision \in {"none", "thanks", "too_low", "too_old", "unknown"}
    /\ Len(request) + Len(reply) <= 1
    /\ (callback = NoParser) <=> (request = <<>> /\ reply = <<>>)
    /\ unknowns \in 0..MaxUnknown

Meaning ==
    [thanks |-> "Accepted", too_low |-> "TooLow", too_old |-> "TooOld",
     unknown |-> "TicketError"]

\* What the device makes of a reply is what the server decided, whatever
\* bytes the reply carries after its marker (a block hash that spells
\* too_old included): parseDeviceTicketResponse finds the marker of the
\* outcome first.  After too_low the device counts at least the totals the
\* server holds, the ticket is void after thanks! and only then, and a
\* reply of no known outcome is never taken for acceptance.
OutcomeIsTheServers ==
    (callback = NoParser /\ decision # "none") =>
        /\ outcome = Meaning[decision]
        /\ outcome = "TooLow" => usage.conns >= paid.conns /\ usage.bytes >= paid.bytes
        /\ outcome = "Accepted" <=> ticket = EmptyTicket

\* Usage the device counted is acknowledged in the end: whatever the
\* server holds from before and however the chain moves on meanwhile, the
\* renegotiation over too_low (the totals of TooLowTicket resubmitted) and
\* too_old (a newer block) ends with thanks!.
RenegotiationEnds == Owing ~> ~Owing

=============================================================================

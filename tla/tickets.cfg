SPECIFICATION FairSpec
CONSTANTS
    MaxTotal = 2
    MaxBlock = 2
    MaxUnknown = 1
    Hashes <- MCHashes
    AddrLen = 2
    RejectedHeaders <- MCRejectedHeaders
INVARIANT TicketTypeOK
INVARIANT OutcomeIsTheServers
PROPERTY RenegotiationEnds

SPECIFICATION Spec
CONSTANTS
    Methods <- MCMethods
    Payloads <- MCTaggedPayloads
    MaxRequestID = 2
    MaxServerID = 2
    MaxRef = 1
    MaxInFlight = 2
    MaxAnswers = 1
    JsonErrors = FALSE
    UseCallback = TRUE
    AddrLen = 2
    RejectedHeaders <- MCRejectedHeaders
CHECK_DEADLOCK FALSE
INVARIANT CallsDecodeAsAsked

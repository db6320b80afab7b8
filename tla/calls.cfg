SPECIFICATION Spec
CONSTANTS
    Methods <- MCCallMethods
    Payloads <- MCPayloads
    MaxRequestID = 2
    MaxServerID = 1
    MaxRef = 1
    MaxInFlight = 2
    MaxAnswers = 2
    JsonErrors = FALSE
    UseCallback = TRUE
    AddrLen = 2
    RejectedHeaders <- MCRejectedHeaders
CHECK_DEADLOCK FALSE
INVARIANT TypeOK
INVARIANT CallsDecodeAsAsked
INVARIANT AnsweredCallsResolve
PROPERTY RpcSafety

SPECIFICATION Spec
CONSTANTS
    Methods <- MCTunnelMethods
    Payloads <- MCPayloads
    MaxRequestID = 2
    MaxServerID = 3
    MaxRef = 1
    MaxInFlight = 2
    MaxAnswers = 1
    JsonErrors = FALSE
    UseCallback = TRUE
    AddrLen = 2
    RejectedHeaders <- MCRejectedHeaders
CHECK_DEADLOCK FALSE
INVARIANT NoRequestIsDropped

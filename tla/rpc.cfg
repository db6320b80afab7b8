SPECIFICATION FairSpec
CONSTANTS
    Methods <- MCMethods
    Payloads <- MCPayloads
    MaxRequestID = 2
    MaxServerID = 1
    MaxRef = 1
    MaxInFlight = 2
    MaxAnswers = 1
    JsonErrors = FALSE
    UseCallback = TRUE
    AddrLen = 2
    RejectedHeaders <- MCRejectedHeaders
CHECK_DEADLOCK FALSE
PROPERTY RpcLiveness
PROPERTY SessionsConverge

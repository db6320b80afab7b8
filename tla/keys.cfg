SPECIFICATION Spec
CONSTANTS
    Base <- MCBase
    KeyLen <- MCKeyLen
    N <- MCN
    Blobs <- MCBlobs
    PubBlobs <- MCPubBlobs
INVARIANT KeyTypeOK
INVARIANT LoadedKeyIsReference
INVARIANT SameAddressSameKey

SPECIFICATION Spec
CONSTANTS
    Base <- MCBase
    KeyLen <- MCKeyLen
    N <- MCN
    Blobs <- MCBlobs
    PubBlobs <- MCPubBlobs
INVARIANT DerPublicKeysAreUncompressed

----------------------------- MODULE KeyHandling -----------------------------
(***************************************************************************)
(* The key handling of package crypto: the loaders of a secp256k1 private  *)
(* key (raw, DER, PEM, unsafe), the codec of public keys and the address   *)
(* of a public key, with a client that holds one identity and meets peers. *)
(*                                                                         *)
(* A byte is a number below Base and a scalar or coordinate has KeyLen     *)
(* bytes.  The group is the cyclic group of order N: the point of the      *)
(* scalar k has X = k and Y = N - k, so that a point is on the curve       *)
(* exactly when its coordinates add up to N.  Hashes keep their input.     *)
(***************************************************************************)
EXTENDS Naturals, Sequences, SequencesExt

CONSTANTS
    Base,       \* values of a byte (256 in the code)
    KeyLen,     \* bytes of the curve size (Params().BitSize / 8)
    N,          \* secp256k1N, the order of the group
    Blobs,      \* the key material a caller may hold
    PubBlobs    \* the public key bytes a peer may send

ASSUME Base > 4 /\ KeyLen \in Nat \ {0} /\ N \in 2..(Base ^ KeyLen - 1)

VARIABLES
    blob,       \* the buffer the key material was read into
    origin,     \* the loader last called and its argument
    priv,       \* what that loader returned
    pub,        \* the exported public key of priv, <<>> before the export
    addr,       \* the address of pub
    peer        \* the public key last received, its decoding and address

vars == <<blob, origin, priv, pub, addr, peer>>

Failure(err) == [kind |-> "Failure", err |-> err]
NilKey       == [kind |-> "nil"]
NoPoint      == [X |-> 0, Y |-> 0]

-----------------------------------------------------------------------------
(* math/big, crypto/elliptic, encoding/asn1 and the hash functions *)

SetBytes(d)  == FoldLeft(LAMBDA acc, b : acc * Base + b, 0, d)
FillBytes(x) == [i \in 1..KeyLen |-> (x \div Base ^ (KeyLen - i)) % Base]

\* nil coordinates for the point at infinity
ScalarBaseMult(d) ==
    LET k == SetBytes(d) % N IN IF k = 0 THEN NoPoint ELSE [X |-> k, Y |-> N - k]

IsOnCurve(x, y) == x \in 1..(N - 1) /\ y = N - x

Marshal(point) == <<4>> \o FillBytes(point.X) \o FillBytes(point.Y)

Unmarshal(data) ==
    LET x == SetBytes(SubSeq(data, 2, 1 + KeyLen))
        y == SetBytes(SubSeq(data, 2 + KeyLen, 1 + 2 * KeyLen))
    IN  IF Len(data) = 1 + 2 * KeyLen /\ data[1] = 4 /\ IsOnCurve(x, y)
        THEN [X |-> x, Y |-> y] ELSE NoPoint

Keccak256(data) == [keccak256 |-> data]

-----------------------------------------------------------------------------
(* crypto.go *)

ecPrivKeyVersion == 1

secp256k1N == N

errInvalidPubkey == "invalid secp256k1 public key"

\* the curve: the size of a coordinate in bits is all the loaders ask it
S256 == [BitSize |-> 8 * KeyLen]

\* a slip: the comparison with N is left out
toECDSANoUpperBound(d, strict) ==
    LET D == SetBytes(d) IN
    CASE strict /\ 8 * Len(d) # S256.BitSize -> Failure("invalid length")
      [] D = 0                         -> Failure("zero or negative")
      [] ScalarBaseMult(d) = NoPoint   -> Failure("invalid private key")
      [] OTHER -> [kind |-> "PrivateKey", D |-> D, PublicKey |-> ScalarBaseMult(d)]

toECDSA(d, strict) ==
    LET D == SetBytes(d) IN
    CASE strict /\ 8 * Len(d) # S256.BitSize -> Failure("invalid length")
      [] D >= secp256k1N               -> Failure(">=N")
      [] D = 0                         -> Failure("zero or negative")
      [] ScalarBaseMult(d) = NoPoint   -> Failure("invalid private key")
      [] OTHER -> [kind |-> "PrivateKey", D |-> D, PublicKey |-> ScalarBaseMult(d)]

ToECDSA(d) == toECDSA(d, TRUE)

ToECDSAUnsafe(d) ==
    LET key == toECDSA(d, FALSE) IN IF key.kind = "Failure" THEN NilKey ELSE key

DerToECDSA(derD) ==
    CASE ~derD.asn1                         -> Failure("x509: failed to parse")
      [] derD.Version # ecPrivKeyVersion    -> Failure("x509: unknown version")
      [] OTHER                              -> toECDSA(derD.PrivateKey, TRUE)

\* KeyInfo (key type and curve name) is decoded and never looked at
PemToECDSA(pem) ==
    IF pem.asn1 THEN DerToECDSA(pem.KeyData) ELSE Failure("asn1")

\* on an error the one zero byte of make([]byte, 1) goes back with it
DerToPublicKey(derPubKey) ==
    IF derPubKey.asn1 THEN [bytes |-> derPubKey.PublicKey, err |-> "nil"]
                      ELSE [bytes |-> <<0>>, err |-> "asn1"]

UnmarshalPubkey(pubBytes) ==
    IF Unmarshal(pubBytes) = NoPoint THEN Failure(errInvalidPubkey)
    ELSE [kind |-> "PublicKey", point |-> Unmarshal(pubBytes)]

FromECDSAPub(key) ==
    IF key = NilKey \/ key.point = NoPoint THEN <<>> ELSE Marshal(key.point)

Sha256(data) == [sha256 |-> data]
Sha3(data)   == Keccak256(data)

zeroBytes(bytes) == [i \in DOMAIN bytes |-> 0]

\* a slip: the whole hash, not its last 20 bytes
PubkeyToAddressWholeHash(pubkey) ==
    IF pubkey = <<>> THEN [kind |-> "Panic"] ELSE Keccak256(Tail(pubkey))

\* a slip: pubkey[:1] for pubkey[1:]
PubkeyToAddressOfPrefix(pubkey) ==
    IF pubkey = <<>> THEN [kind |-> "Panic"]
    ELSE [kind |-> "Address", from12 |-> Keccak256(SubSeq(pubkey, 1, 1))]

PubkeyToAddress(pubkey) ==
    IF pubkey = <<>> THEN [kind |-> "Panic"]
    ELSE [kind |-> "Address", from12 |-> Keccak256(Tail(pubkey))]

-----------------------------------------------------------------------------
(* A client with one identity *)

NoAddr == [kind |-> "nil"]
NoPeer == [from |-> "nobody"]

\* the DER and PEM documents that carry a blob as their private key
Ders(d) == [asn1 : BOOLEAN, Version : 0..2, PrivateKey : {d}]
Pems(d) == [asn1 : BOOLEAN, curve : {"secp256k1", "prime256v1"}, KeyData : Ders(d)]
PubDers == [asn1 : BOOLEAN, PublicKey : PubBlobs]

Init ==
    /\ blob = <<>>
    /\ origin = [loader |-> "none"]
    /\ priv = NilKey
    /\ pub = <<>>
    /\ addr = NoAddr
    /\ peer = NoPeer

Read(d) ==
    /\ blob' = d
    /\ UNCHANGED <<origin, priv, pub, addr, peer>>

Wipe ==
    /\ blob' = zeroBytes(blob)
    /\ UNCHANGED <<origin, priv, pub, addr, peer>>

Loaded(loader, arg, key) ==
    /\ origin' = [loader |-> loader, arg |-> arg]
    /\ priv' = key
    /\ pub' = <<>>
    /\ addr' = NoAddr
    /\ UNCHANGED <<blob, peer>>

LoadRaw    == Loaded("ToECDSA", blob, ToECDSA(blob))
LoadUnsafe == Loaded("ToECDSAUnsafe", blob, ToECDSAUnsafe(blob))
LoadDer    == \E der \in Ders(blob) : Loaded("DerToECDSA", der, DerToECDSA(der))
LoadPem    == \E pem \in Pems(blob) : Loaded("PemToECDSA", pem, PemToECDSA(pem))

Export ==
    /\ priv.kind = "PrivateKey"
    /\ pub' = FromECDSAPub([kind |-> "PublicKey", point |-> priv.PublicKey])
    /\ addr' = NoAddr
    /\ UNCHANGED <<blob, origin, priv, peer>>

\* of whatever was exported last, the nil of FromECDSAPub included
Address ==
    /\ addr' = PubkeyToAddress(pub)
    /\ UNCHANGED <<blob, origin, priv, pub, peer>>

Met(from, bytes, err) ==
    /\ peer' = [from |-> from, bytes |-> bytes, err |-> err,
                key |-> UnmarshalPubkey(bytes), addr |-> NoAddr]
    /\ UNCHANGED <<blob, origin, priv, pub, addr>>

Receive == \E bytes \in PubBlobs : Met("UnmarshalPubkey", bytes, "nil")

ReceiveDer ==
    \E der \in PubDers :
        LET got == DerToPublicKey(der) IN Met("DerToPublicKey", got.bytes, got.err)

\* the address of a peer is taken of the bytes it sent, whether they
\* decoded or not: PubkeyToAddress has no check of its own
PeerAddress ==
    /\ peer # NoPeer
    /\ peer' = [peer EXCEPT !.addr = PubkeyToAddress(peer.bytes)]
    /\ UNCHANGED <<blob, origin, priv, pub, addr>>

Next ==
    \/ \E d \in Blobs : Read(d)
    \/ Wipe
    \/ LoadRaw \/ LoadUnsafe \/ LoadDer \/ LoadPem
    \/ Export \/ Address
    \/ Receive \/ ReceiveDer \/ PeerAddress

Spec == Init /\ [][Next]_vars

-----------------------------------------------------------------------------
(* Properties *)

Bytes == Seq(0..(Base - 1))

IsAddress(a) == DOMAIN a = {"kind", "from12"} /\ a.kind = "Address"

KeyTypeOK ==
    /\ blob \in Bytes /\ pub \in Bytes
    /\ priv.kind \in {"nil", "Failure", "PrivateKey"}
    /\ \/ addr = NoAddr
       \/ IsAddress(addr) /\ pub # <<>>
       \/ addr = [kind |-> "Panic"] /\ pub = <<>>
    /\ \/ peer = NoPeer
       \/ /\ peer.bytes \in Bytes
          /\ \/ peer.addr = NoAddr
             \/ IsAddress(peer.addr) /\ peer.bytes # <<>>
             \/ peer.addr = [kind |-> "Panic"] /\ peer.bytes = <<>>

StripZeros(d) == SubSeq(d, Min({i \in DOMAIN d : d[i] # 0} \cup {Len(d) + 1}), Len(d))

\* the document around the key material is one the loader accepts
WellFormed(loader, arg) ==
    CASE loader = "DerToECDSA" -> arg.asn1 /\ arg.Version = 1
      [] loader = "PemToECDSA" -> arg.asn1 /\ arg.KeyData.asn1 /\ arg.KeyData.Version = 1
      [] OTHER -> TRUE

Material(loader, arg) ==
    CASE loader = "DerToECDSA" -> arg.PrivateKey
      [] loader = "PemToECDSA" -> arg.KeyData.PrivateKey
      [] OTHER -> arg

\* the scalars of the group a loader may read out of its argument: the one
\* whose KeyLen bytes are the material, or for ToECDSAUnsafe the one that
\* differs from it in leading zeros only
Scalars(loader, arg) ==
    LET d == Material(loader, arg) IN
    {k \in 1..(N - 1) :
        /\ WellFormed(loader, arg)
        /\ IF loader = "ToECDSAUnsafe" THEN StripZeros(d) = StripZeros(FillBytes(k))
                                       ELSE d = FillBytes(k)}

\* Whatever the loader (ToECDSA, ToECDSAUnsafe, DerToECDSA, PemToECDSA) and
\* whatever is done to the buffer afterwards (zeroBytes), the key held is
\* the key of the scalar the material denotes, with the public point of
\* that scalar, and no key is held when the material denotes none: the
\* checks of toECDSA let through exactly the scalars 1..N-1.
LoadedKeyIsReference ==
    origin.loader # "none" =>
        IF Scalars(origin.loader, origin.arg) = {} THEN priv.kind # "PrivateKey"
        ELSE /\ priv.kind = "PrivateKey"
             /\ priv.D \in Scalars(origin.loader, origin.arg)
             /\ priv.PublicKey = [X |-> priv.D, Y |-> N - priv.D]

\* A peer whose address (PubkeyToAddress of the bytes it sent, raw or out
\* of DerToPublicKey) equals the address of the client's exported key sent
\* the client's key bytes after the format byte, which PubkeyToAddress
\* cuts off unread; if UnmarshalPubkey accepted them, the peer has the
\* client's public key.  An equal address alone does not say the bytes
\* are a key.
SameAddressSameKey ==
    (IsAddress(addr) /\ peer # NoPeer /\ peer.addr = addr) =>
        /\ Tail(peer.bytes) = Tail(pub)
        /\ peer.key.kind = "PublicKey" => peer.key.point = priv.PublicKey

IsCompressed(bytes) ==
    /\ Len(bytes) = 1 + KeyLen /\ bytes[1] \in {2, 3}
    /\ SetBytes(Tail(bytes)) \in 1..(N - 1)

\* The comment of DerToPublicKey: it "returns uncompressed ecdsa public key
\* bytes".  Of a DER document that holds a public key of the curve, in
\* either form, it returns bytes UnmarshalPubkey accepts.
DerPublicKeysAreUncompressed ==
    (/\ peer # NoPeer /\ peer.from = "DerToPublicKey" /\ peer.err = "nil"
     /\ (IsCompressed(peer.bytes) \/ Unmarshal(peer.bytes) # NoPoint))
        => peer.key.kind = "PublicKey"

=============================================================================

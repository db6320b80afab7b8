# TLA+ models of the Diode edge protocol client

This directory holds the TLA+ specifications of the client side of the Diode
edge protocol (`RLP_V2` in `src/unnamed/part_001`) and of the packages beside
it (hex helpers, key handling, fleet contract storage keys), the TLC configurations that check them, and `PROJECT.json`, the machine-readable index of components, runs,
mutants, the definition-to-source map, findings and hazards.

## 1. The system

| Part | Where | State | Operations |
|---|---|---|---|
| Binary codec | `part_001` 88-410, 433-671 | none (pure) | `NewMessage`, `NewResponseMessage`, `NewErrorResponse`, `ResponseID`, `parseError`, twelve `parse*Response`, four `parseInbound*Request`, `NewMerkleTree` |
| Method dispatcher | `part_001` 16-86, 412-431 | the pivot table (constant) | `parseResponse`, `parseInboundRequest`, `IsResponseType`, `IsErrorType` |
| Response correlator | protocol description 4.6 | request id counter, table id -> parse callback | register on send, resolve on response or error |
| Tunnel session engine | protocol description 4.5 | table ref -> Open / Closed, frames surfaced per ref | open, send, close, handling of inbound portopen / portsend / portclose / goodbye |
| Ticket manager | `part_001` 179-221, 572-586; protocol description 4.4 | the usage counters, the block known, the current ticket | the ticket request and the reply interpreter (in the source), count / submit / interpret (outside) |
| Merkle proof verifier | `part_001` 442-455 | none | `NewMerkleTree` (in the source), `MerkleTree.parse` (outside) |
| Interfaces | `src/edge/interface.go` | none | the method sets `EdgeProtocol` and `MerkleTreeParser` |
| Hex utilities | `src/unnamed/part_000` | none | `IsHex`, `IsHexNumber`, `EncodeToString`, `DecodeString`, `DecodeStringToInt`, `Decode`, `BertHash`, `RLPHash` |
| Key handling | `src/crypto/crypto.go` | none (the caller holds the key) | `PemToECDSA`, `DerToECDSA`, `ToECDSA`, `ToECDSAUnsafe`, `toECDSA`, `DerToPublicKey`, `UnmarshalPubkey`, `FromECDSAPub`, `PubkeyToAddress`, `zeroBytes`, hashes |
| Fleet storage keys | `src/contract/fleet.go` | none (the contract holds the lists) | the eight storage positions, `DeviceWhitelistKey`, `AccessWhitelistKey` |

How they interact. A caller asks `NewMessage` for the bytes of a request and the
parse callback of its response; the correlator registers the callback under the
request id. Everything the server sends arrives on one stream. For each
envelope the receive path asks `IsResponseType`, then `IsErrorType`; a response
or error is matched to a registered call through `ResponseID` and decoded by the
callback (or by `parseError`); anything else goes to `parseInboundRequest`,
whose result drives the tunnel table. The client answers an inbound portopen
with `NewResponseMessage`.

What makes it hard:

* classification is a **substring search over the raw bytes**: the markers
  are nested in one another (`getblock` in `getblockpeak`, `getaccount` in
  `getaccountroots`), the chains are ordered, and tunnel data is arbitrary
  bytes that share the stream with responses;
* calls are answered in any order and matched by id, while the server's own
  requests carry ids of the server's choosing;
* a tunnel is opened by either side and closed by either side, with frames and
  closes of both directions in flight at the same time;
* several parsers drop an error (`parseError`, `ResponseID`,
  `findItemInItems`) or return nothing at all (`parseInboundRequest`);
* the helpers around the protocol are full of boundaries: a scalar must lie
  in 1..N-1 whatever its encoding, a slice is taken before its length is
  known, an `int64` is taken of a number of any size, and two mappings of a
  contract must never share a storage slot.

## 2. Modules

| Module | Models | Source |
|---|---|---|
| `EdgePivots` | the 25 pivots, the method names, the envelope, `bytes.Contains`, rlp decoding | `part_001` 16-48 |
| `EdgeCodec` | every encoder and parser of `RLP_V2` as an operator | `part_001` 88-410, 433-671; `part_000` 47-51 |
| `EdgeDispatch` | `parseResponse`, `parseInboundRequest`, `IsResponseType`, `IsErrorType` | `part_001` 53-86, 412-431 |
| `EdgeConnection` | one connection: correlator, tunnel engine, receive path, and the server as environment | protocol description 4.5, 4.6, 5 around the operators above |
| `EdgeRpc` | what the correlator promises: a request / response service in which a call returns once, with the record of its method, an error or a failure | protocol description 4.6 |
| `TicketManager` | the device's ticket loop (count, submit, interpret) over `NewMessage` and `parseDeviceTicketResponse`, the chain, and the server that accepts or refuses tickets | protocol description 4.4 around `part_001` 179-221, 572-586 |
| `MCEdgeConnection` | the method and payload sets of the configurations | - |
| `KeyHandling` | every function of `crypto.go` as an operator, and a client that reads key material, loads it, exports its public key, takes addresses and meets peers | `crypto.go` 16-179 |
| `FleetStorage` | the storage positions and the two whitelist keys, the contract's two mappings and a client that looks addresses up | `fleet.go` 11-40 |
| `HexUtil` | the six hex helpers, and a client that reads a text, decodes it and shows bytes again | `part_000` 16-90 |
| `MCKeyHandling`, `MCFleetStorage`, `MCHexUtil`, `MCTicketManager` | the constants of the configurations | - |

`EdgeConnection` extends `EdgeDispatch`, which extends `EdgeCodec`, which
extends `EdgePivots`. `EdgeConnection` instantiates `EdgeRpc` with the
refinement mapping `waiting <- id -> calls[id].method`,
`returned <- id -> [method, kind of the result]`. `TicketManager` extends
`EdgeCodec`: it has one call outstanding at a time and leaves the ids of
calls to `EdgeConnection`.

### The data abstraction

* **Byte strings are sequences of chunks.** A chunk is a run of bytes that no
  pivot splits (`"get"`, `"block"`, `"peak"`, `"2"`, ...). `getblockpeak` is
  `<<"get","block","peak">>` and `getblock` is `<<"get","block">>`, so one
  pivot is a contiguous subsequence of another exactly when its bytes are a
  substring of the other's. `BytesContains(buffer, pivot)` is "pivot is a
  contiguous subsequence of one of the byte strings of the envelope"
  (`SubSeqs` of `SequencesExt`).
* **An envelope** is `[id, shape, strs, nums]`: the request id, the Go struct
  the sender encoded, and the byte strings and integers of the payload in
  wire order. The method name and the `response` / `error` tag are byte
  strings of the payload like any other, which is exactly why data can be
  mistaken for them.
* **Decoding** into a struct succeeds on the bytes of that struct and yields
  `DecodeError` on the bytes of any other (an rlp error or a record of
  misread fields). The shape `json` is text that is no rlp at all, what
  `NewErrorResponse` writes: `ResponseID` reads the id 0 from it and
  `parseError` an empty payload, as both drop the decode error.
* **Arguments** of `NewMessage` and `NewResponseMessage` are values with
  their dynamic type (`Arg`); a type assertion on a missing argument or on
  one of another type is the panic result of `Encoded`. The callers of the
  model pass what the method takes.
* **Results** are records with a `kind`; Go's `(nil, err)` is
  `Failure(err)` or `DecodeError`, a run-time panic is `[kind |-> "Panic"]`.
* The hash is an injective function that is never the identity; a `[20]byte`
  is `AddrLen` chunks, and `copy` into it cuts or zero-pads.

### The data abstraction of the helper packages

* **Keys** (`KeyHandling`). A byte is a number below `Base`, a scalar or a
  coordinate has `KeyLen` bytes, and the curve is the cyclic group of order
  `N`: the point of the scalar `k` has `X = k`, `Y = N - k`, and a point is on
  the curve exactly when its coordinates add up to `N`. This keeps what the
  code depends on (`ScalarBaseMult` reduces modulo `N` and gives no point for
  a multiple of `N`; `Unmarshal` accepts only the uncompressed form of a point
  of the curve) and nothing of the arithmetic. ASN.1 decoding is a flag of the
  document (`asn1`), with the fields the code reads. A hash keeps its input,
  so two hashes are equal exactly when their inputs are; an address is the
  tail of the Keccak hash of the key without its first byte.
* **Storage keys** (`FleetStorage`). A storage word has `WordLen` bytes; an
  account is the number its address bytes denote. The contract's storage is
  the set of slots `Keccak256(Word(account) \o Word(position))` of the
  accounts on its two lists. `util.IntToBytes` and `util.PaddingBytesPrefix`
  are outside the repository and modelled by their names; addresses longer
  than a word are left out because nothing says what the padding does to them.
* **Texts** (`HexUtil`). A text is a sequence of one-character strings, a
  byte a number below 256, an `int64` an integer of `IntBits` bits in two's
  complement. `encoding/hex` accepts digits of either case and an even
  number of them; the destination of `Decode` is taken to be large enough.
  The source of `Decode` is a slice: a text shorter than the prefix comes
  with the characters its array holds past its end (`Spares`, none to two
  of them), which `src[0:2]` reads when there are enough and panics on
  when there are not.

The clients of `KeyHandling`, `FleetStorage` and `HexUtil` are not in the
repository: they call the operators on every input of the configuration and
keep the result with its argument, which is what the properties compare
against a reference definition. They are marked `spec_modelled`.

### Correspondence of `EdgeConnection` with the code

| Variable | Stands for |
|---|---|
| `nextID`, `calls` | the correlator's id counter and its table id -> [method, parser] |
| `outcome` | what each call returned to its caller |
| `up` | the connection is up; teardown clears it |
| `ports`, `delivered` | the tunnel table and the frames surfaced per ref |
| `reported` | what the receive path returned for the envelopes that changed nothing: the errors, and `"nil"` for neither a request nor an error |
| `outbox`, `inbox` | the two directions of the stream, FIFO |
| `srvPorts`, `srvSent`, `srvNextID`, `srvUp` | the server: its refs, the frames it sent per ref, the id counter of its own requests, whether it has said goodbye |

| Action | Operation |
|---|---|
| `Call(method)` | `NewMessage`, register the callback, write |
| `Send(ref, data)`, `Close(ref)` | `NewMessage("portsend" / "portclose")`, guarded by the ref being Open |
| `ReceiveResponse`, `ReceiveError` | `IsResponseType` / `IsErrorType`, `ResponseID`, the callback or `parseError`, deregistration; a successful portopen opens its ref |
| `ReceivePortOpen` | `parseInboundRequest` gave a PortOpen: accept or refuse, answer with `NewResponseMessage` |
| `ReceivePortSend`, `ReceivePortClose`, `ReceiveGoodbye` | the request is applied to the tunnel table |
| `ReceiveRejected` | a frame or close for a ref that is not Open, or a decode error: reported |
| `ReceiveNothing` | `parseInboundRequest` returned `(nil, nil)`: the envelope is consumed and `"nil"` is what the caller of the receive path got |
| `Disconnect` | teardown: every pending call fails with the connection-closed error, every ref is forced to Closed, nothing is sent or handled afterwards |
| `ServerAnswers` | the server answers a call with a response of the method or an error; a server that repeats itself gives up to `MaxAnswers` answers, not necessarily the same |
| other `Server*` | the rest of the environment: grants, frames, closes, requests of its own, goodbye |

The receive path and the tables are not in this repository. They are written
from the protocol description and marked `spec_modelled` in the map; every
decision they take is delegated to an operator translated from the source.

### Correspondence of `TicketManager` with the code

| Variable | Stands for |
|---|---|
| `usage` | the device's counters `TotalConnections`, `TotalBytes` |
| `block`, `peak` | the newest block the device knows, and the newest of the chain |
| `ticket` | the `DeviceTicket` the device holds: the one it built, or the one the last reply brought |
| `callback` | the parser `NewMessage` returned for the ticket on its way, `NoParser` when none is |
| `outcome` | what the device made of the last reply: Accepted, TooLow, TooOld, TicketError |
| `request`, `reply` | the ticket request and its reply in the stream |
| `paid`, `decision`, `unknowns` | the server: the totals of the last ticket it accepted, what it said last, and how often it answered with an outcome the client has no marker for |

| Action | Operation |
|---|---|
| `Use` | one more connection or one more byte counted |
| `NewBlock`, `LearnBlock` | the chain grows; the device learns its newest block |
| `Submit` | `NewMessage(id, "ticket", block, fleet, connections, bytes, address, signature)` for the totals counted and the block known, the callback kept; after too_old only for a newer block |
| `Interpret` | the callback (`parseDeviceTicketResponse`) on the reply: after thanks! the ticket is void and the counters are reset, after too_low the ticket is the server's and the counters are raised to its totals, after too_old and after an error everything is kept |
| `ServerDecides` | too_old for a block behind the chain, too_low with the totals held when the ticket is below them in either counter, thanks! otherwise |
| `ServerConfuses` | a reply whose outcome the client has no marker for |

`TooLowTicket` and `TicketReplies` are the field assignments and the
if / else-if chain of `parseDeviceTicketResponse`; the loop around them and
the server are written from the protocol description.

## 3. Runs

`calls`, `rpc`, `tunnels`, `dispatch_by_marker`, `tagged_data`,
`unknown_request` and `json_error` check `MCEdgeConnection`, `tickets` checks
`MCTicketManager`, `keys` and `compressed_der` check `MCKeyHandling`, `fleet`
checks `MCFleetStorage` and `hex` checks `MCHexUtil`.

| Run | Expect | Properties | Shows |
|---|---|---|---|
| `calls` | pass | `TypeOK`, `CallsDecodeAsAsked`, `AnsweredCallsResolve`, `RpcSafety` | with the registered callbacks, two concurrent calls of any of the twelve methods resolve to the record of their own method, whatever the answer order and although the server may answer a call twice; none is left pending, and the connection implements `EdgeRpc` step by step, teardown included |
| `rpc` | pass | `RpcLiveness`, `SessionsConverge` | under the fairness of section 5 every call returns, and a tunnel the server has closed does not stay Open at the client |
| `tunnels` | pass | `TunnelBytesIntact`, `OpenSessionsAgree` | tunnels on two refs opened from both sides, with data that spells `portclose` and `goodbye`: frames are complete and in order, both ends agree on the Open refs |
| `dispatch_by_marker` | violation | `CallsDecodeAsAsked` | `parseResponse` cannot replace the callbacks: the first genuine response of a method whose name contains `getblock` is decoded as a block |
| `tagged_data` | violation | `CallsDecodeAsAsked` | a frame whose data holds `response` resolves a pending call |
| `unknown_request` | violation | `NoRequestIsDropped` | a request of the server that names no inbound method is consumed and the receive path returns neither a request nor an error |
| `json_error` | violation | `AnsweredCallsResolve` | a server that builds its errors with `NewErrorResponse`: the text has no request id and is no rlp, and the call it answers stays pending |
| `tickets` | pass | `TicketTypeOK`, `OutcomeIsTheServers`, `RenegotiationEnds` | the device reads the outcome the server decided, block hashes that spell `too_old` included; it never takes a refusal or an unknown reply for acceptance; under the fairness of section 5 usage counted is acknowledged in the end |
| `keys` | pass | `KeyTypeOK`, `LoadedKeyIsReference`, `SameAddressSameKey` | through all four loaders and with the buffer wiped at any time, a key is held exactly for material that denotes a scalar in 1..N-1, and it is that scalar's key; a peer with the client's address sent the client's key bytes after the format byte, and has the client's key if its bytes decoded |
| `compressed_der` | violation | `DerPublicKeysAreUncompressed` | `DerToPublicKey` hands a compressed key on as it is |
| `fleet` | pass | `WhitelistKeysFindTheirEntries` | a whitelist key finds a value in the contract's storage exactly when the account is on the list asked about |
| `hex` | pass | `ShownTextReadsBack`, `DecodersAcceptNumerals`, `IntIsTheNumber` | the decoders accept exactly the numerals of an even number of digits and panic on no text of two characters or more; what `EncodeToString` writes reads back; the int is the number up to the largest `int64` |

The passing runs state the assumption under which the client is correct:
tunnel data holds none of `response`, `error`, `portopen`, and the bytes of a
ticket reply do not hold `thanks!`. `dispatch_by_marker` removes the callback
and `tagged_data` the assumption on `response`; `json_error` replaces the
server's rlp error envelope by the one `NewErrorResponse` writes, a what-if
about a peer built with this library, as the repository holds no server. Data that holds `portopen` is
lost in the same way (the frame is decoded as a portopen request and fails);
the mutant of `TunnelBytesIntact`, which moves `portclose` before `portsend`
in the chain, shows that loss on the data the `tunnels` run does send.

### Properties

* `CallsDecodeAsAsked`: a call resolves to the record of the method called,
  to the server's error, or to a failed check, never to a decode error or
  another method's record.
* `AnsweredCallsResolve`: with both queues empty no call is pending.
* `RpcSafety`: every step of the connection is a step of `EdgeRpc` or leaves
  the calls alone: an id serves one call, a call returns once and its result
  never changes, teardown returns all pending calls at once. A second
  answer to a call finds no registration and is reported
  (`ErrResponseHandlerNotFound`).
* `RpcLiveness`: a pending call eventually returns.
* `SessionsConverge`: a ref that is Closed at the server is later not Open
  at the client: the portclose or the goodbye arrives
  behind whatever was queued before it and is read as what it is, the
  client's own close needs no answer, and after a goodbye teardown closes the
  rest.
* `TunnelBytesIntact`: the frames surfaced on a ref are a prefix of the frames
  the server sent on it, and all of them when the ref is Open and no frame of
  it is in the stream.
* `OpenSessionsAgree`: a ref Open at the client is Open at the server, unless
  the client's portopen answer, or the server's portclose or goodbye, is still
  in flight.

* `NoRequestIsDropped`: for every envelope taken off the stream the caller of
  the receive path gets a request, a result or an error.
* `TicketTypeOK`: the type invariant of `TicketManager`. The ticket held is
  one the device built or one a reply brought, with the block hash of the
  reply in `BlockHash` and the totals within the counters' range, and a
  callback is kept exactly while a request or its reply is in the stream.
* `OutcomeIsTheServers`: what the device made of the last reply is what the
  server decided (thanks! Accepted, too_low TooLow, too_old TooOld, anything
  else an error); after TooLow its counters are at least the server's totals;
  the ticket is void after Accepted and only then.
* `RenegotiationEnds`: whenever the device owes a ticket, it later owes
  none: the exchange of too_low and too_old replies ends with thanks!.

* `LoadedKeyIsReference`: the key a loader left behind is the key of the
  scalar its argument denotes (for `ToECDSAUnsafe`, up to leading zeros),
  with that scalar's public point, and no key is held when the argument
  denotes none: an empty or short blob, zero, `N`, anything above `N`, a
  document that does not parse or has another version. The reference is the
  set of scalars whose `KeyLen` bytes are the material, written without the
  loaders.
* `SameAddressSameKey`: when the address taken of a peer's bytes, decoded
  or not, equals the address of the client's exported key, the peer sent the
  client's key bytes after the format byte, and its key, if
  `UnmarshalPubkey` accepted the bytes, is the client's public key.
  `PubkeyToAddress` cuts the format byte off unread, so the address alone
  does not say that the bytes are a key.
* `WhitelistKeysFindTheirEntries`: the answer of a lookup agrees with the
  list in the state that was read, for addresses written with and without
  leading zeros and for accounts whose numbers are the storage positions 6
  and 7 themselves, so that a key with its two words exchanged would hit the
  other list.
* `DecodersAcceptNumerals`: `DecodeString` and `Decode` against a reference
  that computes the number of a numeral digit by digit: bytes exactly for
  numerals of an even length (after the prefix; `Decode` does not know the
  upper-case one), an error for every other text of two characters or more.
  On the shorter ones `DecodeString` panics; `Decode` panics, returns an
  error or, for the empty text, no bytes, by what lies behind the text in
  its array.
* `ShownTextReadsBack`: text written by `EncodeToString` is recognised by
  `IsHex` and decoded by both decoders to the bytes it was written from.
* `IntIsTheNumber`: `DecodeStringToInt` returns the number the text denotes
  whenever that number is below 2^(IntBits-1). From there on the result is
  another number and no error is returned: the property marks the boundary,
  it does not hide the overflow.
* `KeyTypeOK`: the type invariant of `KeyHandling`; an address is always the
  tail of a hash, a key a key, a failure or nil.

Each property of a passing run has a mutant in `PROJECT.json`: a definition
translated from the source is replaced by a plausible slip (the wrong callback
in one case of `NewMessage`, `IsErrorType` searching the response tag,
`ResponseID` returning zero, `too_old` looked for before `too_low`, the
block hash of a too_low reply read one item early, its two totals exchanged,
`portclose` tested before `portsend`, a portclose decoded into the struct
of a frame, `Ok` always true,
`toECDSA` without the comparison with N, `PubkeyToAddress` of `pubkey[:1]` or
without the cut of the hash, the storage position hashed before the address,
`EncodeToString` without the prefix, `DecodeString` without `ToLower`,
`DecodeStringToInt` taking the int before the bytes are set)
and TLC finds the property violated.

### Findings

1. `part_001:56` - the chain of `parseResponse` is ordered so that `getblock`
   and `getaccount` shadow every longer method name that contains them; the
   branches for `getblock2`, `getblockheader(2)`, `getblockquick(2)`,
   `getblockpeak`, `getaccountvalue` and `getaccountroots` are unreachable, and
   the ticket branch searches `getticket` while the method is `ticket`.
2. `part_001:426` - `IsResponseType` searches the whole envelope, so tunnel
   data can be taken for a response and resolve a pending call.
3. `part_001:422` - `parseInboundRequest` ends with a bare `return`: an
   envelope that names none of the four inbound methods yields `(nil, nil)`.
   The protocol description has the dispatcher report
   `ErrResponseHandlerNotFound` when no marker matches, "never silently
   dropped", and `parseResponse` does so at line 78.
4. `part_001:458` - `NewErrorResponse` takes no request id and writes the
   JSON text `["error", method, message]`. `IsErrorType` recognises it,
   `ResponseID` cannot decode it, drops the decode error and returns 0: the
   correlator reports `ErrResponseHandlerNotFound` and the call that was
   answered stays pending. For a call pending under id 0 `parseError` would
   decode nothing and index `Payload[-1]`. The protocol description asks
   `decode(encode(record)) == record` of every defined shape.
5. `crypto.go:107` - `DerToPublicKey` is documented to return uncompressed
   public key bytes and has a comment `// uncompress` where nothing is done:
   a compressed key comes back compressed and `UnmarshalPubkey` rejects it.

Seen while modelling and not held against the code by a run: `PemToECDSA`
decodes the key type and the curve name and never looks at them, so the scalar
of a key of another curve loads as a secp256k1 key. The TODO at `crypto.go:65`
says as much; the hazard is listed in `PROJECT.json`. `EdgeProtocol`
(`interface.go:11`) is commented as the functions required of the edge
protocol; `RLP_V2` has six of its twenty-four methods with the interface's
type, so no `RLP_V2` can be assigned to an `EdgeProtocol`. The compiler
says so at the first assignment, and the repository has none.

## 4. Bounds

| Constant | `calls` | `tunnels` | Why it is enough |
|---|---|---|---|
| `Methods` | the 12 methods with a callback (`rpc`: four of them) | `portopen` | every callback of `NewMessage` is exercised; `rpc` keeps a header, a nested name, the ticket and a tunnel |
| `RejectedHeaders` | one header | one header | the failure branch of `NewHeader` is taken |
| `Payloads` | as `tunnels` | `x`, `portclose`, `goodbye` | plain data and the two markers that come after `portsend` in the chain |
| `MaxRequestID` | 2 | 2 | two calls pending at once (answers in either order); a portopen followed by a send or a close |
| `MaxServerID` | 1 | 3 | a server portopen, a frame and a close, or three frames on a client-opened ref |
| `MaxRef` | 1 | 2 | two tunnels at once, one opened by each side |
| `MaxInFlight` | 2 | 2 | two envelopes queued per direction: a frame behind a close, a response behind a frame |
| `JsonErrors` | FALSE (`json_error`: TRUE) | FALSE | the server's errors are rlp envelopes under the id of the request; `json_error` is `calls` with the errors `NewErrorResponse` builds |
| `MaxAnswers` | 2 (`rpc`: 1) | 1 | a second answer to a call that has returned, with the same or another content; the liveness run keeps to one answer for its size |
| `AddrLen` | 2 | 2 | an address longer and one shorter than the array exist |

| Constant | Value | Why it is enough |
|---|---|---|
| `Base`, `KeyLen`, `N` (`keys`) | 5, 2, 23 | scalars of two bytes reach 24: N - 1, N and N + 1 are all encodable, and so is a value above N whose point exists |
| `Blobs` | nine blobs | empty, too short, zero, one, N - 1, N, N + 1, and two of three bytes (the scalar 1 behind a leading zero, and a number above N): every check of `toECDSA` fails once alone, and the non-strict path differs from the strict one |
| `PubBlobs` | seven | two keys of the curve, a compressed key, bytes of full length under the format byte of a compressed key, a point off the curve, a cut key, nothing |
| `WordLen`, `Accounts`, `Lookups` (`fleet`) | 3; 0, 6, 7, 256; seven addresses | the two accounts whose numbers are the positions of the lists, account 0 for the empty address, an account of two significant bytes; every account written with none, one and two leading zeros |
| `Chars`, `MaxLen`, `IntBits` (`hex`) | `0 x X 7 8 f F`, 6, 8 | the prefix in both cases, a digit in both cases, `7f` and `80` around the largest int, `x` as the character that is no digit; six characters hold the prefix and two bytes, so a leading zero byte and an odd number of digits occur |

| Constant (`tickets`) | Value | Why it is enough |
|---|---|---|
| `MaxTotal` | 2 | each counter can be below, at and above the total the server holds, and the two counters can disagree (one above, one below) |
| `MaxBlock` | 2 | the chain moves on once while a ticket is on its way: a too_old reply, and a too_old after a too_low |
| `MaxUnknown` | 1 | one reply of an unknown outcome, at any point of the exchange |
| `Hashes` | `h`, `h too_ old` | a block hash of plain bytes and one whose bytes spell the marker that comes after too_low in the chain |

A hash that holds `thanks!` is left out of `Hashes`: such a too_low reply is
decoded as an acknowledgement and fails, which `parseDeviceTicketResponse`
models and the hazard at `part_001:180` describes; with it the device would
not learn the server's totals and `RenegotiationEnds` would not hold.

`CHECK_DEADLOCK FALSE`: a connection on which the caller has nothing more to
send and the server nothing more to say is idle, legitimately; the bounds on
the id counters make every behaviour end in such a state. The runs of `KeyHandling`,
`FleetStorage`, `HexUtil` and `TicketManager` check for deadlock.

## 5. Fairness

`FairSpec`, used by the `rpc` run, assumes weak fairness of

* `Receive`: the receive loop handles the envelope at the head of the stream
  whenever there is one; it takes no lock a caller could hold for ever;
* `ServerAnswers`, `ServerGrants`, `ServerTakes`: a server that is up reads
  the requests it was sent and answers the calls among them;
* `Disconnect` once the server has said goodbye: the transport reports the
  end of the stream and the connection is torn down.

Nothing is assumed of the callers (`Call`, `Send`, `Close`), of the server's
own requests, or of `Disconnect` while the server is up. Timeouts for an
answer that never comes are the caller's business and outside the model: a
server that stays up and never answers is excluded by the fairness of
`ServerAnswers`, not by the client.

`FairSpec` of `TicketManager`, used by the `tickets` run, assumes weak
fairness of

* `LearnBlock`, `Submit`, `Interpret`: the ticket loop of the device runs for
  as long as the device does; it submits when it owes a ticket and reads the
  reply that arrived. By the protocol description a retry is the decision of
  the caller, and this caller is one that retries;
* `ServerDecides`: the server answers the ticket it received.

Nothing is assumed of `Use`, of `NewBlock`, or of `ServerConfuses`: the
device may go on counting and the chain may grow at any moment of the
exchange, up to their bounds.

## 6. Not modelled

| Part | Why |
|---|---|
| `EdgeProtocol`, `MerkleTreeParser` (`interface.go`) | declarations without state or steps: what they require is checked by the compiler, not by a run |
| `BertHash`, `RLPHash` | the SHA-256 of an encoding, both computed outside the repository: nothing of the repository's own to check |
| `secp256k1halfN` | used by nothing in the repository |
| the walk of a Merkle proof | `MerkleTree.parse` is outside the repository and the protocol description leaves the encoding of a node open: a model of it could only be checked against itself. `NewMerkleTree` is modelled over its contract |
| the items of a block header one by one | `parseBlockHeaderResponse` drops the errors of `findItemInItems`, and what becomes of a header with a zero value in place of an item is decided by `blockquick.NewHeader` and `Header.Hash`, both outside the repository; the model keeps their two outcomes (`RejectedHeaders`, the hash comparison) |
| the signer of a ticket | a signature is an opaque byte string of the request; signing is elliptic-curve arithmetic |
| server ids and fleet addresses longer than twenty bytes | `copy` into the array cuts them (`CopyAddr`); the server of the model sends ids of the array's length, as the protocol description gives no other |
| the arguments of `NewMessage` | unchecked type assertions: every call of the model passes what the method takes, and a caller that does not is a programming error the compiler cannot see and a model of the callers would have to invent |
| request ids from 0 | nothing in the repository says where the counter starts; ids start at 1. With 0, the envelope of finding 4 reaches `parseError` and the receive path panics |
| cancellation of a single call, timeouts | the protocol description leaves both to the caller |
| `Decode` into a destination that is too short | decided inside `encoding/hex` |
| whitelist keys of an address longer than a storage word | decided inside `util.PaddingBytesPrefix`, which is not in the repository |
| the whitelist lookup through the connection | `DeviceWhitelistKey` and the `getaccountvalue` call meet in code outside the repository; `FleetStorage` checks the key against the contract's storage directly |
| the rlp wire format byte by byte, elliptic-curve arithmetic, SHA-256, Keccak | out of a model checker's reach; abstract in every module |

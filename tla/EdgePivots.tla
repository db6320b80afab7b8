----------------------------- MODULE EdgePivots -----------------------------
(***************************************************************************)
(* The wire vocabulary of the edge protocol (RLP_V2): the byte markers     *)
(* ("pivots") the dispatcher searches for, and the buffers it searches.    *)
(*                                                                         *)
(* A byte string is a sequence of chunks.  A chunk stands for a run of     *)
(* bytes that no pivot splits ("get", "block", "2", ...), so that one      *)
(* pivot is a contiguous subsequence of another exactly when its bytes are *)
(* a substring of the other's: "getblock" of "getblockheader2",            *)
(* "getaccount" of "getaccountvalue", and so on.  Payload bytes that       *)
(* match no pivot are chunks of their own ("x", "y").                      *)
(***************************************************************************)
EXTENDS Naturals, Sequences, SequencesExt

responsePivot     == <<"response">>
errorPivot        == <<"error">>
ticketTooOldPivot == <<"too_", "old">>
ticketTooLowPivot == <<"too_", "low">>
ticketThanksPivot == <<"thanks!">>
portOpenPivot     == <<"port", "open">>
portSendPivot     == <<"port", "send">>
portClosePivot    == <<"port", "close">>
goodbyePivot      == <<"goodbye">>
blockPivot        == <<"get", "block">>
block2Pivot       == <<"get", "block", "2">>
blockHeaderPivot  == <<"get", "block", "header">>
blockHeader2Pivot == <<"get", "block", "header", "2">>
blockquickPivot   == <<"get", "block", "quick">>
blockquick2Pivot  == <<"get", "block", "quick", "2">>
blockPeakPivot    == <<"get", "block", "peak">>
accountRootsPivot == <<"get", "account", "roots">>
accountValuePivot == <<"get", "account", "value">>
accountPivot      == <<"get", "account">>
stateRootsPivot   == <<"get", "state", "roots">>
objectPivot       == <<"get", "object">>
nodePivot         == <<"get", "node">>
ticketPivot       == <<"get", "ticket">>
helloPivot        == <<"hello">>
okPivot           == <<"ok">>

(***************************************************************************)
(* The bytes of the method names NewMessage and NewResponseMessage accept. *)
(* Every name but "ticket" is spelled like its pivot.                      *)
(***************************************************************************)
MethodBytes ==
    [hello           |-> helloPivot,        portopen        |-> portOpenPivot,
     portsend        |-> portSendPivot,     portclose       |-> portClosePivot,
     getblock        |-> blockPivot,        getblockpeak    |-> blockPeakPivot,
     getblockheader2 |-> blockHeader2Pivot, getblockquick2  |-> blockquick2Pivot,
     getaccount      |-> accountPivot,      getaccountroots |-> accountRootsPivot,
     getaccountvalue |-> accountValuePivot, getstateroots   |-> stateRootsPivot,
     getobject       |-> objectPivot,       getnode         |-> nodePivot,
     ticket          |-> <<"ticket">>]

(***************************************************************************)
(* An encoded envelope [RequestID, Payload].  shape names the Go struct    *)
(* the sender encoded; strs and nums are the payload's byte strings and    *)
(* its integers, each in wire order.                                       *)
(***************************************************************************)
Buffer(requestID, shape, strs, nums) ==
    [id |-> requestID, shape |-> shape, strs |-> strs, nums |-> nums]

(***************************************************************************)
(* bytes.Contains(buffer, pivot).  String items of 2 to 55 bytes are       *)
(* separated on the wire by length bytes above 0x80, so a pivot is found   *)
(* inside one item, never across two.  Integers are small in every model   *)
(* and their bytes spell no pivot.                                         *)
(***************************************************************************)
BytesContains(buffer, pivot) ==
    \E i \in DOMAIN buffer.strs : pivot \in SubSeqs(buffer.strs[i])

(***************************************************************************)
(* rlp decoding into a struct: it succeeds on the bytes of that struct.    *)
(* Decoding the bytes of another struct ends in an rlp error or in a       *)
(* record of misread fields; both are the outcome DecodeError.             *)
(***************************************************************************)
Decodes(buffer, shape) == buffer.shape = shape

=============================================================================

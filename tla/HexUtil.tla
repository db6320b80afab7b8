------------------------------- MODULE HexUtil -------------------------------
(***************************************************************************)
(* The hex helpers of package rpc: IsHex, IsHexNumber, EncodeToString,     *)
(* DecodeString, DecodeStringToInt and Decode, with a client that reads a  *)
(* text one character at a time, decodes it and shows bytes again.         *)
(*                                                                         *)
(* A text is a sequence of characters, a byte a number below 256, and an   *)
(* int64 an integer of IntBits bits in two's complement.                   *)
(***************************************************************************)
EXTENDS Integers, Sequences, SequencesExt

CONSTANTS
    Chars,      \* the characters a text is typed from
    MaxLen,     \* characters of the longest text typed
    IntBits     \* bits of an int64

ASSUME MaxLen \in Nat /\ IntBits \in Nat \ {0}

VARIABLES
    text,       \* the text at hand
    shown,      \* the bytes the text was encoded from, when it was
    result      \* the helper last called, its argument and what it returned

vars == <<text, shown, result>>

Failure(err) == [kind |-> "Failure", err |-> err]
Panic        == [kind |-> "Panic"]
Decoded(b)   == [kind |-> "Bytes", bytes |-> b]

-----------------------------------------------------------------------------
(* strings, encoding/hex and math/big *)

Digits == <<"0", "1", "2", "3", "4", "5", "6", "7",
            "8", "9", "a", "b", "c", "d", "e", "f">>

Lower == [A |-> "a", B |-> "b", C |-> "c", D |-> "d", E |-> "e", F |-> "f", X |-> "x"]

ToLowerChar(c) == IF c \in DOMAIN Lower THEN Lower[c] ELSE c
ToLower(src)   == [i \in DOMAIN src |-> ToLowerChar(src[i])]

IsHexChar(c) == \E i \in DOMAIN Digits : Digits[i] = ToLowerChar(c)
fromHexChar(c) == (CHOOSE i \in DOMAIN Digits : Digits[i] = ToLowerChar(c)) - 1

hexEncodeToString(src) ==
    FlattenSeq([i \in DOMAIN src |->
                   <<Digits[(src[i] \div 16) + 1], Digits[(src[i] % 16) + 1]>>])

\* dst is taken to be as long as the decoded bytes
hexDecode(src) ==
    IF Len(src) % 2 = 0 /\ \A i \in DOMAIN src : IsHexChar(src[i])
    THEN Decoded([i \in 1..(Len(src) \div 2) |->
                     16 * fromHexChar(src[2 * i - 1]) + fromHexChar(src[2 * i])])
    ELSE Failure("hex")

SetBytes(bytes) == FoldLeft(LAMBDA acc, b : acc * 256 + b, 0, bytes)

\* the low bits of x, the highest of them the sign
Int64(x) ==
    LET low == x % 2 ^ IntBits
    IN  IF low >= 2 ^ (IntBits - 1) THEN low - 2 ^ IntBits ELSE low

-----------------------------------------------------------------------------
(* the helpers *)

prefix            == <<"0", "x">>
prefixLength      == Len(prefix)
upperPrefix       == <<"0", "X">>
upperPrefixLength == Len(upperPrefix)

IsHex(src) ==
    Len(src) >= prefixLength /\ SubSeq(src, 1, prefixLength) = prefix

IsHexNumber(src) ==
    Len(src) >= upperPrefixLength /\ SubSeq(src, 1, upperPrefixLength) = upperPrefix

\* a slip: the digits without the prefix
EncodeToStringBare(src) == hexEncodeToString(src)

EncodeToString(src) == prefix \o hexEncodeToString(src)

\* of a string: src[0:prefixLength] of a shorter src is out of range
StripPrefix(src) ==
    IF SubSeq(src, 1, prefixLength) = prefix
    THEN SubSeq(src, prefixLength + 1, Len(src)) ELSE src

\* a slip: the case of the text left as it is
DecodeStringAsTyped(src) ==
    IF Len(src) < prefixLength THEN Panic ELSE hexDecode(StripPrefix(src))

DecodeString(src) ==
    IF Len(src) < prefixLength THEN Panic ELSE hexDecode(StripPrefix(ToLower(src)))

\* a slip: the int taken before the bytes are set
DecodeStringToIntUnset(src) ==
    LET outByt == DecodeString(src) IN
    IF outByt.kind = "Panic" THEN Panic
    ELSE [kind |-> "Int", value |-> Int64(0),
          err |-> IF outByt.kind = "Failure" THEN outByt.err ELSE "nil"]

DecodeStringToInt(src) ==
    LET outByt == DecodeString(src) IN
    CASE outByt.kind = "Panic"   -> Panic
      [] outByt.kind = "Failure" -> [kind |-> "Int", value |-> Int64(0), err |-> outByt.err]
      [] OTHER -> [kind |-> "Int", value |-> Int64(SetBytes(outByt.bytes)), err |-> "nil"]

(***************************************************************************)
(* src is a slice: src[0:prefixLength] is in range up to the capacity of   *)
(* src, and reads what its array holds past len(src) (spare).  It panics   *)
(* for an array shorter than the prefix; src[2:] panics for a text         *)
(* shorter than the prefix whose array begins with it.                     *)
(***************************************************************************)
Decode(src, spare) ==
    LET array == src \o spare IN
    CASE Len(array) < prefixLength                  -> Panic
      [] SubSeq(array, 1, prefixLength) # prefix    -> hexDecode(src)
      [] Len(src) < prefixLength                    -> Panic
      [] OTHER -> hexDecode(SubSeq(src, prefixLength + 1, Len(src)))

-----------------------------------------------------------------------------
(* A client that reads, decodes and shows *)

\* what an array holds past the end of a short text
Spares == UNION {[1..n -> Chars] : n \in 0..prefixLength}

NoBytes  == [kind |-> "none"]
NoResult == [op |-> "none"]

Init ==
    /\ text = <<>>
    /\ shown = NoBytes
    /\ result = NoResult

Type(c) ==
    /\ Len(text) < MaxLen
    /\ text' = Append(text, c)
    /\ shown' = NoBytes
    /\ result' = NoResult

Clear ==
    /\ text # <<>>
    /\ text' = <<>>
    /\ shown' = NoBytes
    /\ result' = NoResult

Called(op, out) ==
    /\ result' = [op |-> op, arg |-> text, out |-> out]
    /\ UNCHANGED <<text, shown>>

Classify    == Called("IsHex", [hex |-> IsHex(text), number |-> IsHexNumber(text)])
Parse       == Called("DecodeString", DecodeString(text))
ParseInt    == Called("DecodeStringToInt", DecodeStringToInt(text))

\* the text lies in an array that may be longer: what follows it there is
\* read only when the text is shorter than the prefix
ParseInto ==
    \E spare \in IF Len(text) < prefixLength THEN Spares ELSE {<<>>} :
        Called("Decode", Decode(text, spare))

\* the bytes decoded last are shown as text
Show ==
    /\ result.op \in {"DecodeString", "Decode"} /\ result.out.kind = "Bytes"
    /\ text' = EncodeToString(result.out.bytes)
    /\ shown' = Decoded(result.out.bytes)
    /\ result' = NoResult

Next ==
    \/ \E c \in Chars : Type(c)
    \/ Clear
    \/ Classify \/ Parse \/ ParseInt \/ ParseInto
    \/ Show

Spec == Init /\ [][Next]_vars

-----------------------------------------------------------------------------
(* Properties *)

\* the digits of a text, after the prefix in either case
Body(src) ==
    IF Len(src) >= 2 /\ src[1] = "0" /\ src[2] \in {"x", "X"}
    THEN SubSeq(src, 3, Len(src)) ELSE src

IsNumeral(src) == \A i \in DOMAIN src : IsHexChar(src[i])

\* the number a numeral denotes
Number(src) == FoldLeft(LAMBDA acc, c : acc * 16 + fromHexChar(c), 0, src)

\* Text made by EncodeToString is read back by DecodeString and by Decode
\* as the bytes it was made from, and both say it IsHex.
ShownTextReadsBack ==
    (shown # NoBytes /\ result # NoResult) =>
        CASE result.op = "IsHex"             -> result.out.hex
          [] result.op = "DecodeStringToInt" -> result.out.kind = "Int" /\ result.out.err = "nil"
          [] OTHER                           -> result.out = shown

\* DecodeString accepts the numerals of an even number of digits, with or
\* without the prefix and in either case, and Decode the same except the
\* upper-case prefix; neither returns bytes for anything else.  Both
\* slice src[0:2] before any check of the length: DecodeString panics on
\* exactly the texts shorter than the prefix, and Decode panics on them or
\* treats them as digits, by what the array of src holds past its end, and
\* on no other text.
DecodersAcceptNumerals ==
    result.op \in {"DecodeString", "Decode"} =>
        LET digits == IF result.op = "Decode" /\ IsHexNumber(result.arg)
                      THEN result.arg ELSE Body(result.arg)
            short  == Len(result.arg) < 2
        IN  CASE short /\ result.op = "DecodeString"      -> result.out = Panic
              [] short /\ result.out = Panic              -> TRUE
              [] IsNumeral(digits) /\ Len(digits) % 2 = 0 ->
                     /\ result.out.kind = "Bytes"
                     /\ SetBytes(result.out.bytes) = Number(digits)
                     /\ Len(result.out.bytes) * 2 = Len(digits)
              [] OTHER                                    -> result.out.kind = "Failure"

\* DecodeStringToInt returns the number the text denotes whenever it
\* returns no error and the number fits an int64 (Int64 of the big.Int),
\* the largest int64 included.
IntIsTheNumber ==
    (/\ result.op = "DecodeStringToInt" /\ result.out.kind = "Int"
     /\ result.out.err = "nil"
     /\ Number(Body(result.arg)) < 2 ^ (IntBits - 1))
        => result.out.value = Number(Body(result.arg))

=============================================================================

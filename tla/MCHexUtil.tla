----------------------------- MODULE MCHexUtil -----------------------------
(* HexUtil for TLC: texts of up to six characters (the prefix and two      *)
(* bytes) over both cases of the prefix and of a digit, the digits of the  *)
(* largest int and of the one after it (x itself is the character that is  *)
(* no digit); an int of eight bits, so that one byte overflows it.         *)
EXTENDS HexUtil

MCChars == {"0", "x", "X", "7", "8", "f", "F"}

MCMaxLen == 6

MCIntBits == 8

=============================================================================

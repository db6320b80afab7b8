--------------------------- MODULE MCTicketManager ---------------------------
(***************************************************************************)
(* TicketManager for TLC: the block hashes of the too_low replies.         *)
(***************************************************************************)
EXTENDS TicketManager

\* a plain hash, and one whose bytes spell the marker of another outcome
MCHashes == {<<"h">>, <<"h", "too_", "old">>}

MCRejectedHeaders == {}

=============================================================================

--------------------------- MODULE MCFleetStorage ---------------------------
(* FleetStorage for TLC: words of three bytes, four accounts of which two  *)
(* are the numbers of the two whitelist positions, and addresses written   *)
(* with and without leading zeros.                                         *)
EXTENDS FleetStorage

MCWordLen == 3

MCAccounts == {0, 6, 7, 256}

MCLookups == {<<>>, <<6>>, <<7>>, <<0, 6>>, <<1, 0>>, <<0, 0, 7>>, <<1, 0, 0>>}

=============================================================================

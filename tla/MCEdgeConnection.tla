--------------------------- MODULE MCEdgeConnection ---------------------------
(***************************************************************************)
(* EdgeConnection for TLC: the sets of methods and of tunnel payloads of   *)
(* the configurations.                                                     *)
(***************************************************************************)
EXTENDS EdgeConnection

\* one method of each family whose marker is inside another's, the ticket
\* and the tunnel
MCMethods == {"getblockheader2", "getaccountroots", "ticket", "portopen"}

\* the tunnel alone
MCTunnelMethods == {"portopen"}

\* tunnel data free of envelope tags: plain bytes, and bytes that spell
\* the markers parseInboundRequest looks for after "portsend"
MCPayloads == {<<"x">>, <<"port", "close">>, <<"goodbye">>}

\* every method NewMessage registers a callback for
MCCallMethods == {m \in DOMAIN Requests : Requests[m].parser # NoParser}

\* tunnel data that holds the bytes of the response tag
MCTaggedPayloads == {<<"x", "response", "y">>}

\* a header blockquick.NewHeader refuses (a miner signature that does not verify)
MCRejectedHeaders == {<<"b">>}

=============================================================================

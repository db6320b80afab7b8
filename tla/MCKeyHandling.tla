---------------------------- MODULE MCKeyHandling ----------------------------
EXTENDS KeyHandling

\* bytes 0..4, two-byte scalars, a group of order 23: the scalars 23 and
\* 24 fit the key length and are not below N
MCBase   == 5
MCKeyLen == 2
MCN      == 23

\* key material: empty, short, of the curve size (zero, one, N-1, N, N+1),
\* and long with zeros in front or a value past the size
MCBlobs ==
    {<<>>, <<1>>, <<0, 0>>, <<0, 1>>, <<4, 2>>, <<4, 3>>, <<4, 4>>,
     <<0, 0, 1>>, <<1, 0, 0>>}

\* public keys: two points, one of them compressed, with a foreign first
\* byte, off the curve, cut short, and nothing
MCPubBlobs ==
    {<<4, 0, 1, 4, 2>>, <<4, 4, 2, 0, 1>>, <<2, 0, 1>>, <<2, 0, 1, 4, 2>>,
     <<4, 0, 1, 0, 1>>, <<4, 0, 1>>, <<>>}

=============================================================================
